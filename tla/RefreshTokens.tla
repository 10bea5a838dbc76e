--------------------------- MODULE RefreshTokens ----------------------------
(***************************************************************************)
(* Refresh tokens: login, POST /auth/refresh (refresh_tokens) and POST     *)
(* /auth/logout in services/auth_service.py, over the table                *)
(* "token_blacklist" with its unique token_jti (models/blacklist.py).      *)
(*                                                                         *)
(* A refresh reads the blacklist, commits the old token to it, and only    *)
(* then creates and returns the new pair; a logout reads the blacklist and *)
(* commits.  Any number of requests may present the same token at once:    *)
(* the check and the commit are separate steps, and the unique constraint  *)
(* is what decides between them (IntegrityError, answered 400).            *)
(*                                                                         *)
(* Abstracted: access tokens, signatures (a token that was never issued    *)
(* does not decode), the type claim, and the clock (Expire).               *)
(***************************************************************************)
EXTENDS Naturals, FiniteSets

CONSTANTS
  User,
  Token,      (* the jti values                                             *)
  Req,        (* slots for requests in flight; bounds the concurrency       *)
  MaxIssued   (* bounds the number of tokens issued                         *)

ASSUME TokenAssumption == Token \cap {"unborn", "rotating", "ended"} = {}
ASSUME MaxIssuedAssumption == MaxIssued \in Nat

VARIABLES
  account,    (* User -> "active", "inactive" or "deleted"                  *)
  issued,     (* the tokens issued: their user and, as history, the token   *)
              (* of the login they descend from                             *)
  expired,
  blacklist,
  req         (* requests in flight                                         *)

vars == <<account, issued, expired, blacklist, req>>

Account == {"active", "inactive", "deleted"}

Idle == [op |-> "idle"]

Request == {Idle} \cup [op: {"refresh", "logout", "issue"}, token: Token]

TypeOK ==
  /\ account \in [User -> Account]
  /\ DOMAIN issued \subseteq Token
  /\ issued \in [DOMAIN issued -> [user: User, root: Token]]
  /\ expired \subseteq DOMAIN issued
  /\ blacklist \subseteq DOMAIN issued
  /\ req \in [Req -> Request]

(* Every request may issue one token more.                                 *)
Room ==
  Cardinality(DOMAIN issued) + Cardinality({r \in Req : req[r] # Idle})
    < MaxIssued

-----------------------------------------------------------------------------
Init ==
  /\ account = [u \in User |-> "active"]
  /\ issued = [t \in {} |-> Idle]
  /\ expired = {}
  /\ blacklist = {}
  /\ req = [r \in Req |-> Idle]

Start(r, request) ==
  /\ req[r] = Idle
  /\ req' = [req EXCEPT ![r] = request]
  /\ UNCHANGED <<account, issued, expired, blacklist>>

Finish(r) == req' = [req EXCEPT ![r] = Idle]

Issue(n, u, root) ==
  /\ n \notin DOMAIN issued
  /\ issued' = [t \in DOMAIN issued \cup {n} |->
                  IF t = n THEN [user |-> u, root |-> root] ELSE issued[t]]

(* The logins refuse deleted and inactive accounts.                        *)
Login(u, n) ==
  /\ account[u] = "active"
  /\ Room
  /\ Issue(n, u, n)
  /\ UNCHANGED <<account, expired, blacklist, req>>

(* refresh_tokens up to its commit: is_active is not looked at.            *)
Refresh(r, t) ==
  /\ t \in DOMAIN issued \ (expired \cup blacklist)
  /\ account[issued[t].user] # "deleted"
  /\ Room
  /\ Start(r, [op |-> "refresh", token |-> t])

(* Mutant: token_jti is not unique.                                        *)
MutantNotUnique(r) ==
  /\ req[r].op = "refresh"
  /\ blacklist' = blacklist \cup {req[r].token}
  /\ req' = [req EXCEPT ![r] = [op |-> "issue", token |-> req[r].token]]
  /\ UNCHANGED <<account, issued, expired>>

(* Mutant: the new pair is created without waiting for the commit.         *)
MutantNoCommit(r) ==
  /\ req[r].op = "refresh"
  /\ req[r].token \notin blacklist
  /\ req' = [req EXCEPT ![r] = [op |-> "issue", token |-> req[r].token]]
  /\ UNCHANGED <<account, issued, expired, blacklist>>

BlacklistOld(r) ==
  /\ req[r].op = "refresh"
  /\ req[r].token \notin blacklist
  /\ blacklist' = blacklist \cup {req[r].token}
  /\ req' = [req EXCEPT ![r] = [op |-> "issue", token |-> req[r].token]]
  /\ UNCHANGED <<account, issued, expired>>

(* Mutant: the new pair waits for an account that is not deleted.          *)
MutantIssueNew(r, n) ==
  /\ req[r].op = "issue"
  /\ account[issued[req[r].token].user] # "deleted"
  /\ Issue(n, issued[req[r].token].user, issued[req[r].token].root)
  /\ Finish(r)
  /\ UNCHANGED <<account, expired, blacklist>>

(* After the commit the new pair is created from the user read before it.  *)
IssueNew(r, n) ==
  /\ req[r].op = "issue"
  /\ Issue(n, issued[req[r].token].user, issued[req[r].token].root)
  /\ Finish(r)
  /\ UNCHANGED <<account, expired, blacklist>>

(* Mutant: the signature of the token is not verified.                     *)
MutantLogout(r, t) ==
  /\ \E u \in User : account[u] # "deleted"
  /\ t \notin blacklist
  /\ Start(r, [op |-> "logout", token |-> t])

(* logout accepts an expired token, and a token of another user than the   *)
(* one who is logged in.                                                   *)
Logout(r, t) ==
  /\ \E u \in User : account[u] # "deleted"
  /\ t \in DOMAIN issued \ blacklist
  /\ Start(r, [op |-> "logout", token |-> t])

(* Mutant: the jti of another token reaches the blacklist.                 *)
MutantBlacklistLogout(r) ==
  /\ req[r].op = "logout"
  /\ \E t \in DOMAIN issued \ blacklist : blacklist' = blacklist \cup {t}
  /\ Finish(r)
  /\ UNCHANGED <<account, issued, expired>>

BlacklistLogout(r) ==
  /\ req[r].op = "logout"
  /\ req[r].token \notin blacklist
  /\ blacklist' = blacklist \cup {req[r].token}
  /\ Finish(r)
  /\ UNCHANGED <<account, issued, expired>>

(* token_jti is unique: the INSERT of a token that another request         *)
(* blacklisted first fails.                                                *)
UniqueViolation(r) ==
  /\ req[r].op \in {"refresh", "logout"}
  /\ req[r].token \in blacklist
  /\ Finish(r)
  /\ UNCHANGED <<account, issued, expired, blacklist>>

(* The process dies or the client is gone: a transaction not committed is  *)
(* rolled back, and a pair not yet returned is lost.                       *)
Crash(r) ==
  /\ req[r] # Idle
  /\ Finish(r)
  /\ UNCHANGED <<account, issued, expired, blacklist>>

Expire(t) ==
  /\ t \in DOMAIN issued \ expired
  /\ expired' = expired \cup {t}
  /\ UNCHANGED <<account, issued, blacklist, req>>

(* Deactivation, deletion and restore (Accounts).                          *)
ChangeAccount(u, a) ==
  /\ account[u] # a
  /\ account' = [account EXCEPT ![u] = a]
  /\ UNCHANGED <<issued, expired, blacklist, req>>

(* What the server does by itself once a request was accepted.             *)
Proceed(r) ==
  \/ BlacklistOld(r)
  \/ \E n \in Token : IssueNew(r, n)
  \/ BlacklistLogout(r)
  \/ UniqueViolation(r)

Next ==
  \/ \E u \in User, n \in Token : Login(u, n)
  \/ \E r \in Req :
       \/ \E t \in Token : Refresh(r, t) \/ Logout(r, t)
       \/ Proceed(r)
       \/ Crash(r)
  \/ \E t \in Token : Expire(t)
  \/ \E u \in User, a \in Account : ChangeAccount(u, a)

Spec == Init /\ [][Next]_vars

(* The event loop runs every request it accepted to its end.               *)
FairSpec == Spec /\ \A r \in Req : WF_vars(Proceed(r))

-----------------------------------------------------------------------------
(* Properties.                                                             *)

(* The tokens of a session that a refresh would accept but for expiry, and *)
(* the requests about to issue a token of the session.                     *)
Usable(s)   == {t \in DOMAIN issued \ blacklist : issued[t].root = s}
Rotating(s) == {r \in Req : /\ req[r].op = "issue"
                            /\ issued[req[r].token].root = s}

(* A session has at most one way on: one usable token, or one request      *)
(* about to issue it, never both, however often a token is presented.      *)
OneSuccessor ==
  \A s \in Token :
    /\ \A t, v \in Usable(s) : t = v
    /\ \A q, r \in Rotating(s) : q = r
    /\ Usable(s) = {} \/ Rotating(s) = {}

(* The session as its clients see it.  It is named by its first token.     *)
Begun == {s \in DOMAIN issued : issued[s].root = s}

Holder(s) ==
  IF s \notin Begun THEN "unborn"
  ELSE IF Usable(s) # {} THEN CHOOSE t \in Usable(s) : TRUE
  ELSE IF Rotating(s) # {} THEN "rotating"
  ELSE "ended"

Chain == INSTANCE SessionChain WITH
           holder <- [s \in Token |-> Holder(s)],
           given <- DOMAIN issued

(* Rotation with concurrent, repeated and crashing requests implements the *)
(* chain of tokens.                                                        *)
ChainSpec == Chain!Spec

(* A logout that answers success leaves the session no way on: no token    *)
(* and no refresh that is still to issue one.                              *)
LogoutEnds ==
  [][\A r \in Req, s \in Token :
       (/\ req[r].op = "logout" /\ issued[req[r].token].root = s
        /\ req'[r] = Idle /\ blacklist' # blacklist)
         => Usable(s)' = {} /\ Rotating(s)' = {}]_vars

(* A rotation does not hang between the two tokens: the new one is issued, *)
(* whatever becomes of the account, or a crash ends the session.           *)
RotationEnds ==
  \A s \in Token : Holder(s) = "rotating" ~> Holder(s) # "rotating"
=============================================================================
