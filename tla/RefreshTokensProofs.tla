------------------------- MODULE RefreshTokensProofs ------------------------
(***************************************************************************)
(* Proofs about RefreshTokens, for any number of tokens, accounts and      *)
(* concurrent requests: a session has one successor at most, and rotation  *)
(* implements the chain of tokens of SessionChain.                         *)
(***************************************************************************)
EXTENDS RefreshTokens, TLAPS

(* Sessions are named by tokens issued by a login, and only tokens already *)
(* issued are in flight.                                                   *)
RootsIssued ==
  \A t \in DOMAIN issued :
    issued[t].root \in DOMAIN issued /\ issued[issued[t].root].root = issued[t].root

InFlightIssued(rq) ==
  /\ rq.op # "idle" => rq.token \in DOMAIN issued
  /\ rq.op = "issue" => rq.token \in blacklist

(* The inductive invariant.                                                *)
IInv ==
  /\ TypeOK
  /\ RootsIssued
  /\ \A r \in Req : InFlightIssued(req[r])
  /\ OneSuccessor

-----------------------------------------------------------------------------
LEMMA InitInv == Init => IInv
BY DEF Init, IInv, TypeOK, RootsIssued, InFlightIssued, OneSuccessor, Usable,
   Rotating, Account, Idle, Request

(* What each step does to the ways on of each session.                     *)
Same(s) ==
  Usable(s)' = Usable(s) /\ Rotating(s)' = Rotating(s) /\ (s \in Begun)' = (s \in Begun)

LEMMA LoginStep ==
  ASSUME IInv, NEW u \in User, NEW n \in Token, Login(u, n)
  PROVE  /\ TypeOK' /\ RootsIssued' /\ \A r \in Req : InFlightIssued(req[r])'
         /\ n \notin DOMAIN issued /\ DOMAIN issued' = DOMAIN issued \cup {n}
         /\ Begun' = Begun \cup {n}
         /\ Usable(n)' = {n} /\ Rotating(n)' = {} /\ n \notin Begun
         /\ \A s \in Token \ {n} : Same(s)
<1> USE DEF IInv
<1>1. /\ n \notin DOMAIN issued
      /\ DOMAIN issued' = DOMAIN issued \cup {n}
      /\ issued'[n] = [user |-> u, root |-> n]
      /\ \A t \in DOMAIN issued : issued'[t] = issued[t]
      /\ issued' = [t \in DOMAIN issued \cup {n} |->
                      IF t = n THEN [user |-> u, root |-> n] ELSE issued[t]]
      /\ UNCHANGED <<account, expired, blacklist, req>>
  BY DEF Login, Issue
<1>2. TypeOK'
  BY <1>1 DEF TypeOK
<1>3. RootsIssued'
  BY <1>1 DEF RootsIssued
<1>4. \A r \in Req : InFlightIssued(req[r])'
  BY <1>1 DEF InFlightIssued
<1>5. Begun' = Begun \cup {n} /\ n \notin Begun
  BY <1>1 DEF Begun
<1>6. Usable(n)' = {n} /\ Rotating(n)' = {}
  BY <1>1 DEF Usable, Rotating, RootsIssued, InFlightIssued, TypeOK
<1>7. \A s \in Token \ {n} : Usable(s)' = Usable(s) /\ Rotating(s)' = Rotating(s)
  BY <1>1 DEF Usable, Rotating, InFlightIssued, TypeOK
<1> QED
  BY <1>1, <1>2, <1>3, <1>4, <1>5, <1>6, <1>7 DEF Same

LEMMA StartStep ==
  ASSUME IInv, NEW r \in Req, NEW t \in DOMAIN issued, NEW op \in {"refresh", "logout"},
         Start(r, [op |-> op, token |-> t])
  PROVE  /\ TypeOK' /\ RootsIssued' /\ \A q \in Req : InFlightIssued(req[q])'
         /\ DOMAIN issued' = DOMAIN issued
         /\ \A s \in Token : Same(s)
<1> USE DEF IInv
<1>1. /\ req[r] = Idle
      /\ req' = [req EXCEPT ![r] = [op |-> op, token |-> t]]
      /\ UNCHANGED <<account, issued, expired, blacklist>>
  BY DEF Start
<1>2. TypeOK'
  BY <1>1 DEF TypeOK, Request
<1>3. RootsIssued' /\ \A q \in Req : InFlightIssued(req[q])'
  BY <1>1 DEF TypeOK, RootsIssued, InFlightIssued
<1>4. \A s \in Token : Same(s)
  BY <1>1 DEF Same, Begun, Usable, Rotating, TypeOK, Idle
<1> QED
  BY <1>1, <1>2, <1>3, <1>4

LEMMA BlacklistOldStep ==
  ASSUME IInv, NEW r \in Req, BlacklistOld(r),
         NEW w, w = issued[req[r].token].root
  PROVE  /\ TypeOK' /\ RootsIssued' /\ \A q \in Req : InFlightIssued(req[q])'
         /\ DOMAIN issued' = DOMAIN issued
         /\ w \in Token /\ w \in Begun /\ w \in Begun'
         /\ req[r].token \in Usable(w)
         /\ Usable(w)' = {} /\ Rotating(w)' = {r}
         /\ \A s \in Token \ {w} : Same(s)
<1> USE DEF IInv
<1> DEFINE t == req[r].token
<1>1. /\ req[r].op = "refresh"
      /\ t \notin blacklist
      /\ blacklist' = blacklist \cup {t}
      /\ req' = [req EXCEPT ![r] = [op |-> "issue", token |-> t]]
      /\ UNCHANGED <<account, issued, expired>>
  BY DEF BlacklistOld
<1>2. t \in DOMAIN issued /\ t \in Token /\ w \in Token /\ w \in Begun
  BY <1>1 DEF InFlightIssued, TypeOK, RootsIssued, Begun
<1>3. TypeOK'
  BY <1>1, <1>2 DEF TypeOK, Request
<1>4. RootsIssued' /\ \A q \in Req : InFlightIssued(req[q])'
  BY <1>1, <1>2 DEF TypeOK, RootsIssued, InFlightIssued
<1>5. t \in Usable(w) /\ Rotating(w) = {}
  BY <1>1, <1>2 DEF Usable, OneSuccessor
<1>6. Usable(w)' = {}
  BY <1>1, <1>2, <1>5 DEF Usable, OneSuccessor
<1>7. Rotating(w)' = {r}
  BY <1>1, <1>2, <1>5 DEF Rotating, TypeOK
<1>8. \A s \in Token \ {w} : Same(s)
  BY <1>1, <1>2 DEF Same, Begun, Usable, Rotating, TypeOK
<1> QED
  BY <1>1, <1>2, <1>3, <1>4, <1>5, <1>6, <1>7, <1>8 DEF Begun

LEMMA IssueNewStep ==
  ASSUME IInv, NEW r \in Req, NEW n \in Token, IssueNew(r, n)
  PROVE  /\ TypeOK' /\ RootsIssued' /\ \A q \in Req : InFlightIssued(req[q])'
         /\ n \notin DOMAIN issued /\ DOMAIN issued' = DOMAIN issued \cup {n}
         /\ \E w \in Token :
              /\ w \in Begun /\ w \in Begun'
              /\ r \in Rotating(w)
              /\ Usable(w)' = {n} /\ Rotating(w)' = {}
              /\ \A s \in Token \ {w} : Same(s)
<1>0. PICK w : w = issued[req[r].token].root
  OBVIOUS
<1> USE DEF IInv
<1> DEFINE t == req[r].token
           row == [user |-> issued[t].user, root |-> w]
<1>1. /\ req[r].op = "issue"
      /\ n \notin DOMAIN issued
      /\ issued' = [i \in DOMAIN issued \cup {n} |->
                      IF i = n THEN row ELSE issued[i]]
      /\ req' = [req EXCEPT ![r] = Idle]
      /\ UNCHANGED <<account, expired, blacklist>>
  BY <1>0 DEF IssueNew, Issue, Finish
<1>2. /\ t \in DOMAIN issued /\ t \in blacklist /\ w \in Token /\ w \in Begun
      /\ row \in [user: User, root: Token]
  BY <1>0, <1>1 DEF InFlightIssued, TypeOK, RootsIssued, Begun
<1> HIDE DEF t, row
<1>3. /\ DOMAIN issued' = DOMAIN issued \cup {n}
      /\ issued'[n] = row
      /\ \A i \in DOMAIN issued : issued'[i] = issued[i]
  BY <1>1
<1>4. TypeOK'
  BY <1>1, <1>2 DEF TypeOK, Request
<1>5. row.root = w /\ w # n
  BY <1>1, <1>2 DEF row, Begun
<1>6. RootsIssued'
  BY <1>2, <1>3, <1>5 DEF RootsIssued, Begun
<1>7. \A q \in Req : InFlightIssued(req[q])'
  BY <1>1, <1>3 DEF TypeOK, InFlightIssued, Idle
<1>8. r \in Rotating(w) /\ Usable(w) = {}
  BY <1>0, <1>1 DEF Rotating, OneSuccessor, TypeOK, Begun, RootsIssued, t, InFlightIssued
<1>9. Usable(w)' = {n}
  BY <1>1, <1>3, <1>5, <1>8 DEF Usable, TypeOK
<1>10. Rotating(w)' = {}
  <2>1. \A q \in Rotating(w) : q = r
    BY <1>2, <1>8 DEF OneSuccessor
  <2>2. ASSUME NEW q \in Rotating(w)'
        PROVE  FALSE
    <3>1. q # r /\ req'[q] = req[q] /\ req[q].op = "issue" /\ q \in Req
      BY <1>1, <2>2 DEF Rotating, TypeOK, Idle
    <3>2. req[q].token \in DOMAIN issued
      BY <3>1 DEF InFlightIssued
    <3>3. q \in Rotating(w)
      BY <1>3, <2>2, <3>1, <3>2 DEF Rotating
    <3> QED
      BY <2>1, <3>1, <3>3
  <2> QED
    BY <2>2
<1>11. \A s \in Token \ {w} : Same(s)
  <2>1. ASSUME NEW s \in Token \ {w}
        PROVE  Usable(s)' = Usable(s) /\ (s \in Begun)' = (s \in Begun)
    BY <1>1, <1>3, <1>5 DEF Usable, Begun
  <2>2. ASSUME NEW s \in Token \ {w}
        PROVE  Rotating(s)' = Rotating(s)
    <3>1. r \notin Rotating(s)
      BY <1>8 DEF Rotating
    <3>2. r \notin Rotating(s)'
      BY <1>1 DEF Rotating, Idle, TypeOK
    <3>3. ASSUME NEW q \in Req, q # r
          PROVE  q \in Rotating(s)' <=> q \in Rotating(s)
      BY <1>1, <1>3, <3>3 DEF Rotating, TypeOK, InFlightIssued
    <3> QED
      BY <3>1, <3>2, <3>3 DEF Rotating
  <2> QED
    BY <2>1, <2>2 DEF Same
<1>12. w \in Begun'
  BY <1>2, <1>3 DEF Begun
<1> QED
  BY <1>1, <1>2, <1>3, <1>4, <1>6, <1>7, <1>8, <1>9, <1>10, <1>11, <1>12

LEMMA BlacklistLogoutStep ==
  ASSUME IInv, NEW r \in Req, BlacklistLogout(r),
         NEW w, w = issued[req[r].token].root
  PROVE  /\ TypeOK' /\ RootsIssued' /\ \A q \in Req : InFlightIssued(req[q])'
         /\ DOMAIN issued' = DOMAIN issued
         /\ w \in Token /\ w \in Begun /\ w \in Begun'
         /\ req[r].token \in Usable(w)
         /\ Usable(w)' = {} /\ Rotating(w)' = {}
         /\ \A s \in Token \ {w} : Same(s)
<1> USE DEF IInv
<1> DEFINE t == req[r].token
<1>1. /\ req[r].op = "logout"
      /\ t \notin blacklist
      /\ blacklist' = blacklist \cup {t}
      /\ req' = [req EXCEPT ![r] = Idle]
      /\ UNCHANGED <<account, issued, expired>>
  BY DEF BlacklistLogout, Finish
<1>2. t \in DOMAIN issued /\ t \in Token /\ w \in Token /\ w \in Begun
  BY <1>1 DEF InFlightIssued, TypeOK, RootsIssued, Begun
<1>3. TypeOK'
  BY <1>1, <1>2 DEF TypeOK, Request
<1>4. RootsIssued' /\ \A q \in Req : InFlightIssued(req[q])'
  BY <1>1, <1>2 DEF TypeOK, RootsIssued, InFlightIssued, Idle
<1>5. t \in Usable(w) /\ Rotating(w) = {}
  BY <1>1, <1>2 DEF Usable, OneSuccessor
<1>6. Usable(w)' = {}
  BY <1>1, <1>2, <1>5 DEF Usable, OneSuccessor
<1>7. \A s \in Token : Rotating(s)' = Rotating(s)
  BY <1>1 DEF Rotating, TypeOK, Idle
<1>8. \A s \in Token \ {w} : Same(s)
  BY <1>1, <1>2, <1>7 DEF Same, Begun, Usable
<1> QED
  BY <1>1, <1>2, <1>3, <1>4, <1>5, <1>6, <1>7, <1>8 DEF Begun

LEMMA CrashStep ==
  ASSUME IInv, NEW r \in Req, Crash(r) \/ UniqueViolation(r)
  PROVE  /\ TypeOK' /\ RootsIssued' /\ \A q \in Req : InFlightIssued(req[q])'
         /\ DOMAIN issued' = DOMAIN issued /\ Begun' = Begun
         /\ \A s \in Token : Usable(s)' = Usable(s)
         /\ \A s \in Token : Rotating(s)' = Rotating(s) \ {r}
<1> USE DEF IInv
<1>1. /\ req' = [req EXCEPT ![r] = Idle]
      /\ UNCHANGED <<account, issued, expired, blacklist>>
  BY DEF Crash, UniqueViolation, Finish
<1>2. TypeOK'
  BY <1>1 DEF TypeOK, Request
<1>3. RootsIssued' /\ \A q \in Req : InFlightIssued(req[q])'
  BY <1>1 DEF TypeOK, RootsIssued, InFlightIssued, Idle
<1>4. \A s \in Token : Rotating(s)' = Rotating(s) \ {r}
  BY <1>1 DEF Rotating, TypeOK, Idle
<1> QED
  BY <1>1, <1>2, <1>3, <1>4 DEF Begun, Usable

LEMMA QuietStep ==
  ASSUME IInv,
         \/ \E t \in Token : Expire(t)
         \/ \E u \in User, a \in Account : ChangeAccount(u, a)
         \/ UNCHANGED vars
  PROVE  /\ TypeOK' /\ RootsIssued' /\ \A q \in Req : InFlightIssued(req[q])'
         /\ DOMAIN issued' = DOMAIN issued
         /\ \A s \in Token : Same(s)
<1> USE DEF IInv, vars, Expire, ChangeAccount
<1>1. UNCHANGED <<issued, blacklist, req>>
  OBVIOUS
<1>2. TypeOK'
  BY DEF TypeOK
<1> QED
  BY <1>1, <1>2 DEF RootsIssued, InFlightIssued, Same, Begun, Usable, Rotating

-----------------------------------------------------------------------------
(* The cases of a step, by what they do to the sessions.                   *)
LEMMA StepCases ==
  ASSUME [Next]_vars
  PROVE  \/ \E u \in User, n \in Token : Login(u, n)
         \/ \E r \in Req, t \in DOMAIN issued, op \in {"refresh", "logout"} :
              Start(r, [op |-> op, token |-> t])
         \/ \E r \in Req : BlacklistOld(r)
         \/ \E r \in Req, n \in Token : IssueNew(r, n)
         \/ \E r \in Req : BlacklistLogout(r)
         \/ \E r \in Req : Crash(r) \/ UniqueViolation(r)
         \/ \/ \E t \in Token : Expire(t)
            \/ \E u \in User, a \in Account : ChangeAccount(u, a)
            \/ UNCHANGED vars
<1>1. ASSUME NEW r \in Req, NEW t \in Token, Refresh(r, t) \/ Logout(r, t)
      PROVE  t \in DOMAIN issued
               /\ \E op \in {"refresh", "logout"} : Start(r, [op |-> op, token |-> t])
  BY <1>1 DEF Refresh, Logout
<1> QED
  BY <1>1 DEF Next, Proceed

LEMMA NextKeepsInv == IInv /\ [Next]_vars => IInv'
<1> SUFFICES ASSUME IInv, [Next]_vars PROVE IInv'
  OBVIOUS
<1>0. OneSuccessor
  BY DEF IInv
<1>1. ASSUME NEW u \in User, NEW n \in Token, Login(u, n)
      PROVE  IInv'
  <2>1. /\ Usable(n)' = {n} /\ Rotating(n)' = {}
        /\ \A s \in Token \ {n} : Same(s)
    BY <1>1, LoginStep
  <2>2. OneSuccessor'
    BY <1>0, <2>1 DEF OneSuccessor, Same
  <2> QED
    BY <1>1, <2>2, LoginStep DEF IInv
<1>2. ASSUME NEW r \in Req, NEW t \in DOMAIN issued, NEW op \in {"refresh", "logout"},
             Start(r, [op |-> op, token |-> t])
      PROVE  IInv'
  <2>1. OneSuccessor'
    BY <1>0, <1>2, StartStep DEF OneSuccessor, Same
  <2> QED
    BY <1>2, <2>1, StartStep DEF IInv
<1>3. ASSUME NEW r \in Req, BlacklistOld(r)
      PROVE  IInv'
  <2>0. PICK w : w = issued[req[r].token].root
    OBVIOUS
  <2>1. /\ Usable(w)' = {} /\ Rotating(w)' = {r}
        /\ \A s \in Token \ {w} : Same(s)
    BY <1>3, <2>0, BlacklistOldStep
  <2>2. OneSuccessor'
    BY <1>0, <2>1 DEF OneSuccessor, Same
  <2> QED
    BY <1>3, <2>0, <2>2, BlacklistOldStep DEF IInv
<1>4. ASSUME NEW r \in Req, NEW n \in Token, IssueNew(r, n)
      PROVE  IInv'
  <2>1. PICK w \in Token : /\ Usable(w)' = {n} /\ Rotating(w)' = {}
                           /\ \A s \in Token \ {w} : Same(s)
    BY <1>4, IssueNewStep
  <2>2. OneSuccessor'
    BY <1>0, <2>1 DEF OneSuccessor, Same
  <2> QED
    BY <1>4, <2>2, IssueNewStep DEF IInv
<1>5. ASSUME NEW r \in Req, BlacklistLogout(r)
      PROVE  IInv'
  <2>0. PICK w : w = issued[req[r].token].root
    OBVIOUS
  <2>1. /\ Usable(w)' = {} /\ Rotating(w)' = {}
        /\ \A s \in Token \ {w} : Same(s)
    BY <1>5, <2>0, BlacklistLogoutStep
  <2>2. OneSuccessor'
    BY <1>0, <2>1 DEF OneSuccessor, Same
  <2> QED
    BY <1>5, <2>0, <2>2, BlacklistLogoutStep DEF IInv
<1>6. ASSUME NEW r \in Req, Crash(r) \/ UniqueViolation(r)
      PROVE  IInv'
  <2>1. OneSuccessor'
    BY <1>0, <1>6, CrashStep DEF OneSuccessor
  <2> QED
    BY <1>6, <2>1, CrashStep DEF IInv
<1>7. CASE \/ \E t \in Token : Expire(t)
           \/ \E u \in User, a \in Account : ChangeAccount(u, a)
           \/ UNCHANGED vars
  <2>1. OneSuccessor'
    BY <1>0, <1>7, QuietStep DEF OneSuccessor, Same
  <2> QED
    BY <1>7, <2>1, QuietStep DEF IInv
<1> QED
  BY <1>1, <1>2, <1>3, <1>4, <1>5, <1>6, <1>7, StepCases

LEMMA InvHolds == Spec => []IInv
BY InitInv, NextKeepsInv, PTL DEF Spec

(* Every variable has its type; the blacklist names issued tokens only.    *)
THEOREM TokensTypeCorrect == Spec => []TypeOK
BY InvHolds, PTL DEF IInv

(* However often a token is presented, and to however many requests at     *)
(* once, its session has one way on at most (refresh_tokens, logout).      *)
THEOREM SessionsHaveOneSuccessor == Spec => []OneSuccessor
BY InvHolds, PTL DEF IInv

(* A logout that answers success leaves its session neither a token nor a  *)
(* refresh that is still to issue one, whatever requests it crossed: a     *)
(* refresh that read the blacklist before it meets the unique jti (logout, *)
(* refresh_tokens).                                                        *)
THEOREM LogoutsEndSessions == Spec => LogoutEnds
<1>1. ASSUME IInv, [Next]_vars, NEW r \in Req, NEW s \in Token,
             req[r].op = "logout", issued[req[r].token].root = s,
             req'[r] = Idle, blacklist' # blacklist
      PROVE  Usable(s)' = {} /\ Rotating(s)' = {}
  <2>1. req \in [Req -> Request] /\ req[r] # Idle
    BY <1>1 DEF IInv, TypeOK, Idle
  <2>2. \/ \E q \in Req : BlacklistOld(q)
        \/ \E q \in Req : BlacklistLogout(q)
    BY <1>1, StepCases DEF Login, Issue, Start, IssueNew, Crash, UniqueViolation,
       Expire, ChangeAccount, vars
  <2>3. ASSUME NEW q \in Req, BlacklistOld(q)
        PROVE  FALSE
    BY <1>1, <2>1, <2>3 DEF BlacklistOld, Idle
  <2>4. ASSUME NEW q \in Req, BlacklistLogout(q)
        PROVE  q = r
    BY <1>1, <2>1, <2>4 DEF BlacklistLogout, Finish
  <2> QED
    BY <1>1, <2>2, <2>3, <2>4, BlacklistLogoutStep
<1>2. ASSUME IInv, [Next]_vars
      PROVE  [\A r \in Req, s \in Token :
                (/\ req[r].op = "logout" /\ issued[req[r].token].root = s
                 /\ req'[r] = Idle /\ blacklist' # blacklist)
                  => Usable(s)' = {} /\ Rotating(s)' = {}]_vars
  BY <1>1, <1>2
<1> QED
  BY <1>2, InvHolds, PTL DEF Spec, LogoutEnds

-----------------------------------------------------------------------------
(* The refinement.                                                         *)

(* The holder of a session, from its ways on.                              *)
HolderOK ==
  \A s \in Token :
    /\ s \notin Begun => Holder(s) = "unborn"
    /\ \A t \in Usable(s) : s \in Begun /\ t \in Token /\ Holder(s) = t
    /\ s \in Begun /\ Rotating(s) # {} => Holder(s) = "rotating"
    /\ s \in Begun /\ Usable(s) = {} /\ Rotating(s) = {} => Holder(s) = "ended"

LEMMA HolderIs == IInv => HolderOK
<1> SUFFICES ASSUME IInv, NEW s \in Token
             PROVE  /\ s \notin Begun => Holder(s) = "unborn"
                    /\ \A t \in Usable(s) :
                         s \in Begun /\ t \in Token /\ Holder(s) = t
                    /\ s \in Begun /\ Rotating(s) # {} => Holder(s) = "rotating"
                    /\ s \in Begun /\ Usable(s) = {} /\ Rotating(s) = {}
                         => Holder(s) = "ended"
  BY DEF HolderOK
<1>1. ASSUME NEW t \in Usable(s)
      PROVE  s \in Begun /\ t \in Token /\ Holder(s) = t
  <2>1. s \in Begun /\ t \in Token
    BY DEF IInv, TypeOK, RootsIssued, Usable, Begun
  <2>2. (CHOOSE v \in Usable(s) : TRUE) \in Usable(s)
    OBVIOUS
  <2>3. (CHOOSE v \in Usable(s) : TRUE) = t
    BY <2>2 DEF IInv, OneSuccessor
  <2> QED
    BY <2>1, <2>3 DEF Holder
<1>2. Rotating(s) # {} => Usable(s) = {}
  BY DEF IInv, OneSuccessor
<1> QED
  BY <1>1, <1>2 DEF Holder

LEMMA HolderIsNext == IInv' => HolderOK'
BY HolderIs, PTL

LEMMA SameHolder ==
  ASSUME NEW s \in Token, Same(s)
  PROVE  Holder(s)' = Holder(s)
BY DEF Same, Holder

LEMMA InitRefines == Init => Chain!Init
BY DEF Init, Chain!Init, Holder, Begun

LEMMA StepRefines == IInv /\ [Next]_vars => [Chain!Next]_(Chain!vars)
<1> SUFFICES ASSUME IInv, [Next]_vars
             PROVE  Chain!Next \/ UNCHANGED Chain!vars
  BY DEF Chain!vars
<1>0. IInv'
  BY NextKeepsInv
<1>h. HolderOK
  BY HolderIs
<1>p. HolderOK'
  BY <1>0, HolderIsNext
<1>1. ASSUME NEW u \in User, NEW n \in Token, Login(u, n)
      PROVE  Chain!Begin(n)
  <2>1. /\ n \notin DOMAIN issued /\ DOMAIN issued' = DOMAIN issued \cup {n}
        /\ Holder(n) = "unborn" /\ Holder(n)' = n
        /\ \A s \in Token \ {n} : Holder(s)' = Holder(s)
    BY <1>1, <1>h, <1>p, LoginStep, SameHolder DEF HolderOK
  <2> QED
    BY <2>1 DEF Chain!Begin
<1>2. ASSUME NEW r \in Req, NEW t \in DOMAIN issued, NEW op \in {"refresh", "logout"},
             Start(r, [op |-> op, token |-> t])
      PROVE  UNCHANGED Chain!vars
  <2>1. DOMAIN issued' = DOMAIN issued /\ \A s \in Token : Holder(s)' = Holder(s)
    BY <1>2, StartStep, SameHolder
  <2> QED
    BY <2>1 DEF Chain!vars
<1>3. ASSUME NEW r \in Req, BlacklistOld(r)
      PROVE  \E s \in Token : Chain!GiveUp(s)
  <2>0. PICK w : w = issued[req[r].token].root
    OBVIOUS
  <2>1. /\ DOMAIN issued' = DOMAIN issued
        /\ w \in Token /\ w \in Begun'
        /\ req[r].token \in Usable(w)
        /\ Usable(w)' = {} /\ Rotating(w)' = {r}
        /\ \A s \in Token \ {w} : Same(s)
    BY <1>3, <2>0, BlacklistOldStep
  <2>2. /\ Holder(w) \in Token /\ Holder(w)' = "rotating"
        /\ \A s \in Token \ {w} : Holder(s)' = Holder(s)
    BY <2>1, <1>h, <1>p, SameHolder DEF HolderOK
  <2>3. Chain!GiveUp(w)
    BY <2>1, <2>2 DEF Chain!GiveUp
  <2> QED
    BY <2>1, <2>3
<1>4. ASSUME NEW r \in Req, NEW n \in Token, IssueNew(r, n)
      PROVE  \E s \in Token : Chain!Rotate(s, n)
  <2>0. n \notin DOMAIN issued /\ DOMAIN issued' = DOMAIN issued \cup {n}
    BY <1>4, IssueNewStep
  <2>1. PICK w \in Token :
          /\ w \in Begun /\ w \in Begun' /\ r \in Rotating(w)
          /\ Usable(w)' = {n}
          /\ \A s \in Token \ {w} : Same(s)
    BY <1>4, IssueNewStep
  <2>2. /\ Holder(w) = "rotating" /\ Holder(w)' = n
        /\ \A s \in Token \ {w} : Holder(s)' = Holder(s)
    BY <2>0, <2>1, <1>h, <1>p, SameHolder DEF HolderOK
  <2>3. Chain!Rotate(w, n)
    BY <2>0, <2>1, <2>2 DEF Chain!Rotate
  <2> QED
    BY <2>1, <2>3
<1>5. ASSUME NEW r \in Req, BlacklistLogout(r)
      PROVE  \E s \in Token : Chain!End(s)
  <2>0. PICK w : w = issued[req[r].token].root
    OBVIOUS
  <2>1. /\ DOMAIN issued' = DOMAIN issued
        /\ w \in Token /\ w \in Begun'
        /\ req[r].token \in Usable(w)
        /\ Usable(w)' = {} /\ Rotating(w)' = {}
        /\ \A s \in Token \ {w} : Same(s)
    BY <1>5, <2>0, BlacklistLogoutStep
  <2>2. /\ Holder(w) \in Token /\ Holder(w)' = "ended"
        /\ \A s \in Token \ {w} : Holder(s)' = Holder(s)
    BY <2>1, <1>h, <1>p, SameHolder DEF HolderOK
  <2>3. Chain!End(w)
    BY <2>1, <2>2 DEF Chain!End
  <2> QED
    BY <2>1, <2>3
<1>6. ASSUME NEW r \in Req, Crash(r) \/ UniqueViolation(r)
      PROVE  (\E s \in Token : Chain!End(s)) \/ UNCHANGED Chain!vars
  <2>1. /\ DOMAIN issued' = DOMAIN issued /\ Begun' = Begun
        /\ \A s \in Token : Usable(s)' = Usable(s)
        /\ \A s \in Token : Rotating(s)' = Rotating(s) \ {r}
    BY <1>6, CrashStep
  <2>2. CASE \E s \in Token : r \in Rotating(s)
    <3>1. PICK w \in Token : r \in Rotating(w)
      BY <2>2
    <3>2. w \in Begun /\ Usable(w) = {} /\ Rotating(w) = {r}
      BY <3>1 DEF IInv, OneSuccessor, Rotating, RootsIssued, InFlightIssued,
                  TypeOK, Begun
    <3>3. Holder(w) = "rotating" /\ Holder(w)' = "ended"
      BY <2>1, <3>2, <1>h, <1>p DEF HolderOK
    <3>4. \A s \in Token \ {w} : Same(s)
      BY <2>1, <3>1 DEF Rotating, Same
    <3>5. \A s \in Token \ {w} : Holder(s)' = Holder(s)
      BY <3>4, SameHolder
    <3>6. Chain!End(w)
      BY <2>1, <3>3, <3>5 DEF Chain!End
    <3> QED
      BY <3>6
  <2>3. CASE \A s \in Token : r \notin Rotating(s)
    <3>1. \A s \in Token : Same(s)
      BY <2>1, <2>3 DEF Same
    <3>2. \A s \in Token : Holder(s)' = Holder(s)
      BY <3>1, SameHolder
    <3> QED
      BY <2>1, <3>2 DEF Chain!vars
  <2> QED
    BY <2>2, <2>3
<1>7. CASE \/ \E t \in Token : Expire(t)
           \/ \E u \in User, a \in Account : ChangeAccount(u, a)
           \/ UNCHANGED vars
  <2>1. DOMAIN issued' = DOMAIN issued /\ \A s \in Token : Holder(s)' = Holder(s)
    BY <1>7, QuietStep, SameHolder
  <2> QED
    BY <2>1 DEF Chain!vars
<1> QED
  BY <1>1, <1>2, <1>3, <1>4, <1>5, <1>6, <1>7, StepCases DEF Chain!Next

(* Rotation over the blacklist implements the chain of tokens, whatever    *)
(* the concurrency and wherever requests crash: a token is exchanged once, *)
(* and an ended session never issues another.                              *)
THEOREM RotationImplementsChain == Spec => ChainSpec
BY InitRefines, StepRefines, InvHolds, PTL DEF Spec, ChainSpec, Chain!Spec
=============================================================================
