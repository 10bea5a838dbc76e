---------------------------- MODULE SessionChain ----------------------------
(***************************************************************************)
(* What refresh rotation promises: a session, named by the token its login *)
(* issued, is a chain of refresh tokens.  At any moment one token holds    *)
(* it, or none while that token is being exchanged; a token that gave the  *)
(* session up never holds it again, and a session that ended stays ended.  *)
(***************************************************************************)
CONSTANT Token    (* disjoint from Phase                                     *)

Phase == {"unborn", "rotating", "ended"}

VARIABLES
  holder,  (* for each session, the token that holds it, or its phase       *)
  given    (* the tokens issued so far                                      *)

vars == <<holder, given>>

Init ==
  /\ holder = [s \in Token |-> "unborn"]
  /\ given = {}

Begin(s) ==
  /\ holder[s] = "unborn"
  /\ s \notin given
  /\ holder' = [holder EXCEPT ![s] = s]
  /\ given' = given \cup {s}

GiveUp(s) ==
  /\ holder[s] \in Token
  /\ holder' = [holder EXCEPT ![s] = "rotating"]
  /\ UNCHANGED given

Rotate(s, n) ==
  /\ holder[s] = "rotating"
  /\ n \notin given
  /\ holder' = [holder EXCEPT ![s] = n]
  /\ given' = given \cup {n}

End(s) ==
  /\ holder[s] \in Token \cup {"rotating"}
  /\ holder' = [holder EXCEPT ![s] = "ended"]
  /\ UNCHANGED given

Next ==
  \E s \in Token :
    \/ Begin(s)
    \/ GiveUp(s)
    \/ \E n \in Token : Rotate(s, n)
    \/ End(s)

Spec == Init /\ [][Next]_vars
=============================================================================
