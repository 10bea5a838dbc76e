---------------------------- MODULE OneTimeCode -----------------------------
(***************************************************************************)
(* What a one-time password promises.  A code is sent to an account for a  *)
(* purpose; it is stored until it is taken, replaced or expired; a code    *)
(* that was taken is settled at once: used, which shows its effect on that *)
(* account and for that purpose, or void.  No code comes back.             *)
(***************************************************************************)
EXTENDS Naturals

CONSTANTS Account, Purpose, Code

VARIABLES
  to,       (* the codes sent, with account and purpose                     *)
  life,     (* Code -> "unsent", "stored", "taken", "used" or "void"        *)
  effects   (* what codes have brought about                                *)

vars == <<to, life, effects>>

Addressee == [user: Account, purpose: Purpose]

Init ==
  /\ to = [c \in {} |-> 0]
  /\ life = [c \in Code |-> "unsent"]
  /\ effects = {}

(* A new code may replace earlier ones to the same addressee.              *)
Send(c, x) ==
  /\ life[c] = "unsent"
  /\ to' = [d \in DOMAIN to \cup {c} |-> IF d = c THEN x ELSE to[d]]
  /\ \E old \in SUBSET {d \in DOMAIN to : to[d] = x /\ life[d] = "stored"} :
       life' = [d \in Code |-> IF d = c THEN "stored"
                               ELSE IF d \in old THEN "void" ELSE life[d]]
  /\ UNCHANGED effects

Take(c) ==
  /\ life[c] = "stored"
  /\ life' = [life EXCEPT ![c] = "taken"]
  /\ UNCHANGED <<to, effects>>

Use(c) ==
  /\ life[c] = "taken"
  /\ life' = [life EXCEPT ![c] = "used"]
  /\ effects' = effects \cup {[code |-> c, at |-> to[c]]}
  /\ UNCHANGED to

Void(c) ==
  /\ life[c] \in {"stored", "taken"}
  /\ life' = [life EXCEPT ![c] = "void"]
  /\ UNCHANGED <<to, effects>>

Settle(c) == life[c] = "taken" /\ (Use(c) \/ Void(c))

Next ==
  \E c \in Code :
    \/ \E x \in Addressee : Send(c, x)
    \/ Take(c)
    \/ Use(c)
    \/ Void(c)

SafetySpec == Init /\ [][Next]_vars

Spec == SafetySpec /\ \A c \in Code : WF_vars(Settle(c))
=============================================================================
