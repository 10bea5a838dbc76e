---------------------------- MODULE MCOnboarding ----------------------------
(* Instances of Onboarding for TLC.  A run explores three kinds of         *)
(* behaviour from one start: requests one after the other, with tenants    *)
(* that come and go, or with a fixed tenant and several invitations; and   *)
(* two requests in flight, with one tenant and one invitation that does    *)
(* not expire.                                                             *)
EXTENDS Onboarding, Naturals, FiniteSets, TLC

CONSTANTS t1, acme, r1, bob, Bob, eve

MCFirstTenants == t1 :> acme
MCLower        == bob :> "bob" @@ Bob :> "bob" @@ eve :> "eve"

Symmetry == Permutations(User) \cup Permutations(Email) \cup Permutations({bob, Bob})
              \cup Permutations(InvitationId)

VARIABLE mode

serial == mode # "concurrent"

MaxInvitations == [tenants |-> 0, invitations |-> 2, concurrent |-> 1]

(* Where tenants stay as they are, two spellings of one username do.       *)
NoEve(q) ==
  /\ q.op = "createUser" => q.row.username # eve
  /\ q.op = "revive" => q.username # eve

ChangesTenants(q) == q.op \in {"registerTenant", "createTenant", "updateTenant"}

MCInit == Init /\ mode \in {"tenants", "invitations", "concurrent"}

MCNext ==
  /\ \/ \E r \in Req : (serial => r = r1) /\ (Check(r) \/ Write(r))
     \/ (serial => req[r1] = Idle) /\ Elsewhere
  /\ Cardinality(DOMAIN invitations') <= MaxInvitations[mode]
  /\ mode = "invitations" => tenants' = tenants
  /\ mode # "tenants" => \A r \in Req : NoEve(req'[r])
  /\ mode = "concurrent" =>
       /\ \A r \in Req : ~ChangesTenants(req'[r])
       /\ \A i \in DOMAIN invitations' : ~invitations'[i].expired
  /\ UNCHANGED mode

mcvars == <<vars, mode>>
MCSpec == MCInit /\ [][MCNext]_mcvars

(* The properties that are claimed of serial behaviours only.              *)
SerialOpenOnceUnlessRestored == serial => OpenOnceUnlessRestored
SerialUsernameUnique         == serial => UsernameUniquePerTenant
=============================================================================
