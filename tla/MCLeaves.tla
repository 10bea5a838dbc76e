------------------------------ MODULE MCLeaves ------------------------------
(* Instances of Leaves for TLC: an admin, a mentor and an intern of one    *)
(* tenant, and the admin of another tenant.  A run explores two kinds of   *)
(* behaviour from one start: requests one after the other, and requests in *)
(* flight together on a single leave of a single day.                      *)
EXTENDS Leaves, FiniteSets, TLC

CONSTANTS t1, t2, admin, mentor, intern, outsider, r1

MCTenant   == {t1, t2}
MCUser     == {admin, mentor, intern, outsider}
MCTenantOf == admin :> t1 @@ mentor :> t1 @@ intern :> t1 @@ outsider :> t2
MCRoleOf   == admin :> "TENANT_ADMIN" @@ mentor :> "MENTOR"
                @@ intern :> "INTERN" @@ outsider :> "TENANT_ADMIN"

Symmetry == Permutations(LeaveId) \cup Permutations(Req \ {r1})

VARIABLE mode

serial == mode = "serial"

(* The requests of concurrent behaviours, which need no second day.        *)
OfOneDay(q) ==
  /\ q.op = "insert" => q.row.end = 1
  /\ q.op = "update" => q.set.start = None /\ q.set.end = None

MCInit == Init /\ mode \in {"serial", "concurrent"}

MCNext ==
  /\ \E r \in Req : (serial => r = r1) /\ (Check(r) \/ Write(r))
  /\ ~serial => /\ Cardinality(DOMAIN leaves') <= 1
                /\ \A r \in Req : OfOneDay(req'[r])
  /\ UNCHANGED mode

mcvars == <<vars, mode>>
MCSpec == MCInit /\ [][MCNext]_mcvars

(* The properties that are claimed of serial behaviours only.              *)
SerialDatesOrdered   == serial => DatesOrdered
=============================================================================
