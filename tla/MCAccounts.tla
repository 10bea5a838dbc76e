----------------------------- MODULE MCAccounts -----------------------------
(* Instances of Accounts for TLC.  A run explores two kinds of behaviour   *)
(* from one start: requests one after the other, and requests in flight    *)
(* together among the accounts there are at the start.                     *)
EXTENDS Accounts, TLC

CONSTANTS t1, t2, super, admin, admin2, mentor, intern, newcomer, r1

Is(t, role) == [tenant |-> t, role |-> role]

MCTenant == {t1, t2}

(* A tenant with an admin and an intern, and the platform's super admin.   *)
PlatformUsers ==
  super :> Is(None, "SUPER_ADMIN") @@ admin :> Is(t1, "TENANT_ADMIN")
    @@ intern :> Is(t1, "INTERN")

(* A tenant with two admins and an intern.                                 *)
TwoAdmins ==
  admin :> Is(t1, "TENANT_ADMIN") @@ admin2 :> Is(t1, "TENANT_ADMIN")
    @@ intern :> Is(t1, "INTERN")

Symmetry == Permutations(RecordId)

VARIABLE mode

serial == mode = "serial"

MCInit == Init /\ mode \in {"serial", "concurrent"}

MCNext ==
  /\ \E r \in Req : (serial => r = r1) /\ (Check(r) \/ Write(r))
  /\ ~serial => DOMAIN users' = DOMAIN users
  /\ UNCHANGED mode

mcvars == <<vars, mode>>
MCSpec == MCInit /\ [][MCNext]_mcvars

(* The properties that are claimed of serial behaviours only.              *)
SerialNoOrphan           == serial => NoOrphan
SerialAdminDeletionHolds == [][serial => AdminDeletionHolds]_mcvars
SerialCascadeReturns     == [][serial => CascadeReturns]_mcvars
SerialLastAdminTaken     == [][serial => LastAdminTakenBySuperAdmin]_mcvars
=============================================================================
