------------------------ MODULE MCOneTimePasswords --------------------------
(* Instances of OneTimePasswords for TLC.  A run explores two kinds of     *)
(* behaviour from one start: requests one after the other, and requests in *)
(* flight together, with fewer codes.                                      *)
EXTENDS OneTimePasswords

(* Requests are numbered: a new one takes the first slot that is free.     *)
ASSUME ReqAssumption == Req \subseteq Nat

CONSTANT
  MaxConcurrent  (* bounds the codes sent with requests in flight together  *)

VARIABLE mode

serial == mode = "serial"
mcvars == <<vars, mode>>

MCInit == Init /\ mode \in {"serial", "concurrent"}

NoneInFlight == \A r \in Req : req[r] = Idle

About(r, p) == req'[r] # Idle /\ req'[r].purpose = p

MCProceed(r) ==
  /\ Proceed(r)
  /\ serial \/ Len(sent') <= MaxConcurrent
  /\ UNCHANGED mode

(* A crash before the code is consumed leaves what a refusal leaves.       *)
MCCrash(r) ==
  /\ req[r].op \in {"consumed", "selected"}
  /\ Crash(r)
  /\ UNCHANGED mode

MCNext ==
  \/ \E r \in Req : /\ \A q \in Req : q < r => ~serial /\ req[q] # Idle
                    /\ Ask(r)
                    /\ serial \/ ~About(r, "login")
                    /\ UNCHANGED mode
  \/ \E r \in Req : MCProceed(r) \/ MCCrash(r)
  \/ \E k \in Key : Expire(k) /\ UNCHANGED mode
  \/ /\ IF serial THEN NoneInFlight /\ ChangeAccount
        ELSE \E u \in User : Delete(u, "self")
     /\ UNCHANGED mode

MCSpec == /\ MCInit
          /\ [][MCNext]_mcvars
          /\ \A r \in Req : WF_mcvars(MCProceed(r))

(* The properties that are claimed of serial behaviours only.              *)
SerialCodesReach        == serial => CodesReach
SerialNoCodeForVerified == serial => NoCodeForVerified
=============================================================================
