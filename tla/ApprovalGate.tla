---------------------------- MODULE ApprovalGate ----------------------------
(***************************************************************************)
(* What the agent service promises about one kind of request: an action is *)
(* submitted, somebody else authorises or refuses it, and an authorised    *)
(* action reaches the tool runner once at the most, whatever becomes of    *)
(* that one call.                                                          *)
(*                                                                         *)
(* AgentGovernance implements this specification when its row locks work.  *)
(***************************************************************************)
EXTENDS Naturals

CONSTANT Runs      \* the requests

VARIABLES
    phase,         \* how far each request has come
    calls          \* how often its tool was started

vars == <<phase, calls>>

Phases == {"absent", "pending", "authorised", "refused", "running", "done", "failed"}

TypeOK == /\ phase \in [Runs -> Phases]
          /\ calls \in [Runs -> 0..1]

Init == /\ phase = [r \in Runs |-> "absent"]
        /\ calls = [r \in Runs |-> 0]

Move(r, from, to) == /\ phase[r] \in from
                     /\ phase' = [phase EXCEPT ![r] = to]

Submit(r)    == Move(r, {"absent"}, "pending") /\ UNCHANGED calls
Authorise(r) == Move(r, {"pending"}, "authorised") /\ UNCHANGED calls
Refuse(r)    == Move(r, {"absent", "pending", "authorised"}, "refused") /\ UNCHANGED calls
Start(r)     == /\ Move(r, {"authorised"}, "running")
                /\ calls' = [calls EXCEPT ![r] = @ + 1]
Finish(r)    == Move(r, {"running"}, "done") /\ UNCHANGED calls
Fail(r)      == Move(r, {"authorised", "running"}, "failed") /\ UNCHANGED calls

Next == \E r \in Runs : \/ Submit(r)
                        \/ Authorise(r)
                        \/ Refuse(r)
                        \/ Start(r)
                        \/ Finish(r)
                        \/ Fail(r)

Spec == Init /\ [][Next]_vars
=============================================================================
