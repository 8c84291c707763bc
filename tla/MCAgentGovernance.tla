------------------------- MODULE MCAgentGovernance -------------------------
(***************************************************************************)
(* Instances of AgentGovernance for TLC: asha and bala work for the tenant *)
(* t1, chitra for t2; asha has every role (an admin), so that she can try  *)
(* to approve what she proposed.                                           *)
(***************************************************************************)
EXTENDS AgentGovernance, TLC

CONSTANTS asha, bala, chitra, report, foreign

MCUsers == {asha, bala, chitra}
MCDocs == {report, foreign}
MCRequesters == {asha, chitra}
MCApprovers == {asha, bala, chitra}
MCExecutors == {asha, chitra}
MCTenantOf == [x \in {asha, bala, report} |-> "t1"] @@ [x \in {chitra, foreign} |-> "t2"]
MCOneTenant == {asha, bala}
MCOneDoc == {report}
=============================================================================
