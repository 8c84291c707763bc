---------------------------- MODULE MCAuditChain ----------------------------
(* Instances of AuditChain for TLC. *)
EXTENDS AuditChain, TLC

OneEvent == {1}
OneOrTwoEvents == {1, 2}
DistinctTimes == {1}
AnyTimes == {0, 1}

Interchangeable == Permutations(Writers)
=============================================================================
