------------------------- MODULE MCRetrievalSearch -------------------------
(* An instance of RetrievalSearch for TLC: one document of two chunks that   *)
(* is indexed, revised and indexed again while one request searches.         *)
EXTENDS RetrievalSearch
=============================================================================
