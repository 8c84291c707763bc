------------------------- MODULE MCDocumentIndexing -------------------------
(* Instances of DocumentIndexing for TLC: one document, two index requests  *)
(* and one cleanup request, and three versions: one that is served, one     *)
(* that replaces it and one more while a cleanup is pending.                *)
EXTENDS DocumentIndexing
=============================================================================
