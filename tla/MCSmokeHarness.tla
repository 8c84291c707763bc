--------------------------- MODULE MCSmokeHarness ---------------------------
(* An instance of SmokeHarness for TLC: the two variants of the fixture and  *)
(* two questions, with or without a page image.                              *)
EXTENDS SmokeHarness
=============================================================================
