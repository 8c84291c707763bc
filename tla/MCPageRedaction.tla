-------------------------- MODULE MCPageRedaction --------------------------
(* An instance of PageRedaction for TLC: a page of seven characters with up  *)
(* to three matches of unlike patterns, cut into windows of six; and an      *)
(* image of three by two points, as uploaded or on a raster of four by       *)
(* three pixels.                                                             *)
EXTENDS PageRedaction
=============================================================================
