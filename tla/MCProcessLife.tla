--------------------------- MODULE MCProcessLife ----------------------------
(* Instances of ProcessLife.                                                *)
EXTENDS ProcessLife
=============================================================================
