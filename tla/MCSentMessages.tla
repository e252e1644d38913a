--------------------------- MODULE MCSentMessages ---------------------------
(* Instances of SentMessages for TLC.                                        *)
EXTENDS SentMessages, TLC

CONSTANTS t1, t2
=============================================================================
