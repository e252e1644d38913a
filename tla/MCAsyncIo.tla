----------------------------- MODULE MCAsyncIo ------------------------------
(* Instances of AsyncIo: a thread whose reads and writes all have a timeout *)
(* on one processor, and one operation on several processors.               *)
EXTENDS AsyncIo

CONSTANTS t1

OneThread == {t1}
=============================================================================
