---------------------------- MODULE MCNamedPipe ----------------------------
(* Instances of NamedPipe for TLC.                                           *)
EXTENDS NamedPipe, TLC

CONSTANTS s1, s2, s3, c1, c2, w1, w2

Duplex == {"read", "write"}
TwoSharings == {Duplex, {"read"}}
WriteAccess == {{"write"}}
=============================================================================
