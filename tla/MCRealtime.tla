------------------------------ MODULE MCRealtime ------------------------------
(* Instances of Realtime for TLC.                                           *)
EXTENDS Realtime
CONSTANTS f1, f2, w1, w2
=============================================================================
