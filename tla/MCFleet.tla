------------------------------- MODULE MCFleet -------------------------------
(* Instances of Fleet for TLC.                                              *)
EXTENDS Fleet, TLC
CONSTANTS d1, d2, n1, n2, k1, k2, c1, c2, s1, s2, r1
Interchangeable == Permutations(Devices) \cup Permutations(Names) \cup Permutations(Tokens)
                   \cup Permutations(Cmds) \cup Permutations(Slots)
=============================================================================
