----------------------------- MODULE MCHotness -----------------------------
(* Hotness for TLC: vCPUs and blocks are interchangeable. *)
EXTENDS Hotness, TLC

HotnessSymmetry == Permutations(Vcpus) \cup Permutations(TbKeys)
=============================================================================
