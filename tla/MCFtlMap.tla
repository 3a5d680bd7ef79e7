------------------------------ MODULE MCFtlMap ------------------------------
(* FtlMap for TLC: the slices are interchangeable. *)
EXTENDS FtlMap, TLC

LsaSymmetry == Permutations(Lsas)
=============================================================================
