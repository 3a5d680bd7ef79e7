------------------------------ MODULE MCInnodbRw ------------------------------
(* Instances of InnodbRw for TLC.                                          *)
EXTENDS InnodbRw, TLC

Symmetry == Permutations(Blocks) \cup Permutations(Threads)
            \cup Permutations(RwPages)
=============================================================================
