----------------------------- MODULE MCAutoDma -----------------------------
(* AutoDma for TLC: 4-value indices wrap several times within the bound.    *)
EXTENDS AutoDma
=============================================================================
