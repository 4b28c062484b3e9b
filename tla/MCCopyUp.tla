------------------------------ MODULE MCCopyUp ------------------------------
(* Two threads and two mappings. *)
EXTENDS CopyUp, TLC

CONSTANTS t1, t2, m1, m2
MCThreads == {t1, t2}
MCMaps == {m1, m2}
MCOneMap == {m1}
MCSymmetry == Permutations(MCThreads)
=============================================================================
