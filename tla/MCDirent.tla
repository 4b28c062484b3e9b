------------------------------ MODULE MCDirent ------------------------------
(* Two directories with two names, three threads. *)
EXTENDS Dirent, TLC

CONSTANTS t1, t2, t3, n1, n2, i1, i2, i3, d1, d2
MCThreads3 == {t1, t2, t3}
MCDirs == {1, 2}
MCNames == {n1, n2}
MCInodes3 == {i1, i2, i3}
MCDirents == {d1, d2}
MCSymmetry == Permutations(MCThreads3) \cup Permutations(MCNames)
                \cup Permutations(MCInodes3) \cup Permutations(MCDirents)
=============================================================================
