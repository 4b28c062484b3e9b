----------------------------- MODULE MCP9Server -----------------------------
(***************************************************************************)
(* The 9P server on a small host tree: at the root a directory full with a *)
(* file c in it, and an empty directory e.  A client has walked to the     *)
(* root, to full, to c, and either once more to full or to e.              *)
(***************************************************************************)
EXTENDS P9Server

CONSTANTS root, full, e, c, free, y, a, b, r1, r2, r3, r4, r5, r6, r7,
          n1, n2, n3, n4, n5, n6, n7, n8, f1, f2, f3, f4, f5, f6, f7

MCInodes == {root, full, e, c, free, y}
MCDirs == {full, e}
MCNames == {a, b}
MCRefs == {r1, r2, r3, r4, r5, r6, r7}
MCNodes == {n1, n2, n3, n4, n5, n6, n7, n8}
MCFIDs == {f1, f2, f3, f4, f5, f6, f7}
MCPlace0 ==
  [i \in MCInodes |->
    CASE i = full -> [dir |-> root, name |-> a]
      [] i = e -> [dir |-> root, name |-> b]
      [] i = c -> [dir |-> full, name |-> a]
      [] OTHER -> Nil]
TwiceToFull == [r \in {r1, r2, r3, r4} |->
  CASE r = r1 -> root [] r = r2 -> full [] r = r3 -> c [] r = r4 -> full]
AlsoToE == [r \in {r1, r2, r3, r4} |->
  CASE r = r1 -> root [] r = r2 -> full [] r = r3 -> c [] r = r4 -> e]
MCNode0 == [i \in {root, full, c, e} |->
  CASE i = root -> n1 [] i = full -> n2 [] i = c -> n3 [] i = e -> n4]
MCFID0 == [f \in MCFIDs |->
  CASE f = f1 -> r1 [] f = f2 -> r2 [] f = f3 -> r3 [] f = f4 -> r4 [] OTHER -> Nil]
=============================================================================
