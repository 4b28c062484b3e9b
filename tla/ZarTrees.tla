------------------------------ MODULE ZarTrees ------------------------------
(***************************************************************************)
(* Directory trees for the image generator: functions from paths to nodes, *)
(* two levels deep.  A node is a file of some size, a symbolic link or a   *)
(* directory.                                                              *)
(***************************************************************************)
EXTENDS Integers, Sequences

Leaves(sizes) == {[type |-> "symlink", size |-> 0]} \cup [type : {"file"}, size : sizes]
Dir == [type |-> "dir", size |-> 0]

\* Directories without subdirectories, as functions from names.
FlatDirs(names, sizes) == UNION {[S -> Leaves(sizes)] : S \in SUBSET names}

\* The tree with the leaves of flat and the directories of deep at the top.
TreeOf(flat, deep) ==
  LET top == {<<n>> : n \in DOMAIN flat \cup DOMAIN deep}
      below == UNION {{<<n, m>> : m \in DOMAIN deep[n]} : n \in DOMAIN deep}
  IN  [p \in top \cup below |->
         IF p \in below THEN deep[p[1]][p[2]]
         ELSE IF p[1] \in DOMAIN flat THEN flat[p[1]] ELSE Dir]

TreesOver(names, sizes) ==
  UNION {{TreeOf(flat, deep) : flat \in [F -> Leaves(sizes)],
                               deep \in [D -> FlatDirs(names, sizes)]} :
           <<F, D>> \in {fd \in (SUBSET names) \X (SUBSET names) : fd[1] \cap fd[2] = {}}}
=============================================================================
