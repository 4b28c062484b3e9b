------------------------------ MODULE OverlayTree ------------------------------
(***************************************************************************)
(* The overlay as its users see it, compared with the abstract file tree   *)
(* of module FileTree.  fs and call are history variables: fs is the view  *)
(* of the users and call the last operation that they asked for and that   *)
(* succeeded.  The comparison is with callers that remove directories only *)
(* when they are empty, rename no directory that has a lower part, and     *)
(* rename nothing over a name of the lower; fs and call are left alone     *)
(* from the first other operation on.                                      *)
(***************************************************************************)
EXTENDS Overlay

VARIABLES fs, call

treeVars == <<vars, fs, call>>

\* calls counts the operations up to this one.
Call(op, p, q, node) == [op |-> op, path |-> p, to |-> q, node |-> node, calls |-> ops']
NoNode == Node("none", NewId)

TreeInit ==
  /\ Init
  /\ fs = View
  /\ call = [op |-> "none", path |-> Root, to |-> Root, node |-> NoNode, calls |-> 0]

\* The callers have kept to the rules so far.
Tame == call.calls = ops

Follow(c) == IF Tame THEN call' = c /\ fs' = View' ELSE UNCHANGED <<fs, call>>

Unseen(p) ==
  /\ Load(p) \/ Evict(p)
  /\ fs' = IF Tame THEN View' ELSE fs
  /\ UNCHANGED call

Made(p) ==
  \/ Create(p) /\ Follow(Call("make", p, Root, Node("file", NewId)))
  \/ \E type \in {"dir", "symlink"} :
       GenericCreate(p, type) /\ Follow(Call("make", p, Root, Node(type, NewId)))
Modified(p) == Write(p) /\ Follow(Call("modify", p, Root, Node("file", WrittenId)))
Unlinked(p) == RemoveFile(p) /\ Follow(Call("unlink", p, Root, NoNode))

DirectoryRemoved(p) ==
  /\ RemoveDirectory(p)
  /\ IF Readdir(p, Walk(p)) = {} THEN Follow(Call("unlink", p, Root, NoNode))
                                 ELSE UNCHANGED <<fs, call>>

Renamed(p, q) ==
  /\ Rename(p, q)
  /\ IF (IsDir(p, Walk(p)) => ~Walk(p).lowerExists) /\ ~Walk(q).lowerExists
       THEN Follow(Call("move", p, q, NoNode))
       ELSE UNCHANGED <<fs, call>>

TreeNext ==
  \/ \E p \in Paths : Unseen(p) \/ Made(p) \/ Modified(p) \/ Unlinked(p) \/ DirectoryRemoved(p)
  \/ \E p, q \in Paths : Renamed(p, q)

TreeSpec == TreeInit /\ [][TreeNext]_treeVars

-----------------------------------------------------------------------------
Tree == INSTANCE FileTree WITH calls <- call.calls

\* With such callers the overlay implements a file tree: every operation does
\* to the merged view what it would do to one tree and nothing else, whatever
\* is in the upper, in the lower, masked, or in memory.
ImplementsFileTree == Tree!Spec
=============================================================================
