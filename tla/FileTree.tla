------------------------------ MODULE FileTree ------------------------------
(***************************************************************************)
(* What a file system promises its users: a tree of named files, in which  *)
(* an operation changes what it is asked to change and nothing else.  The  *)
(* overlay is shown to implement it.  A node is a record with a type and   *)
(* an id that stands for its contents; the root is not a node.             *)
(***************************************************************************)
EXTENDS Naturals, Sequences, SequencesExt

VARIABLES
  fs,     \* path -> node
  call,   \* the last operation: its name and arguments
  calls   \* how many there were

IsDirectory(p) == p = <<>> \/ (p \in DOMAIN fs /\ fs[p].type = "dir")
Below(p) == {q \in DOMAIN fs : IsStrictPrefix(p, q)}
Restricted(S) == [p \in S |-> fs[p]]

\* A new file, directory or link.
Make(p, node) ==
  /\ p \notin DOMAIN fs /\ IsDirectory(Front(p))
  /\ fs' = [q \in DOMAIN fs \cup {p} |-> IF q = p THEN node ELSE fs[q]]

\* unlink or rmdir
Unlink(p) ==
  /\ p \in DOMAIN fs /\ Below(p) = {}
  /\ fs' = Restricted(DOMAIN fs \ {p})

\* Only the contents of one file change.
Modify(p, node) ==
  /\ p \in DOMAIN fs /\ fs[p].type = node.type
  /\ fs' = [fs EXCEPT ![p] = node]

\* q is replaced if it exists and is empty; all that is below p moves along.
Move(p, q) ==
  /\ p \in DOMAIN fs /\ IsDirectory(Front(q))
  /\ ~IsPrefix(p, q) /\ ~IsPrefix(q, p)
  /\ q \in DOMAIN fs => Below(q) = {} /\ (fs[q].type = "dir") = (fs[p].type = "dir")
  /\ LET from(r) == p \o SubSeq(r, Len(q) + 1, Len(r))
         moved == {q \o SubSeq(r, Len(p) + 1, Len(r)) : r \in {p} \cup Below(p)}
         kept == DOMAIN fs \ ({p, q} \cup Below(p))
     IN  fs' = [r \in kept \cup moved |-> IF r \in moved THEN fs[from(r)] ELSE fs[r]]

Next ==
  /\ calls' = calls + 1
  /\ \/ call'.op = "make" /\ Make(call'.path, call'.node)
     \/ call'.op = "unlink" /\ Unlink(call'.path)
     \/ call'.op = "modify" /\ Modify(call'.path, call'.node)
     \/ call'.op = "move" /\ Move(call'.path, call'.to)

Spec == [][Next]_<<fs, call, calls>>
=============================================================================
