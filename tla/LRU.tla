-------------------------------- MODULE LRU --------------------------------
(***************************************************************************)
(* What a least-recently-used cache promises: a sequence of distinct       *)
(* elements, the most recent first, at most MaxSize long.  call is the     *)
(* last operation on the cache; each of them is idempotent.                *)
(***************************************************************************)
EXTENDS Integers, Sequences, SequencesExt

CONSTANT MaxSize

VARIABLES cache, call

Dropping(d) == SelectSeq(cache, LAMBDA e : e # d)

\* An element is inserted, or moved to the front; the oldest may have to go.
Insert(d) ==
  LET all == <<d>> \o Dropping(d)
  IN  cache' = SubSeq(all, 1, IF Len(all) > MaxSize THEN MaxSize ELSE Len(all))

Delete(d) == cache' = Dropping(d)

Clear == cache' = <<>>

Next ==
  \/ call'.op = "Add" /\ Insert(call'.dirent)
  \/ call'.op = "Remove" /\ Delete(call'.dirent)
  \/ call'.op = "Invalidate" /\ Clear

Spec == cache = <<>> /\ [][Next]_<<cache, call>>
=============================================================================
