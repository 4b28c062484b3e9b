----------------------------- MODULE DirentCache -----------------------------
(***************************************************************************)
(* pkg/sentry/fs/dirent_cache.go: the cache that keeps Dirents of a mount  *)
(* in memory after their users are done with them, as an intrusive list of *)
(* pkg/ilist.  Whether a Dirent is in the list is read off its own links.  *)
(*                                                                         *)
(* The variable c has the fields that the operations work on: the list     *)
(* (head, tail, and the links next and prev of each Dirent), currentSize,  *)
(* the reference counts of the Dirents and MountSource.direntRefs.         *)
(* Operations hold DirentCache.mu throughout, so each is one step.  A      *)
(* Dirent has a reference on its parent; refs[d] = 0 means that d has been *)
(* destroyed or not yet been made.                                         *)
(***************************************************************************)
EXTENDS Integers, Sequences, FiniteSets, SequencesExt, FiniteSetsExt, Functions, TLC

CONSTANTS
  Dirents,
  None,      \* nil
  Parent,    \* the parent of each Dirent, or None
  MaxSize,   \* maxSize
  MaxUsers   \* bound on the references to one Dirent from outside

VARIABLES
  c,
  users,     \* history: references that are neither the cache's nor a child's
  call       \* history: the last operation on the cache

vars == <<c, users, call>>

Call(op, d) == [op |-> op, dirent |-> d]

Init ==
  /\ c = [head |-> None, tail |-> None,
          next |-> [d \in Dirents |-> None], prev |-> [d \in Dirents |-> None],
          currentSize |-> 0,
          refs |-> [d \in Dirents |-> 0], direntRefs |-> 0]
  /\ users = [d \in Dirents |-> 0]
  /\ call = Call("none", None)

-----------------------------------------------------------------------------
(* Reference counts. *)

Ancestors[d \in Dirents] ==
  {d} \cup (IF Parent[d] = None THEN {} ELSE Ancestors[Parent[d]])

\* Dirent.IncRef
IncRef(s, d) == [s EXCEPT !.refs[d] = @ + 1, !.direntRefs = @ + 1]

\* A variant that destroys a Dirent without dropping its reference on its parent.
DecRef_KeepsParent(s, d) == [s EXCEPT !.refs[d] = @ - 1, !.direntRefs = @ - 1]

\* Dirent.DecRef.  One that destroys its Dirent drops a reference on the
\* parent, which may destroy that too.
DecRef(s, d) ==
  LET dropped == {e \in Ancestors[d] : \A f \in Ancestors[d] \ Ancestors[e] : s.refs[f] = 1}
  IN  [s EXCEPT !.refs = [e \in Dirents |-> IF e \in dropped THEN @[e] - 1 ELSE @[e]],
                !.direntRefs = @ - Cardinality(dropped)]

-----------------------------------------------------------------------------
(* The intrusive list. *)

SetNext(s, d, e) == IF d = None THEN [s EXCEPT !.head = e] ELSE [s EXCEPT !.next[d] = e]
SetPrev(s, d, e) == IF d = None THEN [s EXCEPT !.tail = e] ELSE [s EXCEPT !.prev[d] = e]

\* List.PushFront: the old head, or the tail, leads back to d.
PushFront(s, d) ==
  LET linked == [s EXCEPT !.next[d] = s.head, !.prev[d] = None]
  IN  [SetPrev(linked, s.head, d) EXCEPT !.head = d]

\* List.Remove leaves the links of d as they are.
ListRemove(s, d) == SetPrev(SetNext(s, s.prev[d], s.next[d]), s.next[d], s.prev[d])

\* "If d has a Prev or Next element, then it is in the cache."
contains(s, d) == s.prev[d] # None \/ s.next[d] # None \/ s.head = d

-----------------------------------------------------------------------------
remove(s, d) ==
  DecRef([ListRemove(s, d) EXCEPT !.prev[d] = None, !.next[d] = None, !.currentSize = @ - 1], d)

\* A variant that does not move a Dirent which is in the list.
Bump_Not(s, d) == s

Bump(s, d) == PushFront(ListRemove(s, d), d)

Over(s) == s.currentSize > MaxSize

\* DirentCache.Add.  There was no more than MaxSize before, so the loop that
\* removes the oldest removes at most one.
Inserted(s, d) ==
  LET added == IncRef([PushFront(s, d) EXCEPT !.currentSize = @ + 1], d)
  IN  IF Over(added) THEN remove(added, added.tail) ELSE added

\* maybeExtendReference, by a caller that has a reference.
Add(d) ==
  /\ users[d] > 0
  /\ c' = IF MaxSize = 0 THEN c ELSE IF contains(c, d) THEN Bump(c, d) ELSE Inserted(c, d)
  /\ call' = Call("Add", d)
  /\ UNCHANGED users

\* dropExtendedReference and DirentCache.Remove, by a caller that has a reference.
DropExtended(d) ==
  /\ users[d] > 0
  /\ c' = IF MaxSize > 0 /\ contains(c, d) THEN remove(c, d) ELSE c
  /\ call' = Call("Remove", d)
  /\ UNCHANGED users

\* FlushDirentRefs: remove the front until there is none.
Invalidate ==
  /\ c' = FoldLeft(LAMBDA s, k : IF s.head = None THEN s ELSE remove(s, s.head),
                   c, [k \in 1..Cardinality(Dirents) |-> k])
  /\ call' = Call("Invalidate", None)
  /\ UNCHANGED users

\* A Dirent is made, with a reference for its user and one on its parent.
NewDirent(d) ==
  /\ c.refs[d] = 0
  /\ Parent[d] # None => c.refs[Parent[d]] > 0
  /\ c' = IF Parent[d] = None THEN IncRef(c, d) ELSE IncRef(IncRef(c, Parent[d]), d)
  /\ users' = [users EXCEPT ![d] = 1]
  /\ UNCHANGED call

\* A user takes a reference: a walk finds the Dirent.
Get(d) ==
  /\ c.refs[d] > 0 /\ users[d] < MaxUsers
  /\ c' = IncRef(c, d)
  /\ users' = [users EXCEPT ![d] = @ + 1]
  /\ UNCHANGED call

Put(d) ==
  /\ users[d] > 0
  /\ c' = DecRef(c, d)
  /\ users' = [users EXCEPT ![d] = @ - 1]
  /\ UNCHANGED call

Next ==
  \/ \E d \in Dirents : Add(d) \/ DropExtended(d) \/ NewDirent(d) \/ Get(d) \/ Put(d)
  \/ Invalidate

Spec == Init /\ [][Next]_vars

-----------------------------------------------------------------------------
TypeOK ==
  /\ c.head \in Dirents \cup {None} /\ c.tail \in Dirents \cup {None}
  /\ c.next \in [Dirents -> Dirents \cup {None}]
  /\ c.prev \in [Dirents -> Dirents \cup {None}]
  /\ c.currentSize \in 0..MaxSize
  /\ c.refs \in [Dirents -> Nat] /\ c.direntRefs \in Nat

\* The list as it is traversed from one end along a link.
Follow(first, link) ==
  LET step == link @@ (None :> None)
      at[k \in 1..Cardinality(Dirents) + 1] == IF k = 1 THEN first ELSE step[at[k - 1]]
  IN  SelectSeq([k \in 1..Cardinality(Dirents) + 1 |-> at[k]], LAMBDA d : d # None)

Forward == Follow(c.head, c.next)

\* The list is the same in both directions, it is as long as currentSize says,
\* and contains, which looks only at the links of a Dirent, is membership:
\* also for Dirents that left the list at either end or as the only one.
ContainsIsMembership ==
  /\ Forward = Reverse(Follow(c.tail, c.prev))
  /\ Len(Forward) = c.currentSize
  /\ \A d \in Dirents : contains(c, d) <=> \E k \in DOMAIN Forward : Forward[k] = d

\* The references are those of users, of the cache and of children that are
\* alive, and direntRefs is the sum of them: nothing that is in the cache is
\* destroyed, nothing else is kept alive, and the mount can be destroyed.
ReferencesAddUp ==
  /\ \A d \in Dirents :
       c.refs[d] = users[d] + Quantify(DOMAIN Forward, LAMBDA k : Forward[k] = d)
                     + Quantify(Dirents, LAMBDA e : Parent[e] = d /\ c.refs[e] > 0)
  /\ c.direntRefs = FoldFunction(+, 0, c.refs)

Abstract == INSTANCE LRU WITH cache <- Forward

\* "DirentCache is an LRU cache of Dirents": the list with its links behaves
\* as a bounded sequence in the order of use.
IsLRU == Abstract!Spec
=============================================================================
