------------------------------- MODULE Overlay -------------------------------
(***************************************************************************)
(* pkg/sentry/fs: the operations of a writable overlay.  An upper tmpfs    *)
(* takes all changes, a read-only lower tree (the stack of image layers)   *)
(* shows through where the upper has neither an entry nor a whiteout.      *)
(*                                                                         *)
(* The Dirents that are in memory carry overlayEntries whose upper, lower  *)
(* and lowerExists were decided by overlayLookup when the Dirent was made; *)
(* they move along with a rename.  Evict forgets a Dirent that nobody      *)
(* refers to.  Every operation runs under renameMu and the locks of the    *)
(* directories it changes, so it is one step; copy-up, which is not, is    *)
(* the subject of module CopyUp.                                           *)
(*                                                                         *)
(* The upper inode of an entry is the node that upper has at the path of   *)
(* the Dirent.  Whiteouts are extended attributes of the upper directory;  *)
(* white has the paths they mask.  Hard links, sockets and fifos are left  *)
(* out, and so are operations in a directory that has been removed but is  *)
(* still open.                                                             *)
(***************************************************************************)
EXTENDS Integers, Sequences, SequencesExt, OverlayLookup

CONSTANTS
  Paths,    \* the paths of the model, prefix-closed, without the root
  Lowers,   \* the lower trees to choose from
  MaxOps    \* bound on the number of operations

VARIABLES
  lower,    \* path -> node, never modified
  upper,    \* path -> node
  white,    \* paths masked by a whiteout
  dirents,  \* path -> overlayEntry of a Dirent in memory
  ops       \* number of operations so far

vars == <<lower, upper, white, dirents, ops>>

Root == <<>>

\* The ids of what was created and of what was written to.
NewId == 0
WrittenId == -1
Node(type, id) == [type |-> type, id |-> id]
Entry(u, l, e) == [upper |-> u, lower |-> l, lowerExists |-> e]

AtOrBelow(p, S) == {q \in S : IsPrefix(p, q)}
AtOrAbove(p) == Prefixes(p) \ {Root}

Init ==
  /\ lower \in Lowers
  /\ upper = <<>> /\ white = {}
  /\ dirents = [p \in {Root} |-> Entry(TRUE, {Root}, TRUE)]
  /\ ops = 0

-----------------------------------------------------------------------------
TypeAt(tree, p) == IF p \in DOMAIN tree THEN tree[p].type ELSE "none"

\* The node an entry at path p stands for: that of the upper, if there is one.
NodeOf(p, entry) ==
  IF p = Root THEN Node("dir", NewId)
  ELSE IF entry.upper THEN upper[p] ELSE lower[CHOOSE q \in entry.lower : TRUE]

IsDir(p, entry) == ~Missing(entry) /\ NodeOf(p, entry).type = "dir"

\* overlayLookup of the last name of p in the directory entry of Front(p).
Lookup(parent, p) ==
  LET below == {Append(q, Last(p)) : q \in parent.lower}
      r == overlayLookup(IF parent.upper THEN TypeAt(upper, p) ELSE "none",
                         parent.upper /\ p \in white,
                         IF parent.lower = {} THEN "none"
                         ELSE TypeAt(lower, CHOOSE q \in below : TRUE))
  IN  Entry(r.upper, IF r.lower THEN below ELSE {}, r.lowerExists)

NoEntry == Entry(FALSE, {}, FALSE)

\* Dirent.walk: the Dirent in memory, or else a lookup.
RECURSIVE Walk(_)
Walk(p) ==
  IF p \in DOMAIN dirents THEN dirents[p]
  ELSE LET parent == Walk(Front(p))
       IN  IF IsDir(Front(p), parent) THEN Lookup(parent, p) ELSE NoEntry

\* readdirOne of an overlay directory at path d.
Readdir(d, entry) ==
  LET names(tree, q) == {Last(p) : p \in {r \in DOMAIN tree : r # Root /\ Front(r) = q}}
  IN  readdirEntries(IF entry.upper THEN names(upper, d) ELSE {},
                     UNION {names(lower, q) : q \in entry.lower},
                     IF entry.upper THEN {Last(p) : p \in {r \in white : Front(r) = d}} ELSE {})

-----------------------------------------------------------------------------
\* copyUpLockedForRename: what is not yet in the upper on the way to p.  The
\* Dirents on the way are in memory: each holds a reference on its parent.
Copied(p) == {q \in AtOrAbove(p) : ~Walk(q).upper}

CopyUp(S) == [q \in DOMAIN upper \cup S |-> IF q \in S THEN NodeOf(q, Walk(q)) ELSE upper[q]]
UpperEntries(S) ==
  [q \in DOMAIN dirents \cup S |-> IF q \in S THEN [Walk(q) EXCEPT !.upper = TRUE] ELSE dirents[q]]

Without(f, S) == [q \in DOMAIN f \ S |-> f[q]]
With(f, p, x) == [q \in DOMAIN f \cup {p} |-> IF q = p THEN x ELSE f[q]]

Dir(d) == d \in DOMAIN dirents /\ IsDir(d, dirents[d])
Operation == ops < MaxOps /\ ops' = ops + 1 /\ UNCHANGED lower

\* Dirent.Walk loads a Dirent.
Load(p) ==
  /\ p \notin DOMAIN dirents /\ Dir(Front(p)) /\ ~Missing(Walk(p))
  /\ dirents' = With(dirents, p, Walk(p))
  /\ UNCHANGED <<lower, upper, white, ops>>

\* The last reference to a Dirent without children in memory is dropped.
Evict(p) ==
  /\ p \in DOMAIN dirents \ {Root} /\ AtOrBelow(p, DOMAIN dirents) = {p}
  /\ dirents' = Without(dirents, {p})
  /\ UNCHANGED <<lower, upper, white, ops>>

\* overlayCreate: the Dirent of the new file is in memory.
Create(p) ==
  /\ Operation /\ Dir(Front(p)) /\ Missing(Walk(p))
  /\ upper' = With(CopyUp(Copied(Front(p))), p, Node("file", NewId))
  /\ dirents' = With(UpperEntries(Copied(Front(p))), p, Entry(TRUE, {}, FALSE))
  /\ UNCHANGED white

\* overlayCreateDirectory and overlayCreateLink.
GenericCreate(p, type) ==
  /\ Operation /\ Dir(Front(p)) /\ Missing(Walk(p))
  /\ upper' = With(CopyUp(Copied(Front(p))), p, Node(type, NewId))
  /\ dirents' = UpperEntries(Copied(Front(p)))
  /\ UNCHANGED white

\* overlayGetFile for writing and a write, overlayTruncate and the like.
Write(p) ==
  /\ Operation /\ p \in DOMAIN dirents /\ NodeOf(p, dirents[p]).type = "file"
  /\ upper' = With(CopyUp(Copied(p)), p, Node("file", WrittenId))
  /\ dirents' = UpperEntries(Copied(p))
  /\ UNCHANGED white

\* A variant that relies on the upper entry hiding the lower one.
MaskAfterRemove_UpperOnly(p, entry) == IF entry.upper THEN white ELSE white \cup {p}

\* "If lowerExists is true, then the overlay must create a whiteout".
MaskAfterRemove(p, entry) == IF entry.lowerExists THEN white \cup {p} ELSE white

\* overlayRemove of a file or link.
RemoveFile(p) ==
  LET entry == Walk(p)
  IN  /\ Operation /\ Dir(Front(p)) /\ ~Missing(entry) /\ ~IsDir(p, entry)
      /\ upper' = Without(CopyUp(Copied(Front(p))), {p})
      /\ white' = MaskAfterRemove(p, entry)
      /\ dirents' = Without(UpperEntries(Copied(Front(p))), {p})

\* overlayRemove of a directory.  Only the upper file system looks whether it
\* is empty; its whiteouts go with it.
RemoveDirectory(p) ==
  LET entry == Walk(p)
      below == AtOrBelow(p, Paths) \ {p}
  IN  /\ Operation /\ Dir(Front(p)) /\ IsDir(p, entry)
      /\ entry.upper => below \cap DOMAIN upper = {}
      /\ upper' = Without(CopyUp(Copied(Front(p))), {p})
      /\ white' = MaskAfterRemove(p, entry) \ below
      /\ dirents' = Without(UpperEntries(Copied(Front(p))), {p} \cup below)

\* The path below new of what was at path p below old, and back.
MovedTo(old, new, p) == new \o SubSeq(p, Len(old) + 1, Len(p))

\* f with all that is below old (and old) at new, in place of what was there.
Moved(f, old, new) ==
  LET to == {MovedTo(old, new, p) : p \in AtOrBelow(old, DOMAIN f)}
      kept == DOMAIN f \ (AtOrBelow(old, DOMAIN f) \cup AtOrBelow(new, DOMAIN f))
  IN  [p \in kept \cup to |-> IF p \in to THEN f[MovedTo(new, old, p)] ELSE f[p]]

\* "rejecting renames that replace non-empty directories"
Replaceable(new, entry) == IsDir(new, entry) => Readdir(new, entry) = {}

\* Dirent.Rename and overlayRename.  What is replaced is looked up again.
\* The flush at the end forgets Dirents that nobody refers to, as Evict does.
Rename(old, new) ==
  LET renamed == Walk(old)
      replaced == Walk(new)
      found == Lookup(dirents[Front(new)], new)
      copied == Copied(old) \cup Copied(Front(new))
      below == {p \in white : IsStrictPrefix(old, p)}
  IN  /\ Operation
      /\ Dir(Front(old)) /\ Dir(Front(new)) /\ ~Missing(renamed)
      /\ ~IsPrefix(old, new) /\ ~IsPrefix(new, old)
      /\ IsDir(old, renamed) => {MovedTo(old, new, p) : p \in AtOrBelow(old, Paths)} \subseteq Paths
      /\ ~Missing(replaced) =>
           /\ IsDir(old, renamed) = IsDir(new, replaced)
           /\ Replaceable(new, found)
      /\ upper' = Moved(CopyUp(copied), old, new)
      /\ white' = (white \ (below \cup {p \in white : IsStrictPrefix(new, p)}))
                    \cup {MovedTo(old, new, p) : p \in below}
                    \cup (IF renamed.lowerExists THEN {old} ELSE {})
      /\ dirents' = Moved(UpperEntries(copied), old, new)

-----------------------------------------------------------------------------
Common(p) ==
  \/ Load(p) \/ Evict(p)
  \/ Create(p) \/ GenericCreate(p, "dir") \/ GenericCreate(p, "symlink")
  \/ Write(p)
  \/ RemoveFile(p)

Next ==
  \/ \E p \in Paths : Common(p) \/ RemoveDirectory(p)
  \/ \E old, new \in Paths : Rename(old, new)

Spec == Init /\ [][Next]_vars

-----------------------------------------------------------------------------
\* What a user sees: every path that resolves, with its node.
View == LET seen == {p \in Paths : ~Missing(Walk(p))}
        IN  [p \in seen |-> NodeOf(p, Walk(p))]

\* The bookkeeping of Dirents: parents are in memory and are directories, and
\* an entry has an upper inode exactly when the upper file system has its path.
TypeOK ==
  /\ \A p \in DOMAIN dirents :
       /\ p # Root => Front(p) \in DOMAIN dirents
       /\ p # Root => (dirents[p].upper <=> p \in DOMAIN upper)
       /\ dirents[p].upper \/ dirents[p].lower # {}
  /\ \A p \in DOMAIN upper : Len(p) > 1 => TypeAt(upper, Front(p)) = "dir"

\* Dirent.Rename believes what is in memory and overlayRename what it looks up
\* again; ramfs panics if there is nothing to replace.  They always agree on
\* whether a name exists, and on where, however entries were moved about.
CacheMatchesLookup ==
  \A p \in DOMAIN dirents \ {Root} :
    LET found == Lookup(dirents[Front(p)], p)
    IN  ~Missing(found) /\ (found.upper <=> dirents[p].upper)

\* Whatever was renamed, replaced or deleted, a directory lists a name if and
\* only if the name can be looked up.
ReaddirMatchesWalk ==
  \A d \in DOMAIN dirents : IsDir(d, dirents[d]) =>
    Readdir(d, dirents[d]) = {Last(p) : p \in {q \in Paths : Front(q) = d /\ ~Missing(Lookup(dirents[d], q))}}

\* Walks, listings and what is in memory agree.
ViewsAgree == TypeOK /\ CacheMatchesLookup /\ ReaddirMatchesWalk

\* "the overlay must create a whiteout entry when renaming and removing this
\* entry to mask the lower Inode" (overlayEntry): what was removed is gone.
RemovedIsGone ==
  [][\A p \in Paths : RemoveFile(p) => Missing(Lookup(dirents[Front(p)], p))']_vars
=============================================================================
