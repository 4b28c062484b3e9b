---------------------------- MODULE OverlayStack ----------------------------
(***************************************************************************)
(* runsc/boot/fs.go, mountExpFS: the read-only root of a container is a    *)
(* stack of overlays, one per image layer.  The first layer (or the tree   *)
(* of mount points) is the base; each further one is mounted by imgfs and  *)
(* becomes the upper file system of an overlay whose lower file system is  *)
(* the stack so far, so a lookup recurses through all of them.             *)
(*                                                                         *)
(* A layer is a tree, a function from paths to types, and the set of paths *)
(* it has whiteouts for.  An inode of the stack is the set of layers whose *)
(* inodes it merges.                                                       *)
(***************************************************************************)
EXTENDS Integers, Sequences, SequencesExt, OverlayLookup

CONSTANTS
  Layers,     \* the layers to choose from
  Paths,      \* the paths they are about
  MaxLayers   \* bound on the height of the stack

VARIABLE stack   \* the layers mounted so far, the base first

Root == <<>>

\* The type a layer has at a path.
TypeIn(layer, p) ==
  IF p = Root THEN "dir" ELSE IF p \in DOMAIN layer.tree THEN layer.tree[p] ELSE "none"

RECURSIVE Inode(_, _)

\* The type of an inode is that of its topmost layer.
InodeType(layers, p) ==
  IF layers = {} THEN "none" ELSE TypeIn(stack[CHOOSE k \in layers : \A j \in layers : j <= k], p)

\* What path p resolves to in the overlay of the first k layers.  At k = 1
\* there is no overlay: the base is looked up by itself.
Inode(k, p) ==
  IF k = 0 THEN {}
  ELSE IF p = Root THEN 1..k
  ELSE LET parent == Inode(k, Front(p))
           isDir == InodeType(parent, Front(p)) = "dir"
           upper == isDir /\ k \in parent
           lower == isDir /\ parent \ {k} # {}
           below == IF lower THEN Inode(k - 1, p) ELSE {}
           entry == overlayLookup(IF upper THEN TypeIn(stack[k], p) ELSE "none",
                                  upper /\ k > 1 /\ p \in stack[k].white,
                                  InodeType(below, p))
       IN  (IF entry.upper THEN {k} ELSE {}) \cup (IF entry.lower THEN below ELSE {})

Top == Len(stack)
Lookup(p) == Inode(Top, p)
LookupType(p) == InodeType(Lookup(p), p)

RECURSIVE Readdir(_, _)

Children(layer, d) == {p[Len(p)] : p \in {q \in DOMAIN layer.tree : Front(q) = d}}
Whiteouts(layer, d) == {p[Len(p)] : p \in {q \in layer.white : Front(q) = d}}

\* The names in directory d of the overlay of the first k layers.
Readdir(k, d) ==
  IF k = 0 THEN {}
  ELSE LET inode == Inode(k, d)
       IN  readdirEntries(IF k \in inode THEN Children(stack[k], d) ELSE {},
                          IF inode \ {k} # {} THEN Readdir(k - 1, d) ELSE {},
                          IF k \in inode /\ k > 1 THEN Whiteouts(stack[k], d) ELSE {})

-----------------------------------------------------------------------------
Init == stack = <<>>

\* One iteration of the loop of mountExpFS: NewOverlayRoot over what is there.
NewOverlayRoot(layer) ==
  /\ Len(stack) < MaxLayers
  /\ stack' = Append(stack, layer)

Next == \E layer \in Layers : NewOverlayRoot(layer)

Spec == Init /\ [][Next]_stack
-----------------------------------------------------------------------------
AtOrAbove(p) == Prefixes(p) \ {Root}

\* Layer j hides what layer k below it has at p.
Hides(j, k, p) ==
  \E q \in AtOrAbove(p) :
    \/ q \in stack[j].white
    \/ /\ TypeIn(stack[j], q) # "none"
       /\ ~(TypeIn(stack[j], q) = "dir" /\ TypeIn(stack[k], q) = "dir")

\* The nested lookups find, at every path and whatever the layers, exactly
\* the layers that have the path and that no layer above them hides by a
\* whiteout or by something of another type at the path or above it.
LookupFindsVisible ==
  \A p \in Paths :
    Lookup(p) = {k \in 1..Top : /\ TypeIn(stack[k], p) # "none"
                                /\ \A j \in k + 1..Top : ~Hides(j, k, p)}

\* A directory lists a name if and only if looking up the name succeeds,
\* through all the layers.
ReaddirMatchesLookup ==
  Top > 0 =>
    \A d \in Paths \cup {Root} : LookupType(d) = "dir" =>
      Readdir(Top, d) = {p[Len(p)] : p \in {q \in Paths : Front(q) = d /\ Lookup(q) # {}}}

\* The stack of overlays shows what is visible, to lookups and in listings.
ShowsVisible == LookupFindsVisible /\ ReaddirMatchesLookup
=============================================================================
