------------------------------ MODULE MCRootfs ------------------------------
(***************************************************************************)
(* The root file system of a container: instances of ZarMount, ImgFSMount, *)
(* OverlayStack and OverlayTree, side by side.  Init chooses which of them *)
(* a behaviour is of, and the others stay as they began.                   *)
(***************************************************************************)
EXTENDS ZarMount, ZarTrees

CONSTANT MaxOps

VARIABLES
  part,
  list, next, dir, made, masked, mount, images, packageFD, option, mounts,
  layers,
  lower, upper, white, dirents, ops, fs, call

\* ZarMount: all trees of depth two with empty files, files of a page and
\* longer ones.
MCNames == {1, 2}
MCSizes == {0, 3, 4}
MCTrees == TreesOver(MCNames, MCSizes)

-----------------------------------------------------------------------------
\* ImgFSMount: lists of up to four entries over two names, one of them of
\* unknown type.
MCEntry(type, name, n) == [Type |-> type, Name |-> name, Begin |-> n, End |-> n + 1, Link |-> <<>>]
MCEntries(n) ==
  {MCEntry("file", 1, n), MCEntry("dir", 1, n), MCEntry("dir", 2, n), MCEntry("dir", DotDot, n),
   MCEntry("symlink", 2, n), MCEntry("whiteout", 2, n), MCEntry("device", 1, n)}
MCLists == {<<>>} \cup
  {l \in UNION {[1..n -> UNION {MCEntries(k) : k \in 1..4}] : n \in 1..4} :
     \A k \in DOMAIN l : l[k].Begin = k}

M == INSTANCE ImgFSMount WITH
       Lists <- MCLists, MaxMounts <- 2, PageSize <- 2,
       metadata <- list, i <- next, cur <- dir, inodes <- made, whiteouts <- masked,
       state <- mount

mountingVars == <<list, next, dir, made, masked, mount, images, packageFD, option, mounts>>

-----------------------------------------------------------------------------
\* OverlayStack: all layers over a name, what may be below it, and whiteouts
\* for both.
A == <<1>>
AA == <<1, 1>>
B == <<2>>
BA == <<2, 1>>
MCLayerTrees ==
  {<<>>} \cup [{A} -> {"file", "symlink", "dir"}]
         \cup {f \in [{A, AA} -> {"file", "dir"}] : f[A] = "dir"}
MCLayers ==
  {l \in [tree : MCLayerTrees, white : SUBSET {A, AA}] :
     AA \in l.white => A \in DOMAIN l.tree /\ l.tree[A] = "dir"}

S == INSTANCE OverlayStack WITH
       Layers <- MCLayers, Paths <- {A, AA}, MaxLayers <- 4, stack <- layers

-----------------------------------------------------------------------------
\* OverlayTree: two names, two levels; lower trees with a file, a link and a
\* directory.
MCPaths == {A, B, AA, BA}
MCTree(P, type) == [p \in P |-> [type |-> type[p], id |-> 10 * p[1] + Len(p)]]
MCTwoDirs == MCTree(MCPaths, [p \in MCPaths |-> IF Len(p) = 1 THEN "dir" ELSE "file"])
MCLowers ==
  {MCTree({A, AA, B}, [p \in MCPaths |-> IF p = A THEN "dir" ELSE "file"]),
   MCTree({A, B}, [p \in MCPaths |-> IF p = A THEN "file" ELSE "symlink"]),
   MCTwoDirs}

O == INSTANCE OverlayTree WITH Paths <- MCPaths, Lowers <- MCLowers

treeVars == <<lower, upper, white, dirents, ops, fs, call>>

-----------------------------------------------------------------------------
mcvars == <<part, allVars, mountingVars, layers, treeVars>>

MCInit ==
  /\ part \in {"image", "mount", "stack", "overlay"}
  /\ part # "image" => config = "seq" /\ align = "packed"
  /\ part # "overlay" => lower = MCTwoDirs
  /\ ZarInit /\ S!Init /\ O!TreeInit
  /\ IF part = "mount" THEN M!Init
     ELSE M!MountInit /\ images = <<>> /\ packageFD = 0 /\ option = {} /\ mounts = 0

MCNext ==
  \/ part = "image" /\ ZarNext /\ UNCHANGED <<part, mountingVars, layers, treeVars>>
  \/ part = "mount" /\ M!Next /\ UNCHANGED <<part, allVars, layers, treeVars>>
  \/ part = "stack" /\ S!Next /\ UNCHANGED <<part, allVars, mountingVars, treeVars>>
  \/ part = "overlay" /\ O!TreeNext /\ UNCHANGED <<part, allVars, mountingVars, layers>>

MCSpec == MCInit /\ [][MCNext]_mcvars

-----------------------------------------------------------------------------
\* MountImgRecursive builds the tree that the list describes, whiteouts
\* included, and a mount that names a descriptor mounts the image behind it
\* (ImgFSMount).
MountsTheImage == M!TypeOK /\ M!BuildsTheTree /\ M!MountsNamedImage

\* Lookups and listings of the stack of layers show what no layer above hides,
\* and nothing else (OverlayStack).
ShowsVisible == S!ShowsVisible

\* Walks, listings and what is in memory agree, however entries were created,
\* removed and moved about (Overlay).
ViewsAgree == O!ViewsAgree

\* Every operation does to the merged view what it would do to one tree
\* (OverlayTree).
ImplementsFileTree == O!ImplementsFileTree

\* What was removed is gone (Overlay).
RemovedIsGone == O!RemovedIsGone
=============================================================================
