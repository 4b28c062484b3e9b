----------------------------- MODULE ImgFSMount -----------------------------
(***************************************************************************)
(* imgfs.Filesystem.Mount: successive mounts by the one registered         *)
(* Filesystem, which keeps packageFD between mounts.  A mount names its    *)
(* image in the option packageFD; the images are arbitrary lists of        *)
(* metadata, not only those the generator writes.                          *)
(***************************************************************************)
EXTENDS ImgFS

CONSTANTS
  Lists,      \* metadata lists an image may have
  MaxMounts   \* bound on the number of mounts

VARIABLES
  images,     \* descriptor -> metadata list
  packageFD,  \* Filesystem.packageFD
  option,     \* the packageFD option of the last mount: {} or {number}
  mounts      \* number of mounts so far

vars == <<mountVars, images, packageFD, option, mounts>>

Init ==
  /\ MountInit
  /\ \E list \in Lists : images = <<list, <<>>>>
  /\ packageFD = 0
  /\ option = {}
  /\ mounts = 0

\* The descriptor in use after the options are parsed.
Chosen(opt) == IF opt = {} THEN packageFD ELSE CHOOSE fd \in opt : TRUE

\* Mount up to the first call of MountImgRecursive.  It fails on a number
\* that does not parse, on a descriptor that is not positive, on unknown
\* options and when the host cannot stat or map the image or the list cannot
\* be decoded; packageFD has been stored before most of these checks.
MountImage(opt, parses, succeeds) ==
  /\ state # "mounting" /\ mounts < MaxMounts
  /\ mounts' = mounts + 1
  /\ option' = opt
  /\ packageFD' = IF parses THEN Chosen(opt) ELSE packageFD
  /\ i' = 1 /\ cur' = <<>> /\ inodes' = <<>> /\ whiteouts' = {}
  /\ IF parses /\ packageFD' > 0 /\ succeeds
       THEN state' = "mounting" /\ metadata' = images[packageFD']
       ELSE state' = "error" /\ metadata' = <<>>
  /\ UNCHANGED images

MountStep == MountNext /\ UNCHANGED <<images, packageFD, option, mounts>>

Next ==
  \/ \E opt \in {{}, {0}, {1}, {2}}, parses, succeeds \in BOOLEAN : MountImage(opt, parses, succeeds)
  \/ MountStep

Spec == Init /\ [][Next]_vars

-----------------------------------------------------------------------------
TypeOK ==
  /\ state \in {"unmounted", "mounting", "mounted", "error"}
  /\ i \in 1..Len(metadata) + 1
  /\ packageFD \in 0..Len(images)
  /\ \A w \in whiteouts : w[1] = <<>> \/ w[1] \in DOMAIN inodes
  /\ cur # <<>> => cur \in DOMAIN inodes

(* A declarative account of the tree a list describes. *)
Begins(k) == metadata[k].Type = "dir" /\ metadata[k].Name # ParentDir
Ends(k) == metadata[k].Type = "dir" /\ metadata[k].Name = ParentDir

\* Entry j is the directory that entry k > j is directly or indirectly in.
Encloses(j, k) ==
  /\ j < k /\ Begins(j)
  /\ \A m \in j + 1..k - 1 :
       Len(SelectSeq(SubSeq(metadata, j + 1, m), LAMBDA e : e.Type = "dir" /\ e.Name = ParentDir))
         <= Len(SelectSeq(SubSeq(metadata, j + 1, m), LAMBDA e : e.Type = "dir" /\ e.Name # ParentDir))

\* The path of the directory of entry k: the names of what encloses it.
DirOf(k) == LET js == SetToSortSeq({j \in 1..k - 1 : Encloses(j, k)}, <)
            IN  [n \in DOMAIN js |-> metadata[js[n]].Name]
PathOf(k) == Append(DirOf(k), metadata[k].Name)

\* A folder end that closes nothing stops the mount; what follows is ignored.
Stops == {k \in DOMAIN metadata : Ends(k) /\ ~\E j \in 1..k - 1 : Encloses(j, k)}
Seen == {k \in DOMAIN metadata : \A s \in Stops : k < s}
Creates(k) == metadata[k].Type \in {"file", "symlink"} \/ Begins(k)

\* Entry k is in the tree unless a later one takes over its path or the path
\* of a directory it is in.
Visible(k) == ~\E m \in Seen : m > k /\ Creates(m) /\ IsPrefix(PathOf(m), PathOf(k))

\* The whiteout attributes end up on the directory their entry is in, and
\* only there, although they are set after its contents were built.
WhiteoutsInPlace ==
  whiteouts = {<<DirOf(k), metadata[k].Name>> :
                 k \in {m \in Seen : metadata[m].Type = "whiteout"
                                     /\ ~\E c \in Seen : c > m /\ Creates(c)
                                                         /\ IsPrefix(PathOf(c), DirOf(m))}}

\* MountImgRecursive, with its shared index and its early return, builds the
\* tree the list describes: exactly the visible entries, each with the extent
\* or the link of its own entry, and the whiteouts.
BuildsTheTree ==
  state = "mounted" =>
    /\ WhiteoutsInPlace
    /\ DOMAIN inodes = {PathOf(k) : k \in {m \in Seen : Creates(m) /\ Visible(m)}}
    /\ \A k \in Seen : Creates(k) /\ Visible(k) =>
         LET inode == inodes[PathOf(k)]
         IN  /\ inode.type = metadata[k].Type
             /\ inode.type = "file" => inode.Begin = metadata[k].Begin /\ inode.End = metadata[k].End

\* A mount that names a descriptor mounts the image behind that descriptor,
\* whatever earlier mounts, failed ones included, left in the Filesystem.
MountsNamedImage ==
  state \in {"mounting", "mounted"} /\ option # {} =>
    \E fd \in option \cap DOMAIN images : metadata = images[fd]
=============================================================================
