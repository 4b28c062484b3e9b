----------------------------- MODULE ZarMount ------------------------------
(***************************************************************************)
(* The generator and the file system together: an image made by ZarWriter  *)
(* is mounted by ImgFS, which finds the metadata by the offset at the end. *)
(***************************************************************************)
EXTENDS ZarWriter

VARIABLES metadata, i, cur, inodes, whiteouts, state

FS == INSTANCE ImgFS

mountVars == <<metadata, i, cur, inodes, whiteouts, state>>
allVars == <<vars, mountVars>>

MountImage ==
  /\ Complete
  /\ FS!Mount(disk[Last(disk).n + 1].list)
  /\ UNCHANGED vars

ZarInit == Init /\ FS!MountInit

ZarNext ==
  \/ Next /\ UNCHANGED mountVars
  \/ MountImage
  \/ FS!MountNext /\ UNCHANGED vars

ZarSpec == ZarInit /\ [][ZarNext]_allVars

-----------------------------------------------------------------------------
Files == {p \in DOMAIN inodes : inodes[p].type = "file"}

\* What the file at path p of a mounted directory tree contains.
Expected(p) == Content(p, tree[p].size)

\* Every read of a mounted file returns the bytes of that file and no others,
\* at every offset and length, up to and past the end.
ReadsFile ==
  \A p \in Files \cap DOMAIN tree : \A offset \in 0..tree[p].size + 1, n \in 0..tree[p].size + 1 :
    FS!Read(disk, inodes[p], offset, n)
      = SubSeq(Expected(p), offset + 1, IF offset + n < tree[p].size THEN offset + n ELSE tree[p].size)

\* Mounting what ZarManager.WalkDir wrote gives back the directory tree:
\* the same paths, types, links and contents.
RoundTrip ==
  /\ TypeOK
  /\ state = "mounted" /\ config = "dir" =>
       /\ DOMAIN inodes = DOMAIN tree
       /\ ReadsFile
       /\ \A p \in DOMAIN tree :
            /\ inodes[p].type = tree[p].type
            /\ tree[p].type = "symlink" => inodes[p].link = p

\* With -pagealign every page of a file is mapped with its bytes and zeros
\* after the last one.
MapsFile ==
  state = "mounted" /\ config = "dir" /\ align = "pagealign" =>
    \A p \in Files \cap DOMAIN tree : \A page \in 0..((tree[p].size - 1) \div PageSize) :
      LET start == page * PageSize
          end == start + PageSize
          data == SubSeq(Expected(p), start + 1, IF end < tree[p].size THEN end ELSE tree[p].size)
      IN  FS!MapInternal(disk, inodes[p], start, end) = data \o Zeros(PageSize - Len(data))

\* "FD returns the file descriptor represented by the File", and Translate's
\* "Offset is the offset into File": mapping the descriptor at the offset
\* shows the page that MapInternal shows.
FDShowsFile ==
  state = "mounted" /\ config = "dir" /\ align = "pagealign" =>
    \A p \in Files \cap DOMAIN tree : \A page \in 0..((tree[p].size - 1) \div PageSize) :
      LET start == page * PageSize
          end == start + PageSize
      IN  FS!MapFD(disk, start, end) = FS!MapInternal(disk, inodes[p], start, end)

\* Directories closed as often as they are opened, and never before.
Opened(k) == Len(SelectSeq(SubSeq(Metadata, 1, k), LAMBDA m : m.Type = "dir" /\ m.Name # DotDot))
Closed(k) == Len(SelectSeq(SubSeq(Metadata, 1, k), LAMBDA m : m.Type = "dir" /\ m.Name = DotDot))
Balanced == \A k \in 1..Len(Metadata) : Closed(k) <= Opened(k)

\* A config file whose "ed" lines all close something loses no file to the
\* mount: each file is mounted where the open directories say, unless a later
\* line reuses the path of it or of a directory it is in.
OpenAt(k) ==
  FoldLeft(LAMBDA path, m : IF m.Type # "dir" THEN path
                            ELSE IF m.Name = DotDot THEN Front(path) ELSE Append(path, m.Name),
           <<>>, SubSeq(Metadata, 1, k - 1))
PathOf(k) == Append(OpenAt(k), Metadata[k].Name)
Reused(k) == \E j \in k + 1..Len(Metadata) :
               Metadata[j].Name # DotDot /\ IsPrefix(PathOf(j), PathOf(k))

ConfigMounted ==
  state = "mounted" /\ config = "seq" /\ Balanced =>
    \A k \in DOMAIN Metadata : Regular(k) /\ ~Reused(k) =>
      /\ PathOf(k) \in DOMAIN inodes
      /\ inodes[PathOf(k)].type = "file"
      /\ FS!Read(disk, inodes[PathOf(k)], 0, origin[k].size) = Content(origin[k].id, origin[k].size)
=============================================================================
