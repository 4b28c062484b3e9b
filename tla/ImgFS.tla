------------------------------- MODULE ImgFS -------------------------------
(***************************************************************************)
(* pkg/sentry/fs/imgfs: mounting an image and reading and mapping its      *)
(* files.  MountImgRecursive turns the flat list of metadata into a tree   *)
(* of inodes; one iteration of its loop is one step.  The recursion shares *)
(* the index i, so the active calls are described by the path cur of the   *)
(* directory being filled.  The directories under construction and the     *)
(* finished ones are one map from paths to inodes: contents[name] = inode  *)
(* replaces whatever the map had at that path, with all that is below it.  *)
(***************************************************************************)
EXTENDS Integers, Sequences, SequencesExt

CONSTANT PageSize

VARIABLES
  metadata,   \* the decoded list
  i,          \* index of the next entry, shared by the recursive calls
  cur,        \* path of the directory the innermost call is filling
  inodes,     \* path -> inode
  whiteouts,  \* <<directory, name>>: XattrOverlayWhiteout(name) is set
  state       \* "unmounted", "mounting", "mounted", "error"

mountVars == <<metadata, i, cur, inodes, whiteouts, state>>

ParentDir == 0   \* the name ".."

MountInit ==
  /\ metadata = <<>> /\ i = 1 /\ cur = <<>>
  /\ inodes = <<>> /\ whiteouts = {}
  /\ state = "unmounted"

\* Filesystem.Mount, once the list has been found and decoded.
Mount(list) ==
  /\ state = "unmounted"
  /\ metadata' = list
  /\ state' = "mounting"
  /\ UNCHANGED <<i, cur, inodes, whiteouts>>

-----------------------------------------------------------------------------
Entry == metadata[i]
More == state = "mounting" /\ i <= Len(metadata)

\* The map and the whiteouts without what is at or below a path.
Without(path) == [p \in {q \in DOMAIN inodes : ~IsPrefix(path, q)} |-> inodes[p]]
WhiteoutsOutside(path) == {w \in whiteouts : ~IsPrefix(path, w[1])}

\* contents[name] = inode in the current directory.
Add(name, inode) ==
  LET path == Append(cur, name)
      rest == Without(path)
  IN  /\ inodes' = [p \in DOMAIN rest \cup {path} |-> IF p = path THEN inode ELSE rest[p]]
      /\ whiteouts' = WhiteoutsOutside(path)

Advance == i' = i + 1

MountFile ==
  /\ More /\ Entry.Type = "file"
  /\ Add(Entry.Name, [type |-> "file", Begin |-> Entry.Begin, End |-> Entry.End])
  /\ Advance
  /\ UNCHANGED <<metadata, cur, state>>

MountSymlink ==
  /\ More /\ Entry.Type = "symlink"
  /\ Add(Entry.Name, [type |-> "symlink", link |-> Entry.Link])
  /\ Advance
  /\ UNCHANGED <<metadata, cur, state>>

\* A variant that does not enter the directory it creates.
Enter_Stay(name) == UNCHANGED cur

Enter(name) == cur' = Append(cur, name)

\* The recursive call for a directory begins.
MountDirectory ==
  /\ More /\ Entry.Type = "dir" /\ Entry.Name # ParentDir
  /\ Add(Entry.Name, [type |-> "dir"])
  /\ Enter(Entry.Name)
  /\ Advance
  /\ UNCHANGED <<metadata, state>>

\* A variant that leaves every directory at once.
Leave_All ==
  IF cur = <<>> THEN state' = "mounted" /\ UNCHANGED cur ELSE cur' = <<>> /\ UNCHANGED state

\* The innermost call returns; at the root the mount is complete, whatever
\* follows in the list.
Leave ==
  IF cur = <<>> THEN state' = "mounted" /\ UNCHANGED cur
                ELSE cur' = Front(cur) /\ UNCHANGED state

MountFolderEnd ==
  /\ More /\ Entry.Type = "dir" /\ Entry.Name = ParentDir
  /\ Leave
  /\ Advance
  /\ UNCHANGED <<metadata, inodes, whiteouts>>

MountWhiteout ==
  /\ More /\ Entry.Type = "whiteout"
  /\ whiteouts' = whiteouts \cup {<<cur, Entry.Name>>}
  /\ Advance
  /\ UNCHANGED <<metadata, cur, inodes, state>>

MountUnknown ==
  /\ More /\ Entry.Type \notin {"file", "symlink", "dir", "whiteout"}
  /\ state' = "error"
  /\ UNCHANGED <<metadata, i, cur, inodes, whiteouts>>

\* The list is exhausted: every active call returns its directory.
MountReturn ==
  /\ state = "mounting" /\ i > Len(metadata)
  /\ state' = "mounted"
  /\ UNCHANGED <<metadata, i, cur, inodes, whiteouts>>

MountNext ==
  \/ MountFile \/ MountSymlink \/ MountDirectory \/ MountFolderEnd
  \/ MountWhiteout \/ MountUnknown \/ MountReturn

-----------------------------------------------------------------------------
(* Reading and mapping a regular file of a mounted image.                  *)

Size(inode) == inode.End - inode.Begin

\* The bytes [from, to) of the image, as a Go slice expression.
Slice(image, from, to) == SubSeq(image, from + 1, to)

\* The bytes of the file from an offset on.
Source(image, inode, offset) == Slice(image, inode.Begin + offset, inode.End)

\* read and ReadToBlocks: up to n bytes at an offset.
Read(image, inode, offset, n) ==
  IF n = 0 \/ offset >= Size(inode) THEN <<>>
  ELSE LET src == Source(image, inode, offset)
       IN  SubSeq(src, 1, IF n < Len(src) THEN n ELSE Len(src))

\* A variant that stops at the last byte of the file.
Boundary_EndOfFile(inode) == inode.End

\* The end of the page after offsetEnd.
Boundary(inode) == (inode.End - (inode.End % PageSize)) + PageSize

\* MapInternal of the file offsets [start, end), end > start.
MapInternal(image, inode, start, end) ==
  LET from == inode.Begin + start
      to == inode.Begin + end
  IN  IF from > Boundary(inode) THEN <<"EACCES">>
      ELSE Slice(image, from, IF to > Boundary(inode) THEN Boundary(inode) ELSE to)

\* What a platform maps that uses FD() and the offset that Translate returns
\* (ptrace): the file is the whole image and the offset is that of the caller.
MapFD(image, start, end) == Slice(image, start, end)
=============================================================================
