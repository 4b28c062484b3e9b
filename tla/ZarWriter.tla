----------------------------- MODULE ZarWriter -----------------------------
(***************************************************************************)
(* imgGen: the zar image generator.  ZarManager.WalkDir copies a directory *)
(* tree into one image file, CManager.WalkDir copies what the lines of a   *)
(* config file name, and FileWriter puts the bytes in the file:            *)
(*                                                                         *)
(*    file contents, each padded to a page with -pagealign                 *)
(*    the list of FileMetadata (gob encoded)                               *)
(*    the offset of that list (a varint in ten bytes)                      *)
(*                                                                         *)
(* The image is a sequence of cells, one per byte of file content or       *)
(* padding; the encoded list is one cell and the ten bytes are one cell.   *)
(* The k-th byte of a file is Data(id, k) where id names the file.  Paths  *)
(* are sequences of names and names are numbers, in the order of ReadDir;  *)
(* the text of a symbolic link is named by the path of the link.           *)
(* Modification times, which are only passed through, are left out.        *)
(***************************************************************************)
EXTENDS Integers, Sequences, SequencesExt

CONSTANTS
  PageSize,   \* pageBoundary
  Trees,      \* the directory trees to choose from
  Names,      \* names in a config file
  Sizes,      \* sizes of the files a config file names
  MaxLines    \* bound on the lines of a config file

ASSUME PageSizePositive == PageSize \in Nat \ {0}
ASSUME SizesNatural == Sizes \subseteq Nat

VARIABLES
  tree,      \* path -> node: the directory tree below the root
  config,    \* the image is made from a config file
  align,     \* the -pagealign flag
  phase,     \* "walk", "header", "done", "fatal"
  stack,     \* the active calls of ZarManager.WalkDir
  disk,      \* the cells of the image
  Count,     \* FileWriter.Count
  Metadata,  \* ZarManager.Metadata
  origin     \* history: the file whose content each entry of Metadata is for

vars == <<tree, config, align, phase, stack, disk, Count, Metadata, origin>>

DotDot == 0
Data(id, k) == [kind |-> "data", id |-> id, k |-> k]
Zero == [kind |-> "zero"]
Gob(list) == [kind |-> "gob", list |-> list]
Loc(n) == [kind |-> "loc", n |-> n]

Content(id, n) == [k \in 1..n |-> Data(id, k)]
Zeros(n) == [k \in 1..n |-> Zero]

\* The names in a directory, in the order of ioutil.ReadDir.
ReadDir(dir) ==
  SetToSortSeq({p[Len(p)] : p \in {q \in DOMAIN tree : Len(q) > 0 /\ Front(q) = dir}}, <)

Frame(dir) == [dir |-> dir, files |-> ReadDir(dir), dirs |-> <<>>]

Init ==
  /\ config \in {"dir", "seq"}
  /\ tree \in IF config = "dir" THEN Trees ELSE {<<>>}
  /\ align \in {"pagealign", "packed"}
  /\ phase = "walk"
  /\ stack = IF config = "dir" THEN <<Frame(<<>>)>> ELSE <<>>
  /\ disk = <<>>
  /\ Count = 0
  /\ Metadata = <<>>
  /\ origin = <<>>

-----------------------------------------------------------------------------
\* The padding after n bytes.
Padding(n) == (PageSize - (n % PageSize)) % PageSize

\* realEnd
EndOffset(n) == Count + n

Counted(n, pad) == Count + n + pad

\* FileWriter.Write of n bytes of file id, then the FileMetadata of the file.
IncludeFile(name, id, n) ==
  LET pad == IF align = "pagealign" THEN Padding(n) ELSE 0
  IN  /\ disk' = disk \o Content(id, n) \o Zeros(pad)
      /\ Count' = Counted(n, pad)
      /\ Metadata' = Append(Metadata, [Begin |-> Count, End |-> EndOffset(n),
                                       Name |-> name, Link |-> <<>>, Type |-> "file"])
      /\ origin' = Append(origin, [id |-> id, size |-> n])

IncludeEntry(name, link, type) ==
  /\ Metadata' = Append(Metadata, [Begin |-> -1, End |-> -1, Name |-> name,
                                   Link |-> link, Type |-> type])
  /\ origin' = Append(origin, [id |-> link, size |-> 0])
  /\ UNCHANGED <<disk, Count>>

IncludeSymlink(name, link) == IncludeEntry(name, link, "symlink")
IncludeFolderBegin(name) == IncludeEntry(name, <<>>, "dir")
IncludeFolderEnd == IncludeEntry(DotDot, <<>>, "dir")

-----------------------------------------------------------------------------
Top == stack[Len(stack)]
SetTop(frame) == stack' = [stack EXCEPT ![Len(stack)] = frame]
IsRoot == Len(stack) = 1

\* One iteration of the first loop of WalkDir: files and links are included,
\* directories are left for the second loop.
WalkFile ==
  /\ phase = "walk" /\ stack # <<>> /\ Top.files # <<>>
  /\ LET name == Head(Top.files)
         path == Append(Top.dir, name)
         rest == [Top EXCEPT !.files = Tail(@)]
     IN  \/ /\ tree[path].type = "symlink"
            /\ IncludeSymlink(name, path)
            /\ SetTop(rest)
         \/ /\ tree[path].type = "file"
            /\ IncludeFile(name, path, tree[path].size)
            /\ SetTop(rest)
         \/ /\ tree[path].type = "dir"
            /\ SetTop([rest EXCEPT !.dirs = Append(@, name)])
            /\ UNCHANGED <<disk, Count, Metadata, origin>>
  /\ UNCHANGED <<tree, config, align, phase>>

\* One iteration of the second loop: the recursive call begins.
WalkSubdir ==
  /\ phase = "walk" /\ stack # <<>> /\ Top.files = <<>> /\ Top.dirs # <<>>
  /\ LET name == Head(Top.dirs)
     IN  /\ IncludeFolderBegin(name)
         /\ stack' = Append([stack EXCEPT ![Len(stack)].dirs = Tail(@)],
                            Frame(Append(Top.dir, name)))
  /\ UNCHANGED <<tree, config, align, phase>>

\* A variant that does not close the directories it opened.
LeaveFolder_Open == UNCHANGED <<disk, Count, Metadata, origin>>

\* The root is not marked as a directory.
LeaveFolder ==
  IF IsRoot THEN UNCHANGED <<disk, Count, Metadata, origin>> ELSE IncludeFolderEnd

WalkReturn ==
  /\ phase = "walk" /\ stack # <<>> /\ Top.files = <<>> /\ Top.dirs = <<>>
  /\ LeaveFolder
  /\ stack' = Front(stack)
  /\ phase' = IF IsRoot THEN "header" ELSE "walk"
  /\ UNCHANGED <<tree, config, align>>

\* CManager.WalkDir: one line of the config file.  Nothing relates the lines.
ConfigLine ==
  /\ phase = "walk" /\ config = "seq" /\ Len(Metadata) < MaxLines
  /\ \/ \E name \in Names, n \in Sizes : IncludeFile(name, <<0, Len(Metadata)>>, n)
     \/ \E name \in Names : IncludeFolderBegin(name)
     \/ IncludeFolderEnd
  /\ UNCHANGED <<tree, config, align, phase, stack>>

ConfigEnd ==
  /\ phase = "walk" /\ config = "seq"
  /\ phase' = "header"
  /\ UNCHANGED <<tree, config, align, stack, disk, Count, Metadata, origin>>

\* log.Fatalf: a file cannot be read, a write of file content fails, the
\* config has an unknown line, or the image cannot be closed.
Fatal ==
  /\ phase \in {"walk", "header"}
  /\ phase' = "fatal"
  /\ UNCHANGED <<tree, config, align, stack, disk, Count, Metadata, origin>>

HeaderLoc == Count

\* WriteHeader.  The errors of Encode, of WriteInt64 and of Flush are ignored:
\* when the last flush fails the file has only the first cells of the image.
WriteHeader ==
  /\ phase = "header"
  /\ LET image == disk \o <<Gob(Metadata), Loc(HeaderLoc)>>
     IN  disk' \in {image} \cup {SubSeq(image, 1, k) : k \in 0..Len(image) - 1}
  /\ Count' = Count + 1
  /\ phase' = "done"
  /\ UNCHANGED <<tree, config, align, stack, Metadata, origin>>

Next ==
  \/ WalkFile \/ WalkSubdir \/ WalkReturn
  \/ ConfigLine \/ ConfigEnd
  \/ Fatal
  \/ WriteHeader

Spec == Init /\ [][Next]_vars
-----------------------------------------------------------------------------
TypeOK ==
  /\ phase \in {"walk", "header", "done", "fatal"}
  /\ Count \in Nat
  /\ phase \in {"walk", "header"} => Len(disk) = Count
  /\ \A i \in DOMAIN Metadata :
       /\ Metadata[i].Type \in {"file", "dir", "symlink"}
       /\ Metadata[i].Begin \in Nat \cup {-1}
       /\ Metadata[i].End \in Nat \cup {-1}
  /\ DOMAIN origin = DOMAIN Metadata

Regular(i) == Metadata[i].Type = "file"

\* The last flush did its work.
Complete == phase = "done" /\ disk # <<>> /\ Last(disk).kind = "loc"
=============================================================================
