------------------------------ MODULE P9Server ------------------------------
(***************************************************************************)
(* pkg/p9/handlers.go, path_tree.go and the fidRefs of server.go: what the *)
(* handlers of a 9P server do to the table of FIDs, to the tree of path    *)
(* nodes, and to the files behind them, under renameMu, the locks of the   *)
(* path nodes and openedMu.                                                *)
(*                                                                         *)
(* A handler looks its FIDs up, takes its locks one at a time, tests what  *)
(* must hold and calls the File, updates the tree, and drops its           *)
(* references.  The files behind the server are a host directory tree      *)
(* that nobody else changes.                                               *)
(***************************************************************************)
EXTENDS Naturals, Sequences, FiniteSets

CONSTANTS
  Inodes, Root, Dirs,    \* host files, the root and the other directories
  Names,                 \* names of directory entries
  Refs, Nodes, FIDs,     \* fidRefs, pathNodes, FIDs of the connection
  RenameMu,              \* the global lock
  Handlers,              \* goroutines that handle a request
  Place0,                \* the host tree to begin with: where each file is
  File0, Node0, FID0,    \* the files of the fidRefs, the pathNodes of the files
                         \* and the fidRefs of the FIDs to begin with
  MaxRequests,           \* bound: requests
  CrossRename,           \* whether clients rename between directories
  OpenAlone,             \* whether clients open only FIDs that they use for
                         \* nothing else meanwhile
  Nil                    \* no value

VARIABLES
  place,      \* the directory and name of each host file; Nil: none
  ref,        \* the fidRefs
  node,       \* the pathNodes: fidRefs and children
  fids,       \* connState.fids
  handler,    \* the handlers
  requests    \* the number of requests so far

vars == <<place, ref, node, fids, handler, requests>>

IsDir(i) == i = Root \/ i \in Dirs
Entry(d, name) == [dir |-> d, name |-> name]
Exists(i) == i = Root \/ place[i] # Nil
Lookup(d, name) == {i \in Inodes : place[i] = Entry(d, name)}
IsEmpty(d) == \A i \in Inodes, name \in Names : place[i] # Entry(d, name)
\* Whether directory d is i or below it.
RECURSIVE Within(_, _)
Within(d, i) == d = i \/ (d # Root /\ Exists(d) /\ Within(place[d].dir, i))

FreeRef == [refs |-> 0, file |-> Nil, node |-> Nil, parent |-> Nil,
            deleted |-> FALSE, opened |-> FALSE, closed |-> FALSE]
FreeNode == [fidRefs |-> [r \in Refs |-> Nil], children |-> [n \in Names |-> Nil]]
Idle == [at |-> "idle", q |-> Nil, ref |-> Nil, target |-> Nil, found |-> Nil,
         new |-> Nil, locks |-> <<>>, holds |-> {}, drop |-> <<>>, dying |-> "no",
         fidMu |-> FALSE, panicked |-> FALSE]

\* The fidRefs to begin with have a FID each; their parent is a fidRef of the
\* directory.
Parent0(r) ==
  IF File0[r] = Root THEN Nil
  ELSE CHOOSE p \in DOMAIN File0 : File0[p] = Place0[File0[r]].dir

Init ==
  /\ place = Place0
  /\ ref = [r \in Refs |->
       IF r \notin DOMAIN File0 THEN FreeRef
       ELSE [FreeRef EXCEPT
              !.refs = 1 + Cardinality({c \in DOMAIN File0 : Parent0(c) = r}),
              !.file = File0[r], !.node = Node0[File0[r]], !.parent = Parent0(r)]]
  /\ node = [n \in Nodes |->
       [fidRefs |-> [r \in Refs |->
          IF /\ r \in DOMAIN File0 /\ Parent0(r) # Nil
             /\ Node0[File0[Parent0(r)]] = n
          THEN Place0[File0[r]].name ELSE Nil],
        children |-> [name \in Names |->
          IF \E r \in DOMAIN File0 :
               /\ Parent0(r) # Nil /\ Node0[File0[Parent0(r)]] = n
               /\ Place0[File0[r]].name = name
          THEN Node0[CHOOSE i \in DOMAIN Node0 :
                 i # Root /\ Node0[Place0[i].dir] = n /\ Place0[i].name = name]
          ELSE Nil]]]
  /\ fids = FID0
  /\ handler = [h \in Handlers |-> Idle]
  /\ requests = 0

-----------------------------------------------------------------------------
\* The tree of path nodes.  Objects that nothing refers to are reused.

NodeInUse(n) ==
  \/ \E r \in Refs : ref[r].node = n
  \/ \E m \in Nodes, name \in Names : node[m].children[name] = n
  \/ \E h \in Handlers, mode \in {"R", "W"} : <<n, mode>> \in handler[h].holds
NewNode == CHOOSE n \in Nodes : ~NodeInUse(n)
NewRef == CHOOSE r \in Refs :
  /\ ref[r].file = Nil
  /\ \A h \in Handlers : handler[h].new # r

\* pathNodeFor: the node, and the nodes with a new one if there was none.
PathNodeFor(n, name) ==
  IF node[n].children[name] # Nil THEN node[n].children[name] ELSE NewNode
WithPathNode(n, name) ==
  LET m == PathNodeFor(n, name) IN
  [[node EXCEPT ![m] = IF node[n].children[name] # Nil THEN @ ELSE FreeNode]
     EXCEPT ![n].children[name] = m]

Named(nodes, n, name) == {r \in Refs : nodes[n].fidRefs[r] = name}

\* The fidRefs that notifyDelete finds in and below a node.
RECURSIVE Below(_, _)
Below(nodes, n) ==
  IF n = Nil THEN {} ELSE
    {r \in Refs : nodes[n].fidRefs[r] # Nil} \cup
    UNION {Below(nodes, nodes[n].children[name]) : name \in Names}

\* removeWithName.
WithoutName(nodes, n, name) ==
  [nodes EXCEPT
    ![n].fidRefs = [r \in Refs |-> IF @[r] = name THEN Nil ELSE @[r]],
    ![n].children[name] = Nil]

\* A variant that marks only what is below the name.
MarkedDeleted_Below(refs, nodes, n, name) ==
  [r \in Refs |-> IF r \in Below(nodes, nodes[n].children[name])
                  THEN [refs[r] EXCEPT !.deleted = TRUE] ELSE refs[r]]

\* markChildDeleted, notifyDelete: the marks; WithoutName is the tree after it.
MarkedDeleted(refs, nodes, n, name) ==
  LET gone == Named(nodes, n, name) \cup Below(nodes, nodes[n].children[name]) IN
  [r \in Refs |-> IF r \in gone THEN [refs[r] EXCEPT !.deleted = TRUE] ELSE refs[r]]

\* DecRef at a place where nothing can come between: under renameMu.
RECURSIVE Dropped(_, _, _)
Dropped(refs, nodes, r) ==
  LET p == refs[r].parent IN
  IF refs[r].refs > 1
  THEN [refs |-> [refs EXCEPT ![r].refs = @ - 1], nodes |-> nodes]
  ELSE IF p = Nil THEN [refs |-> [refs EXCEPT ![r] = FreeRef], nodes |-> nodes]
  ELSE Dropped([refs EXCEPT ![r] = FreeRef],
               [nodes EXCEPT ![refs[p].node].fidRefs[r] = Nil], p)

\* What renameChildTo does to the fidRefs of the name.
RECURSIVE Moved(_, _, _, _, _)
Moved(refs, nodes, todo, target, name) ==
  IF todo = {} THEN [refs |-> refs, nodes |-> nodes]
  ELSE LET r == CHOOSE x \in todo : TRUE
           d == Dropped(refs, nodes, refs[r].parent) IN
       Moved([d.refs EXCEPT ![r].parent = target, ![target].refs = @ + 1],
             [d.nodes EXCEPT ![refs[target].node].fidRefs[r] = name],
             todo \ {r}, target, name)

\* A variant that leaves the renamed file without a path node.
RenamedTo_NoNode(f, old, target, name) ==
  LET tn == ref[target].node
      refs == MarkedDeleted(ref, node, tn, name)
      nodes == WithoutName(node, tn, name) IN
  Moved(refs, WithoutName(nodes, ref[f].node, old),
        Named(nodes, ref[f].node, old), target, name)

\* renameChildTo: what was there is deleted, and the fidRefs and the path node
\* of the file move.  The node is stored in the directory the file comes from.
RenamedTo(f, old, target, name) ==
  LET fn == ref[f].node
      tn == ref[target].node
      refs == MarkedDeleted(ref, node, tn, name)
      nodes == WithoutName(node, tn, name)
      orig == IF nodes[fn].children[old] # Nil THEN nodes[fn].children[old]
                                               ELSE NewNode
      moved == Moved(refs, WithoutName(nodes, fn, old), Named(nodes, fn, old),
                     target, name) IN
  [refs |-> moved.refs,
   nodes |-> [moved.nodes EXCEPT
     ![orig] = IF nodes[fn].children[old] # Nil THEN @ ELSE FreeNode,
     ![fn].children[name] = orig]]

-----------------------------------------------------------------------------
\* The beginning of a handler: LookupFID, and the locks it will take.

At(h, place_) == handler[h].at = place_
Ref(h) == ref[handler[h].ref]
Op(h) == handler[h].q.op

NewFID == CHOOSE f \in FIDs : fids[f] = Nil

\* Whether somebody is in Tlopen with the openedMu of r.
Opening(r) == \E k \in Handlers : <<r, "W">> \in handler[k].holds

\* What OpenAlone demands of a request.
UsesAlone(q, r) ==
  OpenAlone =>
    \A k \in Handlers : handler[k].ref = r \/ handler[k].target = r =>
      q.op # "open" /\ Op(k) # "open"

\* The table is locked while DeleteFID and InsertFID drop a reference.
FidMuIsFree == \A k \in Handlers : ~handler[k].fidMu

MayBegin(h) ==
  /\ requests < MaxRequests
  /\ FidMuIsFree
  /\ At(h, "idle") /\ h = CHOOSE k \in Handlers : At(k, "idle")

Begins(h, q) ==
  /\ fids[q.fid] # Nil
  /\ UsesAlone(q, fids[q.fid])
  /\ requests' = requests + 1
  /\ UNCHANGED <<place, node>>

Looked(h, q, locks) ==
  LET r == fids[q.fid] IN
  /\ Begins(h, q)
  /\ handler' = [handler EXCEPT ![h] = [Idle EXCEPT
       !.at = "lock", !.q = q, !.ref = r, !.locks = locks, !.drop = <<r>>]]
  /\ ref' = [ref EXCEPT ![r].refs = @ + 1]
  /\ UNCHANGED fids

Looked2(h, q, locks) ==
  LET r == fids[q.fid]
      t == fids[q.dir] IN
  /\ Begins(h, q)
  /\ t # Nil /\ UsesAlone(q, t)
  /\ CrossRename \/ ref[t].node =
       ref[IF q.op = "rename" THEN ref[r].parent ELSE r].node
  /\ handler' = [handler EXCEPT ![h] = [Idle EXCEPT
       !.at = "lock", !.q = q, !.ref = r, !.target = t, !.locks = locks,
       !.drop = <<t, r>>]]
  /\ ref' = [x \in Refs |->
       [ref[x] EXCEPT !.refs = @ + (IF x = r THEN 1 ELSE 0) + (IF x = t THEN 1 ELSE 0)]]
  /\ UNCHANGED fids

\* safelyRead, safelyWrite, safelyGlobal: the locks in order.
Read(r) == <<<<RenameMu, "R">>, <<ref[r].node, "R">>>>
Write(r) == <<<<RenameMu, "R">>, <<ref[r].node, "W">>>>
Global == <<<<RenameMu, "W">>>>

Of(f) == fids[f]

Twalk(h, f, name) ==
  /\ Of(f) # Nil
  /\ ~Opening(Of(f)) /\ ~ref[Of(f)].opened /\ IsDir(ref[Of(f)].file)
  /\ Looked(h, [op |-> "walk", fid |-> f, name |-> name, new |-> NewFID], Read(Of(f)))

\* doWalk without names: the lock is that of the parent at this time.
Tclone(h, f) ==
  LET r == Of(f) IN
  /\ r # Nil
  /\ ~Opening(r) /\ ~ref[r].opened
  /\ Looked(h, [op |-> "clone", fid |-> f, new |-> NewFID],
            Read(IF ref[r].parent = Nil THEN r ELSE ref[r].parent))

\* Tlcreate, and Tmkdir, Tmknod and Tsymlink, which make no fidRef.
Tcreate(h, op, f, name) ==
  /\ Of(f) # Nil /\ IsDir(ref[Of(f)].file)
  /\ Looked(h, [op |-> op, fid |-> f, name |-> name], Write(Of(f)))

Tunlinkat(h, f, name) ==
  /\ Of(f) # Nil /\ IsDir(ref[Of(f)].file)
  /\ Looked(h, [op |-> "unlink", fid |-> f, name |-> name], Write(Of(f)))

\* Tlopen: openedMu before the other locks.
Tlopen(h, f) ==
  /\ Of(f) # Nil
  /\ Looked(h, [op |-> "open", fid |-> f], <<<<Of(f), "W">>>> \o Read(Of(f)))

\* Tread, Twrite, Treaddir, Tfsync.
Tread(h, f) ==
  /\ Of(f) # Nil
  /\ Looked(h, [op |-> "read", fid |-> f], Read(Of(f)))

\* A variant that locks the file and then its directory.
Tsetattr_Upwards(h, f) ==
  /\ Of(f) # Nil /\ ref[Of(f)].parent # Nil
  /\ Looked(h, [op |-> "setattr", fid |-> f],
            Write(Of(f)) \o <<<<ref[ref[Of(f)].parent].node, "R">>>>)

Tsetattr(h, f) ==
  /\ Of(f) # Nil
  /\ Looked(h, [op |-> "setattr", fid |-> f], Write(Of(f)))

Tremove(h, f) == Of(f) # Nil /\ Looked(h, [op |-> "remove", fid |-> f], Global)

Trenameat(h, f, name, d, name2) ==
  Looked2(h, [op |-> "renameat", fid |-> f, name |-> name, dir |-> d, name2 |-> name2],
          Global)

Trename(h, f, d, name2) ==
  /\ Of(f) # Nil /\ ref[Of(f)].parent # Nil
  /\ Looked2(h, [op |-> "rename", fid |-> f, dir |-> d, name2 |-> name2], Global)

\* Tclunk: DeleteFID.
Tclunk(h, f) ==
  /\ Begins(h, [op |-> "clunk", fid |-> f])
  /\ fids' = [fids EXCEPT ![f] = Nil]
  /\ handler' = [handler EXCEPT ![h] = [Idle EXCEPT
       !.at = "drop", !.q = [op |-> "clunk", fid |-> f], !.drop = <<Of(f)>>,
       !.fidMu = TRUE]]
  /\ UNCHANGED ref

\* Tattach of the root.
Tattach(h) ==
  /\ fids' = [fids EXCEPT ![NewFID] = NewRef]
  /\ ref' = [ref EXCEPT ![NewRef] =
       [FreeRef EXCEPT !.refs = 1, !.file = Root, !.node = Node0[Root]]]
  /\ requests' = requests + 1
  /\ UNCHANGED <<place, node, handler>>

-----------------------------------------------------------------------------
\* The locked part of a handler.

CanLock(h, lock) ==
  \A k \in Handlers \ {h} : \A held \in handler[k].holds :
    held[1] = lock[1] => held[2] = "R" /\ lock[2] = "R"

Acquire(h) ==
  LET locks == handler[h].locks IN
  /\ At(h, "lock")
  /\ CanLock(h, Head(locks))
  /\ handler' = [handler EXCEPT
       ![h].holds = @ \cup {Head(locks)}, ![h].locks = Tail(locks),
       ![h].at = IF Len(locks) > 1 THEN "lock"
                 ELSE IF Op(h) = "unlink" /\ handler[h].found # Nil THEN "unlink"
                 ELSE "check"]
  /\ UNCHANGED <<place, ref, node, fids, requests>>

\* The end of the locked part, with an error or without.
Unlocked(h) == [handler[h] EXCEPT !.at = "drop", !.holds = {}, !.found = Nil]

Fail(h) ==
  /\ handler' = [handler EXCEPT ![h] = Unlocked(h)]
  /\ UNCHANGED <<place, ref, node, fids>>

\* What a handler needs to find before it calls the File; OpenFlags takes
\* openedMu for a moment.
AsksOpened(h) == Op(h) \in {"create", "mknod", "unlink", "renameat", "read"}
Opened(h) == Ref(h).opened
Deleted(h) == Ref(h).deleted
Source(h) == IF Op(h) = "rename" THEN Ref(h).parent ELSE handler[h].ref
OldName(h) ==
  IF Op(h) = "rename" THEN node[ref[Ref(h).parent].node].fidRefs[handler[h].ref]
                      ELSE handler[h].q.name
SameFile(h) ==
  /\ ref[Source(h)].node = ref[handler[h].target].node
  /\ OldName(h) = handler[h].q.name2

Allowed(h) ==
  CASE Op(h) \in {"walk", "clone"} -> TRUE
    [] Op(h) \in {"create", "mknod", "unlink"} -> ~Deleted(h) /\ ~Opened(h)
    [] Op(h) = "open" -> ~Opened(h) /\ ~Deleted(h)
    [] Op(h) = "read" -> Opened(h)
    [] Op(h) = "setattr" -> ~Deleted(h)
    [] Op(h) = "remove" -> Ref(h).parent # Nil /\ ~Deleted(h)
    [] Op(h) = "renameat" -> /\ ~Deleted(h) /\ IsDir(Ref(h).file) /\ ~Opened(h)
                             /\ ~ref[handler[h].target].deleted
                             /\ IsDir(ref[handler[h].target].file)
                             /\ ~SameFile(h)
    [] Op(h) = "rename" -> /\ ~Deleted(h) /\ ~ref[handler[h].target].deleted
                           /\ IsDir(ref[handler[h].target].file)
                           /\ ~SameFile(h)

\* The host's answer to a call, as the new places of the files; {}: an error.
HostCreate(d, name, i) ==
  IF Exists(d) /\ Lookup(d, name) = {} THEN {[place EXCEPT ![i] = Entry(d, name)]} ELSE {}
HostUnlink(d, name) ==
  {[place EXCEPT ![i] = Nil] : i \in {j \in Lookup(d, name) : IsDir(j) => IsEmpty(j)}}
HostRename(d, name, e, name2) ==
  {[x \in Inodes |-> IF x = i THEN Entry(e, name2)
                     ELSE IF x \in Lookup(e, name2) THEN Nil ELSE place[x]] :
     i \in {j \in Lookup(d, name) :
             /\ Exists(e) /\ ~Within(e, j)
             /\ \A k \in Lookup(e, name2) :
                  (IsDir(k) <=> IsDir(j)) /\ (IsDir(k) => IsEmpty(k))}}

\* The test and the call of the File.
Check(h) ==
  /\ At(h, "check")
  /\ AsksOpened(h) => ~Opening(handler[h].ref)
  /\ UNCHANGED <<ref, fids, requests>>

CheckFails(h) ==
  /\ At(h, "check")
  /\ AsksOpened(h) => ~Opening(handler[h].ref)
  /\ ~Allowed(h)
  /\ Fail(h)
  /\ UNCHANGED requests

Proceed(h, found) ==
  handler' = [handler EXCEPT ![h].at = "tree", ![h].found = found]

CheckWalk(h) ==
  /\ Check(h) /\ Op(h) = "walk"
  /\ LET is == Lookup(Ref(h).file, handler[h].q.name) IN
     IF is = {} \/ ~Exists(Ref(h).file)
     THEN handler' = [handler EXCEPT ![h] = Unlocked(h)]
     ELSE Proceed(h, CHOOSE i \in is : TRUE)
  /\ UNCHANGED <<place, node>>

CheckClone(h) ==
  /\ Check(h) /\ Op(h) = "clone"
  /\ Proceed(h, IF Deleted(h) THEN "deleted" ELSE "live")
  /\ UNCHANGED <<place, node>>

CheckCreate(h, i) ==
  /\ Check(h) /\ Op(h) \in {"create", "mknod"} /\ Allowed(h)
  /\ i # Root /\ ~Exists(i) /\ (Op(h) = "create" => ~IsDir(i))
  /\ \A r \in Refs : ref[r].file # i
  /\ LET done == HostCreate(Ref(h).file, handler[h].q.name, i) IN
     IF done = {}
     THEN handler' = [handler EXCEPT ![h] = Unlocked(h)] /\ UNCHANGED place
     ELSE place' \in done /\ Proceed(h, i)
  /\ UNCHANGED node

\* Tlopen, Tread and Tsetattr: the call comes with the next step.
CheckFile(h) ==
  /\ Check(h) /\ Op(h) \in {"open", "read", "setattr"} /\ Allowed(h)
  /\ Proceed(h, Ref(h).file)
  /\ UNCHANGED <<place, node>>

\* A variant that does not wait for the operations on the child.
CheckUnlink_NoLock(h) ==
  /\ Check(h) /\ Op(h) = "unlink" /\ Allowed(h)
  /\ handler' = [handler EXCEPT ![h].at = "unlink", ![h].found = "child"]
  /\ UNCHANGED <<place, node>>

\* Tunlinkat: the lock of the child's path node.
CheckUnlink(h) ==
  LET child == PathNodeFor(Ref(h).node, handler[h].q.name) IN
  /\ Check(h) /\ Op(h) = "unlink" /\ Allowed(h)
  /\ node' = WithPathNode(Ref(h).node, handler[h].q.name)
  /\ handler' = [handler EXCEPT ![h].at = "lock", ![h].found = "child",
                                ![h].locks = <<<<child, "W">>>>]
  /\ UNCHANGED place

Unlink(h) ==
  LET done == HostUnlink(Ref(h).file, handler[h].q.name) IN
  /\ At(h, "unlink")
  /\ IF done = {}
     THEN handler' = [handler EXCEPT ![h] = Unlocked(h)] /\ UNCHANGED place
     ELSE place' \in done /\ Proceed(h, "child")
  /\ UNCHANGED <<ref, node, fids, requests>>

\* Tremove and the renames.  nameFor panics if the fidRef has no name, Trename
\* if the file is there and its directory is deleted.
CheckGlobal(h) ==
  LET d == ref[IF Op(h) = "remove" THEN Ref(h).parent ELSE Source(h)]
      name == IF Op(h) = "remove" THEN node[d.node].fidRefs[handler[h].ref]
                                  ELSE OldName(h)
      done == IF Op(h) = "remove" THEN HostUnlink(d.file, name)
              ELSE HostRename(d.file, name, ref[handler[h].target].file,
                              handler[h].q.name2) IN
  /\ Check(h) /\ Op(h) \in {"remove", "rename", "renameat"} /\ Allowed(h)
  /\ IF name = Nil \/ (Op(h) = "rename" /\ d.deleted)
     THEN /\ handler' = [handler EXCEPT ![h] = [Unlocked(h) EXCEPT !.panicked = TRUE]]
          /\ UNCHANGED place
     ELSE IF done = {}
     THEN handler' = [handler EXCEPT ![h] = Unlocked(h)] /\ UNCHANGED place
     ELSE place' \in done /\ Proceed(h, name)
  /\ UNCHANGED node

-----------------------------------------------------------------------------
\* The update of the tree, and the end of the locked part.

\* The new fidRef of a walk, a clone or a creation.
Insert(h, new) == [Unlocked(h) EXCEPT !.at = "insert", !.new = new]

TreeWalk(h) ==
  LET r == handler[h].ref
      name == handler[h].q.name
      new == NewRef IN
  /\ At(h, "tree") /\ Op(h) \in {"walk", "create"}
  /\ ref' = [ref EXCEPT
       ![new] = [FreeRef EXCEPT
         !.refs = IF Op(h) = "walk" THEN 1 ELSE 0, !.file = handler[h].found,
         !.parent = r, !.node = PathNodeFor(ref[r].node, name),
         !.opened = Op(h) = "create"],
       ![r].refs = @ + 1]
  /\ node' = [WithPathNode(ref[r].node, name) EXCEPT ![ref[r].node].fidRefs[new] = name]
  /\ handler' = [handler EXCEPT ![h] = Insert(h, new)]
  /\ UNCHANGED <<place, fids, requests>>

TreeClone(h) ==
  LET r == handler[h].ref
      p == ref[r].parent
      live == handler[h].found = "live"
      new == NewRef
      name == node[ref[p].node].fidRefs[r]
      clone == [ref[r] EXCEPT !.refs = 1, !.deleted = ~live] IN
  /\ At(h, "tree") /\ Op(h) = "clone"
  /\ \/ /\ p = Nil
        /\ ref' = [ref EXCEPT ![new] = clone]
        /\ handler' = [handler EXCEPT ![h] = Insert(h, new)]
        /\ UNCHANGED node
     \/ /\ p # Nil
        /\ IF live /\ name = Nil
           THEN /\ handler' = [handler EXCEPT ![h] = [Unlocked(h) EXCEPT !.panicked = TRUE]]
                /\ UNCHANGED <<ref, node>>
           ELSE /\ ref' = [ref EXCEPT ![new] = clone, ![p].refs = @ + 1]
                /\ node' = IF live
                     THEN [node EXCEPT ![ref[p].node].fidRefs[new] = name] ELSE node
                /\ handler' = [handler EXCEPT ![h] = Insert(h, new)]
  /\ UNCHANGED <<place, fids, requests>>

\* The File's own operation: Open, ReadAt, SetAttr, ...
TreeFile(h) ==
  /\ At(h, "tree") /\ Op(h) \in {"open", "read", "setattr", "mknod"}
  /\ ref' = IF Op(h) = "open" THEN [ref EXCEPT ![handler[h].ref].opened = TRUE] ELSE ref
  /\ handler' = [handler EXCEPT ![h] = Unlocked(h)]
  /\ UNCHANGED <<place, node, fids, requests>>

\* Tunlinkat and Tremove: markChildDeleted; Tremove then deletes the FID.
TreeUnlink(h) ==
  LET q == handler[h].q
      n == ref[IF q.op = "remove" THEN Ref(h).parent ELSE handler[h].ref].node
      name == IF q.op = "remove" THEN handler[h].found ELSE q.name IN
  /\ At(h, "tree") /\ q.op \in {"unlink", "remove"}
  /\ ref' = MarkedDeleted(ref, node, n, name)
  /\ node' = WithoutName(node, n, name)
  /\ handler' = [handler EXCEPT ![h] =
       [Unlocked(h) EXCEPT !.at = IF q.op = "remove" THEN "delete" ELSE "drop"]]
  /\ UNCHANGED <<place, fids, requests>>

TreeRename(h) ==
  LET done == RenamedTo(Source(h), handler[h].found, handler[h].target,
                        handler[h].q.name2) IN
  /\ At(h, "tree") /\ Op(h) \in {"rename", "renameat"}
  /\ ref' = done.refs
  /\ node' = done.nodes
  /\ handler' = [handler EXCEPT ![h] = Unlocked(h)]
  /\ UNCHANGED <<place, fids, requests>>

-----------------------------------------------------------------------------
\* The end of a handler.

\* InsertFID: the table takes over the reference of a walk.
InsertFID(h) ==
  LET q == handler[h].q
      f == IF q.op = "create" THEN q.fid ELSE q.new
      new == handler[h].new IN
  /\ At(h, "insert") /\ FidMuIsFree
  /\ fids' = [fids EXCEPT ![f] = new]
  /\ ref' = [ref EXCEPT ![new].refs = IF q.op = "create" THEN @ + 1 ELSE @]
  /\ handler' = [handler EXCEPT ![h].at = "drop", ![h].new = Nil,
       ![h].fidMu = fids[f] # Nil,
       ![h].drop = IF fids[f] = Nil THEN @ ELSE <<fids[f]>> \o @]
  /\ UNCHANGED <<place, node, requests>>

\* DeleteFID, after Tremove.
DeleteFID(h) ==
  LET f == handler[h].q.fid IN
  /\ At(h, "delete") /\ FidMuIsFree
  /\ fids' = [fids EXCEPT ![f] = Nil]
  /\ handler' = [handler EXCEPT ![h].at = "drop", ![h].fidMu = fids[f] # Nil,
       ![h].drop = IF fids[f] = Nil THEN @ ELSE <<fids[f]>> \o @]
  /\ UNCHANGED <<place, ref, node, requests>>

\* DecRef: the count; with the last reference the file is closed, ...
DecRef(h) ==
  LET r == Head(handler[h].drop) IN
  /\ At(h, "drop") /\ handler[h].drop # <<>> /\ handler[h].dying = "no"
  /\ ref' = [ref EXCEPT ![r].refs = @ - 1, ![r].closed = ref[r].refs = 1]
  /\ handler' = [handler EXCEPT
       ![h].drop = IF ref[r].refs = 1 THEN @ ELSE Tail(@),
       ![h].dying = IF ref[r].refs = 1 THEN "closed" ELSE "no",
       ![h].fidMu = @ /\ ref[r].refs = 1]
  /\ UNCHANGED <<place, node, fids, requests>>

\* ... the fidRef leaves the tree, ...
RemoveChild(h) ==
  LET r == Head(handler[h].drop)
      p == ref[r].parent IN
  /\ At(h, "drop") /\ handler[h].dying = "closed"
  /\ node' = IF p = Nil THEN node ELSE [node EXCEPT ![ref[p].node].fidRefs[r] = Nil]
  /\ handler' = [handler EXCEPT ![h].dying = "removed"]
  /\ UNCHANGED <<place, ref, fids, requests>>


\* ... and the parent loses a reference.
DropParent(h) ==
  LET r == Head(handler[h].drop)
      p == ref[r].parent IN
  /\ At(h, "drop") /\ handler[h].dying = "removed"
  /\ ref' = [ref EXCEPT ![r] = FreeRef]
  /\ handler' = [handler EXCEPT ![h].dying = "no", ![h].fidMu = @ /\ p # Nil,
       ![h].drop = IF p = Nil THEN Tail(@) ELSE <<p>> \o Tail(@)]
  /\ UNCHANGED <<place, node, fids, requests>>

Reply(h) ==
  /\ At(h, "drop") /\ handler[h].drop = <<>>
  /\ handler' = [handler EXCEPT ![h] = Idle]
  /\ UNCHANGED <<place, ref, node, fids, requests>>

-----------------------------------------------------------------------------
\* A request arrives and finds a goroutine.
Request(h) ==
  /\ MayBegin(h)
  /\ \/ \E f \in FIDs :
          \/ Tclone(h, f)
          \/ \E name \in Names :
               \/ Twalk(h, f, name)
               \/ Tunlinkat(h, f, name)
               \/ \E op \in {"create", "mknod"} : Tcreate(h, op, f, name)
          \/ Tlopen(h, f)
          \/ Tread(h, f)
          \/ Tsetattr(h, f)
          \/ Tremove(h, f)
          \/ Tclunk(h, f)
     \/ \E f, dir \in FIDs, name2 \in Names :
          \/ Trename(h, f, dir, name2)
          \/ \E name \in Names : Trenameat(h, f, name, dir, name2)
     \/ Tattach(h)

Step(h) ==
  \/ Acquire(h)
  \/ CheckFails(h)
  \/ CheckWalk(h)
  \/ CheckClone(h)
  \/ \E i \in Inodes : CheckCreate(h, i)
  \/ CheckFile(h)
  \/ CheckUnlink(h)
  \/ Unlink(h)
  \/ CheckGlobal(h)
  \/ TreeWalk(h)
  \/ TreeClone(h)
  \/ TreeFile(h)
  \/ TreeUnlink(h)
  \/ TreeRename(h)
  \/ InsertFID(h)
  \/ DeleteFID(h)
  \/ DecRef(h)
  \/ RemoveChild(h)
  \/ DropParent(h)
  \/ Reply(h)

Next == \E h \in Handlers : Request(h) \/ Step(h)

\* The handlers go on as long as one of them can: the scheduler runs them, and
\* a bounded number of requests keeps none of them waiting for the others
\* forever.  Nobody has to send a request.
Spec == Init /\ [][Next]_vars /\ WF_vars(\E h \in Handlers : Step(h))

-----------------------------------------------------------------------------
Live(r) == ref[r].refs > 0

\* The number of times r occurs in a list of references to drop.
Times(r, list) == Cardinality({i \in 1 .. Len(list) : list[i] = r})
RECURSIVE SumOver(_, _)
SumOver(f, S) ==
  IF S = {} THEN 0 ELSE LET x == CHOOSE y \in S : TRUE IN f[x] + SumOver(f, S \ {x})


\* deleted "indicates that the backing file has been deleted": a fidRef is
\* marked exactly when its file is gone, but for an unlink or a rename that is
\* between the two (markChildDeleted, notifyDelete, doWalk's clones).
DeletedIsGone ==
  \A r \in Refs : Live(r) /\ ref[r].deleted => ~Exists(ref[r].file)

GoneIsDeleted ==
  (\A h \in Handlers : At(h, "tree") => Op(h) \notin {"unlink", "remove", "rename", "renameat"})
    => \A r \in Refs : Live(r) /\ ~Exists(ref[r].file) => ref[r].deleted

\* A fidRef is marked as deleted when its file is, and not otherwise.
DeletedMeansGone == GoneIsDeleted /\ DeletedIsGone

\* pathNodes "are shared by all fidRefs that point to the same path", and by
\* no others: else the locks protect nothing.
NodesAreShared ==
  (\A h \in Handlers : At(h, "tree") => Op(h) \notin {"unlink", "remove", "rename", "renameat"})
    => \A r, q \in Refs :
         Live(r) /\ Live(q) /\ ~ref[r].deleted /\ ~ref[q].deleted =>
           (ref[r].file = ref[q].file <=> ref[r].node = ref[q].node)

\* What a handler tested under the locks still holds when it acts: a file
\* that is opened or changed, and a directory in which a file was created,
\* have not been removed meanwhile (safelyRead, safelyWrite, Tunlinkat).
StillThere ==
  \A h \in Handlers :
    At(h, "tree") /\ Op(h) \in {"open", "setattr", "create", "mknod", "walk"} =>
      Exists(Ref(h).file) /\ ~Deleted(h)

\* No handler panics: a fidRef that is not deleted has its name in its parent's
\* path node, and its parent is not deleted (nameFor, Trename).
NoPanic == \A h \in Handlers : ~handler[h].panicked

\* What a handler found out under the locks stays true while it has them.
ChecksStillHold == StillThere /\ NoPanic

\* Every request is answered: the locks are free of cycles (Tunlinkat's
\* comment, renameMu's comment).
EveryRequestEnds == \A h \in Handlers : ~At(h, "idle") ~> At(h, "idle")

=============================================================================
