------------------------------- MODULE Dirent -------------------------------
(***************************************************************************)
(* pkg/sentry/fs/dirent.go: the cache of directory entries in front of the *)
(* file systems, with concurrent Walk, Create, CreateDirectory, Remove and *)
(* Rename.                                                                 *)
(*                                                                         *)
(* A place is a directory and a name.  disk is what the file system has    *)
(* there; children is the Dirents' children map, whose weak references     *)
(* may have expired.  A Dirent that somebody refers to has an inode; one   *)
(* with NoFile is not in use.                                              *)
(*                                                                         *)
(* walk, when it may unlock, calls Inode.Lookup without d.mu: a thread     *)
(* that is in between is at "lookup" (before) or "locked" (after).  What   *)
(* is done under d.mu without unlocking is one step.  All but a Rename     *)
(* within a directory hold renameMu; Walk holds dirMu for reading, and     *)
(* what creates and removes holds it for writing.                          *)
(*                                                                         *)
(* File systems that revalidate, frozen Dirents, mount points, hard links  *)
(* and permissions are left out.                                           *)
(***************************************************************************)
EXTENDS Integers

CONSTANTS
  Threads, Dirs, Names, Inodes, Dirents,
  NoFile, None, Negative, Expired,
  SameDirRename   \* do threads rename within a directory

Places == Dirs \X Names

VARIABLES
  disk,      \* place -> inode, or NoFile
  children,  \* place -> Dirent, Negative, Expired, or None
  inode,     \* Dirent -> inode, or NoFile
  pc,        \* what each thread is doing
  at,        \* at which place
  found      \* what its Inode.Lookup returned

vars == <<disk, children, inode, pc, at, found>>
threadVars == <<pc, at, found>>

Live == {d \in Dirents : inode[d] # NoFile}
Busy == {t \in Threads : pc[t] \notin {"idle", "panic"}}

Init ==
  /\ disk \in [Places -> Inodes \cup {NoFile}]
  /\ \A p, q \in Places : p # q /\ disk[p] = disk[q] => disk[p] = NoFile
  /\ children = [p \in Places |-> None]
  /\ inode = [d \in Dirents |-> NoFile]
  /\ pc = [t \in Threads |-> "idle"]
  /\ at = [t \in Threads |-> None]
  /\ found = [t \in Threads |-> NoFile]

-----------------------------------------------------------------------------
\* dirMu and renameMu, which are held while mu is unlocked for a lookup.
Readable(p) == \A t \in Busy : at[t][1] = p[1] => pc[t] \in {"walk lookup", "walk locked"}

Writable(p) == \A t \in Busy : at[t][1] # p[1]

\* A panic ends the program: nobody begins anything after it.
Idle(t) == pc[t] = "idle" /\ \A u \in Threads : pc[u] # "panic"
Go(t, place, p) == pc' = [pc EXCEPT ![t] = place] /\ at' = [at EXCEPT ![t] = p]
End(t, place) ==
  /\ pc' = [pc EXCEPT ![t] = place]
  /\ at' = [at EXCEPT ![t] = None]
  /\ found' = [found EXCEPT ![t] = NoFile]
Return(t) == End(t, "idle")

\* The Dirents that a weak reference at p resolves to.
Cached(p) == {d \in Live : children[p] = d}

\* No Dirent and no negative Dirent in the cache: the slow path of walk.
Slow(p) == children[p] \in {None, Expired}

\* A Dirent for p: the one in the cache, or a new one.
Loaded(p) == IF Cached(p) # {} THEN Cached(p) ELSE Dirents \ Live

\* An inode number that is nowhere in use.
Fresh == {i \in Inodes : /\ \A p \in Places : disk[p] # i
                         /\ \A d \in Dirents : inode[d] # i
                         /\ \A t \in Threads : found[t] # i}

-----------------------------------------------------------------------------
\* Dirent.Walk; the fast path changes nothing.
Walk(t, p) ==
  /\ Idle(t) /\ Readable(p) /\ Slow(p)
  /\ children' = [children EXCEPT ![p] = None]
  /\ Go(t, "walk lookup", p)
  /\ UNCHANGED <<disk, inode, found>>

\* Inode.Lookup, with no lock on the children map.
Lookup(t) ==
  /\ pc[t] \in {"walk lookup", "create lookup", "mkdir lookup"}
  /\ found' = [found EXCEPT ![t] = disk[at[t]]]
  /\ pc' = [pc EXCEPT ![t] = CASE @ = "walk lookup" -> "walk locked"
                               [] @ = "create lookup" -> "create locked"
                               [] @ = "mkdir lookup" -> "mkdir locked"]
  /\ UNCHANGED <<disk, children, inode, at>>

\* A variant without the second look at the children map.
Raced_Never(p) == FALSE

\* "Now that we have the lock again, check if we raced."
Raced(p) == Cached(p) # {} \/ children[p] = Negative

\* hashChild of a new Dirent.
Hash(p, i) ==
  \E d \in Dirents \ Live :
    /\ inode' = [inode EXCEPT ![d] = i]
    /\ children' = [children EXCEPT ![p] = d]

\* walk hashes what it looked up, unless there is something by now.  A file
\* system reports a missing name by an error, or by a negative Dirent.
WalkFound(t) ==
  /\ pc[t] = "walk locked" /\ found[t] # NoFile /\ ~Raced(at[t])
  /\ Hash(at[t], found[t])
  /\ Return(t) /\ UNCHANGED disk

WalkNegative(t) ==
  /\ pc[t] = "walk locked" /\ found[t] = NoFile /\ ~Raced(at[t])
  /\ children' = [children EXCEPT ![at[t]] = Negative]
  /\ Return(t) /\ UNCHANGED <<disk, inode>>

WalkNothing(t) ==
  /\ pc[t] = "walk locked" /\ (found[t] = NoFile \/ Raced(at[t]))
  /\ Return(t) /\ UNCHANGED <<disk, children, inode>>

-----------------------------------------------------------------------------
\* Dirent.Create and genericCreate, here for CreateDirectory.  exists walks,
\* and may unlock.
BeginCreate(t, p) ==
  /\ Idle(t) /\ Writable(p) /\ Slow(p)
  /\ children' = [children EXCEPT ![p] = None]
  /\ Go(t, "create lookup", p) \/ Go(t, "mkdir lookup", p)
  /\ UNCHANGED <<disk, inode, found>>

\* exists has said no: the lookup found nothing, or there is a negative Dirent
\* by now, or there was one to begin with and mu has not been unlocked.
NotThere(t, p, step) ==
  \/ pc[t] = step /\ at[t] = p /\ (found[t] = NoFile \/ children[p] = Negative)
  \/ Idle(t) /\ Writable(p) /\ children[p] = Negative

\* The file system's Create, and finishCreate.
Create(t, p) ==
  /\ NotThere(t, p, "create locked") /\ disk[p] = NoFile
  /\ \E i \in Fresh, d \in Dirents \ Live :
       /\ disk' = [disk EXCEPT ![p] = i]
       /\ inode' = [inode EXCEPT ![d] = i]
       /\ children' = [children EXCEPT ![p] = d]
  /\ End(t, IF Cached(p) # {} THEN "panic" ELSE "idle")

\* It fails, for one if the name is taken; a negative answer of exists stays hashed.
CreateFails(t, p) ==
  /\ NotThere(t, p, "create locked")
  /\ \/ UNCHANGED children
     \/ ~Raced(p) /\ children' = [children EXCEPT ![p] = Negative]
  /\ Return(t) /\ UNCHANGED <<disk, inode>>

\* genericCreate: "the only thing remaining here can be a negative Dirent".
CreateDirectory(t, p) ==
  /\ NotThere(t, p, "mkdir locked")
  /\ children' = [children EXCEPT ![p] = None]
  /\ \/ Cached(p) # {} /\ End(t, "panic") /\ UNCHANGED disk
     \/ Cached(p) = {} /\ Return(t) /\ UNCHANGED disk
     \/ /\ Cached(p) = {} /\ Return(t) /\ disk[p] = NoFile
        /\ \E i \in Fresh : disk' = [disk EXCEPT ![p] = i]
  /\ UNCHANGED inode

\* exists finds the name, in the file system or, after a negative answer, in
\* the children map.
Exists(t) ==
  /\ pc[t] \in {"create locked", "mkdir locked"}
  /\ \/ Cached(at[t]) # {} /\ UNCHANGED <<children, inode>>
     \/ found[t] # NoFile /\ ~Raced(at[t]) /\ Hash(at[t], found[t])
  /\ Return(t) /\ UNCHANGED disk

\* Dirent.Remove, whose walk does not unlock.
Remove(t, p) ==
  /\ Idle(t) /\ Writable(p)
  /\ disk[p] # NoFile /\ children[p] # Negative
  /\ disk' = [disk EXCEPT ![p] = NoFile]
  /\ children' = [children EXCEPT ![p] = None]
  /\ UNCHANGED <<inode, threadVars>>

\* A Remove or Rename that fails, after a walk that did not unlock: what it
\* looked up has been hashed.
Fail(t, p) ==
  /\ Idle(t) /\ (Writable(p) \/ SameDirRename)
  /\ Slow(p)
  /\ \/ disk[p] # NoFile /\ Hash(p, disk[p])
     \/ /\ disk[p] = NoFile /\ UNCHANGED inode
        /\ children' \in {[children EXCEPT ![p] = n] : n \in {None, Negative}}
  /\ UNCHANGED <<disk, threadVars>>

\* lockForRename: renameMu keeps everybody out, but it is not taken when both
\* places are in one directory.
Renameable(old, new) == IF old[1] = new[1] THEN SameDirRename ELSE Busy = {}

Rehashed(old, new, d) == [children EXCEPT ![old] = None, ![new] = d]

\* Rename; what is replaced may still be referred to, but is not in the tree.
Rename(t, old, new) ==
  /\ Idle(t) /\ old # new /\ Renameable(old, new)
  /\ disk[old] # NoFile /\ children[old] # Negative
  /\ \E d \in Loaded(old) :
       /\ inode' = [inode EXCEPT ![d] = IF @ = NoFile THEN disk[old] ELSE @]
       /\ children' = Rehashed(old, new, d)
  /\ disk' = [disk EXCEPT ![old] = NoFile, ![new] = disk[old]]
  /\ UNCHANGED threadVars

\* The last reference to a Dirent is dropped, and its weak reference expires.
Drop(d) ==
  /\ d \in Live
  /\ inode' = [inode EXCEPT ![d] = NoFile]
  /\ children' = [p \in Places |-> IF children[p] = d THEN Expired ELSE children[p]]
  /\ UNCHANGED <<disk, threadVars>>

Next ==
  \/ \E t \in Threads :
       \/ Lookup(t) \/ WalkFound(t) \/ WalkNegative(t) \/ WalkNothing(t) \/ Exists(t)
       \/ \E p \in Places :
            \/ Walk(t, p) \/ BeginCreate(t, p)
            \/ Create(t, p) \/ CreateFails(t, p) \/ CreateDirectory(t, p)
            \/ Remove(t, p) \/ Fail(t, p)
       \/ \E p, q \in Places : Rename(t, p, q)
  \/ \E d \in Dirents : Drop(d)

Spec == Init /\ [][Next]_vars

-----------------------------------------------------------------------------
TypeOK ==
  /\ disk \in [Places -> Inodes \cup {NoFile}]
  /\ children \in [Places -> Dirents \cup {None, Negative, Expired}]
  /\ \A p \in Places : children[p] \in Dirents => children[p] \in Live
  /\ inode \in [Dirents -> Inodes \cup {NoFile}]
  /\ pc \in [Threads -> {"idle", "panic"} \cup {"walk lookup", "create lookup", "mkdir lookup"}
                          \cup {"walk locked", "create locked", "mkdir locked"}]
  /\ at \in [Threads -> Places \cup {None}]
  /\ found \in [Threads -> Inodes \cup {NoFile}]

\* "Creation and Removal operations must be synchronized with Walk to prevent
\* stale negative caching": what is cached, positive or negative, is what the
\* file system has, although lookups run without d.mu.
CacheIsCoherent ==
  \A p \in Places :
    /\ children[p] = Negative => disk[p] = NoFile
    /\ \A d \in Cached(p) : disk[p] = inode[d]

\* "file locks are per-Dirent and without maintaining the a cached child [...]
\* multiple Dirents can correspond to the same resource" (Rename): they do not.
OneDirentPerFile == \A d, e \in Live : inode[d] = inode[e] => d = e

\* The cache of children shows the file system, each file once.
CacheIsFaithful == TypeOK /\ CacheIsCoherent /\ OneDirentPerFile

=============================================================================
