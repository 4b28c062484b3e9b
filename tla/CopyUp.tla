------------------------------- MODULE CopyUp -------------------------------
(***************************************************************************)
(* pkg/sentry/fs/copy_up.go: threads copy a file, and the directories on   *)
(* the way to it, from the lower to the upper file system, while others    *)
(* map the file into memory, unmap it and fault its pages in.              *)
(*                                                                         *)
(* The components of the path are 1..Depth, the file is the last; the root *)
(* (0) is always in the upper.  A thread that wants to modify component    *)
(* target[t] calls copyUpLockedForRename.  renameMu is held for reading by *)
(* all of them, so the path does not change.  A mapping is a mapping of    *)
(* the file in an address space of its own: fault[m] is what Translate     *)
(* returned while the activeMu of that address space is held, translated[m]*)
(* what its page tables show.                                              *)
(***************************************************************************)
EXTENDS Integers

CONSTANTS
  Threads, Maps,
  Depth,        \* number of components below the root
  None,
  FailingMaps   \* mappings that the upper file refuses (AddMapping fails)

ASSUME DepthAssumption == Depth \in Nat \ {0}
ASSUME NoneAssumption == None \notin Threads
ASSUME FailingAssumption == FailingMaps \subseteq Maps

VARIABLES
  pc,           \* where each thread is
  target,       \* the component it wants in the upper
  next,         \* the component it is about to copy
  upper,        \* the components whose overlayEntry has an upper inode
  disk,         \* what the upper file system has at each component
  copyMu,       \* the holder of each component's copyMu for writing
  mapsMu,       \* the holder of the file's mapsMu
  mappings,     \* overlayEntry.mappings of the file
  lowerMaps,    \* mappings known to the lower inode
  upperMaps,    \* mappings known to the upper inode
  todo,         \* what is left of a loop over mappings under mapsMu
  fault,        \* translation that an address space is about to install
  translated,   \* translation that an address space has installed
  data          \* has the file been written to

threadVars == <<pc, target, next>>
fileVars == <<upper, disk, copyMu, mapsMu>>
mapVars == <<mappings, lowerMaps, upperMaps, todo, fault, translated>>
vars == <<threadVars, fileVars, mapVars, data>>

Components == 1..Depth
File == Depth

Init ==
  /\ pc = [t \in Threads |-> "idle"]
  /\ target = [t \in Threads |-> File]
  /\ next = [t \in Threads |-> File]
  /\ upper = {}
  /\ disk = [c \in Components |-> "none"]
  /\ copyMu = [c \in Components |-> None]
  /\ mapsMu = None
  /\ mappings = {} /\ lowerMaps = {} /\ upperMaps = {} /\ todo = {}
  /\ fault = [m \in Maps |-> "none"]
  /\ translated = [m \in Maps |-> "none"]
  /\ data = "old"

-----------------------------------------------------------------------------
Go(t, from, to) == pc[t] = from /\ pc' = [pc EXCEPT ![t] = to]
Unlock(c) == copyMu' = [copyMu EXCEPT ![c] = None]
InUpper(c) == c = 0 \/ c \in upper

\* copyUp is called for component c.
Begin(t, c) ==
  /\ Go(t, "idle", "check")
  /\ target' = [target EXCEPT ![t] = c]
  /\ UNCHANGED <<next, fileVars, mapVars, data>>

\* "Did we race with another copy up"
Check(t) ==
  /\ copyMu[target[t]] = None
  /\ Go(t, "check", IF target[t] \in upper THEN "done" ELSE "find")
  /\ next' = [next EXCEPT ![t] = target[t]]
  /\ UNCHANGED <<target, fileVars, mapVars, data>>

\* findNextCopyUp: one parent is looked at under its copyMu.
FindParent(t) ==
  /\ pc[t] = "find" /\ ~InUpper(next[t] - 1)
  /\ copyMu[next[t] - 1] = None
  /\ next' = [next EXCEPT ![t] = @ - 1]
  /\ UNCHANGED <<pc, target, fileVars, mapVars, data>>

\* A variant that stops at the component itself.
Found_Itself(t) ==
  /\ Go(t, "find", "lock")
  /\ UNCHANGED <<target, next, fileVars, mapVars, data>>

\* "Note that since we found an upper, it is stable."
Found(t) ==
  /\ InUpper(next[t] - 1)
  /\ next[t] > 1 => copyMu[next[t] - 1] = None
  /\ Go(t, "find", "lock")
  /\ UNCHANGED <<target, next, fileVars, mapVars, data>>

\* doCopyUp: "We raced with another doCopyUp, no problem."
Raced(t) ==
  /\ copyMu[next[t]] = None /\ next[t] \in upper
  /\ Go(t, "lock", "check")
  /\ UNCHANGED <<target, next, fileVars, mapVars, data>>

Lock(t) ==
  /\ copyMu[next[t]] = None /\ next[t] \notin upper
  /\ Go(t, "lock", "create")
  /\ copyMu' = [copyMu EXCEPT ![next[t]] = t]
  /\ UNCHANGED <<target, next, upper, disk, mapsMu, mapVars, data>>

\* copyUpLocked: the file, directory or link is created in the upper.
Create(t) ==
  /\ disk[next[t]] = "none"
  /\ Go(t, "create", "copy")
  /\ disk' = [disk EXCEPT ![next[t]] = "partial"]
  /\ UNCHANGED <<target, next, upper, copyMu, mapsMu, mapVars, data>>

\* It cannot be created; for one, it may already be there.
CreateFails(t) ==
  /\ Go(t, "create", "failed")
  /\ Unlock(next[t])
  /\ UNCHANGED <<target, next, upper, disk, mapsMu, mapVars, data>>

\* Attributes and contents are copied.
Copy(t) ==
  /\ Go(t, "copy", IF next[t] = File THEN "maps" ELSE "set")
  /\ disk' = [disk EXCEPT ![next[t]] = "full"]
  /\ UNCHANGED <<target, next, upper, copyMu, mapsMu, mapVars, data>>

\* Or that fails, and cleanupUpper removes what was created.
CopyFails(t) ==
  /\ Go(t, "copy", "failed")
  /\ disk' = [disk EXCEPT ![next[t]] = "none"]
  /\ Unlock(next[t])
  /\ UNCHANGED <<target, next, upper, mapsMu, mapVars, data>>

\* mapsMu is held until copyUpLocked returns.
LockMaps(t) ==
  /\ mapsMu = None
  /\ Go(t, "maps", "add")
  /\ todo' = mappings
  /\ mapsMu' = t
  /\ UNCHANGED <<target, next, upper, disk, copyMu, mappings, lowerMaps, upperMaps, fault, translated, data>>

AddMapping(t, m) ==
  /\ pc[t] = "add" /\ m \in todo \ FailingMaps
  /\ upperMaps' = upperMaps \cup {m}
  /\ todo' = todo \ {m}
  /\ UNCHANGED <<threadVars, fileVars, mappings, lowerMaps, fault, translated, data>>

\* The mappings added so far are removed and the error is returned.
AddMappingFails(t) ==
  /\ todo \cap FailingMaps # {}
  /\ Go(t, "add", "failed")
  /\ upperMaps' = upperMaps \ mappings
  /\ todo' = {}
  /\ mapsMu' = None /\ Unlock(next[t])
  /\ UNCHANGED <<target, next, upper, disk, mappings, lowerMaps, fault, translated, data>>

AllAdded(t) ==
  /\ todo = {}
  /\ Go(t, "add", "set")
  /\ UNCHANGED <<target, next, fileVars, mapVars, data>>

\* "make new translations use it"
SetUpper(t) ==
  /\ next[t] = File
  /\ Go(t, "set", "invalidate")
  /\ upper' = upper \cup {File}
  /\ todo' = mappings
  /\ UNCHANGED <<target, next, disk, copyMu, mapsMu, mappings, lowerMaps, upperMaps, fault, translated, data>>

\* A directory has no mappings, and copyUpLocked is done.
SetUpperDirectory(t) ==
  /\ next[t] # File
  /\ Go(t, "set", "check")
  /\ upper' = upper \cup {next[t]}
  /\ Unlock(next[t])
  /\ UNCHANGED <<target, next, disk, mapsMu, mapVars, data>>

\* A variant that does not wait for the activeMu of the address space.
Invalidate_NoWait(t, m) ==
  /\ pc[t] = "invalidate" /\ m \in todo
  /\ translated' = [translated EXCEPT ![m] = "none"]
  /\ todo' = todo \ {m}
  /\ UNCHANGED <<threadVars, fileVars, mappings, lowerMaps, upperMaps, fault, data>>

\* InvalidateAll: each address space drops its translation under its activeMu.
Invalidate(t, m) ==
  /\ pc[t] = "invalidate" /\ m \in todo
  /\ fault[m] = "none"
  /\ translated' = [translated EXCEPT ![m] = "none"]
  /\ todo' = todo \ {m}
  /\ UNCHANGED <<threadVars, fileVars, mappings, lowerMaps, upperMaps, fault, data>>

\* A variant that leaves them with the lower inode.
Remaining_All == lowerMaps

\* What is left of the lower inode's mappings.
Remaining == lowerMaps \ mappings

\* A variant that forgets to unlock copyMu.
RemoveLower_KeepsLock(t) ==
  /\ todo = {}
  /\ Go(t, "invalidate", "check")
  /\ lowerMaps' = Remaining
  /\ mapsMu' = None
  /\ UNCHANGED <<target, next, upper, disk, copyMu, mappings, upperMaps, todo, fault, translated, data>>

\* copyUpLocked returns and releases both locks.
RemoveLower(t) ==
  /\ todo = {}
  /\ Go(t, "invalidate", "check")
  /\ lowerMaps' = Remaining
  /\ mapsMu' = None /\ Unlock(next[t])
  /\ UNCHANGED <<target, next, upper, disk, mappings, upperMaps, todo, fault, translated, data>>

\* copyUp has returned; the caller may write to the upper file.
Return(t) ==
  /\ Go(t, "done", "idle")
  /\ data' = IF target[t] = File THEN "new" ELSE data
  /\ UNCHANGED <<target, next, fileVars, mapVars>>

\* The caller gives up, and may try again later.
GiveUp(t) ==
  /\ Go(t, "failed", "idle")
  /\ UNCHANGED <<target, next, fileVars, mapVars, data>>

-----------------------------------------------------------------------------
Inode == IF File \in upper THEN "upper" ELSE "lower"

\* overlayEntry.AddMapping
Map(m) ==
  /\ m \notin mappings /\ mapsMu = None
  /\ Inode = "upper" => m \notin FailingMaps
  /\ mappings' = mappings \cup {m}
  /\ lowerMaps' = IF Inode = "lower" THEN lowerMaps \cup {m} ELSE lowerMaps
  /\ upperMaps' = IF Inode = "upper" THEN upperMaps \cup {m} ELSE upperMaps
  /\ UNCHANGED <<threadVars, fileVars, todo, fault, translated, data>>

\* overlayEntry.RemoveMapping, after the address space has dropped its pages.
Unmap(m) ==
  /\ m \in mappings /\ mapsMu = None /\ fault[m] = "none"
  /\ mappings' = mappings \ {m}
  /\ lowerMaps' = IF Inode = "lower" THEN lowerMaps \ {m} ELSE lowerMaps
  /\ upperMaps' = IF Inode = "upper" THEN upperMaps \ {m} ELSE upperMaps
  /\ translated' = [translated EXCEPT ![m] = "none"]
  /\ UNCHANGED <<threadVars, fileVars, todo, fault, data>>

\* overlayEntry.Translate, called under the activeMu of the address space.
Translate(m) ==
  /\ m \in mappings /\ fault[m] = "none"
  /\ fault' = [fault EXCEPT ![m] = Inode]
  /\ UNCHANGED <<threadVars, fileVars, mappings, lowerMaps, upperMaps, todo, translated, data>>

\* The translation is installed and activeMu is released.
Install(m) ==
  /\ fault[m] # "none"
  /\ translated' = [translated EXCEPT ![m] = fault[m]]
  /\ fault' = [fault EXCEPT ![m] = "none"]
  /\ UNCHANGED <<threadVars, fileVars, mappings, lowerMaps, upperMaps, todo, data>>

-----------------------------------------------------------------------------
\* What a thread does once it has called copyUp.
Step(t) ==
  \/ Check(t) \/ FindParent(t) \/ Found(t) \/ Raced(t) \/ Lock(t)
  \/ Create(t) \/ CreateFails(t) \/ Copy(t) \/ CopyFails(t)
  \/ LockMaps(t) \/ (\E m \in Maps : AddMapping(t, m)) \/ AddMappingFails(t) \/ AllAdded(t)
  \/ SetUpper(t) \/ SetUpperDirectory(t) \/ (\E m \in Maps : Invalidate(t, m)) \/ RemoveLower(t)
  \/ Return(t) \/ GiveUp(t)

Next ==
  \/ \E t \in Threads : Step(t) \/ \E c \in Components : Begin(t, c)
  \/ \E m \in Maps : Map(m) \/ Unmap(m) \/ Translate(m) \/ Install(m)

Spec == Init /\ [][Next]_vars

\* Go's mutexes do not starve a waiter, and a fault is finished once begun.
Fairness ==
  /\ \A t \in Threads : SF_vars(Step(t))
  /\ \A m \in Maps : WF_vars(Install(m))

FairSpec == Spec /\ Fairness

-----------------------------------------------------------------------------
Places == {"idle", "check", "find", "lock", "create", "copy", "maps", "add", "set",
           "invalidate", "done", "failed"}

TypeOK ==
  /\ pc \in [Threads -> Places]
  /\ target \in [Threads -> Components]
  /\ next \in [Threads -> Components]
  /\ upper \subseteq Components
  /\ disk \in [Components -> {"none", "partial", "full"}]
  /\ copyMu \in [Components -> Threads \cup {None}]
  /\ mapsMu \in Threads \cup {None}
  /\ mappings \subseteq Maps /\ lowerMaps \subseteq Maps /\ upperMaps \subseteq Maps
  /\ todo \subseteq mappings
  /\ fault \in [Maps -> {"none", "lower", "upper"}]
  /\ translated \in [Maps -> {"none", "lower", "upper"}]
  /\ data \in {"old", "new"}

\* "Memory mappings of the lower file are invalidated and memory references
\* are transferred to the upper file": once the file has been copied up and
\* its copyMu is free, no address space shows the lower file or is about to.
\* What is written to the file is then seen through every mapping of it.
NoStaleTranslation ==
  (File \in upper /\ copyMu[File] = None) \/ data = "new" =>
    \A m \in Maps : translated[m] # "lower" /\ fault[m] # "lower"

\* Whenever mapsMu is free, the inode that is in use knows exactly the mappings
\* that the overlay tracks, and the other one knows none.
MappingsTransferred ==
  mapsMu = None =>
    /\ lowerMaps = (IF File \in upper THEN {} ELSE mappings)
    /\ upperMaps = (IF File \in upper THEN mappings ELSE {})

\* "This may leave the upper filesystem filled with any number of parent
\* directories but the upper filesystem will never be in an inconsistent
\* state": an entry uses only complete upper files whose parents are in use.
UpperIsConsistent ==
  \A c \in upper : disk[c] = "full" /\ InUpper(c - 1)

\* "If any step in copying up a file fails, copyUp cleans the upper filesystem
\* of any partially up-to-date file": when nobody is copying a component, the
\* upper file system has it only if its entry uses it, so that a later attempt
\* does not find the name taken.  The exception is a file the upper refuses to
\* map (AddMapping fails): the code does not remove the complete copy.
NothingLeftBehind ==
  \A c \in Components :
    copyMu[c] = None /\ disk[c] # "none" =>
      c \in upper \/ (c = File /\ disk[c] = "full" /\ FailingMaps # {})

\* Every call of copyUp returns, with success or an error.
CopyUpReturns == \A t \in Threads : (pc[t] = "check") ~> (pc[t] \in {"done", "failed"})

\* The upper file system holds complete copies in use, copies in the making
\* and nothing else.
UpperIsClean == TypeOK /\ UpperIsConsistent /\ NothingLeftBehind
=============================================================================
