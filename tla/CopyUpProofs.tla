---------------------------- MODULE CopyUpProofs ----------------------------
(***************************************************************************)
(* Proofs about module CopyUp, for any number of threads, mappings and     *)
(* path components, and whatever mappings the upper file refuses.          *)
(*                                                                         *)
(* The inductive invariant says who holds which lock at which step         *)
(* (Locking), what a step may rely on (Phases), where the mappings are     *)
(* (Tracking) and that a translation to the lower inode that outlived the  *)
(* switch to the upper one is still on the list of the thread that is      *)
(* invalidating them (Staleness).                                          *)
(***************************************************************************)
EXTENDS CopyUp, TLAPS

Holding == {"create", "copy", "maps", "add", "set", "invalidate"}

HoldsMaps(t) == pc[t] \in {"add", "invalidate"} \/ (pc[t] = "set" /\ next[t] = File)

Locking ==
  /\ \A t \in Threads : pc[t] \in Holding => copyMu[next[t]] = t
  /\ \A c \in Components : copyMu[c] # None => pc[copyMu[c]] \in Holding /\ next[copyMu[c]] = c
  /\ \A t \in Threads : HoldsMaps(t) => mapsMu = t
  /\ mapsMu # None => HoldsMaps(mapsMu)

Phases ==
  /\ \A t \in Threads :
       /\ pc[t] \in {"maps", "add", "invalidate"} => next[t] = File
       /\ pc[t] \in {"create", "copy", "maps", "add", "set"} => next[t] \notin upper
       /\ pc[t] \in {"lock", "create", "copy", "maps", "add", "set"} => InUpper(next[t] - 1)
       /\ pc[t] \in {"maps", "add", "set"} => disk[next[t]] = "full"
       /\ pc[t] = "invalidate" => File \in upper
  /\ UpperIsConsistent

Tracking ==
  /\ mapsMu = None => todo = {}
  /\ File \notin upper =>
       /\ lowerMaps = mappings
       /\ mapsMu = None => upperMaps = {}
       /\ mapsMu # None => upperMaps = mappings \ todo
  /\ File \in upper =>
       /\ upperMaps = mappings
       /\ mapsMu = None => lowerMaps = {}
       /\ mapsMu # None => lowerMaps = mappings
  /\ \A t \in Threads : pc[t] = "set" /\ next[t] = File => todo = {}

Staleness ==
  /\ \A m \in Maps : translated[m] # "none" \/ fault[m] # "none" => m \in mappings
  /\ \A m \in Maps :
       File \in upper /\ (translated[m] = "lower" \/ fault[m] = "lower") =>
         m \in todo /\ mapsMu # None
  /\ \A t \in Threads : pc[t] = "done" => target[t] \in upper
  /\ (data = "new" \/ \E t \in Threads : pc[t] = "done" /\ target[t] = File) =>
       File \in upper /\ mapsMu = None

IInv == TypeOK /\ Locking /\ Phases /\ Tracking /\ Staleness

-----------------------------------------------------------------------------
\* The values of the variables stay in their sets.
LEMMA TypeStep ==
  ASSUME IInv, [Next]_vars
  PROVE  TypeOK'
<1> USE DepthAssumption, NoneAssumption, FailingAssumption
    DEF IInv, TypeOK, Places, Components, File, Go, Unlock
<1>1. ASSUME NEW t \in Threads, NEW c \in Components, Begin(t, c) PROVE TypeOK'
  BY <1>1 DEF Begin, threadVars, fileVars, mapVars
<1>2. ASSUME NEW t \in Threads, Check(t) PROVE TypeOK'
  BY <1>2 DEF Check, threadVars, fileVars, mapVars
<1>3. ASSUME NEW t \in Threads, FindParent(t) PROVE TypeOK'
  BY <1>3 DEF FindParent, InUpper, threadVars, fileVars, mapVars
<1>4. ASSUME NEW t \in Threads, Found(t) PROVE TypeOK'
  BY <1>4 DEF Found, InUpper, threadVars, fileVars, mapVars
<1>5. ASSUME NEW t \in Threads, Raced(t) PROVE TypeOK'
  BY <1>5 DEF Raced, threadVars, fileVars, mapVars
<1>6. ASSUME NEW t \in Threads, Lock(t) PROVE TypeOK'
  BY <1>6 DEF Lock, threadVars, fileVars, mapVars
<1>7. ASSUME NEW t \in Threads, Create(t) PROVE TypeOK'
  BY <1>7 DEF Create, threadVars, fileVars, mapVars
<1>8. ASSUME NEW t \in Threads, CreateFails(t) PROVE TypeOK'
  BY <1>8 DEF CreateFails, threadVars, fileVars, mapVars
<1>9. ASSUME NEW t \in Threads, Copy(t) PROVE TypeOK'
  BY <1>9 DEF Copy, threadVars, fileVars, mapVars
<1>10. ASSUME NEW t \in Threads, CopyFails(t) PROVE TypeOK'
  BY <1>10 DEF CopyFails, threadVars, fileVars, mapVars
<1>11. ASSUME NEW t \in Threads, LockMaps(t) PROVE TypeOK'
  BY <1>11 DEF LockMaps, threadVars, fileVars, mapVars
<1>12. ASSUME NEW t \in Threads, NEW m \in Maps, AddMapping(t, m) PROVE TypeOK'
  BY <1>12 DEF AddMapping, threadVars, fileVars, mapVars
<1>13. ASSUME NEW t \in Threads, AddMappingFails(t) PROVE TypeOK'
  BY <1>13 DEF AddMappingFails, threadVars, fileVars, mapVars
<1>14. ASSUME NEW t \in Threads, AllAdded(t) PROVE TypeOK'
  BY <1>14 DEF AllAdded, threadVars, fileVars, mapVars
<1>15. ASSUME NEW t \in Threads, SetUpper(t) PROVE TypeOK'
  BY <1>15 DEF SetUpper, threadVars, fileVars, mapVars
<1>16. ASSUME NEW t \in Threads, SetUpperDirectory(t) PROVE TypeOK'
  BY <1>16 DEF SetUpperDirectory, threadVars, fileVars, mapVars
<1>17. ASSUME NEW t \in Threads, NEW m \in Maps, Invalidate(t, m) PROVE TypeOK'
  BY <1>17 DEF Invalidate, threadVars, fileVars, mapVars
<1>18. ASSUME NEW t \in Threads, RemoveLower(t) PROVE TypeOK'
  BY <1>18 DEF RemoveLower, Remaining, threadVars, fileVars, mapVars
<1>19. ASSUME NEW t \in Threads, Return(t) PROVE TypeOK'
  BY <1>19 DEF Return, threadVars, fileVars, mapVars
<1>20. ASSUME NEW t \in Threads, GiveUp(t) PROVE TypeOK'
  BY <1>20 DEF GiveUp, threadVars, fileVars, mapVars
<1>21. ASSUME NEW m \in Maps, Map(m) PROVE TypeOK'
  BY <1>21 DEF Map, Inode, threadVars, fileVars, mapVars
<1>22. ASSUME NEW m \in Maps, Unmap(m) PROVE TypeOK'
  BY <1>22 DEF Unmap, Inode, Tracking, threadVars, fileVars, mapVars
<1>23. ASSUME NEW m \in Maps, Translate(m) PROVE TypeOK'
  BY <1>23 DEF Translate, Inode, threadVars, fileVars, mapVars
<1>24. ASSUME NEW m \in Maps, Install(m) PROVE TypeOK'
  BY <1>24 DEF Install, threadVars, fileVars, mapVars
<1>25. CASE UNCHANGED vars
  BY <1>25 DEF vars, threadVars, fileVars, mapVars
<1>26. QED
  BY <1>1, <1>2, <1>3, <1>4, <1>5, <1>6, <1>7, <1>8, <1>9, <1>10, <1>11, <1>12, <1>13, <1>14, <1>15, <1>16, <1>17, <1>18, <1>19, <1>20, <1>21, <1>22, <1>23, <1>24, <1>25 DEF Next, Step

\* The locks are held by whom the places of the threads say.
LEMMA LockingStep ==
  ASSUME IInv, [Next]_vars
  PROVE  Locking'
<1> USE DepthAssumption, NoneAssumption, FailingAssumption
    DEF IInv, TypeOK, Components, File, Go, Unlock, Holding, HoldsMaps, Locking
<1>1. ASSUME NEW t \in Threads, NEW c \in Components, Begin(t, c) PROVE Locking'
  BY <1>1 DEF Begin, threadVars, fileVars, mapVars
<1>2. ASSUME NEW t \in Threads, Check(t) PROVE Locking'
  BY <1>2 DEF Check, threadVars, fileVars, mapVars
<1>3. ASSUME NEW t \in Threads, FindParent(t) PROVE Locking'
  BY <1>3 DEF FindParent, InUpper, threadVars, fileVars, mapVars
<1>4. ASSUME NEW t \in Threads, Found(t) PROVE Locking'
  BY <1>4 DEF Found, InUpper, threadVars, fileVars, mapVars
<1>5. ASSUME NEW t \in Threads, Raced(t) PROVE Locking'
  BY <1>5 DEF Raced, threadVars, fileVars, mapVars
<1>6. ASSUME NEW t \in Threads, Lock(t) PROVE Locking'
  BY <1>6 DEF Lock, threadVars, fileVars, mapVars
<1>7. ASSUME NEW t \in Threads, Create(t) PROVE Locking'
  BY <1>7 DEF Create, threadVars, fileVars, mapVars
<1>8. ASSUME NEW t \in Threads, CreateFails(t) PROVE Locking'
  BY <1>8 DEF CreateFails, threadVars, fileVars, mapVars
<1>9. ASSUME NEW t \in Threads, Copy(t) PROVE Locking'
  BY <1>9 DEF Copy, threadVars, fileVars, mapVars
<1>10. ASSUME NEW t \in Threads, CopyFails(t) PROVE Locking'
  BY <1>10 DEF CopyFails, threadVars, fileVars, mapVars
<1>11. ASSUME NEW t \in Threads, LockMaps(t) PROVE Locking'
  BY <1>11 DEF LockMaps, threadVars, fileVars, mapVars
<1>12. ASSUME NEW t \in Threads, NEW m \in Maps, AddMapping(t, m) PROVE Locking'
  BY <1>12 DEF AddMapping, threadVars, fileVars, mapVars
<1>13. ASSUME NEW t \in Threads, AddMappingFails(t) PROVE Locking'
  BY <1>13 DEF AddMappingFails, threadVars, fileVars, mapVars
<1>14. ASSUME NEW t \in Threads, AllAdded(t) PROVE Locking'
  BY <1>14 DEF AllAdded, Phases, threadVars, fileVars, mapVars
<1>15. ASSUME NEW t \in Threads, SetUpper(t) PROVE Locking'
  BY <1>15 DEF SetUpper, threadVars, fileVars, mapVars
<1>16. ASSUME NEW t \in Threads, SetUpperDirectory(t) PROVE Locking'
  BY <1>16 DEF SetUpperDirectory, threadVars, fileVars, mapVars
<1>17. ASSUME NEW t \in Threads, NEW m \in Maps, Invalidate(t, m) PROVE Locking'
  BY <1>17 DEF Invalidate, threadVars, fileVars, mapVars
<1>18. ASSUME NEW t \in Threads, RemoveLower(t) PROVE Locking'
  BY <1>18 DEF RemoveLower, Remaining, threadVars, fileVars, mapVars
<1>19. ASSUME NEW t \in Threads, Return(t) PROVE Locking'
  BY <1>19 DEF Return, threadVars, fileVars, mapVars
<1>20. ASSUME NEW t \in Threads, GiveUp(t) PROVE Locking'
  BY <1>20 DEF GiveUp, threadVars, fileVars, mapVars
<1>21. ASSUME NEW m \in Maps, Map(m) PROVE Locking'
  BY <1>21 DEF Map, Inode, threadVars, fileVars, mapVars
<1>22. ASSUME NEW m \in Maps, Unmap(m) PROVE Locking'
  BY <1>22 DEF Unmap, Inode, threadVars, fileVars, mapVars
<1>23. ASSUME NEW m \in Maps, Translate(m) PROVE Locking'
  BY <1>23 DEF Translate, Inode, threadVars, fileVars, mapVars
<1>24. ASSUME NEW m \in Maps, Install(m) PROVE Locking'
  BY <1>24 DEF Install, threadVars, fileVars, mapVars
<1>25. CASE UNCHANGED vars
  BY <1>25 DEF vars, threadVars, fileVars, mapVars
<1>26. QED
  BY <1>1, <1>2, <1>3, <1>4, <1>5, <1>6, <1>7, <1>8, <1>9, <1>10, <1>11, <1>12, <1>13, <1>14, <1>15, <1>16, <1>17, <1>18, <1>19, <1>20, <1>21, <1>22, <1>23, <1>24, <1>25 DEF Next, Step

\* What a thread established before a step of copyUpLocked still holds.
LEMMA PhasesStep ==
  ASSUME IInv, [Next]_vars
  PROVE  Phases'
<1> USE DepthAssumption, NoneAssumption, FailingAssumption
    DEF IInv, TypeOK, Components, File, Go, Unlock, Phases, Locking, Holding, UpperIsConsistent, InUpper
<1>1. ASSUME NEW t \in Threads, NEW c \in Components, Begin(t, c) PROVE Phases'
  BY <1>1 DEF Begin, threadVars, fileVars, mapVars
<1>2. ASSUME NEW t \in Threads, Check(t) PROVE Phases'
  BY <1>2 DEF Check, threadVars, fileVars, mapVars
<1>3. ASSUME NEW t \in Threads, FindParent(t) PROVE Phases'
  BY <1>3 DEF FindParent, threadVars, fileVars, mapVars
<1>4. ASSUME NEW t \in Threads, Found(t) PROVE Phases'
  BY <1>4 DEF Found, threadVars, fileVars, mapVars
<1>5. ASSUME NEW t \in Threads, Raced(t) PROVE Phases'
  BY <1>5 DEF Raced, threadVars, fileVars, mapVars
<1>6. ASSUME NEW t \in Threads, Lock(t) PROVE Phases'
  BY <1>6 DEF Lock, threadVars, fileVars, mapVars
<1>7. ASSUME NEW t \in Threads, Create(t) PROVE Phases'
  BY <1>7 DEF Create, threadVars, fileVars, mapVars
<1>8. ASSUME NEW t \in Threads, CreateFails(t) PROVE Phases'
  BY <1>8 DEF CreateFails, threadVars, fileVars, mapVars
<1>9. ASSUME NEW t \in Threads, Copy(t) PROVE Phases'
  BY <1>9 DEF Copy, threadVars, fileVars, mapVars
<1>10. ASSUME NEW t \in Threads, CopyFails(t) PROVE Phases'
  BY <1>10 DEF CopyFails, threadVars, fileVars, mapVars
<1>11. ASSUME NEW t \in Threads, LockMaps(t) PROVE Phases'
  BY <1>11 DEF LockMaps, threadVars, fileVars, mapVars
<1>12. ASSUME NEW t \in Threads, NEW m \in Maps, AddMapping(t, m) PROVE Phases'
  BY <1>12 DEF AddMapping, threadVars, fileVars, mapVars
<1>13. ASSUME NEW t \in Threads, AddMappingFails(t) PROVE Phases'
  BY <1>13 DEF AddMappingFails, threadVars, fileVars, mapVars
<1>14. ASSUME NEW t \in Threads, AllAdded(t) PROVE Phases'
  BY <1>14 DEF AllAdded, threadVars, fileVars, mapVars
<1>15. ASSUME NEW t \in Threads, SetUpper(t) PROVE Phases'
  BY <1>15 DEF SetUpper, threadVars, fileVars, mapVars
<1>16. ASSUME NEW t \in Threads, SetUpperDirectory(t) PROVE Phases'
  <2>1. copyMu[next[t]] = t /\ disk[next[t]] = "full" /\ InUpper(next[t] - 1)
    BY <1>16 DEF SetUpperDirectory
  <2>2. UpperIsConsistent'
    BY <1>16, <2>1 DEF SetUpperDirectory
  <2>3. ASSUME NEW s \in Threads, pc'[s] \in {"create", "copy", "maps", "add", "set"}
        PROVE  next'[s] \notin upper'
    <3>1. s # t /\ pc[s] = pc'[s] /\ copyMu[next[s]] = s /\ next[s] \notin upper
      BY <1>16, <2>3 DEF SetUpperDirectory
    <3>2. next[s] # next[t]
      BY <2>1, <3>1
    <3>3. QED
      BY <1>16, <3>1, <3>2 DEF SetUpperDirectory
  <2>4. QED
    BY <1>16, <2>2, <2>3 DEF SetUpperDirectory
<1>17. ASSUME NEW t \in Threads, NEW m \in Maps, Invalidate(t, m) PROVE Phases'
  BY <1>17 DEF Invalidate, threadVars, fileVars, mapVars
<1>18. ASSUME NEW t \in Threads, RemoveLower(t) PROVE Phases'
  BY <1>18 DEF RemoveLower, Remaining, threadVars, fileVars, mapVars
<1>19. ASSUME NEW t \in Threads, Return(t) PROVE Phases'
  BY <1>19 DEF Return, threadVars, fileVars, mapVars
<1>20. ASSUME NEW t \in Threads, GiveUp(t) PROVE Phases'
  BY <1>20 DEF GiveUp, threadVars, fileVars, mapVars
<1>21. ASSUME NEW m \in Maps, Map(m) PROVE Phases'
  BY <1>21 DEF Map, Inode, threadVars, fileVars, mapVars
<1>22. ASSUME NEW m \in Maps, Unmap(m) PROVE Phases'
  BY <1>22 DEF Unmap, Inode, threadVars, fileVars, mapVars
<1>23. ASSUME NEW m \in Maps, Translate(m) PROVE Phases'
  BY <1>23 DEF Translate, Inode, threadVars, fileVars, mapVars
<1>24. ASSUME NEW m \in Maps, Install(m) PROVE Phases'
  BY <1>24 DEF Install, threadVars, fileVars, mapVars
<1>25. CASE UNCHANGED vars
  BY <1>25 DEF vars, threadVars, fileVars, mapVars
<1>26. QED
  BY <1>1, <1>2, <1>3, <1>4, <1>5, <1>6, <1>7, <1>8, <1>9, <1>10, <1>11, <1>12, <1>13, <1>14, <1>15, <1>16, <1>17, <1>18, <1>19, <1>20, <1>21, <1>22, <1>23, <1>24, <1>25 DEF Next, Step

\* The mappings are where the step that the holder of mapsMu is at says.
LEMMA TrackingStep ==
  ASSUME IInv, [Next]_vars
  PROVE  Tracking'
<1> USE DepthAssumption, NoneAssumption, FailingAssumption
    DEF IInv, TypeOK, Components, File, Go, Unlock, Tracking, Locking, Phases, Holding, HoldsMaps
<1>1. ASSUME NEW t \in Threads, NEW c \in Components, Begin(t, c) PROVE Tracking'
  BY <1>1 DEF Begin, threadVars, fileVars, mapVars
<1>2. ASSUME NEW t \in Threads, Check(t) PROVE Tracking'
  BY <1>2 DEF Check, threadVars, fileVars, mapVars
<1>3. ASSUME NEW t \in Threads, FindParent(t) PROVE Tracking'
  BY <1>3 DEF FindParent, InUpper, threadVars, fileVars, mapVars
<1>4. ASSUME NEW t \in Threads, Found(t) PROVE Tracking'
  BY <1>4 DEF Found, InUpper, threadVars, fileVars, mapVars
<1>5. ASSUME NEW t \in Threads, Raced(t) PROVE Tracking'
  BY <1>5 DEF Raced, threadVars, fileVars, mapVars
<1>6. ASSUME NEW t \in Threads, Lock(t) PROVE Tracking'
  BY <1>6 DEF Lock, threadVars, fileVars, mapVars
<1>7. ASSUME NEW t \in Threads, Create(t) PROVE Tracking'
  BY <1>7 DEF Create, threadVars, fileVars, mapVars
<1>8. ASSUME NEW t \in Threads, CreateFails(t) PROVE Tracking'
  BY <1>8 DEF CreateFails, threadVars, fileVars, mapVars
<1>9. ASSUME NEW t \in Threads, Copy(t) PROVE Tracking'
  BY <1>9 DEF Copy, threadVars, fileVars, mapVars
<1>10. ASSUME NEW t \in Threads, CopyFails(t) PROVE Tracking'
  BY <1>10 DEF CopyFails, threadVars, fileVars, mapVars
<1>11. ASSUME NEW t \in Threads, LockMaps(t) PROVE Tracking'
  BY <1>11 DEF LockMaps, threadVars, fileVars, mapVars
<1>12. ASSUME NEW t \in Threads, NEW m \in Maps, AddMapping(t, m) PROVE Tracking'
  BY <1>12 DEF AddMapping, threadVars, fileVars, mapVars
<1>13. ASSUME NEW t \in Threads, AddMappingFails(t) PROVE Tracking'
  BY <1>13 DEF AddMappingFails, threadVars, fileVars, mapVars
<1>14. ASSUME NEW t \in Threads, AllAdded(t) PROVE Tracking'
  BY <1>14 DEF AllAdded, threadVars, fileVars, mapVars
<1>15. ASSUME NEW t \in Threads, SetUpper(t) PROVE Tracking'
  <2>1. mapsMu = t /\ todo = {} /\ File \notin upper
    BY <1>15 DEF SetUpper
  <2>2. lowerMaps = mappings /\ upperMaps = mappings
    BY <2>1
  <2>3. \A s \in Threads : ~(pc'[s] = "set" /\ next'[s] = File)
    BY <1>15, <2>1 DEF SetUpper
  <2>4. QED
    BY <1>15, <2>1, <2>2, <2>3 DEF SetUpper
<1>16. ASSUME NEW t \in Threads, SetUpperDirectory(t) PROVE Tracking'
  BY <1>16 DEF SetUpperDirectory, threadVars, fileVars, mapVars
<1>17. ASSUME NEW t \in Threads, NEW m \in Maps, Invalidate(t, m) PROVE Tracking'
  BY <1>17 DEF Invalidate, threadVars, fileVars, mapVars
<1>18. ASSUME NEW t \in Threads, RemoveLower(t) PROVE Tracking'
  BY <1>18 DEF RemoveLower, Remaining, threadVars, fileVars, mapVars
<1>19. ASSUME NEW t \in Threads, Return(t) PROVE Tracking'
  BY <1>19 DEF Return, threadVars, fileVars, mapVars
<1>20. ASSUME NEW t \in Threads, GiveUp(t) PROVE Tracking'
  BY <1>20 DEF GiveUp, threadVars, fileVars, mapVars
<1>21. ASSUME NEW m \in Maps, Map(m) PROVE Tracking'
  BY <1>21 DEF Map, Inode, threadVars, fileVars, mapVars
<1>22. ASSUME NEW m \in Maps, Unmap(m) PROVE Tracking'
  BY <1>22 DEF Unmap, Inode, threadVars, fileVars, mapVars
<1>23. ASSUME NEW m \in Maps, Translate(m) PROVE Tracking'
  BY <1>23 DEF Translate, Inode, threadVars, fileVars, mapVars
<1>24. ASSUME NEW m \in Maps, Install(m) PROVE Tracking'
  BY <1>24 DEF Install, threadVars, fileVars, mapVars
<1>25. CASE UNCHANGED vars
  BY <1>25 DEF vars, threadVars, fileVars, mapVars
<1>26. QED
  BY <1>1, <1>2, <1>3, <1>4, <1>5, <1>6, <1>7, <1>8, <1>9, <1>10, <1>11, <1>12, <1>13, <1>14, <1>15, <1>16, <1>17, <1>18, <1>19, <1>20, <1>21, <1>22, <1>23, <1>24, <1>25 DEF Next, Step

\* A stale translation is on the list of the thread that invalidates.
LEMMA StalenessStep ==
  ASSUME IInv, [Next]_vars
  PROVE  Staleness'
<1> USE DepthAssumption, NoneAssumption, FailingAssumption
    DEF IInv, TypeOK, Components, File, Go, Unlock, Staleness, Tracking, Locking, Phases, Holding, HoldsMaps
<1>1. ASSUME NEW t \in Threads, NEW c \in Components, Begin(t, c) PROVE Staleness'
  BY <1>1 DEF Begin, threadVars, fileVars, mapVars
<1>2. ASSUME NEW t \in Threads, Check(t) PROVE Staleness'
  BY <1>2 DEF Check, threadVars, fileVars, mapVars
<1>3. ASSUME NEW t \in Threads, FindParent(t) PROVE Staleness'
  BY <1>3 DEF FindParent, InUpper, threadVars, fileVars, mapVars
<1>4. ASSUME NEW t \in Threads, Found(t) PROVE Staleness'
  BY <1>4 DEF Found, InUpper, threadVars, fileVars, mapVars
<1>5. ASSUME NEW t \in Threads, Raced(t) PROVE Staleness'
  BY <1>5 DEF Raced, threadVars, fileVars, mapVars
<1>6. ASSUME NEW t \in Threads, Lock(t) PROVE Staleness'
  BY <1>6 DEF Lock, threadVars, fileVars, mapVars
<1>7. ASSUME NEW t \in Threads, Create(t) PROVE Staleness'
  BY <1>7 DEF Create, threadVars, fileVars, mapVars
<1>8. ASSUME NEW t \in Threads, CreateFails(t) PROVE Staleness'
  BY <1>8 DEF CreateFails, threadVars, fileVars, mapVars
<1>9. ASSUME NEW t \in Threads, Copy(t) PROVE Staleness'
  BY <1>9 DEF Copy, threadVars, fileVars, mapVars
<1>10. ASSUME NEW t \in Threads, CopyFails(t) PROVE Staleness'
  BY <1>10 DEF CopyFails, threadVars, fileVars, mapVars
<1>11. ASSUME NEW t \in Threads, LockMaps(t) PROVE Staleness'
  BY <1>11 DEF LockMaps, threadVars, fileVars, mapVars
<1>12. ASSUME NEW t \in Threads, NEW m \in Maps, AddMapping(t, m) PROVE Staleness'
  BY <1>12 DEF AddMapping, threadVars, fileVars, mapVars
<1>13. ASSUME NEW t \in Threads, AddMappingFails(t) PROVE Staleness'
  BY <1>13 DEF AddMappingFails, threadVars, fileVars, mapVars
<1>14. ASSUME NEW t \in Threads, AllAdded(t) PROVE Staleness'
  BY <1>14 DEF AllAdded, threadVars, fileVars, mapVars
<1>15. ASSUME NEW t \in Threads, SetUpper(t) PROVE Staleness'
  BY <1>15 DEF SetUpper, threadVars, fileVars, mapVars
<1>16. ASSUME NEW t \in Threads, SetUpperDirectory(t) PROVE Staleness'
  BY <1>16 DEF SetUpperDirectory, threadVars, fileVars, mapVars
<1>17. ASSUME NEW t \in Threads, NEW m \in Maps, Invalidate(t, m) PROVE Staleness'
  BY <1>17 DEF Invalidate, threadVars, fileVars, mapVars
<1>18. ASSUME NEW t \in Threads, RemoveLower(t) PROVE Staleness'
  BY <1>18 DEF RemoveLower, Remaining, threadVars, fileVars, mapVars
<1>19. ASSUME NEW t \in Threads, Return(t) PROVE Staleness'
  BY <1>19 DEF Return, threadVars, fileVars, mapVars
<1>20. ASSUME NEW t \in Threads, GiveUp(t) PROVE Staleness'
  BY <1>20 DEF GiveUp, threadVars, fileVars, mapVars
<1>21. ASSUME NEW m \in Maps, Map(m) PROVE Staleness'
  BY <1>21 DEF Map, Inode, threadVars, fileVars, mapVars
<1>22. ASSUME NEW m \in Maps, Unmap(m) PROVE Staleness'
  BY <1>22 DEF Unmap, Inode, threadVars, fileVars, mapVars
<1>23. ASSUME NEW m \in Maps, Translate(m) PROVE Staleness'
  BY <1>23 DEF Translate, Inode, threadVars, fileVars, mapVars
<1>24. ASSUME NEW m \in Maps, Install(m) PROVE Staleness'
  BY <1>24 DEF Install, threadVars, fileVars, mapVars
<1>25. CASE UNCHANGED vars
  BY <1>25 DEF vars, threadVars, fileVars, mapVars
<1>26. QED
  BY <1>1, <1>2, <1>3, <1>4, <1>5, <1>6, <1>7, <1>8, <1>9, <1>10, <1>11, <1>12, <1>13, <1>14, <1>15, <1>16, <1>17, <1>18, <1>19, <1>20, <1>21, <1>22, <1>23, <1>24, <1>25 DEF Next, Step

\* The invariant holds initially.
LEMMA InitInv == Init => IInv
<1> USE DepthAssumption, NoneAssumption, FailingAssumption
<1>1. Init => TypeOK
  BY DEF Init, TypeOK, Places, Components, File
<1>2. Init => Locking
  BY DEF Init, Locking, Holding, HoldsMaps, Components, File
<1>3. Init => Phases
  BY DEF Init, Phases, UpperIsConsistent
<1>4. Init => Tracking
  BY DEF Init, Tracking
<1>5. Init => Staleness
  BY DEF Init, Staleness
<1>6. QED
  BY <1>1, <1>2, <1>3, <1>4, <1>5 DEF IInv

\* And always.
LEMMA Invariant == Spec => []IInv
<1>1. IInv /\ [Next]_vars => IInv'
  BY TypeStep, LockingStep, PhasesStep, TrackingStep, StalenessStep DEF IInv
<1>2. QED
  BY InitInv, <1>1, PTL DEF Spec

\* The state of CopyUp is always well-formed.
THEOREM TypeCorrect == Spec => []TypeOK
<1>1. IInv => TypeOK
  BY DEF IInv
<1>2. QED
  BY Invariant, <1>1, PTL

\* Once a file has been copied up, and in any case once it has been written to,
\* no address space shows or is about to show the lower file: copyUpLocked
\* switches to the upper inode before it invalidates, and invalidates before it
\* unlocks.
THEOREM MemoryIsCoherent == Spec => []NoStaleTranslation
<1>1. IInv => NoStaleTranslation
  <2> SUFFICES ASSUME IInv, NEW m \in Maps,
                      (File \in upper /\ copyMu[File] = None) \/ data = "new"
               PROVE  translated[m] # "lower" /\ fault[m] # "lower"
    BY DEF NoStaleTranslation
  <2> USE DepthAssumption, NoneAssumption DEF IInv, TypeOK, Components, File
  <2>1. File \in upper /\ mapsMu = None
    <3>1. CASE data = "new"
      BY <3>1 DEF Staleness
    <3>2. CASE File \in upper /\ copyMu[File] = None
      BY <3>2 DEF Locking, Holding, HoldsMaps, Phases
    <3>3. QED BY <3>1, <3>2
  <2>2. QED
    BY <2>1 DEF Staleness
<1>2. QED
  BY Invariant, <1>1, PTL

\* Whenever mapsMu is free the inode in use knows exactly the mappings that the
\* overlay tracks, after failed copies too: what was added is removed again.
THEOREM MappingsAreTransferred == Spec => []MappingsTransferred
<1>1. IInv => MappingsTransferred
  BY DEF IInv, Tracking, MappingsTransferred
<1>2. QED
  BY Invariant, <1>1, PTL

\* Only complete files with their parents are used from the upper, although
\* copies of one path are made by several threads and fail anywhere.
THEOREM UpperConsistent == Spec => []UpperIsConsistent
<1>1. IInv => UpperIsConsistent
  BY DEF IInv, Phases
<1>2. QED
  BY Invariant, <1>1, PTL

-----------------------------------------------------------------------------
\* The file that the upper has but refused to map.
Refused(c) == c = File /\ disk[c] = "full" /\ FailingMaps # {}

\* A thread that is about to create a component finds a name that is free, or
\* such a file.
Cleanup ==
  /\ \A c \in Components : copyMu[c] = None /\ disk[c] # "none" => c \in upper \/ Refused(c)
  /\ \A t \in Threads : pc[t] = "create" /\ disk[next[t]] # "none" => Refused(next[t])

\* Whoever unlocks copyMu has put the component to use or removed it.
LEMMA CleanupStep ==
  ASSUME IInv, Cleanup, [Next]_vars
  PROVE  Cleanup'
<1> USE DepthAssumption, NoneAssumption, FailingAssumption
    DEF IInv, TypeOK, Components, File, Go, Unlock, Locking, Holding, Phases, Cleanup, Refused
<1>1. ASSUME NEW t \in Threads, NEW c \in Components, Begin(t, c) PROVE Cleanup'
  BY <1>1 DEF Begin, threadVars, fileVars, mapVars
<1>2. ASSUME NEW t \in Threads, Check(t) PROVE Cleanup'
  BY <1>2 DEF Check, threadVars, fileVars, mapVars
<1>3. ASSUME NEW t \in Threads, FindParent(t) PROVE Cleanup'
  BY <1>3 DEF FindParent, threadVars, fileVars, mapVars
<1>4. ASSUME NEW t \in Threads, Found(t) PROVE Cleanup'
  BY <1>4 DEF Found, threadVars, fileVars, mapVars
<1>5. ASSUME NEW t \in Threads, Raced(t) PROVE Cleanup'
  BY <1>5 DEF Raced, threadVars, fileVars, mapVars
<1>6. ASSUME NEW t \in Threads, Lock(t) PROVE Cleanup'
  BY <1>6 DEF Lock, threadVars, fileVars, mapVars
<1>7. ASSUME NEW t \in Threads, Create(t) PROVE Cleanup'
  BY <1>7 DEF Create, threadVars, fileVars, mapVars
<1>8. ASSUME NEW t \in Threads, CreateFails(t) PROVE Cleanup'
  BY <1>8 DEF CreateFails, threadVars, fileVars, mapVars
<1>9. ASSUME NEW t \in Threads, Copy(t) PROVE Cleanup'
  BY <1>9 DEF Copy, threadVars, fileVars, mapVars
<1>10. ASSUME NEW t \in Threads, CopyFails(t) PROVE Cleanup'
  BY <1>10 DEF CopyFails, threadVars, fileVars, mapVars
<1>11. ASSUME NEW t \in Threads, LockMaps(t) PROVE Cleanup'
  BY <1>11 DEF LockMaps, threadVars, fileVars, mapVars
<1>12. ASSUME NEW t \in Threads, NEW m \in Maps, AddMapping(t, m) PROVE Cleanup'
  BY <1>12 DEF AddMapping, threadVars, fileVars, mapVars
<1>13. ASSUME NEW t \in Threads, AddMappingFails(t) PROVE Cleanup'
  BY <1>13 DEF AddMappingFails, threadVars, fileVars, mapVars
<1>14. ASSUME NEW t \in Threads, AllAdded(t) PROVE Cleanup'
  BY <1>14 DEF AllAdded, threadVars, fileVars, mapVars
<1>15. ASSUME NEW t \in Threads, SetUpper(t) PROVE Cleanup'
  BY <1>15 DEF SetUpper, threadVars, fileVars, mapVars
<1>16. ASSUME NEW t \in Threads, SetUpperDirectory(t) PROVE Cleanup'
  BY <1>16 DEF SetUpperDirectory, threadVars, fileVars, mapVars
<1>17. ASSUME NEW t \in Threads, NEW m \in Maps, Invalidate(t, m) PROVE Cleanup'
  BY <1>17 DEF Invalidate, threadVars, fileVars, mapVars
<1>18. ASSUME NEW t \in Threads, RemoveLower(t) PROVE Cleanup'
  BY <1>18 DEF RemoveLower, threadVars, fileVars, mapVars
<1>19. ASSUME NEW t \in Threads, Return(t) PROVE Cleanup'
  BY <1>19 DEF Return, threadVars, fileVars, mapVars
<1>20. ASSUME NEW t \in Threads, GiveUp(t) PROVE Cleanup'
  BY <1>20 DEF GiveUp, threadVars, fileVars, mapVars
<1>21. ASSUME NEW m \in Maps, Map(m) PROVE Cleanup'
  BY <1>21 DEF Map, threadVars, fileVars, mapVars
<1>22. ASSUME NEW m \in Maps, Unmap(m) PROVE Cleanup'
  BY <1>22 DEF Unmap, threadVars, fileVars, mapVars
<1>23. ASSUME NEW m \in Maps, Translate(m) PROVE Cleanup'
  BY <1>23 DEF Translate, threadVars, fileVars, mapVars
<1>24. ASSUME NEW m \in Maps, Install(m) PROVE Cleanup'
  BY <1>24 DEF Install, threadVars, fileVars, mapVars
<1>25. CASE UNCHANGED vars
  BY <1>25 DEF vars, threadVars, fileVars, mapVars
<1>26. QED
  BY <1>1, <1>2, <1>3, <1>4, <1>5, <1>6, <1>7, <1>8, <1>9, <1>10, <1>11, <1>12, <1>13, <1>14, <1>15, <1>16, <1>17, <1>18, <1>19, <1>20, <1>21, <1>22, <1>23, <1>24, <1>25 DEF Next, Step

\* A copy-up that fails leaves nothing in the upper that is not in use, except
\* a complete copy of a file whose mappings the upper refuses: later attempts
\* find the name free.
THEOREM NoPartialCopies == Spec => []NothingLeftBehind
<1>1. Init => Cleanup
  BY DEF Init, Cleanup, Components
<1>2. IInv /\ Cleanup /\ [Next]_vars => Cleanup'
  BY CleanupStep
<1>3. Cleanup => NothingLeftBehind
  BY DEF Cleanup, Refused, NothingLeftBehind
<1>4. QED
  BY Invariant, <1>1, <1>2, <1>3, PTL DEF Spec

\* Copy-up leaves in the upper only complete copies in use and copies in the
\* making, whatever fails.
THEOREM UpperClean == Spec => []UpperIsClean
<1>1. TypeOK /\ UpperIsConsistent /\ NothingLeftBehind => UpperIsClean
  BY DEF UpperIsClean
<1> QED
  BY TypeCorrect, UpperConsistent, NoPartialCopies, <1>1, PTL
=============================================================================
