------------------------------- MODULE TMutex -------------------------------
(***************************************************************************)
(* pkg/tmutex/tmutex.go: a mutex with TryLock, made of a 32-bit counter    *)
(* and a channel with room for one token.  One step per atomic instruction *)
(* or channel operation, as in Sleep.  The counter is 1 when the mutex is  *)
(* free, 0 when it is held, and negative when it is held and somebody may  *)
(* be waiting.                                                             *)
(***************************************************************************)
EXTENDS Integers

CONSTANTS Goroutines

VARIABLES
  v,       \* Mutex.v
  ch,      \* the number of tokens in Mutex.ch
  locker   \* where each goroutine is in the package, or "held"

mutexVars == <<v, ch, locker>>

MutexInit ==
  /\ v = 1
  /\ ch = 0
  /\ locker = [g \in Goroutines |-> "out"]

LockerAt(g, place) == locker' = [locker EXCEPT ![g] = place]

\* Lock: the uncontended case, ...
Lock(g) ==
  /\ locker[g] = "out"
  /\ v' = v - 1
  /\ LockerAt(g, IF v = 1 THEN "held" ELSE "load")
  /\ UNCHANGED ch

\* ... the test of v before the swap, ...
LockLoad(g) ==
  /\ locker[g] = "load"
  /\ LockerAt(g, IF v >= 0 THEN "swap" ELSE "wait")
  /\ UNCHANGED <<v, ch>>

\* A variant that leaves no trace of the contention.
LockSwap_Quiet(g) ==
  /\ locker[g] = "swap"
  /\ v' = 0
  /\ LockerAt(g, IF v = 1 THEN "held" ELSE "wait")
  /\ UNCHANGED ch

\* ... the swap, which marks the mutex as contended, ...
LockSwap(g) ==
  /\ locker[g] = "swap"
  /\ v' = -1
  /\ LockerAt(g, IF v = 1 THEN "held" ELSE "wait")
  /\ UNCHANGED ch

\* ... and the wait for a token.
LockWait(g) ==
  /\ locker[g] = "wait" /\ ch > 0
  /\ ch' = ch - 1
  /\ LockerAt(g, "load")
  /\ UNCHANGED v

\* TryLock: a CAS that fails after the test passed has the same result as a
\* test that fails.
TryLock(g) ==
  /\ locker[g] = "out" /\ v = 1
  /\ v' = 0
  /\ LockerAt(g, "held")
  /\ UNCHANGED ch

TryLockFails(g) ==
  /\ locker[g] = "out" /\ v # 1
  /\ UNCHANGED mutexVars

\* Unlock: free the mutex, and leave a token if somebody may be waiting.
Unlock(g) ==
  /\ locker[g] = "held"
  /\ v' = 1
  /\ LockerAt(g, IF v = 0 THEN "out" ELSE "wake")
  /\ UNCHANGED ch

UnlockWake(g) ==
  /\ locker[g] = "wake"
  /\ ch' = 1
  /\ LockerAt(g, "out")
  /\ UNCHANGED v

MutexStep(g) ==
  LockLoad(g) \/ LockSwap(g) \/ LockWait(g) \/ UnlockWake(g)

MutexNext ==
  \E g \in Goroutines :
    Lock(g) \/ TryLock(g) \/ TryLockFails(g) \/ Unlock(g) \/ MutexStep(g)

MutexSpec == MutexInit /\ [][MutexNext]_mutexVars

-----------------------------------------------------------------------------
MutexTypeOK ==
  /\ v \in Int /\ v <= 1
  /\ ch \in {0, 1}
  /\ locker \in [Goroutines -> {"out", "load", "swap", "wait", "held", "wake"}]

\* "Mutex is a mutual exclusion primitive": it is held by one goroutine at a
\* time, and it is not free while it is held.
MutualExclusion ==
  /\ \A g, h \in Goroutines : locker[g] = "held" /\ locker[h] = "held" => g = h
  /\ v = 1 => \A g \in Goroutines : locker[g] # "held"

\* A goroutine waits for a token only while there is one, or somebody is going
\* to leave one: the owner who will see v < 0, a goroutine in Unlock, or one
\* that is about to mark the mutex as contended.
NobodyIsForgotten ==
  (\E g \in Goroutines : locker[g] = "wait") =>
    \/ ch = 1
    \/ v < 0 /\ \E g \in Goroutines : locker[g] = "held"
    \/ \E g \in Goroutines : locker[g] \in {"load", "swap", "wake"}

\* One owner, and nobody left waiting.
MutexIsSound == MutexTypeOK /\ MutualExclusion /\ NobodyIsForgotten
=============================================================================
