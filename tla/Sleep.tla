------------------------------- MODULE Sleep --------------------------------
(***************************************************************************)
(* pkg/sleep/sleep_unsafe.go: goroutines that sleep until one of several   *)
(* wakers is asserted, without locks.  Every atomic instruction on a       *)
(* shared word is one step.  A compare-and-swap loop is the step of its    *)
(* last round, since a round that fails changes nothing.                   *)
(*                                                                         *)
(* The actions describe what a goroutine does inside the package; a module *)
(* that uses it decides who calls what, when at[t] = "out".                *)
(***************************************************************************)
EXTENDS Naturals, SequencesExt

CONSTANTS
  Threads, Wakers, Sleepers,
  Owner,            \* the only goroutine that may use a sleeper
  Nil, Asserted     \* the two values of Waker.s that are not sleepers

ASSUME OwnerAssumption == Owner \in [Sleepers -> Threads]
ASSUME PointersDiffer ==
  /\ Nil # Asserted
  /\ Nil \notin Sleepers \cup Wakers
  /\ Asserted \notin Sleepers \cup Wakers

VARIABLES
  s,           \* Waker.s
  sharedList,  \* Sleeper.sharedList, the waker asserted last in front
  localList,   \* Sleeper.localList
  allWakers,   \* Sleeper.allWakers, in no particular order
  waitingG,    \* Sleeper.waitingG
  at,          \* where each goroutine is in the package
  waker,       \* the waker it works on, or has fetched
  sleeper,     \* the sleeper it works on
  mode,        \* who called nextWaker: Fetch or Done
  pending      \* Done: the wakers that have yet to be looked at or pulled

lists == <<sharedList, localList, allWakers>>
frame == <<waker, sleeper, mode, pending>>
sleepVars == <<s, lists, waitingG, at, frame>>

Places == {"out", "push", "signal", "next", "prepare", "recheck", "commit",
           "asleep", "swap", "unlink", "drain"}

SleepInit ==
  /\ s \in [Wakers -> {Nil}]
  /\ sharedList = [z \in Sleepers |-> <<>>]
  /\ localList = [z \in Sleepers |-> <<>>]
  /\ allWakers = [z \in Sleepers |-> {}]
  /\ waitingG = [z \in Sleepers |-> "none"]
  /\ at = [t \in Threads |-> "out"]
  /\ waker = [t \in Threads |-> Nil]
  /\ sleeper = [t \in Threads |-> Nil]
  /\ mode = [t \in Threads |-> "fetch"]
  /\ pending = [t \in Threads |-> {}]

Goto(t, place) == at' = [at EXCEPT ![t] = place]

-----------------------------------------------------------------------------
\* Waker.Assert: mark the waker, and queue it if it belonged to a sleeper.  A waker
\* that was cleared while it is queued has s = Nil and is not queued again.
AssertWaker(t, w) ==
  /\ at[t] = "out"
  /\ s' = [s EXCEPT ![w] = Asserted]
  /\ IF s[w] \in Sleepers
       THEN /\ Goto(t, "push")
            /\ waker' = [waker EXCEPT ![t] = w]
            /\ sleeper' = [sleeper EXCEPT ![t] = s[w]]
       ELSE UNCHANGED <<at, waker, sleeper>>
  /\ UNCHANGED <<lists, waitingG, mode, pending>>

\* The value of s of a waker that was cleared.
Cleared(w) == Nil

Clear(t, w) ==
  /\ at[t] = "out"
  /\ s[w] = Asserted
  /\ s' = [s EXCEPT ![w] = Cleared(w)]
  /\ UNCHANGED <<lists, waitingG, at, frame>>

\* enqueueAssertedWaker: add the waker to the shared list, ...
Push(t) ==
  /\ at[t] = "push"
  /\ sharedList' = [sharedList EXCEPT ![sleeper[t]] = <<waker[t]>> \o @]
  /\ Goto(t, "signal")
  /\ UNCHANGED <<s, localList, allWakers, waitingG, frame>>

\* ... and take the sleeper out of its sleep, or keep it from falling asleep.
Signal(t) ==
  /\ at[t] = "signal" /\ waitingG[sleeper[t]] # "none"
  /\ waitingG' = [waitingG EXCEPT ![sleeper[t]] = "none"]
  /\ at' = IF waitingG[sleeper[t]] = "G"
             THEN [at EXCEPT ![Owner[sleeper[t]]] = "next"] ELSE at
  /\ UNCHANGED <<s, lists, frame>>

SignalDone(t) ==
  /\ at[t] = "signal" /\ waitingG[sleeper[t]] = "none"
  /\ Goto(t, "out")
  /\ UNCHANGED <<s, lists, waitingG, frame>>

-----------------------------------------------------------------------------
\* A waker may be added to a sleeper when no other has it.
AddWaker(t, z, w) ==
  /\ at[t] = "out" /\ t = Owner[z]
  /\ \A y \in Sleepers : w \notin allWakers[y]
  /\ allWakers' = [allWakers EXCEPT ![z] = @ \cup {w}]
  /\ IF s[w] = Asserted
       THEN /\ Goto(t, "push")
            /\ waker' = [waker EXCEPT ![t] = w]
            /\ sleeper' = [sleeper EXCEPT ![t] = z]
            /\ UNCHANGED s
       ELSE /\ s' = [s EXCEPT ![w] = z]
            /\ UNCHANGED <<at, waker, sleeper>>
  /\ UNCHANGED <<sharedList, localList, waitingG, mode, pending>>

\* Fetch(true) begins.
Fetch(t, z) ==
  /\ at[t] = "out" /\ t = Owner[z]
  /\ Goto(t, "next")
  /\ sleeper' = [sleeper EXCEPT ![t] = z]
  /\ mode' = [mode EXCEPT ![t] = "fetch"]
  /\ UNCHANGED <<s, lists, waitingG, waker, pending>>

\* What nextWaker returns goes to Fetch, or to Done, which crosses it out.
Return(t, w) ==
  /\ waker' = [waker EXCEPT ![t] = w]
  /\ IF mode[t] = "fetch"
       THEN Goto(t, "swap") /\ UNCHANGED pending
       ELSE Goto(t, "drain") /\ pending' = [pending EXCEPT ![t] = @ \ {w}]
  /\ UNCHANGED <<sleeper, mode>>

\* nextWaker: the head of the local list, ...
NextLocal(t) ==
  /\ at[t] = "next" /\ localList[sleeper[t]] # <<>>
  /\ localList' = [localList EXCEPT ![sleeper[t]] = Tail(@)]
  /\ Return(t, Head(localList[sleeper[t]]))
  /\ UNCHANGED <<s, sharedList, allWakers, waitingG>>

\* ... which is refilled with the shared list, first come first served, ...
Pull(t) ==
  LET z == sleeper[t]
      pulled == Reverse(sharedList[z])
  IN  /\ at[t] = "next" /\ localList[z] = <<>> /\ sharedList[z] # <<>>
      /\ sharedList' = [sharedList EXCEPT ![z] = <<>>]
      /\ localList' = [localList EXCEPT ![z] = Tail(pulled)]
      /\ Return(t, Head(pulled))
      /\ UNCHANGED <<s, allWakers, waitingG>>

\* ... or else the goroutine tells that it is about to sleep, ...
Prepare(t) ==
  /\ at[t] = "next"
  /\ localList[sleeper[t]] = <<>> /\ sharedList[sleeper[t]] = <<>>
  /\ Goto(t, "prepare")
  /\ UNCHANGED <<s, lists, waitingG, frame>>

StorePreparing(t) ==
  /\ at[t] = "prepare"
  /\ waitingG' = [waitingG EXCEPT ![sleeper[t]] = "preparing"]
  /\ Goto(t, "recheck")
  /\ UNCHANGED <<s, lists, frame>>

\* A variant that does not look again.
Recheck_Never(t) ==
  /\ at[t] = "recheck"
  /\ Goto(t, "commit")
  /\ UNCHANGED <<s, lists, waitingG, frame>>

\* ... looks again at the shared list, ...
Recheck(t) ==
  /\ at[t] = "recheck"
  /\ IF sharedList[sleeper[t]] # <<>>
       THEN /\ waitingG' = [waitingG EXCEPT ![sleeper[t]] = "none"]
            /\ Goto(t, "next")
       ELSE Goto(t, "commit") /\ UNCHANGED waitingG
  /\ UNCHANGED <<s, lists, frame>>

\* ... and sleeps (commitSleep), unless a waker has cancelled this.
CommitSleep(t) ==
  /\ at[t] = "commit"
  /\ IF waitingG[sleeper[t]] = "none"
       THEN Goto(t, "next") /\ UNCHANGED waitingG
       ELSE /\ waitingG' = [waitingG EXCEPT ![sleeper[t]] = "G"]
            /\ Goto(t, "asleep")
  /\ UNCHANGED <<s, lists, frame>>

\* A variant that returns wakers that were cleared in the meantime.
Reassociate_Cleared(t) ==
  /\ at[t] = "swap"
  /\ s' = [s EXCEPT ![waker[t]] = sleeper[t]]
  /\ Goto(t, "out")
  /\ UNCHANGED <<lists, waitingG, frame>>

\* Fetch: the waker belongs to the sleeper again, and is returned if it was
\* still asserted.
Reassociate(t) ==
  /\ at[t] = "swap"
  /\ s' = [s EXCEPT ![waker[t]] = sleeper[t]]
  /\ Goto(t, IF s[waker[t]] = Asserted THEN "out" ELSE "next")
  /\ UNCHANGED <<lists, waitingG, frame>>

-----------------------------------------------------------------------------
\* Done: take the wakers that are not asserted from the sleeper, and ...
Done(t, z) ==
  /\ at[t] = "out" /\ t = Owner[z]
  /\ Goto(t, "unlink")
  /\ sleeper' = [sleeper EXCEPT ![t] = z]
  /\ mode' = [mode EXCEPT ![t] = "done"]
  /\ pending' = [pending EXCEPT ![t] = allWakers[z]]
  /\ UNCHANGED <<s, lists, waitingG, waker>>

Unlink(t, w) ==
  /\ at[t] = "unlink" /\ w \in pending[t] /\ s[w] = sleeper[t]
  /\ s' = [s EXCEPT ![w] = Nil]
  /\ pending' = [pending EXCEPT ![t] = @ \ {w}]
  /\ UNCHANGED <<lists, waitingG, at, waker, sleeper, mode>>

\* A variant that does not wait for wakers that are being asserted.
Unlinked_Queued(t) ==
  /\ at[t] = "unlink"
  /\ \A w \in pending[t] : s[w] # sleeper[t]
  /\ Goto(t, "drain")
  /\ pending' = [pending EXCEPT ![t] = @ \cap ToSet(localList[sleeper[t]] \o sharedList[sleeper[t]])]
  /\ UNCHANGED <<s, lists, waitingG, waker, sleeper, mode>>

\* A waker that was seen asserted cannot belong to the sleeper again, so the
\* scan is over when none of those left does.
Unlinked(t) ==
  /\ at[t] = "unlink"
  /\ \A w \in pending[t] : s[w] # sleeper[t]
  /\ Goto(t, "drain")
  /\ UNCHANGED <<s, lists, waitingG, frame>>

\* ... pull the others out of the lists.
Drain(t) ==
  /\ at[t] = "drain" /\ pending[t] # {}
  /\ Goto(t, "next")
  /\ UNCHANGED <<s, lists, waitingG, frame>>

DoneReturns(t) ==
  /\ at[t] = "drain" /\ pending[t] = {}
  /\ allWakers' = [allWakers EXCEPT ![sleeper[t]] = {}]
  /\ Goto(t, "out")
  /\ UNCHANGED <<s, sharedList, localList, waitingG, frame>>

-----------------------------------------------------------------------------
\* A goroutine goes on inside the package.
Asserting(t) == Push(t) \/ Signal(t) \/ SignalDone(t)

Fetching(t) ==
  \/ NextLocal(t) \/ Pull(t) \/ Prepare(t) \/ StorePreparing(t) \/ Recheck(t)
  \/ CommitSleep(t) \/ Reassociate(t)

Finishing(t) ==
  \/ \E w \in Wakers : Unlink(t, w)
  \/ Unlinked(t) \/ Drain(t) \/ DoneReturns(t)

\* Goroutines that use the package in every way that its comments allow.
SleepNext ==
  \E t \in Threads :
    \/ Asserting(t) \/ Fetching(t) \/ Finishing(t)
    \/ \E w \in Wakers : AssertWaker(t, w) \/ Clear(t, w)
    \/ \E z \in Sleepers : Fetch(t, z) \/ Done(t, z)
    \/ \E z \in Sleepers, w \in Wakers : AddWaker(t, z, w)

\* A goroutine in the package goes on.
SleepFairness ==
  \A t \in Threads : WF_sleepVars(Asserting(t) \/ Fetching(t) \/ Finishing(t))

SleepSpec == SleepInit /\ [][SleepNext]_sleepVars /\ SleepFairness

-----------------------------------------------------------------------------
SleepTypeOK ==
  /\ s \in [Wakers -> Sleepers \cup {Nil, Asserted}]
  /\ sharedList \in [Sleepers -> Seq(Wakers)]
  /\ localList \in [Sleepers -> Seq(Wakers)]
  /\ allWakers \in [Sleepers -> SUBSET Wakers]
  /\ waitingG \in [Sleepers -> {"none", "preparing", "G"}]
  /\ at \in [Threads -> Places]
  /\ waker \in [Threads -> Wakers \cup {Nil}]
  /\ sleeper \in [Threads -> Sleepers \cup {Nil}]
  /\ mode \in [Threads -> {"fetch", "done"}]
  /\ pending \in [Threads -> SUBSET Wakers]

Queue(z) == localList[z] \o sharedList[z]

\* The lists are linked through a field of the waker (next), so a waker must be
\* in one place at a time: not twice in the lists, and not in a list while it is
\* being pushed or while an Assert could push it (s is a sleeper).
QueuedOnce ==
  /\ \A z \in Sleepers : IsInjective(Queue(z))
  /\ \A y, z \in Sleepers : y # z => ToSet(Queue(y)) \cap ToSet(Queue(z)) = {}
  /\ \A w \in Wakers :
       s[w] \in Sleepers \/ (\E t \in Threads : at[t] = "push" /\ waker[t] = w) =>
         \A z \in Sleepers : w \notin ToSet(Queue(z))
  /\ \A t, u \in Threads :
       at[t] = "push" /\ at[u] = "push" /\ waker[t] = waker[u] => t = u

\* "We need this interleaving to avoid missing wake ups": nobody sleeps on a
\* waker that has been queued, unless somebody is on the way to wake it.
NoMissedWakeUp ==
  \A t \in Threads :
    at[t] = "asleep" /\ Queue(sleeper[t]) # <<>> =>
      \E u \in Threads : at[u] = "signal" /\ sleeper[u] = sleeper[t]

\* Wakers "can be safely reused by another sleeper after Done() returns": a
\* sleeper without wakers is in no waker, has empty lists, and nobody is about
\* to push a waker to it.
DoneIsFinal ==
  \A z \in Sleepers :
    allWakers[z] = {} =>
      /\ \A w \in Wakers : s[w] # z
      /\ Queue(z) = <<>>
      /\ \A t \in Threads : at[t] = "push" => sleeper[t] # z

\* Each waker is in one list, and in none after Done.
QueuesAreSound == SleepTypeOK /\ QueuedOnce /\ DoneIsFinal

\* The goroutine that owns the sleeper is in Fetch.
InFetch(z) ==
  LET t == Owner[z]
  IN  sleeper[t] = z /\ mode[t] = "fetch" /\
      at[t] \in {"next", "prepare", "recheck", "commit", "asleep", "swap"}

W == INSTANCE Waker WITH
       asserted <- {w \in Wakers : s[w] = Asserted},
       added <- allWakers,
       fetching <- {z \in Sleepers : InFetch(z)}

\* Lock-free lists and park/ready words, seen from outside: a fetch returns one
\* asserted waker of the sleeper and consumes its assertion, assertions are
\* neither lost nor made up, and a fetch with a waker asserted returns.
ImplementsWaker == W!WakerSpec
=============================================================================
