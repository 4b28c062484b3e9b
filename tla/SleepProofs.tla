---------------------------- MODULE SleepProofs -----------------------------
(***************************************************************************)
(* Proof that no wake-up is missed in package sleep, for any goroutines,   *)
(* wakers and sleepers.                                                    *)
(*                                                                         *)
(* NoMissedWakeUp is about a goroutine that sleeps.  The invariant follows *)
(* it there: from the second look at the shared list on, as long as        *)
(* waitingG has not been taken back, a waker in the list has brought       *)
(* somebody who is going to look at waitingG.                              *)
(***************************************************************************)
EXTENDS Sleep, TLAPS

\* The places that only the owner of a sleeper can be at.
OwnerPlaces ==
  {"next", "prepare", "recheck", "commit", "asleep", "swap", "unlink", "drain"}

PlaceOK ==
  /\ at \in [Threads -> Places]
  /\ sleeper \in [Threads -> Sleepers \cup {Nil}]
  /\ waitingG \in [Sleepers -> {"none", "preparing", "G"}]
  /\ sharedList = [z \in Sleepers |-> sharedList[z]]
  /\ localList = [z \in Sleepers |-> localList[z]]
  /\ \A t \in Threads : at[t] # "out" => sleeper[t] \in Sleepers

\* A sleeper is used by its owner.
Owned == \A t \in Threads : at[t] \in OwnerPlaces => Owner[sleeper[t]] = t

\* Who is about to sleep has nothing in the local list.
LocalIsEmpty ==
  \A t \in Threads :
    at[t] \in {"prepare", "recheck", "commit", "asleep"} => localList[sleeper[t]] = <<>>

\* waitingG is the goroutine exactly while it sleeps.
SleepsIsG ==
  /\ \A t \in Threads : at[t] = "asleep" => waitingG[sleeper[t]] = "G"
  /\ \A z \in Sleepers :
       waitingG[z] = "G" => at[Owner[z]] = "asleep" /\ sleeper[Owner[z]] = z

\* Who goes to sleep or sleeps with a waker in the shared list is being woken.
Signalled(z) == \E u \in Threads : at[u] = "signal" /\ sleeper[u] = z

SignalComes ==
  \A t \in Threads :
    /\ at[t] \in {"commit", "asleep"}
    /\ waitingG[sleeper[t]] # "none"
    /\ sharedList[sleeper[t]] # <<>>
    => Signalled(sleeper[t])

IInv == PlaceOK /\ Owned /\ LocalIsEmpty /\ SleepsIsG /\ SignalComes

-----------------------------------------------------------------------------
\* Two goroutines at places of an owner, with one sleeper, are the same.
LEMMA SameOwner ==
  ASSUME IInv, NEW t \in Threads, NEW u \in Threads,
         at[t] \in OwnerPlaces, at[u] \in OwnerPlaces, sleeper[t] = sleeper[u]
  PROVE  t = u
  BY DEF IInv, Owned

\* What the steps before the last look at the lists and after the sleep have
\* in common: they move one goroutine, leave waitingG alone and queue nothing.
LEMMA QuietStep ==
  ASSUME IInv, NEW t \in Threads, NEW place \in Places, NEW z \in Sleepers \cup {Nil},
         at[t] # "asleep",
         at[t] = "signal" => waitingG[sleeper[t]] = "none",
         place \notin {"prepare", "recheck", "commit", "asleep"},
         place # "out" => z \in Sleepers,
         place \in OwnerPlaces => Owner[z] = t,
         at' = [at EXCEPT ![t] = place],
         sleeper' = [sleeper EXCEPT ![t] = z],
         waitingG' = waitingG,
         sharedList' = [y \in Sleepers |-> sharedList'[y]],
         localList' = [y \in Sleepers |-> localList'[y]],
         \A y \in Sleepers : sharedList'[y] # <<>> => sharedList[y] # <<>>,
         \A y \in Sleepers : localList'[y] # localList[y] =>
            at[t] \in OwnerPlaces /\ sleeper[t] = y
  PROVE  IInv'
<1> USE OwnerAssumption DEF IInv
<1>1. PlaceOK'
  BY DEF PlaceOK
<1>2. Owned'
  BY DEF PlaceOK, Owned
<1>3. LocalIsEmpty'
  <2> SUFFICES ASSUME NEW u \in Threads,
                      at'[u] \in {"prepare", "recheck", "commit", "asleep"}
               PROVE  localList'[sleeper'[u]] = <<>>
    BY DEF LocalIsEmpty
  <2>1. u # t /\ at'[u] = at[u] /\ sleeper'[u] = sleeper[u]
    BY DEF PlaceOK
  <2>2. sleeper[u] \in Sleepers /\ at[u] \in OwnerPlaces
    BY <2>1 DEF PlaceOK, OwnerPlaces
  <2>3. localList'[sleeper[u]] = localList[sleeper[u]]
    BY <2>1, <2>2, SameOwner
  <2> QED BY <2>1, <2>3 DEF LocalIsEmpty
<1>4. SleepsIsG'
  <2>1. ASSUME NEW u \in Threads, at'[u] = "asleep"
        PROVE  waitingG'[sleeper'[u]] = "G"
    BY <2>1 DEF PlaceOK, SleepsIsG
  <2>2. ASSUME NEW y \in Sleepers, waitingG'[y] = "G"
        PROVE  at'[Owner[y]] = "asleep" /\ sleeper'[Owner[y]] = y
    <3>1. at[Owner[y]] = "asleep" /\ sleeper[Owner[y]] = y /\ Owner[y] \in Threads
      BY <2>2 DEF SleepsIsG
    <3> QED BY <3>1 DEF PlaceOK
  <2> QED BY <2>1, <2>2 DEF SleepsIsG
<1>5. SignalComes'
  <2> SUFFICES ASSUME NEW u \in Threads, at'[u] \in {"commit", "asleep"},
                      waitingG'[sleeper'[u]] # "none",
                      sharedList'[sleeper'[u]] # <<>>
               PROVE  \E x \in Threads : at'[x] = "signal" /\ sleeper'[x] = sleeper'[u]
    BY DEF SignalComes, Signalled
  <2>1. u # t /\ at'[u] = at[u] /\ sleeper'[u] = sleeper[u] /\ sleeper[u] \in Sleepers
    BY DEF PlaceOK
  <2>2. PICK x \in Threads : at[x] = "signal" /\ sleeper[x] = sleeper[u]
    BY <2>1 DEF SignalComes, Signalled
  <2>3. x # t
    BY <2>1, <2>2
  <2> QED BY <2>1, <2>2, <2>3 DEF PlaceOK
<1> QED BY <1>1, <1>2, <1>3, <1>4, <1>5

\* Steps that change none of this state.
LEMMA NoStep ==
  ASSUME IInv, UNCHANGED <<at, sleeper, waitingG, sharedList, localList>>
  PROVE  IInv'
<1> USE DEF IInv
<1>1. PlaceOK' /\ Owned'
  BY DEF PlaceOK, Owned
<1>2. LocalIsEmpty' /\ SleepsIsG'
  BY DEF LocalIsEmpty, SleepsIsG
<1>3. SignalComes'
  BY DEF SignalComes, Signalled
<1> QED BY <1>1, <1>2, <1>3

-----------------------------------------------------------------------------
\* Waker.Assert and Clear, and the calls of a sleeper's owner.
LEMMA CallStep ==
  ASSUME IInv, NEW t \in Threads,
         \/ \E w \in Wakers : AssertWaker(t, w) \/ Clear(t, w)
         \/ \E z \in Sleepers : Fetch(t, z) \/ Done(t, z)
         \/ \E z \in Sleepers, w \in Wakers : AddWaker(t, z, w)
  PROVE  IInv'
<1> USE DEF IInv
<1>1. at[t] = "out" /\ t \in DOMAIN at
  BY DEF AssertWaker, Clear, Fetch, Done, AddWaker, PlaceOK
<1>2. UNCHANGED <<sharedList, localList, waitingG>>
  BY DEF AssertWaker, Clear, Fetch, Done, AddWaker, lists
<1>3. \/ UNCHANGED <<at, sleeper>>
      \/ \E place \in {"push", "next", "unlink"}, z \in Sleepers :
           /\ at' = [at EXCEPT ![t] = place]
           /\ sleeper' = [sleeper EXCEPT ![t] = z]
           /\ place # "push" => t = Owner[z]
  <2>1. ASSUME NEW w \in Wakers, AssertWaker(t, w) PROVE <1>3
    BY <2>1 DEF AssertWaker, Goto
  <2>2. ASSUME NEW w \in Wakers, Clear(t, w) PROVE <1>3
    BY <2>2 DEF Clear, frame
  <2>3. ASSUME NEW z \in Sleepers, Fetch(t, z) \/ Done(t, z) PROVE <1>3
    BY <2>3 DEF Fetch, Done, Goto
  <2>4. ASSUME NEW z \in Sleepers, NEW w \in Wakers, AddWaker(t, z, w) PROVE <1>3
    BY <2>4 DEF AddWaker, Goto
  <2> QED BY <2>1, <2>2, <2>3, <2>4
<1>4. CASE UNCHANGED <<at, sleeper>>
  BY <1>2, <1>4, NoStep
<1>5. ASSUME NEW place \in {"push", "next", "unlink"}, NEW z \in Sleepers,
             at' = [at EXCEPT ![t] = place],
             sleeper' = [sleeper EXCEPT ![t] = z],
             place # "push" => t = Owner[z]
      PROVE  IInv'
  <2>1. place \in Places /\ (place \in OwnerPlaces => Owner[z] = t)
    BY <1>5 DEF Places, OwnerPlaces
  <2>2. /\ sharedList' = [y \in Sleepers |-> sharedList'[y]]
        /\ localList' = [y \in Sleepers |-> localList'[y]]
    BY <1>2 DEF PlaceOK
  <2> QED BY <1>1, <1>2, <1>5, <2>1, <2>2, QuietStep, Zenon
<1> QED BY <1>3, <1>4, <1>5

\* The steps of Fetch and Done away from the sleep.
LEMMA WorkStep ==
  ASSUME IInv, NEW t \in Threads,
         \/ SignalDone(t) \/ NextLocal(t) \/ Pull(t) \/ Reassociate(t)
         \/ Finishing(t)
  PROVE  IInv'
<1> USE DEF IInv
<1>1. /\ at[t] \in {"signal", "next", "swap", "unlink", "drain"}
      /\ at[t] = "signal" => waitingG[sleeper[t]] = "none"
      /\ waitingG' = waitingG
  BY DEF SignalDone, NextLocal, Pull, Reassociate, Finishing, Unlink, Unlinked, Drain,
         DoneReturns
<1>2. sleeper[t] \in Sleepers /\ sleeper' = sleeper
  BY <1>1 DEF PlaceOK, SignalDone, NextLocal, Pull, Reassociate, Finishing, Unlink,
              Unlinked, Drain, DoneReturns, Return, frame
<1>3. \/ UNCHANGED <<at, sharedList, localList>>
      \/ /\ \E place \in {"out", "next", "swap", "drain"} :
              /\ at' = [at EXCEPT ![t] = place]
              /\ place # "out" => at[t] # "signal"
         /\ UNCHANGED <<sharedList, localList>>
      \/ /\ \E place \in {"swap", "drain"} : at' = [at EXCEPT ![t] = place]
         /\ at[t] = "next"
         /\ \E q : localList' = [localList EXCEPT ![sleeper[t]] = q]
         /\ sharedList' \in {sharedList, [sharedList EXCEPT ![sleeper[t]] = <<>>]}
  <2>1. CASE SignalDone(t)
    BY <2>1 DEF SignalDone, Goto, lists
  <2>2. CASE NextLocal(t)
    BY <2>2, Zenon DEF NextLocal, Return, Goto
  <2>3. CASE Pull(t)
    BY <2>3, Zenon DEF Pull, Return, Goto
  <2>4. CASE Reassociate(t)
    <3>1. PICK place \in {"out", "next"} : at' = [at EXCEPT ![t] = place]
      BY <2>4, Zenon DEF Reassociate, Goto
    <3> QED BY <2>4, <3>1, Zenon DEF Reassociate, lists
  <2>5. CASE Finishing(t)
    <3>1. CASE \E w \in Wakers : Unlink(t, w)
      BY <3>1 DEF Unlink, lists
    <3>2. CASE Unlinked(t) \/ Drain(t) \/ DoneReturns(t)
      BY <3>2 DEF Unlinked, Drain, DoneReturns, Goto, lists
    <3> QED BY <2>5, <3>1, <3>2 DEF Finishing
  <2> QED BY <2>1, <2>2, <2>3, <2>4, <2>5
<1>4. CASE UNCHANGED <<at, sharedList, localList>>
  BY <1>1, <1>2, <1>4, NoStep
<1>5. ASSUME NEW place \in {"out", "next", "swap", "drain"},
             at' = [at EXCEPT ![t] = place],
             place # "out" => at[t] # "signal",
             sharedList' = [y \in Sleepers |-> sharedList'[y]],
             localList' = [y \in Sleepers |-> localList'[y]],
             \A y \in Sleepers : sharedList'[y] # <<>> => sharedList[y] # <<>>,
             \A y \in Sleepers : localList'[y] # localList[y] =>
                at[t] \in OwnerPlaces /\ sleeper[t] = y
      PROVE  IInv'
  <2>1. /\ place \in Places /\ place \notin {"prepare", "recheck", "commit", "asleep"}
        /\ at[t] # "asleep"
    BY <1>1 DEF Places
  <2>2. place \in OwnerPlaces => Owner[sleeper[t]] = t
    BY <1>1, <1>5 DEF OwnerPlaces, Owned
  <2>3. sleeper' = [sleeper EXCEPT ![t] = sleeper[t]]
    BY <1>2 DEF PlaceOK
  <2> QED BY <1>1, <1>2, <1>5, <2>1, <2>2, <2>3, QuietStep, Zenon
<1>6. CASE /\ \E place \in {"out", "next", "swap", "drain"} :
                /\ at' = [at EXCEPT ![t] = place]
                /\ place # "out" => at[t] # "signal"
           /\ UNCHANGED <<sharedList, localList>>
  <2>1. /\ sharedList' = [y \in Sleepers |-> sharedList'[y]]
        /\ localList' = [y \in Sleepers |-> localList'[y]]
    BY <1>6 DEF PlaceOK
  <2> QED BY <1>5, <1>6, <2>1, Zenon
<1>7. CASE /\ \E place \in {"swap", "drain"} : at' = [at EXCEPT ![t] = place]
           /\ at[t] = "next"
           /\ \E q : localList' = [localList EXCEPT ![sleeper[t]] = q]
           /\ sharedList' \in {sharedList, [sharedList EXCEPT ![sleeper[t]] = <<>>]}
  <2>1. /\ localList' = [y \in Sleepers |-> localList'[y]]
        /\ \A y \in Sleepers : localList'[y] # localList[y] => sleeper[t] = y
    BY <1>7 DEF PlaceOK
  <2>2. /\ sharedList' = [y \in Sleepers |-> sharedList'[y]]
        /\ \A y \in Sleepers : sharedList'[y] # <<>> => sharedList[y] # <<>>
    BY <1>7, <1>2 DEF PlaceOK
  <2>3. at[t] \in OwnerPlaces /\ at[t] # "signal"
    BY <1>7 DEF OwnerPlaces
  <2> QED BY <1>5, <1>7, <2>1, <2>2, <2>3, Zenon
<1> QED BY <1>3, <1>4, <1>6, <1>7

-----------------------------------------------------------------------------
\* enqueueAssertedWaker queues the waker and is then going to signal.
LEMMA PushStep ==
  ASSUME IInv, NEW t \in Threads, Push(t)
  PROVE  IInv'
<1> USE OwnerAssumption DEF IInv
<1>1. /\ at[t] = "push" /\ at' = [at EXCEPT ![t] = "signal"]
      /\ UNCHANGED <<sleeper, waitingG, localList>>
      /\ \E q : sharedList' = [sharedList EXCEPT ![sleeper[t]] = q]
  BY Zenon DEF Push, Goto, frame
<1>2. at'[t] = "signal" /\ \A u \in Threads \ {t} : at'[u] = at[u]
  BY <1>1 DEF PlaceOK
<1>3. PlaceOK'
  BY <1>1, Zenon DEF PlaceOK, Places
<1>4. Owned' /\ LocalIsEmpty'
  BY <1>1, <1>2 DEF Owned, LocalIsEmpty, OwnerPlaces
<1>5. SleepsIsG'
  BY <1>1, <1>2 DEF SleepsIsG
<1>6. SignalComes'
  <2> SUFFICES ASSUME NEW u \in Threads, at'[u] \in {"commit", "asleep"},
                      waitingG'[sleeper'[u]] # "none",
                      sharedList'[sleeper'[u]] # <<>>
               PROVE  \E x \in Threads : at'[x] = "signal" /\ sleeper'[x] = sleeper'[u]
    BY DEF SignalComes, Signalled
  <2>1. u # t /\ at[u] \in {"commit", "asleep"}
    BY <1>2
  <2>2. CASE sleeper[u] = sleeper[t]
    BY <1>1, <1>2, <2>2
  <2>3. CASE sleeper[u] # sleeper[t]
    <3>1. sharedList'[sleeper[u]] = sharedList[sleeper[u]]
      BY <1>1, <2>1, <2>3 DEF PlaceOK
    <3>2. PICK x \in Threads : at[x] = "signal" /\ sleeper[x] = sleeper[u]
      BY <1>1, <2>1, <3>1 DEF SignalComes, Signalled
    <3> QED BY <1>1, <1>2, <3>2
  <2> QED BY <2>2, <2>3
<1> QED BY <1>3, <1>4, <1>5, <1>6

\* ... which takes waitingG back, and wakes the goroutine if it is in there.
LEMMA SignalStep ==
  ASSUME IInv, NEW t \in Threads, Signal(t)
  PROVE  IInv'
<1> USE OwnerAssumption DEF IInv
<1> DEFINE z == sleeper[t]
<1>1. /\ at[t] = "signal" /\ z \in Sleepers
      /\ waitingG' = [waitingG EXCEPT ![z] = "none"]
      /\ UNCHANGED <<sleeper, sharedList, localList>>
  BY DEF Signal, lists, frame, PlaceOK
<1>2. CASE waitingG[z] # "G"
  <2>1. UNCHANGED at
    BY <1>2 DEF Signal
  <2>2. \A t1 \in Threads : at[t1] = "asleep" => sleeper[t1] # z
    BY <1>2 DEF SleepsIsG
  <2>3. PlaceOK' /\ Owned' /\ LocalIsEmpty'
    BY <1>1, <2>1 DEF PlaceOK, Owned, LocalIsEmpty
  <2>4. SleepsIsG'
    <3>1. \A y \in Sleepers : waitingG'[y] = "G" => waitingG[y] = "G"
      BY <1>1 DEF PlaceOK
    <3>2. ASSUME NEW u \in Threads, at'[u] = "asleep" PROVE waitingG'[sleeper'[u]] = "G"
      BY <1>1, <2>1, <2>2, <3>2 DEF PlaceOK, SleepsIsG
    <3> QED BY <1>1, <2>1, <3>1, <3>2 DEF SleepsIsG
  <2>5. SignalComes'
    <3>1. \A y \in Sleepers : waitingG'[y] # "none" => waitingG[y] # "none"
      BY <1>1 DEF PlaceOK
    <3>2. \A u \in Threads : at[u] \in {"commit", "asleep"} => sleeper[u] \in Sleepers
      BY DEF PlaceOK
    <3> QED BY <1>1, <2>1, <3>1, <3>2 DEF SignalComes, Signalled
  <2> QED BY <2>3, <2>4, <2>5
<1>3. CASE waitingG[z] = "G"
  <2> DEFINE o == Owner[z]
  <2>1. o \in Threads /\ at[o] = "asleep" /\ sleeper[o] = z
    BY <1>1, <1>3 DEF SleepsIsG
  <2>2. at' = [at EXCEPT ![o] = "next"]
    BY <1>3 DEF Signal
  <2>3. at'[o] = "next" /\ \A u \in Threads \ {o} : at'[u] = at[u]
    BY <2>1, <2>2 DEF PlaceOK
  <2>4. \A u \in Threads \ {o} : at[u] \in OwnerPlaces => sleeper[u] # z
    BY DEF Owned
  <2>5. PlaceOK'
    BY <1>1, <2>1, <2>2 DEF PlaceOK, Places
  <2>6. Owned' /\ LocalIsEmpty'
    BY <1>1, <2>1, <2>3 DEF Owned, LocalIsEmpty
  <2>7. SleepsIsG'
    <3>1. ASSUME NEW u \in Threads, at'[u] = "asleep" PROVE waitingG'[sleeper'[u]] = "G"
      <4>1. u # o /\ at[u] = "asleep" /\ sleeper[u] # z
        BY <2>3, <2>4, <3>1 DEF OwnerPlaces
      <4> QED BY <1>1, <4>1 DEF PlaceOK, SleepsIsG
    <3>2. ASSUME NEW y \in Sleepers, waitingG'[y] = "G"
          PROVE  at'[Owner[y]] = "asleep" /\ sleeper'[Owner[y]] = y
      <4>1. y # z /\ waitingG[y] = "G"
        BY <1>1, <3>2 DEF PlaceOK
      <4>2. at[Owner[y]] = "asleep" /\ sleeper[Owner[y]] = y /\ Owner[y] \in Threads
        BY <4>1 DEF SleepsIsG
      <4>3. Owner[y] # o
        BY <2>1, <4>1, <4>2
      <4> QED BY <1>1, <2>3, <4>2, <4>3
    <3> QED BY <3>1, <3>2 DEF SleepsIsG
  <2>8. SignalComes'
    <3> SUFFICES ASSUME NEW u \in Threads, at'[u] \in {"commit", "asleep"},
                        waitingG'[sleeper'[u]] # "none",
                        sharedList'[sleeper'[u]] # <<>>
                 PROVE  \E x \in Threads : at'[x] = "signal" /\ sleeper'[x] = sleeper'[u]
      BY DEF SignalComes, Signalled
    <3>1. u # o /\ at[u] \in {"commit", "asleep"} /\ sleeper[u] # z
      BY <2>3, <2>4 DEF OwnerPlaces
    <3>2. waitingG[sleeper[u]] # "none"
      BY <1>1, <3>1 DEF PlaceOK
    <3>3. PICK x \in Threads : at[x] = "signal" /\ sleeper[x] = sleeper[u]
      BY <1>1, <3>1, <3>2 DEF SignalComes, Signalled
    <3>4. x # o
      BY <2>1, <3>3
    <3> QED BY <1>1, <2>3, <3>3, <3>4
  <2> QED BY <2>5, <2>6, <2>7, <2>8
<1> QED BY <1>2, <1>3

-----------------------------------------------------------------------------
\* What the steps of nextWaker into the sleep have in common: the owner moves
\* on and writes its own waitingG.
LEMMA FallStep ==
  ASSUME IInv, NEW t \in Threads,
         NEW place \in {"next", "prepare", "recheck", "commit", "asleep"},
         NEW g \in {"none", "preparing", "G"},
         at[t] \in {"next", "prepare", "recheck", "commit"},
         at' = [at EXCEPT ![t] = place],
         waitingG' = [waitingG EXCEPT ![sleeper[t]] = g],
         UNCHANGED <<sleeper, sharedList, localList>>,
         place # "next" => localList[sleeper[t]] = <<>>,
         g = "G" <=> place = "asleep",
         /\ place \in {"commit", "asleep"} /\ g # "none"
         /\ sharedList[sleeper[t]] # <<>>
         => Signalled(sleeper[t])
  PROVE  IInv'
<1> USE OwnerAssumption DEF IInv
<1> DEFINE z == sleeper[t]
<1>1. z \in Sleepers /\ at[t] \in OwnerPlaces /\ Owner[z] = t
  BY DEF PlaceOK, Owned, OwnerPlaces
<1>2. at'[t] = place /\ \A u \in Threads \ {t} : at'[u] = at[u]
  BY DEF PlaceOK
<1>3. waitingG'[z] = g /\ \A y \in Sleepers \ {z} : waitingG'[y] = waitingG[y]
  BY <1>1 DEF PlaceOK
<1>4. \A u \in Threads \ {t} : at[u] \in OwnerPlaces => sleeper[u] # z
  BY <1>1 DEF Owned
<1>5. PlaceOK'
  BY <1>1 DEF PlaceOK, Places
<1>6. Owned' /\ LocalIsEmpty'
  BY <1>1, <1>2 DEF Owned, LocalIsEmpty
<1>7. SleepsIsG'
  <2>1. ASSUME NEW u \in Threads, at'[u] = "asleep" PROVE waitingG'[sleeper'[u]] = "G"
    <3>1. CASE u = t
      BY <1>2, <1>3, <2>1, <3>1
    <3>2. CASE u # t
      <4>1. at[u] = "asleep" /\ sleeper[u] # z /\ sleeper[u] \in Sleepers
        BY <1>2, <1>4, <2>1, <3>2 DEF OwnerPlaces, PlaceOK
      <4> QED BY <1>3, <4>1 DEF SleepsIsG
    <3> QED BY <3>1, <3>2
  <2>2. ASSUME NEW y \in Sleepers, waitingG'[y] = "G"
        PROVE  at'[Owner[y]] = "asleep" /\ sleeper'[Owner[y]] = y
    <3>1. CASE y = z
      BY <1>1, <1>2, <1>3, <2>2, <3>1
    <3>2. CASE y # z
      <4>1. at[Owner[y]] = "asleep" /\ sleeper[Owner[y]] = y /\ Owner[y] \in Threads
        BY <1>3, <2>2, <3>2 DEF SleepsIsG
      <4> QED BY <1>2, <4>1
    <3> QED BY <3>1, <3>2
  <2> QED BY <2>1, <2>2 DEF SleepsIsG
<1>8. SignalComes'
  <2> SUFFICES ASSUME NEW u \in Threads, at'[u] \in {"commit", "asleep"},
                      waitingG'[sleeper'[u]] # "none",
                      sharedList'[sleeper'[u]] # <<>>
               PROVE  \E x \in Threads : at'[x] = "signal" /\ sleeper'[x] = sleeper'[u]
    BY DEF SignalComes, Signalled
  <2>1. \E x \in Threads : at[x] = "signal" /\ sleeper[x] = sleeper[u]
    <3>1. CASE u = t
      BY <1>2, <1>3, <3>1 DEF Signalled
    <3>2. CASE u # t
      <4>1. at[u] \in {"commit", "asleep"} /\ sleeper[u] # z /\ sleeper[u] \in Sleepers
        BY <1>2, <1>4, <3>2 DEF OwnerPlaces, PlaceOK
      <4> QED BY <1>3, <4>1 DEF SignalComes, Signalled
    <3> QED BY <3>1, <3>2
  <2> QED BY <1>2, <2>1
<1> QED BY <1>5, <1>6, <1>7, <1>8

\* nextWaker goes to sleep in four steps, after it has seen empty lists twice.
LEMMA SleepStep ==
  ASSUME IInv, NEW t \in Threads,
         Prepare(t) \/ StorePreparing(t) \/ Recheck(t) \/ CommitSleep(t)
  PROVE  IInv'
<1> USE DEF IInv
<1>1. /\ at[t] \in {"next", "prepare", "recheck", "commit"}
      /\ UNCHANGED <<sleeper, sharedList, localList>>
  BY DEF Prepare, StorePreparing, Recheck, CommitSleep, lists, frame
<1>2. sleeper[t] \in Sleepers /\ Owner[sleeper[t]] = t
  BY <1>1 DEF PlaceOK, Owned, OwnerPlaces
<1>3. waitingG[sleeper[t]] \in {"none", "preparing"}
  BY <1>1, <1>2 DEF PlaceOK, SleepsIsG
<1>4. waitingG = [waitingG EXCEPT ![sleeper[t]] = waitingG[sleeper[t]]]
  BY <1>2 DEF PlaceOK
<1>5. CASE Prepare(t)
  <2>1. /\ at' = [at EXCEPT ![t] = "prepare"] /\ waitingG' = waitingG
        /\ localList[sleeper[t]] = <<>>
    BY <1>5 DEF Prepare, Goto
  <2> QED BY <1>1, <1>3, <1>4, <2>1, FallStep, Zenon
<1>6. CASE StorePreparing(t)
  <2>1. /\ at[t] = "prepare" /\ at' = [at EXCEPT ![t] = "recheck"]
        /\ waitingG' = [waitingG EXCEPT ![sleeper[t]] = "preparing"]
    BY <1>6 DEF StorePreparing, Goto
  <2>2. localList[sleeper[t]] = <<>>
    BY <2>1 DEF LocalIsEmpty
  <2> QED BY <1>1, <2>1, <2>2, FallStep, Zenon
<1>7. CASE Recheck(t)
  <2>1. at[t] = "recheck" /\ localList[sleeper[t]] = <<>>
    BY <1>7 DEF Recheck, LocalIsEmpty
  <2>2. CASE sharedList[sleeper[t]] # <<>>
    <3>1. /\ at' = [at EXCEPT ![t] = "next"]
          /\ waitingG' = [waitingG EXCEPT ![sleeper[t]] = "none"]
      BY <1>7, <2>2 DEF Recheck, Goto
    <3> QED BY <1>1, <3>1, FallStep, Zenon
  <2>3. CASE sharedList[sleeper[t]] = <<>>
    <3>1. at' = [at EXCEPT ![t] = "commit"] /\ waitingG' = waitingG
      BY <1>7, <2>3 DEF Recheck, Goto
    <3> QED BY <1>1, <1>3, <1>4, <2>1, <2>3, <3>1, FallStep, Zenon
  <2> QED BY <2>2, <2>3
<1>8. CASE CommitSleep(t)
  <2>1. at[t] = "commit" /\ localList[sleeper[t]] = <<>>
    BY <1>8 DEF CommitSleep, LocalIsEmpty
  <2>2. CASE waitingG[sleeper[t]] = "none"
    <3>1. at' = [at EXCEPT ![t] = "next"] /\ waitingG' = waitingG
      BY <1>8, <2>2 DEF CommitSleep, Goto
    <3> QED BY <1>1, <1>3, <1>4, <3>1, FallStep, Zenon
  <2>3. CASE waitingG[sleeper[t]] # "none"
    <3>1. /\ at' = [at EXCEPT ![t] = "asleep"]
          /\ waitingG' = [waitingG EXCEPT ![sleeper[t]] = "G"]
      BY <1>8, <2>3 DEF CommitSleep, Goto
    <3>2. sharedList[sleeper[t]] # <<>> => Signalled(sleeper[t])
      BY <2>1, <2>3 DEF SignalComes
    <3> QED BY <1>1, <2>1, <3>1, <3>2, FallStep, Zenon
  <2> QED BY <2>2, <2>3
<1> QED BY <1>5, <1>6, <1>7, <1>8

-----------------------------------------------------------------------------
\* Every step of package sleep preserves the invariant.
LEMMA Inductive == IInv /\ [SleepNext]_sleepVars => IInv'
<1> SUFFICES ASSUME IInv, [SleepNext]_sleepVars PROVE IInv'
  OBVIOUS
<1>1. CASE UNCHANGED sleepVars
  BY <1>1, NoStep DEF sleepVars, lists, frame
<1>2. CASE SleepNext
  <2>1. PICK t \in Threads :
          \/ Asserting(t) \/ Fetching(t) \/ Finishing(t)
          \/ \E w \in Wakers : AssertWaker(t, w) \/ Clear(t, w)
          \/ \E z \in Sleepers : Fetch(t, z) \/ Done(t, z)
          \/ \E z \in Sleepers, w \in Wakers : AddWaker(t, z, w)
    BY <1>2 DEF SleepNext
  <2>2. CASE Asserting(t)
    BY <2>2, PushStep, SignalStep, WorkStep DEF Asserting
  <2>3. CASE Fetching(t)
    BY <2>3, SleepStep, WorkStep DEF Fetching
  <2>4. CASE Finishing(t)
    BY <2>4, WorkStep
  <2>5. CASE \/ \E w \in Wakers : AssertWaker(t, w) \/ Clear(t, w)
             \/ \E z \in Sleepers : Fetch(t, z) \/ Done(t, z)
             \/ \E z \in Sleepers, w \in Wakers : AddWaker(t, z, w)
    BY <2>5, CallStep
  <2> QED BY <2>1, <2>2, <2>3, <2>4, <2>5
<1> QED BY <1>1, <1>2

\* sleep_unsafe.go, "We need this interleaving to avoid missing wake ups": with
\* any number of goroutines, wakers and sleepers nobody sleeps on a waker that
\* has been queued, unless somebody is on the way to wake it.
THEOREM WakeUpsArrive == SleepSpec => []NoMissedWakeUp
<1>1. SleepInit => IInv
  <2> SUFFICES ASSUME SleepInit PROVE IInv
    OBVIOUS
  <2>1. PlaceOK
    BY DEF SleepInit, PlaceOK, Places
  <2> QED BY <2>1, OwnerAssumption
          DEF SleepInit, IInv, Owned, OwnerPlaces, LocalIsEmpty, SleepsIsG, SignalComes
<1>2. IInv => NoMissedWakeUp
  <2> SUFFICES ASSUME IInv, NEW t \in Threads, at[t] = "asleep",
                      Queue(sleeper[t]) # <<>>
               PROVE  \E u \in Threads : at[u] = "signal" /\ sleeper[u] = sleeper[t]
    BY DEF NoMissedWakeUp
  <2>1. localList[sleeper[t]] = <<>> /\ waitingG[sleeper[t]] = "G"
    BY DEF IInv, LocalIsEmpty, SleepsIsG
  <2>2. <<>> \o <<>> = <<>>
    OBVIOUS
  <2>3. sharedList[sleeper[t]] # <<>>
    BY <2>1, <2>2 DEF Queue
  <2> QED BY <2>1, <2>3 DEF IInv, SignalComes, Signalled
<1> QED BY <1>1, <1>2, Inductive, PTL DEF SleepSpec
=============================================================================
