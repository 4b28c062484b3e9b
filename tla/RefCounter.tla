----------------------------- MODULE RefCounter -----------------------------
(***************************************************************************)
(* pkg/refs/refcounter.go: one reference-counted object (AtomicRefCount)   *)
(* and the weak references to it (WeakRef).  Every atomic instruction and  *)
(* every critical section of AtomicRefCount.mu is one step, so the model   *)
(* has all the interleavings of IncRef, DecRef, TryIncRef, NewWeakRef,     *)
(* Get, Drop and the zap loop of the destructor.                           *)
(*                                                                         *)
(* refCount packs two 32-bit fields in an int64.  They are two variables   *)
(* here: its value is spec * 2^32 + real, so "v = -1" is spec = 0 and      *)
(* real = -1, "v <= 0" is spec = 0 and real <= 0, and int32(v) is real.    *)
(* That reading is exact while fewer than 2^31 references exist.  As in    *)
(* the code the real count is offset by one: real = n - 1 for n references.*)
(*                                                                         *)
(* A member of Threads is one activity that holds at most one reference;   *)
(* a goroutine that holds several is several members.                      *)
(***************************************************************************)
EXTENDS Integers, FiniteSets

CONSTANTS Threads, WeakRefs, NoWeakRef

ASSUME ThreadsFinite == IsFiniteSet(Threads)
ASSUME NoWeakRefFresh == NoWeakRef \notin WeakRefs

VARIABLES
  spec,      \* speculative references (high half of refCount)
  real,      \* real references minus one (low half of refCount)
  held,      \* threads that own a real reference
  mu,        \* AtomicRefCount.mu: the set of threads that hold it
  weakRefs,  \* AtomicRefCount.weakRefs, in no particular order
  obj,       \* weak references whose obj pointer is not zapped
  user,      \* weak references that have a WeakRefUser
  owner,     \* where a weak reference is: in the pool, in use, dropped
  pc,        \* the next step of each thread
  arg,       \* the weak reference a thread works on
  victim,    \* the weak reference a destroying thread is zapping
  dropping,  \* threads whose current call is WeakRef.Drop
  destroys   \* how many times destroy() was called

refCount == <<spec, real>>
weak == <<mu, weakRefs, obj, user, owner>>
call == <<arg, victim, dropping>>
vars == <<refCount, held, weak, pc, call, destroys>>

Steps == {"idle", "add", "try", "commit", "undo", "unlink", "unref", "put",
          "lock", "zap", "store", "notify", "destroy", "panic"}

\* A DecRef saw the count reach zero: the object is being, or is, destroyed.
Dying == \/ destroys > 0
         \/ \E t \in Threads : pc[t] \in {"lock", "zap", "store", "notify", "destroy"}

Goto(t, step) == pc' = [pc EXCEPT ![t] = step]

\* The object starts with the one reference of its creator.
Init ==
  /\ spec = 0 /\ real = 0
  /\ \E t \in Threads : held = {t}
  /\ mu = {}
  /\ weakRefs = {} /\ obj = {} /\ user = {}
  /\ owner = [w \in WeakRefs |-> "pool"]
  /\ pc = [t \in Threads |-> "idle"]
  /\ arg = [t \in Threads |-> NoWeakRef]
  /\ victim = [t \in Threads |-> NoWeakRef]
  /\ dropping = {}
  /\ destroys = 0

-----------------------------------------------------------------------------
\* t, which owns a reference, takes one more on behalf of u.
IncRef(t, u) ==
  /\ pc[t] = "idle" /\ t \in held
  /\ pc[u] = "idle" /\ u \notin held
  /\ real' = real + 1
  /\ held' = held \cup {u}
  /\ IF spec = 0 /\ real' <= 0 THEN Goto(t, "panic") ELSE UNCHANGED pc
  /\ UNCHANGED <<spec, weak, call, destroys>>

\* A variant that takes every object for a live one.
Freed_Never == FALSE

\* int32(v) < 0: no real reference is left.
Freed == real < 0

Speculate == spec' = spec + 1

\* TryIncRef, first instruction: add a speculative reference and look at the
\* real ones.
TryIncRef(t) ==
  /\ pc[t] = "try"
  /\ Speculate
  /\ Goto(t, IF Freed THEN "undo" ELSE "commit")
  /\ UNCHANGED <<real, held, weak, call, destroys>>

\* TryIncRef, failure: take the speculative reference back and return false.
\* Get returns nil; Drop returns and leaves the weak reference to the GC.
TryIncRefUndo(t) ==
  /\ pc[t] = "undo"
  /\ spec' = spec - 1
  /\ Goto(t, "idle")
  /\ arg' = [arg EXCEPT ![t] = NoWeakRef]
  /\ dropping' = dropping \ {t}
  /\ UNCHANGED <<real, held, weak, victim, destroys>>

\* TryIncRef, success: turn the speculative reference into a real one.
TryIncRefCommit(t) ==
  /\ pc[t] = "commit"
  /\ spec' = spec - 1
  /\ real' = real + 1
  /\ held' = held \cup {t}
  /\ Goto(t, IF t \in dropping THEN "unlink" ELSE "idle")
  /\ arg' = IF t \in dropping THEN arg ELSE [arg EXCEPT ![t] = NoWeakRef]
  /\ UNCHANGED <<weak, victim, dropping, destroys>>

\* v = -1: neither a real nor a speculative reference is left.
LastReference == spec = 0 /\ real' = -1

\* The atomic decrement of DecRefWithDestructor.
DecRef(t) ==
  /\ pc[t] \in {"idle", "unref"} /\ t \in held
  /\ real' = real - 1
  /\ held' = held \ {t}
  /\ Goto(t, CASE spec = 0 /\ real' < -1 -> "panic"
               [] LastReference -> "lock"
               [] OTHER -> IF t \in dropping THEN "put" ELSE "idle")
  /\ UNCHANGED <<spec, weak, call, destroys>>

-----------------------------------------------------------------------------
\* The destructor path of DecRefWithDestructor: take mu, ...
ZapLock(t) ==
  /\ pc[t] = "lock" /\ mu = {}
  /\ mu' = {t}
  /\ Goto(t, "zap")
  /\ UNCHANGED <<refCount, held, weakRefs, obj, user, owner, call, destroys>>

\* ... take a weak reference off the list, ...
ZapRemove(t) ==
  /\ pc[t] = "zap"
  /\ \E w \in weakRefs :
       /\ weakRefs' = weakRefs \ {w}
       /\ victim' = [victim EXCEPT ![t] = w]
  /\ Goto(t, "store")
  /\ UNCHANGED <<refCount, held, mu, obj, user, owner, arg, dropping, destroys>>

\* ... clear its pointer, and unlock mu around the callback if it has one.
\* The user was read before the pointer is cleared: the owner may reuse the
\* weak reference from then on.
ZapStore(t) ==
  /\ pc[t] = "store"
  /\ obj' = obj \ {victim[t]}
  /\ victim' = [victim EXCEPT ![t] = NoWeakRef]
  /\ IF victim[t] \in user
       THEN mu' = {} /\ Goto(t, "notify")
       ELSE UNCHANGED mu /\ Goto(t, "zap")
  /\ UNCHANGED <<refCount, held, weakRefs, user, owner, arg, dropping, destroys>>

\* user.WeakRefGone(), then lock again.
WeakRefGone(t) ==
  /\ pc[t] = "notify"
  /\ Goto(t, "lock")
  /\ UNCHANGED <<refCount, held, weak, call, destroys>>

\* A variant that waits for the pointers of all weak references.
ZapDone_AllZapped == weakRefs = {} /\ obj = {}

ZapDone == weakRefs = {}

ZapUnlock(t) ==
  /\ pc[t] = "zap" /\ ZapDone
  /\ mu' = {}
  /\ Goto(t, "destroy")
  /\ UNCHANGED <<refCount, held, weakRefs, obj, user, owner, call, destroys>>

Destroy(t) ==
  /\ pc[t] = "destroy"
  /\ destroys' = destroys + 1
  /\ Goto(t, IF t \in dropping THEN "put" ELSE "idle")
  /\ UNCHANGED <<refCount, held, weak, call>>

-----------------------------------------------------------------------------
\* NewWeakRef up to obj.Store: a WeakRef of the pool, with or without a user.
NewWeakRef(t, w) ==
  /\ pc[t] = "idle" /\ t \in held
  /\ owner[w] = "pool"
  /\ owner' = [owner EXCEPT ![w] = "init"]
  /\ obj' = obj \cup {w}
  /\ user' \in {user \ {w}, user \cup {w}}
  /\ arg' = [arg EXCEPT ![t] = w]
  /\ Goto(t, "add")
  /\ UNCHANGED <<refCount, held, mu, weakRefs, victim, dropping, destroys>>

\* addWeakRef, a critical section of mu; NewWeakRef returns.
AddWeakRef(t) ==
  /\ pc[t] = "add" /\ mu = {}
  /\ weakRefs' = weakRefs \cup {arg[t]}
  /\ owner' = [owner EXCEPT ![arg[t]] = "owned"]
  /\ arg' = [arg EXCEPT ![t] = NoWeakRef]
  /\ Goto(t, "idle")
  /\ UNCHANGED <<refCount, held, mu, obj, user, victim, dropping, destroys>>

\* WeakRef.get, the load of obj.  On a zapped weak reference Get returns nil
\* and changes nothing.
Get(t, w) ==
  /\ pc[t] = "idle" /\ t \notin held
  /\ owner[w] = "owned" /\ w \in obj
  /\ arg' = [arg EXCEPT ![t] = w]
  /\ Goto(t, "try")
  /\ UNCHANGED <<refCount, held, weak, victim, dropping, destroys>>

\* WeakRef.Drop, the load of obj: a zapped weak reference goes to the pool.
\* The owner does not use a weak reference after Drop, nor concurrently.
Drop(t, w) ==
  /\ pc[t] = "idle" /\ t \notin held
  /\ owner[w] = "owned" /\ \A u \in Threads : arg[u] # w
  /\ IF w \in obj
       THEN /\ owner' = [owner EXCEPT ![w] = "dropped"]
            /\ arg' = [arg EXCEPT ![t] = w]
            /\ dropping' = dropping \cup {t}
            /\ Goto(t, "try")
       ELSE /\ owner' = [owner EXCEPT ![w] = "pool"]
            /\ UNCHANGED <<arg, dropping, pc>>
  /\ UNCHANGED <<refCount, held, mu, weakRefs, obj, user, victim, destroys>>

\* A variant that leaves the weak reference on the object's list.
DropWeakRef_Linked(t) ==
  /\ pc[t] = "unlink" /\ mu = {}
  /\ Goto(t, "unref")
  /\ UNCHANGED <<refCount, held, weak, call, destroys>>

\* dropWeakRef, a critical section of mu; Drop then calls DecRef.
DropWeakRef(t) ==
  /\ pc[t] = "unlink" /\ mu = {}
  /\ weakRefs' = weakRefs \ {arg[t]}
  /\ Goto(t, "unref")
  /\ UNCHANGED <<refCount, held, mu, obj, user, owner, call, destroys>>

\* weakRefPool.Put; Drop returns.
Put(t) ==
  /\ pc[t] = "put"
  /\ owner' = [owner EXCEPT ![arg[t]] = "pool"]
  /\ arg' = [arg EXCEPT ![t] = NoWeakRef]
  /\ dropping' = dropping \ {t}
  /\ Goto(t, "idle")
  /\ UNCHANGED <<refCount, held, mu, weakRefs, obj, user, victim, destroys>>

-----------------------------------------------------------------------------
Thread(t) ==
  \/ TryIncRef(t) \/ TryIncRefUndo(t) \/ TryIncRefCommit(t)
  \/ DecRef(t)
  \/ ZapLock(t) \/ ZapRemove(t) \/ ZapStore(t) \/ WeakRefGone(t) \/ ZapUnlock(t)
  \/ Destroy(t)
  \/ AddWeakRef(t) \/ DropWeakRef(t) \/ Put(t)

Next == \E t \in Threads :
  \/ Thread(t)
  \/ \E u \in Threads : IncRef(t, u)
  \/ \E w \in WeakRefs : NewWeakRef(t, w) \/ Get(t, w) \/ Drop(t, w)

\* Every call a thread has begun goes on; nobody is obliged to begin one.
Fairness == \A t \in Threads : WF_vars(pc[t] # "idle" /\ Thread(t))

Spec == Init /\ [][Next]_vars

FairSpec == Spec /\ Fairness

-----------------------------------------------------------------------------
TypeOK ==
  /\ spec \in Nat /\ real \in Int
  /\ held \subseteq Threads
  /\ mu \subseteq Threads
  /\ weakRefs \subseteq WeakRefs /\ obj \subseteq WeakRefs /\ user \subseteq WeakRefs
  /\ owner \in [WeakRefs -> {"pool", "init", "owned", "dropped"}]
  /\ pc \in [Threads -> Steps]
  /\ arg \in [Threads -> WeakRefs \cup {NoWeakRef}]
  /\ victim \in [Threads -> WeakRefs \cup {NoWeakRef}]
  /\ dropping \subseteq Threads
  /\ destroys \in Nat

\* Destruction is final: once a DecRef has decided to destroy the object
\* nobody owns a reference or is about to turn a speculative one into a real
\* one, whatever Get, Drop and IncRef raced with that DecRef.
DestructionIsFinal ==
  Dying => held = {} /\ \A t \in Threads : pc[t] # "commit"

\* destroy() runs at most once, and neither sanity check of IncRef and DecRef
\* panics when every thread releases only what it owns.
DestroyedOnce ==
  /\ destroys <= 1
  /\ \A t \in Threads : pc[t] # "panic"

\* A WeakRef in the pool is on no list and is nobody's victim, so reusing it
\* cannot corrupt the list of the object it once pointed to.
PooledIsUnlinked ==
  \A w \in WeakRefs : owner[w] = "pool" =>
     /\ w \notin weakRefs
     /\ \A t \in Threads : victim[t] # w

\* After destruction no weak reference still points to the object, except one
\* abandoned by a Drop that lost the race.
ZappedAfterDestroy ==
  destroys > 0 => weakRefs = {} /\ obj \cap {w \in WeakRefs : owner[w] = "owned"} = {}

\* The object is destroyed once and for good.
DestructionIsSound == TypeOK /\ DestructionIsFinal /\ DestroyedOnce

\* Weak references let go of an object that is destroyed, and it of them.
WeakRefsLetGo == PooledIsUnlinked /\ ZappedAfterDestroy

\* Once a DecRef has decided to destroy the object, the zap loop ends and
\* destroy() is called, whatever Drop and Get do while a callback has mu
\* unlocked.
DestroyFollows == Dying ~> destroys > 0

\* "calls the destructor when the count reaches zero" (AtomicRefCount): when
\* nothing is in flight and no reference is left, destroy() has been called.
NoLeak ==
  held = {} /\ (\A t \in Threads : pc[t] = "idle") => destroys = 1


=============================================================================
