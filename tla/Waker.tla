------------------------------- MODULE Waker --------------------------------
(***************************************************************************)
(* What package sleep promises to its users: a waker is asserted or not,   *)
(* and a goroutine that fetches from a sleeper gets an asserted waker that *)
(* was added to it, as soon as there is one.  Sleep implements it.         *)
(***************************************************************************)
CONSTANTS Threads, Wakers, Sleepers, Owner

VARIABLES
  asserted,   \* the wakers that are asserted
  added,      \* the wakers of each sleeper
  fetching    \* the sleepers whose owner is in Fetch

wakerVars == <<asserted, added, fetching>>

WakerInit ==
  /\ asserted = {}
  /\ added = [z \in Sleepers |-> {}]
  /\ fetching = {}

Assert(w) ==
  /\ asserted' = asserted \cup {w}
  /\ UNCHANGED <<added, fetching>>

Clear(w) ==
  /\ asserted' = asserted \ {w}
  /\ UNCHANGED <<added, fetching>>

\* A waker belongs to one sleeper at a time.
AddWaker(z, w) ==
  /\ z \notin fetching
  /\ \A y \in Sleepers : w \notin added[y]
  /\ added' = [added EXCEPT ![z] = @ \cup {w}]
  /\ UNCHANGED <<asserted, fetching>>

Fetch(z) ==
  /\ \A y \in fetching : Owner[y] # Owner[z]
  /\ fetching' = fetching \cup {z}
  /\ UNCHANGED <<asserted, added>>

\* Fetch(true) returns the id of a waker, and takes its assertion.
Fetched(z, w) ==
  /\ z \in fetching /\ w \in added[z] \cap asserted
  /\ asserted' = asserted \ {w}
  /\ fetching' = fetching \ {z}
  /\ UNCHANGED added

\* Fetch as one step of its caller, which blocks until a waker is asserted.
FetchNow(z, w) ==
  /\ z \notin fetching /\ w \in added[z] \cap asserted
  /\ asserted' = asserted \ {w}
  /\ UNCHANGED <<added, fetching>>

\* Done, when it returns.
Done(z) ==
  /\ z \notin fetching
  /\ added' = [added EXCEPT ![z] = {}]
  /\ UNCHANGED <<asserted, fetching>>

WakerNext ==
  \/ \E w \in Wakers : Assert(w) \/ Clear(w)
  \/ \E z \in Sleepers, w \in Wakers : AddWaker(z, w) \/ Fetched(z, w)
  \/ \E z \in Sleepers : Fetch(z) \/ Done(z)

\* Per waker: others may be asserted and cleared for ever before they are seen.
WakerFairness == \A z \in Sleepers, w \in Wakers : WF_wakerVars(Fetched(z, w))

WakerSpec == WakerInit /\ [][WakerNext]_wakerVars /\ WakerFairness
=============================================================================
