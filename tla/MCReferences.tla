---------------------------- MODULE MCReferences ----------------------------
(***************************************************************************)
(* Instances of RefCounter and DirentCache, side by side: Init chooses     *)
(* which of the two a behaviour is of, and the other one stays as it       *)
(* began.  Three threads and two weak references; a root with two          *)
(* children, each with a child, and a cache for three.                     *)
(***************************************************************************)
EXTENDS RefCounter

CONSTANTS None, root, a, b, aa, ba

VARIABLES part, c, users, last

MCParent ==
  [d \in {root, a, b, aa, ba} |->
     CASE d = root -> None [] d = aa -> a [] d = ba -> b [] OTHER -> root]

DC == INSTANCE DirentCache WITH
        Dirents <- {root, a, b, aa, ba}, Parent <- MCParent, MaxSize <- 3, MaxUsers <- 2,
        call <- last

cacheVars == <<c, users, last>>
mcvars == <<part, vars, cacheVars>>

InCounter == part = "counter" /\ UNCHANGED <<part, cacheVars>>
InCache == part = "cache" /\ UNCHANGED <<part, vars>>

MCInit ==
  /\ Init /\ DC!Init
  /\ part = "counter" \/ (part = "cache" /\ held = {CHOOSE t \in Threads : TRUE})

MCNext ==
  \/ InCounter /\ Next
  \/ InCache /\ DC!Next

\* The fairness of RefCounter.
MCSpec ==
  /\ MCInit /\ [][MCNext]_mcvars
  /\ \A t \in Threads : WF_mcvars(InCounter /\ pc[t] # "idle" /\ Thread(t))

-----------------------------------------------------------------------------
\* The references of a Dirent are those of its users, its children and the
\* cache, and the links tell what is in the cache (DirentCache).
ReferencesAddUp ==
  DC!TypeOK /\ DC!ReferencesAddUp /\ DC!ContainsIsMembership

\* The list with its links behaves as a bounded sequence in the order of use
\* (DirentCache).
IsLRU == DC!IsLRU
=============================================================================
