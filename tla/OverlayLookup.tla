--------------------------- MODULE OverlayLookup ---------------------------
(***************************************************************************)
(* The decisions of pkg/sentry/fs/inode_overlay.go and file_overlay.go on  *)
(* one directory of an overlay, as operators on the types of what the      *)
(* upper and the lower file system have at a name ("none" for nothing).    *)
(***************************************************************************)
EXTENDS FiniteSets

\* "If we have something from the upper, we can only use it if the types match."
TypesMatch(u, l) == u \in {"none", l}

\* A variant that consults the whiteout only if the upper layer has nothing.
Masked_Missing(u, w) == w /\ u = "none"

\* A whiteout masks the lower layer even if something was created over it.
Masked(u, w) == w

\* overlayLookup: upper and lower say what the new overlayEntry holds;
\* lowerExists is kept even where the lower inode is dropped because a file
\* that is in the upper layer does not need it.
overlayLookup(u, w, l) ==
  LET lowerExists == ~Masked(u, w) /\ l # "none" /\ TypesMatch(u, l)
  IN  [upper |-> u # "none",
       lower |-> lowerExists /\ u \in {"none", "dir"},
       lowerExists |-> lowerExists]

Missing(entry) == ~entry.upper /\ ~entry.lowerExists

\* A variant that lists what is whited out.
readdirEntries_All(upper, lower, whiteouts) == upper \cup lower

\* readdirEntries, from the names in both layers and the whiteouts in the upper.
readdirEntries(upper, lower, whiteouts) == upper \cup (lower \ whiteouts)
=============================================================================
