------------------------------ MODULE MCSleep -------------------------------
(***************************************************************************)
(* A goroutine with two sleepers, so that wakers are used again after      *)
(* Done, and two goroutines that assert and clear the wakers.              *)
(***************************************************************************)
EXTENDS Sleep

CONSTANT Sleeping

MCOwner == [z \in Sleepers |-> Sleeping]
=============================================================================
