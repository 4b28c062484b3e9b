--------------------------- MODULE MCTCPEndpoint ----------------------------
(***************************************************************************)
(* A worker, two callers, the network and the timers.                      *)
(***************************************************************************)
EXTENDS TCPEndpoint

MCWakers == {"hsResend", "notification", "newSegment", "snd", "sndClose",
             "close"}
MCSleepers == {"hs", "main"}
MCOwner == [z \in MCSleepers |-> Worker]
=============================================================================
