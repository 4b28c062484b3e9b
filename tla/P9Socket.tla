------------------------------ MODULE P9Socket ------------------------------
(***************************************************************************)
(* pkg/p9/transport.go: send and recv over the connected stream socket of  *)
(* a 9P connection.  A message is sent under the sender's sendMu and       *)
(* received by one goroutine at a time, so it is one element of a queue.   *)
(* Encoding is left out; a message is a tag, a type and the call it        *)
(* belongs to, which stands for its contents.                              *)
(***************************************************************************)
EXTENDS Naturals, Sequences

CONSTANTS
  Conns,    \* the connections of this process
  Nil       \* no value

VARIABLES
  toServer,   \* requests on their way, by connection
  toClient,   \* responses on their way, by connection
  broken      \* the connections whose socket was closed

socketVars == <<toServer, toClient, broken>>

SocketInit ==
  /\ toServer = [c \in Conns |-> <<>>]
  /\ toClient = [c \in Conns |-> <<>>]
  /\ broken = {}

\* send: an ErrSocket, or the whole message.
Sent(queue, c, message) == queue' = [queue EXCEPT ![c] = Append(@, message)]

\* recv: what was sent before the socket was closed can still be read.
Received(queue, c) == queue' = [queue EXCEPT ![c] = Tail(@)]

\* One end closes its socket or dies.  What the other end sent before may or
\* may not reach it.
Break(c) ==
  /\ c \notin broken
  /\ broken' = broken \cup {c}
  /\ \/ toServer' = [toServer EXCEPT ![c] = <<>>] /\ UNCHANGED toClient
     \/ toClient' = [toClient EXCEPT ![c] = <<>>] /\ UNCHANGED toServer

=============================================================================
