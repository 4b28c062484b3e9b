------------------------------ MODULE P9Service -----------------------------
(***************************************************************************)
(* pkg/p9/server.go: how the server serves one connection.  The service    *)
(* loop keeps one goroutine waiting for a request and counts those that    *)
(* process one; handleRequest receives, starts the tag, calls the handler, *)
(* clears the tag and sends the response.  What the handlers do is in      *)
(* P9Server.                                                               *)
(***************************************************************************)
EXTENDS P9Socket, Integers

CONSTANTS
  Handlers      \* goroutines running handleRequests: as many as can be busy, and
                \* one that waits; idle ones and those not started are alike

VARIABLES
  service,    \* by connection: where service is ("select", "drain",
              \* "stopped"), its pending, how many sends it has yet to wait for,
              \* the contents of recvDone, the number of values in sendDone and
              \* the active tags
  handler     \* by connection: where each goroutine is, and its request

serviceVars == <<service, handler>>

FirstHandler == CHOOSE h \in Handlers : TRUE

ServiceInit ==
  /\ service = [c \in Conns |->
       [at |-> "select", pending |-> 0, waits |-> 0, recvDone |-> Nil,
        sendDone |-> 0, tags |-> {}]]
  /\ handler = [c \in Conns |-> [h \in Handlers |->
       [at |-> IF h = FirstHandler THEN "recv" ELSE "idle", m |-> Nil]]]

HandlerAt(c, h, place) == handler[c][h].at = place
HandlerGoTo(c, h, place) == handler' = [handler EXCEPT ![c][h].at = place]

-----------------------------------------------------------------------------
\* handleRequest: a request, which the service loop is told of and whose tag
\* becomes active.  A tag that is active already is refused, without any
\* response, ...
Receive(c, h) ==
  LET m == Head(toServer[c]) IN
  /\ HandlerAt(c, h, "recv")
  /\ toServer[c] # <<>>
  /\ Received(toServer, c)
  /\ IF m.tag \in service[c].tags
     THEN /\ HandlerGoTo(c, h, "idle")
          /\ service' = [service EXCEPT ![c].recvDone = "ok", ![c].sendDone = @ + 1]
     ELSE /\ handler' = [handler EXCEPT ![c][h] = [at |-> "handle", m |-> m]]
          /\ service' = [service EXCEPT ![c].recvDone = "ok",
                                        ![c].tags = @ \cup {m.tag}]
  /\ UNCHANGED <<toClient, broken>>

\* ... or a socket error, with which the goroutine goes back to recvOkay, ...
ReceiveFails(c, h) ==
  /\ HandlerAt(c, h, "recv")
  /\ toServer[c] = <<>> /\ c \in broken
  /\ HandlerGoTo(c, h, "idle")
  /\ service' = [service EXCEPT ![c].recvDone = "err"]
  /\ UNCHANGED socketVars

\* ... the handler and ClearTag, ...
Handle(c, h) ==
  /\ HandlerAt(c, h, "handle")
  /\ service' = [service EXCEPT ![c].tags = @ \ {handler[c][h].m.tag}]
  /\ HandlerGoTo(c, h, "send")
  /\ UNCHANGED socketVars

\* ... and the response, which is lost when the socket is closed, with the
\* word to the service loop.
Respond(c, h) ==
  /\ HandlerAt(c, h, "send")
  /\ IF c \in broken THEN UNCHANGED toClient
                     ELSE Sent(toClient, c, handler[c][h].m)
  /\ service' = [service EXCEPT ![c].sendDone = @ + 1]
  /\ handler' = [handler EXCEPT ![c][h] = [at |-> "idle", m |-> Nil]]
  /\ UNCHANGED <<toServer, broken>>

-----------------------------------------------------------------------------
\* service: a request was received; one more is in flight, and a goroutine
\* that waits on recvOkay, or a new one, waits for the next request.
RecvDone(c) ==
  LET h == CHOOSE k \in Handlers : HandlerAt(c, k, "idle") IN
  /\ service[c].at = "select"
  /\ service[c].recvDone = "ok"
  /\ service' = [service EXCEPT ![c].pending = @ + 1, ![c].recvDone = Nil]
  /\ HandlerGoTo(c, h, "recv")
  /\ UNCHANGED socketVars

SendDone(c) ==
  /\ service[c].at = "select"
  /\ service[c].sendDone > 0
  /\ service' = [service EXCEPT ![c].pending = @ - 1, ![c].sendDone = @ - 1]
  /\ UNCHANGED <<handler, socketVars>>

\* A variant that does not wait for the goroutines in flight.
RecvFailed_NoWait(c) ==
  /\ service[c].at = "select"
  /\ service[c].recvDone = "err"
  /\ service' = [service EXCEPT ![c].at = "drain", ![c].waits = 0,
                                ![c].recvDone = Nil]
  /\ UNCHANGED <<handler, socketVars>>

\* The socket is gone: wait for the requests in flight, ...
RecvFailed(c) ==
  /\ service[c].at = "select"
  /\ service[c].recvDone = "err"
  /\ service' = [service EXCEPT ![c].at = "drain", ![c].recvDone = Nil,
                                ![c].waits = service[c].pending]
  /\ UNCHANGED <<handler, socketVars>>

Drain(c) ==
  /\ service[c].at = "drain"
  /\ service[c].waits > 0 /\ service[c].sendDone > 0
  /\ service' = [service EXCEPT ![c].waits = @ - 1, ![c].sendDone = @ - 1]
  /\ UNCHANGED <<handler, socketVars>>

\* ... and stop: close the channels, drop the files and close the socket.
Stop(c) ==
  /\ service[c].at = "drain"
  /\ service[c].waits <= 0
  /\ service' = [service EXCEPT ![c].at = "stopped"]
  /\ broken' = broken \cup {c}
  /\ UNCHANGED <<handler, toServer, toClient>>

ServiceStep(c) ==
  \/ \E h \in Handlers :
       \/ Receive(c, h)
       \/ ReceiveFails(c, h)
       \/ Handle(c, h)
       \/ Respond(c, h)
  \/ RecvDone(c)
  \/ SendDone(c)
  \/ RecvFailed(c)
  \/ Drain(c)
  \/ Stop(c)

=============================================================================
