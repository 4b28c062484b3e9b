---------------------------- MODULE P9Connection ----------------------------
(***************************************************************************)
(* 9P clients and the servers at the other end of their connections: the   *)
(* composition of P9Client and P9Service over P9Socket.                    *)
(***************************************************************************)
EXTENDS P9Client, P9Service

vars == <<socketVars, clientVars, serviceVars>>

Init == SocketInit /\ ClientInit /\ ServiceInit

CallStep(t) == ClientStep(t) /\ UNCHANGED serviceVars
ServeStep(c) == ServiceStep(c) /\ UNCHANGED clientVars
BreakStep(c) == Break(c) /\ UNCHANGED <<clientVars, serviceVars>>

Next ==
  \/ \E t \in Threads : CallStep(t)
  \/ \E c \in Conns : ServeStep(c) \/ BreakStep(c)

\* Some goroutine that can run does, in each process; nobody has to make a
\* call and no socket has to break.
Fairness ==
  /\ WF_vars(\E t \in Threads : ~At(t, "out") /\ CallStep(t))
  /\ WF_vars(\E c \in Conns : ServeStep(c))

Spec == Init /\ [][Next]_vars /\ Fairness

-----------------------------------------------------------------------------
\* A call that succeeds returns the answer to its own request: "at this
\* point, we know it matches" (sendRecv).
ReplyMatches ==
  \A t \in Threads :
    thread[t].result \in {Nil, Failed, thread[t].call}

\* A connection that was not closed never makes a call fail: the server
\* answers each request once, under a tag that the client expects, so that
\* StartTag never finds the tag in use and handleOne never finds it missing
\* (handleRequest's "Clear the tag before sending").
FailsOnlyWhenClosed ==
  \A c \in Conns \ broken :
    /\ client[c].pendingMu = Nil
    /\ \A i \in 1 .. Len(toServer[c]) : toServer[c][i].tag \notin service[c].tags

\* A call gets its own answer, or fails because the socket was closed.
CallsAreAnswered == ReplyMatches /\ FailsOnlyWhenClosed

\* stop runs when no request is being processed: nothing is sent on a closed
\* channel, and dropping the table's references closes the files (service,
\* stop).
NoHandlerAfterStop ==
  \A c \in Conns : service[c].at = "stopped" =>
    \A h \in Handlers : handler[c][h].at = "idle"

\* Every call returns unless the connection breaks: there is always somebody
\* to receive (waitAndRecv).
EveryCallReturns ==
  \A t \in Threads :
    thread[t].at # "out" ~> thread[t].at = "out" \/ ConnOf[t] \in broken

\* When the socket is closed the server finishes the requests in flight and
\* stops (service).
ServerStops ==
  \A c \in Conns : c \in broken ~> service[c].at = "stopped"

\* Neither side of a connection waits forever.
NothingHangs == EveryCallReturns /\ ServerStops
=============================================================================
