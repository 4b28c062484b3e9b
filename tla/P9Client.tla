------------------------------ MODULE P9Client ------------------------------
(***************************************************************************)
(* pkg/p9/client.go and pool.go: the calls of a 9P client.  sendRecv       *)
(* registers a response object under a tag, sends the request and waits;   *)
(* whichever waiting goroutine holds the token of recvr receives for       *)
(* everybody.  Response objects come from one sync.Pool that all clients   *)
(* of the process share.  All requests here are of one type, so that a     *)
(* response never fails the test of its type.                              *)
(***************************************************************************)
EXTENDS P9Socket

CONSTANTS
  Threads,     \* goroutines that make calls
  ConnOf,      \* the connection each of them uses
  Responses,   \* response objects, enough for all calls in progress
  Failed,      \* what a call that fails returns
  TagLimit,    \* NoTag: tags are 1 .. TagLimit - 1
  MaxCalls     \* bound: calls of all goroutines

ASSUME TagLimitAssumption == TagLimit \in Nat \ {0}

Tags == 1 .. TagLimit - 1

VARIABLES
  client,        \* by connection: the Client's tag pool (cache, start), pending,
                 \* the holder of the token of recvr and the goroutine that
                 \* notifies everybody under pendingMu
  response,      \* response objects: done (room for one value) and r, the call
                 \* whose answer the object holds
  responsePool,  \* response objects that can be taken
  thread,        \* where each goroutine is in sendRecv, with its call, tag and
                 \* response object, the one it delivers to, the entries of
                 \* pending it has yet to notify, and what the call returns
  calls          \* the number of calls so far

clientVars == <<client, response, responsePool, thread, calls>>

ClientInit ==
  /\ client = [c \in Conns |->
       [cache |-> <<>>, start |-> 1, pending |-> [g \in Tags |-> Nil],
        recvr |-> Nil, pendingMu |-> Nil]]
  /\ response = [r \in Responses |-> [done |-> Nil, r |-> Nil]]
  /\ responsePool = Responses
  /\ thread = [t \in Threads |->
       [at |-> "out", call |-> Nil, tag |-> Nil, resp |-> Nil, waiter |-> Nil,
        notify |-> {}, result |-> Nil]]
  /\ calls = 0

At(t, place) == thread[t].at = place
GoTo(t, place) == thread' = [thread EXCEPT ![t].at = place]
ClientOf(t) == client[ConnOf[t]]

\* Goroutines that are not in a call are alike: the next call is made by a
\* fixed one of them.  So are response objects that nothing refers to.
Calls(t) ==
  /\ calls < MaxCalls
  /\ At(t, "out")
  /\ t = CHOOSE u \in Threads : ConnOf[u] = ConnOf[t] /\ At(u, "out")

IsClean(r) ==
  /\ response[r].done = Nil
  /\ \A c \in Conns, g \in Tags : client[c].pending[g] # r
CanGet(r) ==
  /\ r \in responsePool
  /\ IsClean(r) => r = CHOOSE q \in responsePool : IsClean(q)

\* pool.Get: the value returned last, or else a new one.
HasTag(p) == p.cache # <<>> \/ p.start # TagLimit
GetTag(p) == IF p.cache # <<>> THEN p.cache[Len(p.cache)] ELSE p.start
AfterGet(p) ==
  IF p.cache # <<>> THEN [p EXCEPT !.cache = SubSeq(@, 1, Len(@) - 1)]
                    ELSE [p EXCEPT !.start = @ + 1]
\* pool.Put.
AfterPut(p, g) == [p EXCEPT !.cache = Append(@, g)]

-----------------------------------------------------------------------------
\* sendRecv without a tag.
OutOfTags(t) ==
  /\ Calls(t)
  /\ ~HasTag(ClientOf(t))
  /\ calls' = calls + 1
  /\ UNCHANGED <<client, response, responsePool, thread, socketVars>>

\* sendRecv: take a tag and a response object and register them, ...
SendRecv(t, r) ==
  LET g == GetTag(ClientOf(t)) IN
  /\ Calls(t)
  /\ HasTag(ClientOf(t))
  /\ ClientOf(t).pendingMu = Nil
  /\ CanGet(r)
  /\ client' = [client EXCEPT
                  ![ConnOf[t]] = [AfterGet(@) EXCEPT !.pending[g] = r]]
  /\ responsePool' = responsePool \ {r}
  /\ response' = [response EXCEPT ![r].r = Nil]
  /\ calls' = calls + 1
  /\ thread' = [thread EXCEPT ![t].at = "send", ![t].call = calls + 1,
                              ![t].tag = g, ![t].resp = r]
  /\ UNCHANGED socketVars

\* ... send the request, ...
Send(t) ==
  /\ At(t, "send")
  /\ ConnOf[t] \notin broken
  /\ Sent(toServer, ConnOf[t],
          [tag |-> thread[t].tag, call |-> thread[t].call])
  /\ GoTo(t, "wait")
  /\ UNCHANGED <<client, response, responsePool, calls, toClient, broken>>

\* ... or fail to, which leaves the entry in pending.
SendFails(t) ==
  /\ At(t, "send")
  /\ ConnOf[t] \in broken
  /\ thread' = [thread EXCEPT ![t].at = "put", ![t].result = Failed]
  /\ UNCHANGED <<client, response, responsePool, calls, socketVars>>

-----------------------------------------------------------------------------
MyResponse(t) == response[thread[t].resp]

\* The end of waitAndRecv and of sendRecv for a call that found its answer.
Finish(t) ==
  /\ response' = [response EXCEPT ![thread[t].resp] = [done |-> Nil, r |-> Nil]]
  /\ thread' = [thread EXCEPT ![t].at = "put",
       ![t].result = IF MyResponse(t).done = "err" THEN Failed ELSE MyResponse(t).r]

\* waitAndRecv: the answer is there, ...
TakeDone(t) ==
  /\ At(t, "wait")
  /\ MyResponse(t).done # Nil
  /\ Finish(t)
  /\ UNCHANGED <<client, responsePool, calls, socketVars>>

\* ... or the token is free.
TakeToken(t) ==
  /\ At(t, "wait")
  /\ ClientOf(t).recvr = Nil
  /\ client' = [client EXCEPT ![ConnOf[t]].recvr = t]
  /\ GoTo(t, "token")
  /\ UNCHANGED <<response, responsePool, calls, socketVars>>

\* A variant in which a waiter with the token receives at once.
LookAgain_Never(t) ==
  /\ At(t, "token")
  /\ GoTo(t, "recv")
  /\ UNCHANGED <<client, response, responsePool, calls, socketVars>>

\* A waiter may have got the token although its answer was there.
LookAgain(t) ==
  /\ At(t, "token")
  /\ IF MyResponse(t).done # Nil
     THEN /\ client' = [client EXCEPT ![ConnOf[t]].recvr = Nil]
          /\ Finish(t)
     ELSE /\ GoTo(t, "recv")
          /\ UNCHANGED <<client, response>>
  /\ UNCHANGED <<responsePool, calls, socketVars>>

\* A variant in which the receiver takes every response for its own.
HandleOne_Mine(t) ==
  LET c == ConnOf[t]
      m == Head(toClient[c])
      r == thread[t].resp IN
  /\ At(t, "recv")
  /\ toClient[c] # <<>>
  /\ client[c].pendingMu = Nil
  /\ client[c].pending[m.tag] # Nil
  /\ Received(toClient, c)
  /\ client' = [client EXCEPT ![c].pending[m.tag] = Nil]
  /\ response' = [response EXCEPT ![r].r = m.call]
  /\ thread' = [thread EXCEPT ![t].at = "deliver", ![t].waiter = r]
  /\ UNCHANGED <<responsePool, calls, toServer, broken>>

\* handleOne: a response to a registered request leaves pending, ...
HandleOne(t) ==
  LET c == ConnOf[t]
      m == Head(toClient[c])
      r == client[c].pending[m.tag] IN
  /\ At(t, "recv")
  /\ toClient[c] # <<>>
  /\ client[c].pendingMu = Nil
  /\ r # Nil
  /\ Received(toClient, c)
  /\ client' = [client EXCEPT ![c].pending[m.tag] = Nil]
  /\ response' = [response EXCEPT ![r].r = m.call]
  /\ thread' = [thread EXCEPT ![t].at = "deliver", ![t].waiter = r]
  /\ UNCHANGED <<responsePool, calls, toServer, broken>>

\* ... and is given to the goroutine that waits for it.  Then the token is
\* returned.
Deliver(t) ==
  LET r == thread[t].waiter IN
  /\ At(t, "deliver")
  /\ response[r].done = Nil
  /\ response' = [response EXCEPT ![r].done = "ok"]
  /\ client' = [client EXCEPT ![ConnOf[t]].recvr = Nil]
  /\ thread' = [thread EXCEPT ![t].at = "wait", ![t].waiter = Nil]
  /\ UNCHANGED <<responsePool, calls, socketVars>>

\* handleOne: a response that nobody expects, or a socket error.  Everybody
\* in pending is notified under pendingMu, one at a time; a done channel that
\* is full blocks the loop.
HandleOneFails(t) ==
  LET c == ConnOf[t] IN
  /\ At(t, "recv")
  /\ client[c].pendingMu = Nil
  /\ \/ /\ toClient[c] # <<>>
        /\ client[c].pending[Head(toClient[c]).tag] = Nil
        /\ Received(toClient, c)
     \/ toClient[c] = <<>> /\ c \in broken /\ UNCHANGED toClient
  /\ client' = [client EXCEPT ![c].pendingMu = t]
  /\ thread' = [thread EXCEPT ![t].at = "notify",
                  ![t].notify = {g \in Tags : client[c].pending[g] # Nil}]
  /\ UNCHANGED <<response, responsePool, calls, toServer, broken>>

Notify(t, g) ==
  LET r == ClientOf(t).pending[g] IN
  /\ At(t, "notify")
  /\ g \in thread[t].notify
  /\ response[r].done = Nil
  /\ response' = [response EXCEPT ![r].done = "err"]
  /\ thread' = [thread EXCEPT ![t].notify = @ \ {g}]
  /\ UNCHANGED <<client, responsePool, calls, socketVars>>

Notified(t) ==
  /\ At(t, "notify")
  /\ thread[t].notify = {}
  /\ client' = [client EXCEPT ![ConnOf[t]].pending = [g \in Tags |-> Nil],
                              ![ConnOf[t]].pendingMu = Nil,
                              ![ConnOf[t]].recvr = Nil]
  /\ GoTo(t, "wait")
  /\ UNCHANGED <<response, responsePool, calls, socketVars>>

\* The deferred calls of sendRecv: first the response object, then the tag.
PutResponse(t) ==
  /\ At(t, "put")
  /\ responsePool' = responsePool \cup {thread[t].resp}
  /\ thread' = [thread EXCEPT ![t].at = "puttag", ![t].resp = Nil]
  /\ UNCHANGED <<client, response, calls, socketVars>>

PutTag(t) ==
  /\ At(t, "puttag")
  /\ client' = [client EXCEPT ![ConnOf[t]] = AfterPut(@, thread[t].tag)]
  /\ thread' = [thread EXCEPT ![t].at = "out", ![t].call = Nil, ![t].tag = Nil,
                              ![t].result = Nil]
  /\ UNCHANGED <<response, responsePool, calls, socketVars>>

ClientStep(t) ==
  \/ OutOfTags(t)
  \/ \E r \in Responses : SendRecv(t, r)
  \/ Send(t)
  \/ SendFails(t)
  \/ TakeDone(t)
  \/ TakeToken(t)
  \/ LookAgain(t)
  \/ HandleOne(t)
  \/ Deliver(t)
  \/ HandleOneFails(t)
  \/ \E g \in Tags : Notify(t, g)
  \/ Notified(t)
  \/ PutResponse(t)
  \/ PutTag(t)

=============================================================================
