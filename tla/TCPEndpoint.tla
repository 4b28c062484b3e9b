---------------------------- MODULE TCPEndpoint -----------------------------
(***************************************************************************)
(* The goroutines of a TCP endpoint (pkg/tcpip/transport/tcp: endpoint.go, *)
(* connect.go, segment_queue.go): the worker that runs protocolMainLoop,   *)
(* the callers of Write, Read, Shutdown and Close, the goroutine that      *)
(* delivers packets, and the timers.  They meet in Waker (package sleep as *)
(* its users see it), TMutex (workMu, instruction by instruction), the     *)
(* queues and the notification flags.                                      *)
(*                                                                         *)
(* Payloads are counted, not carried: sndQueue, sndNxtList and sndUna are  *)
(* numbers of segments, the FIN included.  Windows, retransmission and its *)
(* timer, and keepalives are left out: their handlers change only what the *)
(* sender and the receiver hold, or end the loop as closeWaker does.       *)
(***************************************************************************)
EXTENDS Waker, TMutex, Sequences

CONSTANTS
  Worker, Net, Timers,  \* goroutines; the others call the socket's methods
  NoLock,               \* endpoint.mu is not locked
  SndBufSize, RcvBufSize,
  QueueLimit,           \* segments that fit in segmentQueue
  maxSegmentsPerWake,
  MaxTries,             \* doublings of the SYN's timeout before ErrTimeout
  MaxEvents             \* bound on what the peer and the application do

Callers == Threads \ {Worker, Net, Timers}

VARIABLES
  pc,            \* where each goroutine is in the endpoint's code
  state,         \* endpoint.state
  handshake,     \* handshake.state
  woken,         \* the waker that Fetch returned
  left,          \* segments to handle before the next Fetch
  fetched,       \* the flags returned by fetchNotifications
  tries,         \* SYN segments sent again
  armed,         \* the wakers whose timer runs
  notifyFlags, segmentQueue,
  sndQueue, sndBufUsed, sndClosed,          \* under sndBufMu
  sndNxtList, sndUna, senderClosed,         \* the sender's, under workMu
  rcvBufUsed, rcvClosed,                    \* under rcvListMu
  mu, readers,                              \* endpoint.mu: writer and readers
  shutdownFlags, workerRunning, workerCleanup,
  isRegistered, closing, packets, calls, written, cleanups

loopVars == <<state, handshake, left, fetched, tries>>
timerVars == <<armed, notifyFlags>>
sndVars == <<sndQueue, sndBufUsed, sndClosed, sndNxtList, sndUna, senderClosed>>
rcvVars == <<segmentQueue, rcvBufUsed, rcvClosed>>
muVars == <<mu, readers>>
endVars == <<shutdownFlags, workerRunning, workerCleanup, isRegistered,
             closing, packets, calls, written, cleanups>>
dataVars == <<timerVars, sndVars, rcvVars, muVars, endVars>>
tcpVars == <<pc, woken, loopVars, dataVars>>
vars == <<wakerVars, mutexVars, tcpVars>>

\* The goroutine of protocolMainLoop of an endpoint that connects is in the
\* loop of handshake.execute; that of an accepted one has just been started.
InitConnecting ==
  /\ state = "connecting" /\ handshake = "synSent"
  /\ pc = [t \in Threads |-> IF t = Worker THEN "hs_loop" ELSE "idle"]
  /\ added = [z \in Sleepers |->
       IF z = "hs" THEN {"hsResend", "notification", "newSegment"} ELSE {}]
  /\ armed = {"hsResend"}

InitAccepted ==
  /\ state = "connected" /\ handshake = "completed"
  /\ pc = [t \in Threads |-> IF t = Worker THEN "connected" ELSE "idle"]
  /\ added = [z \in Sleepers |-> {}]
  /\ armed = {}

\* The endpoint is registered, and workMu is held since newEndpoint.
Init ==
  /\ InitConnecting \/ InitAccepted
  /\ asserted = {} /\ fetching = {} /\ notifyFlags = {}
  /\ v = 0 /\ ch = 0
  /\ locker = [t \in Threads |-> IF t = Worker THEN "held" ELSE "out"]
  /\ woken = "none" /\ left = 0 /\ fetched = {} /\ tries = 0
  /\ segmentQueue = <<>> /\ rcvBufUsed = 0 /\ rcvClosed = FALSE
  /\ sndQueue = 0 /\ sndBufUsed = 0 /\ sndClosed = FALSE
  /\ sndNxtList = 0 /\ sndUna = 0 /\ senderClosed = FALSE
  /\ mu = NoLock /\ readers = {}
  /\ shutdownFlags = {} /\ workerRunning = TRUE /\ workerCleanup = FALSE
  /\ isRegistered = TRUE /\ closing = FALSE
  /\ packets = 0 /\ calls = 0 /\ written = 0 /\ cleanups = 0

At(t, place) == pc[t] = place
Continue(t, place) == pc' = [pc EXCEPT ![t] = place]
MuFree == mu = NoLock /\ readers = {}
MaxOf(a, b) == IF a > b THEN a ELSE b

\* notifyProtocolGoroutine: only the first flag wakes the worker.
Notify(t, flag, asserting, done) ==
  /\ notifyFlags' = notifyFlags \cup {flag}
  /\ Continue(t, IF notifyFlags = {} THEN asserting ELSE done)

-----------------------------------------------------------------------------
\* Fetch, which sleeps until one of the sleeper's wakers is asserted.
Wake(z, place) ==
  /\ \E w \in Wakers : FetchNow(z, w) /\ woken' = w
  /\ Continue(Worker, place)
  /\ UNCHANGED <<mutexVars, loopVars, dataVars>>

\* A step of the worker that only goes on.
WorkerGoes(from, to) ==
  /\ At(Worker, from)
  /\ Continue(Worker, to)
  /\ UNCHANGED <<wakerVars, mutexVars, woken, loopVars, dataVars>>

-----------------------------------------------------------------------------
\* handshake.execute sleeps until the handshake is completed.
HandshakeFetch ==
  At(Worker, "hs_loop") /\ handshake # "completed" /\ Wake("hs", "hs_woken")

HandshakeWoken(w) == At(Worker, "hs_woken") /\ woken = w

\* The SYN is sent again after twice the time, or the handshake fails.
HandshakeResend ==
  /\ HandshakeWoken("hsResend")
  /\ woken' = "none"
  /\ IF tries = MaxTries
       THEN Continue(Worker, "hs_fail") /\ UNCHANGED <<tries, armed>>
       ELSE /\ Continue(Worker, "hs_loop")
            /\ tries' = tries + 1
            /\ armed' = armed \cup {"hsResend"}
  /\ UNCHANGED <<wakerVars, mutexVars, state, handshake, left, fetched,
                 notifyFlags, sndVars, rcvVars, muVars, endVars>>

HandshakeNotified ==
  /\ HandshakeWoken("notification")
  /\ woken' = "none"
  /\ notifyFlags' = {}
  /\ Continue(Worker, IF "close" \in notifyFlags THEN "hs_fail" ELSE "hs_loop")
  /\ UNCHANGED <<wakerVars, mutexVars, loopVars, armed, sndVars, rcvVars,
                 muVars, endVars>>

HandshakeSegments ==
  /\ HandshakeWoken("newSegment")
  /\ woken' = "none"
  /\ left' = maxSegmentsPerWake
  /\ Continue(Worker, "hs_segs")
  /\ UNCHANGED <<wakerVars, mutexVars, state, handshake, fetched, tries,
                 dataVars>>

\* synSentState and synRcvdState, for segments whose numbers are right.
AfterSegment(h, flags) ==
  CASE flags = "synack" -> "completed"
    [] flags = "syn" -> "synRcvd"
    [] flags \in {"ack", "data", "fin"} /\ h = "synRcvd" -> "completed"
    [] OTHER -> h

\* processSegments, one segment at a time.
HandshakeSegment ==
  LET flags == Head(segmentQueue).flags
      h == AfterSegment(handshake, flags)
  IN  /\ At(Worker, "hs_segs") /\ left > 0 /\ segmentQueue # <<>>
      /\ segmentQueue' = Tail(segmentQueue)
      /\ handshake' = h
      /\ left' = IF h = "completed" THEN 0 ELSE left - 1
      /\ Continue(Worker, IF flags = "rst" THEN "hs_fail" ELSE "hs_segs")
      /\ UNCHANGED <<wakerVars, mutexVars, woken, state, fetched, tries,
                     timerVars, sndVars, rcvBufUsed, rcvClosed, muVars, endVars>>

HandshakeNoSegment ==
  left > 0 /\ segmentQueue = <<>> /\ WorkerGoes("hs_segs", "hs_loop")

\* "If the queue is not empty, make sure we'll wake up in the next iteration."
Requeue ==
  IF segmentQueue # <<>> THEN Assert("newSegment") ELSE UNCHANGED wakerVars

HandshakeRequeue ==
  /\ At(Worker, "hs_segs") /\ left = 0
  /\ Requeue
  /\ Continue(Worker, "hs_loop")
  /\ UNCHANGED <<mutexVars, woken, loopVars, dataVars>>

\* The handshake is over: Done, and stop the timer.
HandshakeDone(from, to) ==
  /\ At(Worker, from)
  /\ Done("hs")
  /\ armed' = armed \ {"hsResend"}
  /\ tries' = 0
  /\ Continue(Worker, to)
  /\ UNCHANGED <<mutexVars, woken, state, handshake, left, fetched, notifyFlags, sndVars, rcvVars,
                 muVars, endVars>>

HandshakeFails == HandshakeDone("hs_fail", "fail")
HandshakeCompletes == handshake = "completed" /\ HandshakeDone("hs_loop", "connected")

-----------------------------------------------------------------------------
\* protocolMainLoop: tell the callers, and set up the wakers (those that are
\* asserted stay so), ...
Connected ==
  /\ At(Worker, "connected") /\ MuFree
  /\ state' = "connected"
  /\ added' = [added EXCEPT !["main"] =
       {"snd", "sndClose", "newSegment", "close", "notification"}]
  /\ Continue(Worker, "queued")
  /\ UNCHANGED <<asserted, fetching, mutexVars, woken, handshake, left, fetched,
                 tries, dataVars>>

\* ... look for what was queued or asked for before, ...
MainQueued ==
  /\ At(Worker, "queued")
  /\ Requeue
  /\ Continue(Worker, "cleanup")
  /\ UNCHANGED <<mutexVars, woken, loopVars, dataVars>>

MainCleanup ==
  /\ At(Worker, "cleanup") /\ mu = NoLock
  /\ IF workerCleanup THEN Notify(Worker, "close", "notify", "loop")
                      ELSE Continue(Worker, "loop") /\ UNCHANGED notifyFlags
  /\ UNCHANGED <<wakerVars, mutexVars, woken, loopVars, armed, sndVars, rcvVars,
                 muVars, endVars>>

MainNotify ==
  /\ At(Worker, "notify")
  /\ Assert("notification")
  /\ Continue(Worker, "loop")
  /\ UNCHANGED <<mutexVars, woken, loopVars, dataVars>>

\* ... and, until both directions are closed and acknowledged, ...
Finished == rcvClosed /\ senderClosed /\ sndUna = sndNxtList

MainEnds == Finished /\ WorkerGoes("loop", "end")

\* ... let others do the work, sleep, and take the work back.
MainUnlock ==
  /\ At(Worker, "loop") /\ ~Finished
  /\ Unlock(Worker)
  /\ Continue(Worker, "unlocked")
  /\ woken' = "none"
  /\ UNCHANGED <<wakerVars, loopVars, dataVars>>

MainFetch ==
  At(Worker, "unlocked") /\ locker[Worker] = "out" /\ Wake("main", "lock")

MainLock ==
  /\ At(Worker, "lock")
  /\ Lock(Worker)
  /\ Continue(Worker, "woken")
  /\ UNCHANGED <<wakerVars, woken, loopVars, dataVars>>

Woken(w) == At(Worker, "woken") /\ locker[Worker] = "held" /\ woken = w

\* handleWrite moves what is queued to the write list and sends it.
HandleWrite ==
  /\ sndNxtList' = sndNxtList + sndQueue
  /\ sndQueue' = 0

MainHandleWrite ==
  /\ Woken("snd")
  /\ HandleWrite
  /\ Continue(Worker, "loop")
  /\ UNCHANGED <<wakerVars, mutexVars, woken, loopVars, timerVars, sndBufUsed,
                 sndClosed, sndUna, senderClosed, rcvVars, muVars, endVars>>

\* A variant that marks the sender as closed without draining the queue.
HandleClose_NoDrain == UNCHANGED <<sndNxtList, sndQueue>>

\* handleClose drains the send queue.
HandleClose == HandleWrite

MainHandleClose ==
  /\ Woken("sndClose")
  /\ HandleClose
  /\ senderClosed' = TRUE
  /\ Continue(Worker, "loop")
  /\ UNCHANGED <<wakerVars, mutexVars, woken, loopVars, timerVars, sndBufUsed,
                 sndClosed, sndUna, rcvVars, muVars, endVars>>

MainHandleSegments ==
  /\ Woken("newSegment")
  /\ left' = maxSegmentsPerWake
  /\ Continue(Worker, "segs")
  /\ UNCHANGED <<wakerVars, mutexVars, woken, state, handshake, fetched, tries,
                 dataVars>>

\* The 3 seconds of an endpoint that was closed are over: ErrConnectionAborted.
MainCloseTimer == Woken("close") /\ WorkerGoes("woken", "fail")

MainFetchNotifications ==
  /\ Woken("notification")
  /\ fetched' = notifyFlags
  /\ notifyFlags' = {}
  /\ Continue(Worker, "notified")
  /\ UNCHANGED <<wakerVars, mutexVars, woken, state, handshake, left, tries,
                 armed, sndVars, rcvVars, muVars, endVars>>

\* The window update of notifyNonZeroReceiveWindow is an ACK; notifyReset puts
\* the endpoint in an error state but does not end the loop.
MainNotified ==
  /\ At(Worker, "notified")
  /\ IF "reset" \in fetched THEN MuFree /\ state' = "error" ELSE UNCHANGED state
  /\ armed' = IF "close" \in fetched THEN armed \cup {"close"} ELSE armed
  /\ fetched' = {}
  /\ Continue(Worker, "loop")
  /\ UNCHANGED <<wakerVars, mutexVars, woken, handshake, left, tries,
                 notifyFlags, sndVars, rcvVars, muVars, endVars>>

\* handleSegments, one segment at a time: an acceptable RST ends the loop, ...
MainReset ==
  /\ At(Worker, "segs") /\ left > 0 /\ segmentQueue # <<>>
  /\ Head(segmentQueue).flags = "rst"
  /\ segmentQueue' = Tail(segmentQueue)
  /\ Continue(Worker, "fail")
  /\ UNCHANGED <<wakerVars, mutexVars, woken, loopVars, timerVars, sndVars,
                 rcvBufUsed, rcvClosed, muVars, endVars>>

\* ... any other acknowledges what was sent, and brings data or the peer's FIN.
MainSegment ==
  LET seg == Head(segmentQueue)
      data == seg.flags = "data" /\ ~rcvClosed /\ rcvBufUsed < RcvBufSize
  IN  /\ At(Worker, "segs") /\ left > 0 /\ segmentQueue # <<>>
      /\ seg.flags # "rst"
      /\ segmentQueue' = Tail(segmentQueue)
      /\ left' = left - 1
      /\ sndUna' = MaxOf(sndUna, seg.ack)
      /\ sndBufUsed' = sndBufUsed - (MaxOf(sndUna, seg.ack) - sndUna)
      /\ rcvBufUsed' = IF data THEN rcvBufUsed + 1 ELSE rcvBufUsed
      /\ rcvClosed' = (rcvClosed \/ seg.flags = "fin")
      /\ UNCHANGED <<wakerVars, mutexVars, pc, woken, state, handshake, fetched,
                     tries, timerVars, sndQueue, sndClosed, sndNxtList, senderClosed,
                     muVars, endVars>>

MainNoSegment ==
  left > 0 /\ segmentQueue = <<>> /\ WorkerGoes("segs", "loop")

MainRequeue ==
  /\ At(Worker, "segs") /\ left = 0
  /\ Requeue
  /\ Continue(Worker, "loop")
  /\ UNCHANGED <<mutexVars, woken, loopVars, dataVars>>

\* cleanupLocked
Cleanup ==
  /\ workerCleanup' = FALSE
  /\ isRegistered' = FALSE
  /\ cleanups' = cleanups + 1

\* The epilogue, with e.mu: stop the timers, and clean up if Close was called.
Epilogue ==
  /\ MuFree
  /\ armed' = armed \ {"close"}
  /\ workerRunning' = FALSE
  /\ IF workerCleanup THEN Cleanup
                      ELSE UNCHANGED <<workerCleanup, isRegistered, cleanups>>
  /\ Continue(Worker, "exited")
  /\ UNCHANGED <<wakerVars, mutexVars, woken, handshake, left, fetched, tries,
                 notifyFlags, sndVars, rcvVars, muVars, shutdownFlags, closing,
                 packets, calls, written>>

\* resetConnectionLocked (or a failed handshake), then the epilogue.
WorkerResets ==
  /\ At(Worker, "fail")
  /\ state' = "error"
  /\ Epilogue

WorkerEnds ==
  /\ At(Worker, "end")
  /\ state' = IF state = "error" THEN state ELSE "closed"
  /\ Epilogue

HandshakeStep ==
  \/ HandshakeFetch \/ HandshakeResend
  \/ HandshakeNotified \/ HandshakeSegments \/ HandshakeSegment
  \/ HandshakeNoSegment \/ HandshakeRequeue \/ HandshakeFails
  \/ HandshakeCompletes \/ Connected

MainStep ==
  \/ MainQueued \/ MainCleanup \/ MainNotify \/ MainEnds
  \/ MainUnlock \/ MainFetch \/ MainLock \/ MainHandleWrite
  \/ MainHandleClose \/ MainHandleSegments \/ MainCloseTimer
  \/ MainFetchNotifications \/ MainNotified \/ MainReset \/ MainSegment
  \/ MainNoSegment \/ MainRequeue \/ WorkerResets \/ WorkerEnds

-----------------------------------------------------------------------------
CallBegins(t) ==
  /\ At(t, "idle") /\ ~closing
  /\ packets + calls < MaxEvents /\ calls' = calls + 1

\* Write: under the read lock of e.mu until it returns, queue a segment, ...
Write(t) ==
  /\ CallBegins(t) /\ mu = NoLock
  /\ state = "connected" /\ ~sndClosed /\ sndBufUsed < SndBufSize
  /\ readers' = readers \cup {t}
  /\ sndBufUsed' = sndBufUsed + 1
  /\ sndQueue' = sndQueue + 1
  /\ written' = written + 1
  /\ Continue(t, "trylock")
  /\ UNCHANGED <<wakerVars, mutexVars, woken, loopVars, timerVars, sndClosed,
                 sndNxtList, sndUna, senderClosed, rcvVars, mu, shutdownFlags,
                 workerRunning, workerCleanup, isRegistered, closing, packets,
                 cleanups>>

\* ... then do the worker's work inline, if it does not work itself, ...
WriteTryLock(t) ==
  /\ At(t, "trylock")
  /\ TryLock(t)
  /\ Continue(t, "inline")
  /\ UNCHANGED <<wakerVars, woken, loopVars, dataVars>>

WriteInline(t) ==
  /\ At(t, "inline")
  /\ HandleWrite
  /\ Unlock(t)
  /\ Continue(t, "runlock")
  /\ UNCHANGED <<wakerVars, woken, loopVars, timerVars, sndBufUsed,
                 sndClosed, sndUna, senderClosed, rcvVars, muVars, endVars>>

\* A variant that leaves the data to whoever holds the lock.
WriteAssert_Skipped(t) ==
  /\ At(t, "trylock")
  /\ TryLockFails(t)
  /\ Continue(t, "runlock")
  /\ UNCHANGED <<wakerVars, woken, loopVars, dataVars>>

\* ... or leave it to the worker.
WriteAssert(t) ==
  /\ At(t, "trylock")
  /\ TryLockFails(t)
  /\ Assert("snd")
  /\ Continue(t, "runlock")
  /\ UNCHANGED <<woken, loopVars, dataVars>>

WriteReturns(t) ==
  /\ At(t, "runlock") /\ locker[t] = "out"
  /\ readers' = readers \ {t}
  /\ Continue(t, "idle")
  /\ UNCHANGED <<wakerVars, mutexVars, woken, loopVars, timerVars, sndVars, rcvVars,
                 mu, endVars>>

\* Read: take a segment, and let the worker announce a window that opens.
Read(t) ==
  /\ CallBegins(t) /\ mu = NoLock
  /\ rcvBufUsed > 0
  /\ rcvBufUsed' = rcvBufUsed - 1
  /\ IF rcvBufUsed = RcvBufSize
       THEN /\ Notify(t, "window", "read_notify", "runlock")
            /\ readers' = readers \cup {t}
       ELSE UNCHANGED <<notifyFlags, pc, readers>>
  /\ UNCHANGED <<wakerVars, mutexVars, woken, loopVars, armed, sndVars, segmentQueue,
                 rcvClosed, mu, shutdownFlags, workerRunning, workerCleanup,
                 isRegistered, closing, packets, written, cleanups>>

ReadNotify(t) ==
  /\ At(t, "read_notify")
  /\ Assert("notification")
  /\ Continue(t, "runlock")
  /\ UNCHANGED <<mutexVars, woken, loopVars, dataVars>>

\* Release e.mu at the end of a call.
ReturnsTo(t, place) == mu' = NoLock /\ Continue(t, place)

\* Shutdown: with e.mu, reset a connection with unread data, or queue a FIN.
\* Asserting the waker and releasing e.mu are steps of their own.
Shutdown(t, flags, next, asserting, notifying) ==
  LET all == shutdownFlags \cup flags
      abort == all = {"read", "write"} /\ rcvBufUsed > 0
  IN  /\ MuFree
      /\ shutdownFlags' = all
      /\ \/ /\ state = "connected" /\ abort
            /\ notifyFlags' = notifyFlags \cup {"reset"}
            /\ IF notifyFlags = {} THEN mu' = t /\ Continue(t, notifying)
                                  ELSE ReturnsTo(t, next)
            /\ UNCHANGED <<sndQueue, sndClosed>>
         \/ /\ state = "connected" /\ ~abort /\ "write" \in all /\ ~sndClosed
            /\ sndQueue' = sndQueue + 1
            /\ sndClosed' = TRUE
            /\ mu' = t /\ Continue(t, asserting)
            /\ UNCHANGED notifyFlags
         \/ /\ \/ state # "connected"
               \/ ~abort /\ ("write" \notin all \/ sndClosed)
            /\ ReturnsTo(t, next)
            /\ UNCHANGED <<notifyFlags, sndQueue, sndClosed>>
      /\ UNCHANGED <<wakerVars, mutexVars, woken, loopVars, armed, sndBufUsed,
                     sndNxtList, sndUna, senderClosed, rcvVars, readers,
                     workerRunning, workerCleanup, isRegistered, packets,
                     written, cleanups>>

ShutdownCall(t) ==
  /\ CallBegins(t)
  /\ \E flags \in {{"read"}, {"write"}, {"read", "write"}} :
       /\ ~(flags \subseteq shutdownFlags)
       /\ Shutdown(t, flags, "idle", "shutdown", "notify")
  /\ UNCHANGED closing

\* Assert a waker as the last thing under e.mu.
AssertAndReturn(t, from, w, next) ==
  /\ At(t, from)
  /\ Assert(w)
  /\ ReturnsTo(t, next)
  /\ UNCHANGED <<mutexVars, woken, loopVars, timerVars, sndVars, rcvVars, readers,
                 endVars>>

\* Close "must be called only once and with no other concurrent calls".
Close(t) ==
  /\ At(t, "idle") /\ ~closing
  /\ \A u \in Callers : At(u, "idle")
  /\ closing' = TRUE
  /\ Shutdown(t, {"read", "write"}, "close_cleanup", "close_shutdown", "close_notify")
  /\ UNCHANGED calls

\* A variant that does not tell the worker.
CloseCleanup_NoNotify(t) ==
  /\ At(t, "close_cleanup") /\ MuFree
  /\ IF workerRunning
       THEN workerCleanup' = TRUE /\ UNCHANGED <<isRegistered, cleanups>>
       ELSE Cleanup
  /\ ReturnsTo(t, "closed")
  /\ UNCHANGED <<wakerVars, mutexVars, woken, loopVars, timerVars, sndVars,
                 rcvVars, readers, shutdownFlags, workerRunning, closing,
                 packets, calls, written>>

\* Clean up, or tell the worker to do it.
CloseCleanup(t) ==
  /\ At(t, "close_cleanup") /\ MuFree
  /\ IF workerRunning
       THEN /\ workerCleanup' = TRUE
            /\ notifyFlags' = notifyFlags \cup {"close"}
            /\ IF notifyFlags = {} THEN mu' = t /\ Continue(t, "cleanup_notify")
                                  ELSE ReturnsTo(t, "closed")
            /\ UNCHANGED <<isRegistered, cleanups>>
       ELSE /\ Cleanup
            /\ ReturnsTo(t, "closed")
            /\ UNCHANGED notifyFlags
  /\ UNCHANGED <<wakerVars, mutexVars, woken, loopVars, armed, sndVars, rcvVars,
                 readers, shutdownFlags, workerRunning, closing, packets, calls,
                 written>>

\* What the peer may send: its SYN first, and again until it is acknowledged.
PeerSends(flags) ==
  /\ flags \in {"syn", "synack"} => handshake # "completed"
  /\ flags \in {"ack", "data", "fin"} => packets > 0 \/ state # "connecting"

\* HandlePacket: a packet for a registered endpoint is queued if there is room.
HandlePacket(flags) ==
  /\ At(Net, "idle") /\ isRegistered /\ packets + calls < MaxEvents /\ PeerSends(flags)
  /\ Len(segmentQueue) < QueueLimit
  /\ segmentQueue' = Append(segmentQueue, [flags |-> flags, ack |-> sndNxtList])
  /\ packets' = packets + 1
  /\ Continue(Net, "deliver")
  /\ UNCHANGED <<wakerVars, mutexVars, woken, loopVars, timerVars, sndVars, rcvBufUsed,
                 rcvClosed, muVars, shutdownFlags, workerRunning, workerCleanup,
                 isRegistered, closing, calls, written, cleanups>>

HandlePacketAssert ==
  /\ At(Net, "deliver")
  /\ Assert("newSegment")
  /\ Continue(Net, "idle")
  /\ UNCHANGED <<mutexVars, woken, loopVars, dataVars>>

\* A timer expires.
Fire(w) ==
  /\ At(Timers, "idle") /\ w \in armed
  /\ armed' = armed \ {w}
  /\ Assert(w)
  /\ UNCHANGED <<mutexVars, pc, woken, loopVars, notifyFlags, sndVars, rcvVars, muVars,
                 endVars>>

-----------------------------------------------------------------------------
\* What a goroutine that has begun something does next.
CallStep(t) ==
  \/ WriteTryLock(t) \/ WriteInline(t) \/ WriteAssert(t) \/ WriteReturns(t)
  \/ ReadNotify(t)
  \/ AssertAndReturn(t, "shutdown", "sndClose", "idle")
  \/ AssertAndReturn(t, "notify", "notification", "idle")
  \/ AssertAndReturn(t, "close_shutdown", "sndClose", "close_cleanup")
  \/ AssertAndReturn(t, "close_notify", "notification", "close_cleanup")
  \/ CloseCleanup(t)
  \/ AssertAndReturn(t, "cleanup_notify", "notification", "closed")

WorkMuStep(t) ==
  MutexStep(t) /\ UNCHANGED <<wakerVars, tcpVars>>

Progress(t) ==
  \/ WorkMuStep(t)
  \/ t = Worker /\ (HandshakeStep \/ MainStep)
  \/ t = Net /\ HandlePacketAssert
  \/ t \in Callers /\ CallStep(t)

Call(t) == Write(t) \/ Read(t) \/ ShutdownCall(t) \/ Close(t)

Next ==
  \/ \E t \in Threads : Progress(t)
  \/ \E t \in Callers : Call(t)
  \/ \E flags \in {"syn", "synack", "ack", "data", "fin", "rst"} : HandlePacket(flags)
  \/ \E w \in Wakers : Fire(w)

\* Every goroutine goes on, and timers expire.
Fairness ==
  /\ \A t \in Threads : WF_vars(Progress(t))
  /\ \A w \in Wakers : WF_vars(Fire(w))

Spec == Init /\ [][Next]_vars /\ Fairness

-----------------------------------------------------------------------------
TypeOK ==
  /\ MutexTypeOK
  /\ asserted \subseteq Wakers /\ fetching \subseteq Sleepers
  /\ state \in {"connecting", "connected", "closed", "error"}
  /\ handshake \in {"synSent", "synRcvd", "completed"}
  /\ left \in 0 .. maxSegmentsPerWake /\ tries \in 0 .. MaxTries
  /\ armed \subseteq {"hsResend", "close"}
  /\ notifyFlags \cup fetched \subseteq {"close", "reset", "window"}
  /\ Len(segmentQueue) <= QueueLimit
  /\ sndBufUsed \in -1 .. SndBufSize /\ rcvBufUsed \in 0 .. RcvBufSize
  /\ sndUna \in 0 .. sndNxtList
  /\ mu \in Callers \cup {NoLock} /\ readers \subseteq Callers

\* When everybody is at rest and the worker sleeps, nothing is left for it to
\* do: nothing queued to send or received, no flag set, no FIN held back.
RestMeansDone ==
  LET asleep == \/ pc[Worker] = "hs_loop" /\ handshake # "completed"
                \/ pc[Worker] = "unlocked"
      atRest == \A t \in Threads \ {Worker} : pc[t] \in {"idle", "closed"}
  IN  asleep /\ atRest /\ asserted = {} =>
        /\ segmentQueue = <<>>
        /\ notifyFlags = {}
        /\ pc[Worker] = "unlocked" => sndQueue = 0 /\ senderClosed = sndClosed

\* A connection ends without error only when the peer has acknowledged all that
\* Write accepted, and the FIN.
GracefulEnd ==
  state = "closed" => sndQueue = 0 /\ sndUna = written + 1 /\ sndNxtList = sndUna

\* cleanupLocked runs once, after Close and when the worker is gone.
CleanedOnce == cleanups <= (IF closing /\ ~workerRunning THEN 1 ELSE 0)

\* Whatever the peer does, an endpoint that is closed is cleaned up in the end,
\* and once.
ClosedIsCleaned == [](TypeOK /\ CleanedOnce) /\ (closing ~> cleanups = 1)

=============================================================================
