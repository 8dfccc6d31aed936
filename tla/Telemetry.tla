----------------------------- MODULE Telemetry -----------------------------
(***************************************************************************)
(* The batching event shipper of telemetry/client.go.  Request goroutines  *)
(* call Send; a worker goroutine flushes on a ticker or on a wakeup token; *)
(* anyone may call Flush; Close stops the worker and flushes once more.    *)
(* A critical section of mu is one action; a POST, the callbacks and the   *)
(* token of the wakeup channel are steps of their own.  Events carry the   *)
(* number of the Send that accepted them.                                  *)
(***************************************************************************)
EXTENDS Integers, Sequences

CONSTANTS Sender,     \* request goroutines
          Worker,     \* the goroutine of run
          Flusher,    \* goroutines that call Flush themselves
          Closer,     \* the goroutine that calls Close
          batchSize, maxQueue,
          None,
          MaxEvents   \* bound: events accepted in a behaviour

Caller == {Worker, Closer} \cup Flusher     \* whoever runs Flush

ASSUME TelemetryAssumption ==
    /\ batchSize \in Nat \ {0}
    /\ maxQueue \in Nat /\ batchSize <= maxQueue
    /\ MaxEvents \in Nat
    /\ Worker # Closer
    /\ Worker \notin Flusher /\ Closer \notin Flusher
    /\ None \notin Caller

VARIABLES queue,      \* Client.queue
          dropped,    \* Client.droppedSinceFlush
          closed,     \* Client.closed
          done,       \* the done channel is closed
          closeErr,   \* Close gave up waiting for the worker
          wakeup,     \* the wakeup channel holds its token
          flushMu,    \* who holds flushMu, or None
          batch,      \* the batch each caller of Flush is posting
          pc,         \* where each caller of Flush is
          sending,    \* what each sender still has to do after its critical section
          calls,      \* history: overflow callbacks since the last successful POST, up to 2
          accepted,   \* history: number of events accepted
          delivered,  \* history: the events posted successfully, in order
          failed      \* history: the last POST failed and nothing woke the worker since

vars == <<queue, dropped, closed, done, closeErr, wakeup, flushMu, batch, pc, sending,
          calls, accepted, delivered, failed>>

Event == Nat \ {0}
Idle == [dropped |-> 0, trigger |-> FALSE]

\* select: the worker waits; idle: another caller is outside Flush;
\* lock: waits for flushMu; post: in c.send; signal: has seen events pending
\* after its POST; join: Close waits for the worker; gone: returned.
Place == {"select", "idle", "lock", "post", "signal", "join", "gone"}

TypeOK ==
    /\ queue \in Seq(Event) /\ Len(queue) <= maxQueue
    /\ batch \in [Caller -> Seq(Event)]
    /\ \A c \in Caller : Len(batch[c]) <= batchSize
    /\ delivered \in Seq(Event)
    /\ dropped \in Nat /\ accepted \in Nat /\ calls \in 0 .. 2
    /\ closed \in BOOLEAN /\ done \in BOOLEAN /\ closeErr \in BOOLEAN
    /\ wakeup \in BOOLEAN /\ failed \in BOOLEAN
    /\ flushMu \in Caller \cup {None}
    /\ pc \in [Caller -> Place]
    /\ sending \in [Sender -> [dropped : Nat, trigger : BOOLEAN]]

Init ==
    /\ queue = <<>> /\ delivered = <<>>
    /\ batch = [c \in Caller |-> <<>>]
    /\ dropped = 0 /\ accepted = 0 /\ calls = 0
    /\ closed = FALSE /\ done = FALSE /\ closeErr = FALSE /\ wakeup = FALSE /\ failed = FALSE
    /\ flushMu = None
    /\ pc = [c \in Caller |-> IF c = Worker THEN "select" ELSE "idle"]
    /\ sending = [s \in Sender |-> Idle]

-----------------------------------------------------------------------------
(* Send *)

\* queue[n:] when the queue holds n events too many.
KeepOldest(q) == IF Len(q) > maxQueue THEN SubSeq(q, 1, maxQueue) ELSE q
DropOldest(q) == IF Len(q) > maxQueue THEN SubSeq(q, Len(q) - maxQueue + 1, Len(q)) ELSE q

\* c.closed: after Close a Send is a no-op.
AcceptsAlways == TRUE
Accepts == ~closed

\* The critical section of Send.
Send(s) ==
    LET q == Append(queue, accepted + 1)
        n == Len(q) - Len(DropOldest(q))
    IN
    /\ sending[s] = Idle
    /\ accepted < MaxEvents
    /\ Accepts
    /\ accepted' = accepted + 1
    /\ queue' = DropOldest(q)
    /\ dropped' = dropped + n
    /\ sending' = [sending EXCEPT ![s] =
          [dropped |-> IF n > 0 THEN dropped + n ELSE 0,
           trigger |-> Len(DropOldest(q)) >= batchSize]]
    /\ UNCHANGED <<closed, done, closeErr, wakeup, flushMu, batch, pc, calls, delivered, failed>>

\* safeOverflow, after the mutex is released.
Overflow(s) ==
    /\ sending[s].dropped > 0
    /\ sending' = [sending EXCEPT ![s].dropped = 0]
    /\ calls' = IF calls = 2 THEN 2 ELSE calls + 1
    /\ UNCHANGED <<queue, dropped, closed, done, closeErr, wakeup, flushMu, batch, pc,
                   accepted, delivered, failed>>

\* signalWakeup: a token that is there already is enough.
SignalSend(s) ==
    /\ sending[s].dropped = 0
    /\ sending[s].trigger
    /\ sending' = [sending EXCEPT ![s].trigger = FALSE]
    /\ wakeup' = TRUE
    /\ failed' = FALSE
    /\ UNCHANGED <<queue, dropped, closed, done, closeErr, flushMu, batch, pc, calls,
                   accepted, delivered>>

-----------------------------------------------------------------------------
(* Flush, run by the worker, by Close or by the application *)

\* Where a caller goes on after Flush.
AfterOnce(c) == IF c \in {Worker, Closer} THEN "gone" ELSE "idle"
AfterDrain(c) == IF c = Worker THEN "lock" ELSE IF c = Closer THEN "gone" ELSE "idle"
After(c) == IF c = Worker THEN "select" ELSE IF c = Closer THEN "gone" ELSE "idle"

\* flushMu.Lock()
HolderIgnored == TRUE
MuFree == flushMu = None

BatchOf(q) == SubSeq(q, 1, IF batchSize <= Len(q) THEN batchSize ELSE Len(q))
RestOf(q) == SubSeq(q, Len(BatchOf(q)) + 1, Len(q))

\* An empty queue: Flush returns at once.
FlushNothing(c) ==
    /\ pc[c] = "lock" /\ MuFree
    /\ queue = <<>>
    /\ pc' = [pc EXCEPT ![c] = After(c)]
    /\ UNCHANGED <<queue, dropped, closed, done, closeErr, wakeup, flushMu, batch, sending,
                   calls, accepted, delivered, failed>>

\* Otherwise up to batchSize events leave the queue, under both mutexes.
TakeBatch(c) ==
    /\ pc[c] = "lock" /\ MuFree
    /\ queue # <<>>
    /\ flushMu' = c
    /\ batch' = [batch EXCEPT ![c] = BatchOf(queue)]
    /\ queue' = RestOf(queue)
    /\ pc' = [pc EXCEPT ![c] = "post"]
    /\ UNCHANGED <<dropped, closed, done, closeErr, wakeup, sending, calls, accepted,
                   delivered, failed>>

\* The tail of a queue longer than a batch is flushed without waiting for the
\* ticker.
NoReflush == FALSE
Reflush == ~closed /\ queue # <<>>

PostSucceeds(c) ==
    /\ pc[c] = "post"
    /\ delivered' = delivered \o batch[c]
    /\ dropped' = 0
    /\ calls' = 0
    /\ failed' = FALSE
    /\ batch' = [batch EXCEPT ![c] = <<>>]
    /\ IF Reflush
       THEN pc' = [pc EXCEPT ![c] = "signal"] /\ flushMu' = flushMu
       ELSE pc' = [pc EXCEPT ![c] = After(c)] /\ flushMu' = None
    /\ UNCHANGED <<queue, closed, done, closeErr, wakeup, sending, accepted>>

\* signalWakeup, still under flushMu.
SignalFlush(c) ==
    /\ pc[c] = "signal"
    /\ wakeup' = TRUE
    /\ flushMu' = None
    /\ pc' = [pc EXCEPT ![c] = After(c)]
    /\ UNCHANGED <<queue, dropped, closed, done, closeErr, batch, sending, calls, accepted,
                   delivered, failed>>

\* OnError, and the batch is dropped: no retry, no reset, no wakeup.
PostFails(c) ==
    /\ pc[c] = "post"
    /\ failed' = TRUE
    /\ flushMu' = None /\ batch' = [batch EXCEPT ![c] = <<>>]
    /\ pc' = [pc EXCEPT ![c] = After(c)]
    /\ UNCHANGED <<queue, dropped, closed, done, closeErr, wakeup, sending, calls,
                   accepted, delivered>>

\* Flush() called by the application.
CallFlush(c) ==
    /\ pc[c] = "idle"
    /\ pc' = [pc EXCEPT ![c] = "lock"]
    /\ UNCHANGED <<queue, dropped, closed, done, closeErr, wakeup, flushMu, batch, sending,
                   calls, accepted, delivered, failed>>

-----------------------------------------------------------------------------
(* run: the worker's select takes any case that is ready *)

WorkerTicks ==
    /\ pc[Worker] = "select"
    /\ pc' = [pc EXCEPT ![Worker] = "lock"]
    /\ UNCHANGED <<queue, dropped, closed, done, closeErr, wakeup, flushMu, batch, sending,
                   calls, accepted, delivered, failed>>

WorkerWakes ==
    /\ pc[Worker] = "select"
    /\ wakeup
    /\ wakeup' = FALSE
    /\ pc' = [pc EXCEPT ![Worker] = "lock"]
    /\ UNCHANGED <<queue, dropped, closed, done, closeErr, flushMu, batch, sending, calls,
                   accepted, delivered, failed>>

WorkerExits ==
    /\ pc[Worker] = "select"
    /\ done
    /\ pc' = [pc EXCEPT ![Worker] = "gone"]
    /\ UNCHANGED <<queue, dropped, closed, done, closeErr, wakeup, flushMu, batch, sending,
                   calls, accepted, delivered, failed>>

-----------------------------------------------------------------------------
(* Close, once: a second caller waits in closeOnce and changes nothing *)

CloseBegins ==
    /\ pc[Closer] = "idle"
    /\ closed' = TRUE
    /\ pc' = [pc EXCEPT ![Closer] = "join"]
    /\ UNCHANGED <<queue, dropped, done, closeErr, wakeup, flushMu, batch, sending, calls,
                   accepted, delivered, failed>>

\* close(c.done)
CloseSignals ==
    /\ pc[Closer] = "join"
    /\ ~done
    /\ done' = TRUE
    /\ UNCHANGED <<queue, dropped, closed, closeErr, wakeup, flushMu, batch, pc, sending,
                   calls, accepted, delivered, failed>>

\* <-joinCh: the final flush follows.
CloseJoins ==
    /\ pc[Closer] = "join"
    /\ done
    /\ pc[Worker] = "gone"
    /\ pc' = [pc EXCEPT ![Closer] = "lock"]
    /\ UNCHANGED <<queue, dropped, closed, done, closeErr, wakeup, flushMu, batch, sending,
                   calls, accepted, delivered, failed>>

\* <-ctx.Done(): no final flush.
CloseTimesOut ==
    /\ pc[Closer] = "join"
    /\ done
    /\ closeErr' = TRUE
    /\ pc' = [pc EXCEPT ![Closer] = "gone"]
    /\ UNCHANGED <<queue, dropped, closed, done, wakeup, flushMu, batch, sending,
                   calls, accepted, delivered, failed>>

Flush(c) == FlushNothing(c) \/ TakeBatch(c) \/ PostSucceeds(c) \/ PostFails(c) \/ SignalFlush(c)

Next ==
    \/ \E s \in Sender : Send(s) \/ Overflow(s) \/ SignalSend(s)
    \/ \E c \in Caller : Flush(c)
    \/ \E c \in Flusher : CallFlush(c)
    \/ WorkerTicks \/ WorkerWakes \/ WorkerExits
    \/ CloseBegins \/ CloseSignals \/ CloseJoins \/ CloseTimesOut

\* A goroutine that can run does; a POST ends (flushTimeout); the ticker fires
\* again and again; flushMu is fair to its waiters (Go's mutex hands over to a
\* starved one) and select picks among ready cases at random, so a case that is
\* ready over and over is taken: strong fairness for those two.  Nothing makes
\* the context of Close expire, which may be nil or have no deadline: CloseTimesOut
\* is not fair, and only the exit of the worker is sure to let Close go on.
Fairness ==
    /\ \A s \in Sender : WF_vars(Overflow(s)) /\ WF_vars(SignalSend(s))
    /\ \A c \in Caller : /\ SF_vars(FlushNothing(c) \/ TakeBatch(c))
                         /\ WF_vars(PostSucceeds(c) \/ PostFails(c) \/ SignalFlush(c))
    /\ WF_vars(WorkerTicks \/ WorkerWakes)
    /\ SF_vars(WorkerExits)
    /\ WF_vars(CloseSignals) /\ WF_vars(CloseJoins)

Spec == Init /\ [][Next]_vars
FairSpec == Spec /\ Fairness

-----------------------------------------------------------------------------
(* Properties *)

\* flushMu serializes flushes: one POST at a time, and only who posts has a batch.
OnePost == \A c \in Caller : /\ pc[c] \in {"post", "signal"} => flushMu = c
                             /\ batch[c] # <<>> => pc[c] = "post"

Increasing(q) == \A i, j \in 1 .. Len(q) : i < j => q[i] < q[j]
Precedes(p, q) == \A i \in 1 .. Len(p), j \in 1 .. Len(q) : p[i] < q[j]

\* However senders, worker, manual flushes and Close interleave, events reach
\* the server in the order they were accepted and none is sent twice: what was
\* delivered comes before what is in flight, and that before what is queued.
InOrder ==
    /\ Increasing(delivered) /\ Increasing(queue) /\ Precedes(delivered, queue)
    /\ \A c \in Caller : /\ Increasing(batch[c])
                         /\ Precedes(delivered, batch[c])
                         /\ Precedes(batch[c], queue)

\* The queue holds the freshest events: the last one accepted is in it, in
\* flight, or gone through a flush, never overtaken by an older one.
FreshestKept ==
    queue # <<>> => /\ queue[Len(queue)] = accepted
                    /\ queue[1] = accepted - Len(queue) + 1

\* Neither order nor freshness is paid for with the other.
FreshestInOrder == InOrder /\ FreshestKept

\* A full batch never sits in an open client that nobody is about to flush,
\* except after a POST that failed: the wakeup token is not lost.
FullBatchAwake ==
    Len(queue) >= batchSize /\ ~closed /\ ~failed =>
        \/ wakeup
        \/ \E s \in Sender : sending[s].trigger
        \/ \E c \in Caller : pc[c] \in {"lock", "post", "signal"}

\* When Close returns without an error the worker is gone and the final flush
\* took its batch from a queue that no Send can fill again: what is left, and
\* lost with the process, is at most what a full queue holds above one batch.
CloseLeavesTail ==
    pc[Closer] = "gone" /\ ~closeErr =>
        /\ pc[Worker] = "gone"
        /\ Len(queue) <= maxQueue - batchSize

\* Every event that was accepted leaves the queue: delivered, dropped with a
\* failed batch, or crowded out; only Close may leave it there.
EventuallyLeaves ==
    \A e \in 1 .. MaxEvents :
        (\E i \in 1 .. Len(queue) : queue[i] = e) ~>
            (closed \/ ~ \E i \in 1 .. Len(queue) : queue[i] = e)

\* Close returns, whatever the senders, flushes and the server do, without the
\* help of its context: the worker comes back from its POSTs and sees done.
CloseReturns == pc[Closer] = "join" ~> pc[Closer] = "gone"

\* options.go:49: "OnQueueOverflow fires once per overflow window", a window
\* ending with a successful POST.
OverflowOnce == calls <= 1
=============================================================================
