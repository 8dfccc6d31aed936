-------------------------- MODULE TelemetryProofs --------------------------
(* Theorems about what runs behind the requests, as MCBackground has it:   *)
(* Telemetry, for every number of senders and flushers and every batch and *)
(* queue size, and Overload (O), for every interval, limit and weight.     *)
EXTENDS MCBackground, SequenceTheorems, TLAPS

\* What Send leaves of a queue: its newest maxQueue events, in order.
LEMMA DropOldestKeepsTail ==
    ASSUME NEW q \in Seq(Event)
    PROVE  /\ DropOldest(q) \in Seq(Event)
           /\ Len(DropOldest(q)) = IF Len(q) > maxQueue THEN maxQueue ELSE Len(q)
           /\ \A i \in 1 .. Len(DropOldest(q)) :
                 DropOldest(q)[i] = q[i + Len(q) - Len(DropOldest(q))]
<1> USE TelemetryAssumption
<1>1. Len(q) \in Nat /\ \A i \in 1 .. Len(q) : q[i] \in Event
  BY LenProperties, ElementOfSeq
<1>2. CASE Len(q) > maxQueue
  <2> DEFINE m == Len(q) - maxQueue + 1
  <2>1. m \in Int /\ \A i \in m .. Len(q) : q[i] \in Event
    BY <1>1, <1>2
  <2>2. /\ SubSeq(q, m, Len(q)) \in Seq(Event)
        /\ Len(SubSeq(q, m, Len(q))) = maxQueue
        /\ \A i \in 1 .. maxQueue : SubSeq(q, m, Len(q))[i] = q[m + i - 1]
    <3>1. Len(q) \in Int /\ Len(q) - m + 1 = maxQueue
      BY <1>1
    <3> HIDE DEF m
    <3> QED BY <2>1, <3>1, SubSeqProperties
  <2>3. DropOldest(q) = SubSeq(q, m, Len(q))
    BY <1>2 DEF DropOldest
  <2>4. \A i \in 1 .. maxQueue : m + i - 1 = i + Len(q) - maxQueue
    BY <1>1
  <2> HIDE DEF m
  <2> QED BY <1>2, <2>2, <2>3, <2>4
<1>3. CASE ~(Len(q) > maxQueue)
  BY <1>1, <1>3 DEF DropOldest
<1> QED BY <1>2, <1>3

\* A flush splits the queue in two: the batch is its head, the rest its tail.
LEMMA BatchSplitsQueue ==
    ASSUME NEW q \in Seq(Event)
    PROVE  /\ BatchOf(q) \in Seq(Event)
           /\ RestOf(q) \in Seq(Event)
           /\ Len(BatchOf(q)) <= batchSize
           /\ Len(BatchOf(q)) + Len(RestOf(q)) = Len(q)
           /\ \A i \in 1 .. Len(BatchOf(q)) : BatchOf(q)[i] = q[i]
           /\ \A i \in 1 .. Len(RestOf(q)) : RestOf(q)[i] = q[i + Len(BatchOf(q))]
<1> USE TelemetryAssumption
<1> DEFINE n == IF batchSize <= Len(q) THEN batchSize ELSE Len(q)
<1>1. Len(q) \in Nat /\ \A i \in 1 .. Len(q) : q[i] \in Event
  BY LenProperties, ElementOfSeq
<1>2. n \in Nat /\ n <= Len(q) /\ n <= batchSize
  BY <1>1
<1>3. BatchOf(q) = SubSeq(q, 1, n)
  BY DEF BatchOf
<1> HIDE DEF n
<1>4. /\ BatchOf(q) \in Seq(Event)
      /\ Len(BatchOf(q)) = n
      /\ \A i \in 1 .. n : BatchOf(q)[i] = q[i]
  <2>1. \A i \in 1 .. n : q[i] \in Event
    BY <1>1, <1>2
  <2>2. 1 \in Int /\ n \in Int /\ n - 1 + 1 = n
    BY <1>2
  <2>3. /\ SubSeq(q, 1, n) \in Seq(Event)
        /\ Len(SubSeq(q, 1, n)) = IF 1 <= n THEN n - 1 + 1 ELSE 0
        /\ \A i \in 1 .. n - 1 + 1 : SubSeq(q, 1, n)[i] = q[1 + i - 1]
    BY <2>1, <2>2, SubSeqProperties
  <2>4. \A i \in 1 .. n : 1 + i - 1 = i
    OBVIOUS
  <2> QED BY <1>2, <1>3, <2>2, <2>3, <2>4
<1>5. RestOf(q) = SubSeq(q, n + 1, Len(q))
  BY <1>4 DEF RestOf
<1>6. /\ RestOf(q) \in Seq(Event)
      /\ Len(RestOf(q)) = Len(q) - n
      /\ \A i \in 1 .. Len(q) - n : RestOf(q)[i] = q[i + n]
  <2>1. \A i \in n + 1 .. Len(q) : q[i] \in Event
    BY <1>1, <1>2
  <2>2. n + 1 \in Int /\ Len(q) \in Int /\ Len(q) - (n + 1) + 1 = Len(q) - n
    BY <1>1, <1>2
  <2>3. /\ SubSeq(q, n + 1, Len(q)) \in Seq(Event)
        /\ Len(SubSeq(q, n + 1, Len(q))) = IF n + 1 <= Len(q) THEN Len(q) - (n + 1) + 1 ELSE 0
        /\ \A i \in 1 .. Len(q) - (n + 1) + 1 : SubSeq(q, n + 1, Len(q))[i] = q[n + 1 + i - 1]
    BY <2>1, <2>2, SubSeqProperties
  <2>4. \A i \in 1 .. Len(q) - n : n + 1 + i - 1 = i + n
    BY <1>1, <1>2
  <2>5. Len(RestOf(q)) = Len(q) - n
    <3>1. CASE n + 1 <= Len(q)
      BY <1>5, <2>2, <2>3, <3>1
    <3>2. CASE ~(n + 1 <= Len(q))
      <4>1. Len(q) - n = 0
        BY <1>1, <1>2, <3>2
      <4> QED BY <1>5, <2>3, <3>2, <4>1
    <3> QED BY <3>1, <3>2
  <2>6. \A i \in 1 .. Len(q) - n : RestOf(q)[i] = q[i + n]
    BY <1>5, <2>2, <2>3, <2>4
  <2> QED BY <1>5, <2>3, <2>5, <2>6
<1> DEFINE head == BatchOf(q)
           rest == RestOf(q)
<1>7. /\ head \in Seq(Event) /\ Len(head) = n /\ \A i \in 1 .. n : head[i] = q[i]
      /\ rest \in Seq(Event) /\ Len(rest) = Len(q) - n
      /\ \A i \in 1 .. Len(q) - n : rest[i] = q[i + n]
  BY <1>4, <1>6
<1> HIDE DEF head, rest
<1>8. Len(head) <= batchSize /\ Len(head) + Len(rest) = Len(q)
  <2>1. n <= batchSize /\ n + (Len(q) - n) = Len(q)
    BY <1>1, <1>2
  <2> QED BY <1>7, <2>1, Zenon
<1>9. \A i \in 1 .. Len(head) : head[i] = q[i]
  BY <1>7, Zenon
<1>10. \A i \in 1 .. Len(rest) : rest[i] = q[i + Len(head)]
  BY <1>7, Zenon
<1> QED BY <1>7, <1>8, <1>9, <1>10, Zenon DEF head, rest

-----------------------------------------------------------------------------
\* Every state of the client is well formed; in particular the queue never
\* exceeds maxQueue nor a batch batchSize.
THEOREM TypeCorrect == Spec => []TypeOK
<1> USE TelemetryAssumption
<1>1. Init => TypeOK
  <2> SUFFICES ASSUME Init PROVE TypeOK
    OBVIOUS
  <2>1. <<>> \in Seq(Event) /\ Len(<<>>) = 0
    BY EmptySeq
  <2>2. batch \in [Caller -> Seq(Event)] /\ \A c \in Caller : Len(batch[c]) <= batchSize
    BY <2>1 DEF Init
  <2>3. pc \in [Caller -> Place]
    BY DEF Init, Place
  <2>4. sending \in [Sender -> [dropped : Nat, trigger : BOOLEAN]]
    <3>1. Idle \in [dropped : Nat, trigger : BOOLEAN]
      BY Zenon DEF Idle
    <3> QED BY <3>1 DEF Init
  <2>5. /\ queue \in Seq(Event) /\ Len(queue) <= maxQueue /\ delivered \in Seq(Event)
    BY <2>1 DEF Init
  <2>6. dropped \in Nat /\ accepted \in Nat /\ calls \in 0 .. 2
    BY DEF Init
  <2>7. /\ closed \in BOOLEAN /\ done \in BOOLEAN /\ closeErr \in BOOLEAN
        /\ wakeup \in BOOLEAN /\ failed \in BOOLEAN
    BY DEF Init
  <2>8. flushMu \in Caller \cup {None}
    BY DEF Init
  <2> QED BY <2>2, <2>3, <2>4, <2>5, <2>6, <2>7, <2>8 DEF TypeOK
<1>2. TypeOK /\ [Next]_vars => TypeOK'
  <2> SUFFICES ASSUME TypeOK, [Next]_vars PROVE TypeOK'
    OBVIOUS
  <2>1. ASSUME NEW s \in Sender, Send(s) PROVE TypeOK'
    <3> DEFINE q == Append(queue, accepted + 1)
               n == Len(q) - Len(DropOldest(q))
    <3>1. q \in Seq(Event) /\ Len(q) = Len(queue) + 1 /\ Len(queue) \in Nat
      <4>1. accepted + 1 \in Event
        BY DEF TypeOK, Event
      <4> QED BY <4>1, AppendProperties, LenProperties DEF TypeOK
    <3>2. /\ DropOldest(q) \in Seq(Event)
          /\ Len(DropOldest(q)) \in Nat
          /\ Len(DropOldest(q)) <= maxQueue
          /\ n \in Nat
      <4> HIDE DEF q
      <4>1. Len(DropOldest(q)) = IF Len(q) > maxQueue THEN maxQueue ELSE Len(q)
        BY <3>1, DropOldestKeepsTail
      <4>2. DropOldest(q) \in Seq(Event)
        BY <3>1, DropOldestKeepsTail
      <4> QED BY <3>1, <4>1, <4>2
    <3> HIDE DEF n, q
    <3>3. [dropped |-> IF n > 0 THEN dropped + n ELSE 0,
           trigger |-> Len(DropOldest(q)) >= batchSize] \in [dropped : Nat, trigger : BOOLEAN]
      BY <3>2 DEF TypeOK
    <3>4. /\ queue' = DropOldest(q) /\ dropped' = dropped + n /\ accepted' = accepted + 1
          /\ sending' = [sending EXCEPT ![s] =
                [dropped |-> IF n > 0 THEN dropped + n ELSE 0,
                 trigger |-> Len(DropOldest(q)) >= batchSize]]
          /\ UNCHANGED <<closed, done, closeErr, wakeup, flushMu, batch, pc, calls, delivered, failed>>
      BY <2>1 DEF Send, n, q
    <3>5. sending' \in [Sender -> [dropped : Nat, trigger : BOOLEAN]]
      BY <3>3, <3>4 DEF TypeOK
    <3> QED BY <3>2, <3>4, <3>5 DEF TypeOK
  <2>2. ASSUME NEW s \in Sender, Overflow(s) PROVE TypeOK'
    <3>1. sending' \in [Sender -> [dropped : Nat, trigger : BOOLEAN]]
      BY <2>2 DEF Overflow, TypeOK
    <3>2. calls' \in 0 .. 2
      BY <2>2 DEF Overflow, TypeOK
    <3> QED BY <2>2, <3>1, <3>2 DEF Overflow, TypeOK
  <2>3. ASSUME NEW s \in Sender, SignalSend(s) PROVE TypeOK'
    <3>1. sending' \in [Sender -> [dropped : Nat, trigger : BOOLEAN]]
      BY <2>3 DEF SignalSend, TypeOK
    <3> QED BY <2>3, <3>1 DEF SignalSend, TypeOK
  <2>4. \A c \in Caller : After(c) \in Place
    BY DEF After, Place
  <2>5. ASSUME NEW c \in Caller, FlushNothing(c) PROVE TypeOK'
    BY <2>4, <2>5 DEF FlushNothing, TypeOK
  <2>6. ASSUME NEW c \in Caller, TakeBatch(c) PROVE TypeOK'
    <3>1. /\ BatchOf(queue) \in Seq(Event) /\ RestOf(queue) \in Seq(Event)
          /\ Len(BatchOf(queue)) <= batchSize /\ Len(RestOf(queue)) <= maxQueue
      <4>1. queue \in Seq(Event) /\ Len(queue) <= maxQueue
        BY DEF TypeOK
      <4>2. /\ BatchOf(queue) \in Seq(Event) /\ RestOf(queue) \in Seq(Event)
            /\ Len(BatchOf(queue)) <= batchSize
            /\ Len(BatchOf(queue)) + Len(RestOf(queue)) = Len(queue)
        BY <4>1, BatchSplitsQueue
      <4>3. Len(BatchOf(queue)) \in Nat /\ Len(RestOf(queue)) \in Nat /\ Len(queue) \in Nat
        BY <4>1, <4>2, LenProperties
      <4> QED BY <4>1, <4>2, <4>3
    <3>2. batch' \in [Caller -> Seq(Event)] /\ \A d \in Caller : Len(batch'[d]) <= batchSize
      BY <2>6, <3>1 DEF TakeBatch, TypeOK
    <3>3. pc' \in [Caller -> Place]
      BY <2>6 DEF TakeBatch, TypeOK, Place
    <3> QED BY <2>6, <3>1, <3>2, <3>3 DEF TakeBatch, TypeOK
  <2>7. <<>> \in Seq(Event) /\ Len(<<>>) = 0
    BY EmptySeq
  <2>8. ASSUME NEW c \in Caller, batch' = [batch EXCEPT ![c] = <<>>]
        PROVE  batch' \in [Caller -> Seq(Event)] /\ \A d \in Caller : Len(batch'[d]) <= batchSize
    BY <2>7, <2>8 DEF TypeOK
  <2>9. ASSUME NEW c \in Caller, PostSucceeds(c) PROVE TypeOK'
    <3>1. delivered \o batch[c] \in Seq(Event)
      BY ConcatProperties DEF TypeOK
    <3>4. batch' \in [Caller -> Seq(Event)] /\ \A d \in Caller : Len(batch'[d]) <= batchSize
      BY <2>8, <2>9 DEF PostSucceeds
    <3>5. pc' \in [Caller -> Place]
      <4>1. "signal" \in Place
        BY DEF Place
      <4> QED BY <2>4, <2>9, <4>1 DEF PostSucceeds, TypeOK
    <3>6. delivered' \in Seq(Event) /\ dropped' \in Nat /\ calls' \in 0 .. 2
      BY <2>9, <3>1 DEF PostSucceeds
    <3>8. flushMu' \in Caller \cup {None} /\ failed' \in BOOLEAN
      BY <2>9 DEF PostSucceeds, TypeOK
    <3>7. UNCHANGED <<queue, closed, done, closeErr, wakeup, sending, accepted>>
      BY <2>9 DEF PostSucceeds
    <3> QED BY <3>4, <3>5, <3>6, <3>7, <3>8 DEF TypeOK
  <2>10. ASSUME NEW c \in Caller, PostFails(c) PROVE TypeOK'
    BY <2>4, <2>8, <2>10 DEF PostFails, TypeOK
  <2>15. ASSUME NEW c \in Caller, SignalFlush(c) PROVE TypeOK'
    BY <2>4, <2>15 DEF SignalFlush, TypeOK
  <2>11. ASSUME NEW c \in Flusher, CallFlush(c) PROVE TypeOK'
    BY <2>11 DEF CallFlush, TypeOK, Place
  <2>12. CASE WorkerTicks \/ WorkerWakes \/ WorkerExits
    BY <2>12 DEF WorkerTicks, WorkerWakes, WorkerExits, TypeOK, Place
  <2>13. CASE CloseBegins \/ CloseSignals \/ CloseJoins \/ CloseTimesOut
    BY <2>13 DEF CloseBegins, CloseSignals, CloseJoins, CloseTimesOut, TypeOK, Place
  <2>14. CASE UNCHANGED vars
    BY <2>14 DEF vars, TypeOK
  <2> QED BY <2>1, <2>2, <2>3, <2>5, <2>6, <2>9, <2>10, <2>11, <2>12, <2>13, <2>14, <2>15
             DEF Next, Flush
<1> QED BY <1>1, <1>2, PTL DEF Spec
-----------------------------------------------------------------------------
(* Order of delivery *)

\* The number of the last event that has left the queue.
Left == accepted - Len(queue)
UpTo(q, n) == \A i \in 1 .. Len(q) : q[i] <= n

\* The queue holds the events Left + 1 .. accepted.
Contiguous == /\ Left \in Nat
              /\ \A i \in 1 .. Len(queue) : queue[i] = Left + i

\* The inductive invariant: numbers leave the queue at its head, so those in
\* flight or delivered are at most Left; the batch in flight, one at a time by
\* OnePost, comes after everything delivered.
OrderInv ==
    /\ TypeOK
    /\ OnePost
    /\ Contiguous
    /\ UpTo(delivered, Left) /\ Increasing(delivered)
    /\ \A c \in Caller : /\ UpTo(batch[c], Left)
                         /\ Increasing(batch[c])
                         /\ Precedes(delivered, batch[c])

\* The invariant says what InOrder and FreshestKept promise.
LEMMA OrderInvSuffices == OrderInv => InOrder /\ FreshestKept
<1> SUFFICES ASSUME OrderInv PROVE InOrder /\ FreshestKept
  OBVIOUS
<1>1. /\ queue \in Seq(Event) /\ delivered \in Seq(Event) /\ Left \in Nat /\ accepted \in Nat
      /\ \A c \in Caller : batch[c] \in Seq(Event)
  BY DEF OrderInv, TypeOK, Contiguous
<1>2. /\ Len(queue) \in Nat
      /\ \A i \in 1 .. Len(queue) : queue[i] = Left + i
  BY <1>1, LenProperties DEF OrderInv, Contiguous
<1>3. Increasing(queue)
  BY <1>1, <1>2 DEF Increasing
<1>4. ASSUME NEW q \in Seq(Event), UpTo(q, Left) PROVE Precedes(q, queue)
  <2>1. \A i \in 1 .. Len(q) : q[i] \in Nat
    BY ElementOfSeq DEF Event
  <2> QED BY <1>1, <1>2, <1>4, <2>1 DEF UpTo, Precedes
<1>5. InOrder
  BY <1>1, <1>3, <1>4 DEF InOrder, OrderInv
<1>6. FreshestKept
  <2> SUFFICES ASSUME queue # <<>>
               PROVE  queue[Len(queue)] = accepted /\ queue[1] = accepted - Len(queue) + 1
    BY DEF FreshestKept
  <2>1. Len(queue) # 0
    BY <1>1, EmptySeq
  <2> QED BY <1>1, <1>2, <2>1 DEF Left
<1> QED BY <1>5, <1>6

\* A step that leaves queue, accepted, delivered and the batches alone, and
\* moves no goroutine into or out of a POST.
LEMMA OrderStutters ==
    ASSUME OrderInv, TypeOK',
           UNCHANGED <<queue, accepted, delivered, batch, flushMu>>,
           \A c \in Caller : /\ pc'[c] = "post" <=> pc[c] = "post"
                             /\ pc'[c] = "signal" <=> pc[c] = "signal"
    PROVE  OrderInv'
<1>1. OnePost'
  BY DEF OrderInv, OnePost
<1>2. Contiguous' /\ Left' = Left
  BY DEF OrderInv, Contiguous, Left
<1> QED BY <1>1, <1>2 DEF OrderInv
\* The critical section of Send: one more event at the tail, the oldest ones
\* gone from the head.
LEMMA OrderSend ==
    ASSUME OrderInv, TypeOK', NEW s \in Sender, Send(s)
    PROVE  OrderInv'
<1> USE TelemetryAssumption
<1> DEFINE q == Append(queue, accepted + 1)
           d == DropOldest(q)
<1>1. /\ queue \in Seq(Event) /\ Len(queue) \in Nat /\ accepted \in Nat
      /\ Left \in Nat /\ accepted = Left + Len(queue)
      /\ \A i \in 1 .. Len(queue) : queue[i] = Left + i
  BY LenProperties DEF OrderInv, TypeOK, Contiguous, Left
<1>2. /\ q \in Seq(Event) /\ Len(q) = Len(queue) + 1
      /\ \A i \in 1 .. Len(queue) : q[i] = queue[i]
      /\ q[Len(queue) + 1] = accepted + 1
  <2>1. accepted + 1 \in Event
    BY <1>1 DEF Event
  <2> QED BY <1>1, <2>1, AppendProperties
<1>3. \A i \in 1 .. Len(q) : q[i] = Left + i
  BY <1>1, <1>2
<1>4. queue' = d /\ accepted' = accepted + 1
  BY DEF Send
<1>5. UNCHANGED <<delivered, batch, flushMu, pc>>
  BY DEF Send
<1> HIDE DEF q
<1>6. /\ d \in Seq(Event)
      /\ Len(d) = IF Len(q) > maxQueue THEN maxQueue ELSE Len(q)
      /\ \A i \in 1 .. Len(d) : d[i] = q[i + Len(q) - Len(d)]
  BY <1>2, DropOldestKeepsTail
<1> HIDE DEF d
<1>7. Len(d) \in Nat /\ Len(d) <= Len(q)
  BY <1>1, <1>2, <1>6
<1>8. Left' = Left + (Len(q) - Len(d)) /\ Left' \in Nat /\ Left <= Left'
  BY <1>1, <1>2, <1>4, <1>7 DEF Left
<1>9. Contiguous'
  <2> SUFFICES ASSUME NEW i \in 1 .. Len(d) PROVE d[i] = Left' + i
    BY <1>4, <1>8 DEF Contiguous
  <2>1. i + Len(q) - Len(d) \in 1 .. Len(q)
    BY <1>1, <1>2, <1>7
  <2>2. d[i] = Left + (i + Len(q) - Len(d))
    BY <1>3, <1>6, <2>1
  <2> QED BY <1>1, <1>2, <1>7, <1>8, <2>2
<1>10. ASSUME NEW p \in Seq(Event), UpTo(p, Left) PROVE UpTo(p, Left')
  <2>1. \A i \in 1 .. Len(p) : p[i] \in Nat
    BY ElementOfSeq DEF Event
  <2> QED BY <1>1, <1>8, <1>10, <2>1 DEF UpTo
<1>11. /\ delivered \in Seq(Event)
       /\ \A c \in Caller : batch[c] \in Seq(Event)
  BY DEF OrderInv, TypeOK
<1>12. OnePost'
  BY <1>5 DEF OrderInv, OnePost
<1> QED BY <1>5, <1>9, <1>10, <1>11, <1>12 DEF OrderInv

\* A flush takes its batch from the head of the queue.
LEMMA OrderTakeBatch ==
    ASSUME OrderInv, TypeOK', NEW c \in Caller, TakeBatch(c)
    PROVE  OrderInv'
<1> USE TelemetryAssumption
<1> DEFINE b == BatchOf(queue)
           r == RestOf(queue)
<1>1. /\ queue \in Seq(Event) /\ Len(queue) \in Nat /\ accepted \in Nat
      /\ Left \in Nat /\ accepted = Left + Len(queue)
      /\ \A i \in 1 .. Len(queue) : queue[i] = Left + i
  BY LenProperties DEF OrderInv, TypeOK, Contiguous, Left
<1>2. /\ pc[c] = "lock" /\ flushMu = None /\ flushMu' = c
      /\ batch' = [batch EXCEPT ![c] = b]
      /\ queue' = r
      /\ pc' = [pc EXCEPT ![c] = "post"]
      /\ UNCHANGED <<accepted, delivered>>
  BY DEF TakeBatch, MuFree
<1>3. /\ b \in Seq(Event) /\ r \in Seq(Event)
      /\ Len(b) + Len(r) = Len(queue)
      /\ \A i \in 1 .. Len(b) : b[i] = queue[i]
      /\ \A i \in 1 .. Len(r) : r[i] = queue[i + Len(b)]
  BY <1>1, BatchSplitsQueue
<1> HIDE DEF b, r
<1>4. Len(b) \in Nat /\ Len(r) \in Nat
  BY <1>3, LenProperties
<1>5. Left' = Left + Len(b) /\ Left' \in Nat
  <2>1. Left' = accepted - Len(r)
    BY <1>2 DEF Left
  <2>2. Left' = Left + Len(b)
    <3>1. /\ Left \in Nat /\ Len(queue) \in Nat /\ Len(b) \in Nat /\ Len(r) \in Nat
          /\ accepted = Left + Len(queue) /\ Len(queue) = Len(b) + Len(r)
      BY <1>1, <1>3, <1>4
    <3>2. accepted - Len(r) = Left + Len(b)
      BY <3>1
    <3> QED BY <2>1, <3>2
  <2> QED BY <1>1, <1>4, <2>2
<1>6. \A i \in 1 .. Len(b) : b[i] = Left + i
  BY <1>1, <1>3, <1>4
<1>7. Contiguous'
  <2> SUFFICES ASSUME NEW i \in 1 .. Len(r) PROVE r[i] = Left' + i
    BY <1>2, <1>5 DEF Contiguous
  <2>1. i + Len(b) \in 1 .. Len(queue)
    BY <1>3, <1>4
  <2> QED BY <1>1, <1>3, <1>4, <1>5, <2>1
<1>8. OnePost'
  <2>1. \A e \in Caller : pc[e] \notin {"post", "signal"} /\ batch[e] = <<>>
    <3>1. \A e \in Caller : e # None
      BY DEF TelemetryAssumption
    <3> QED BY <1>2, <3>1 DEF OrderInv, OnePost
  <2> QED BY <1>2, <2>1 DEF OrderInv, OnePost, TypeOK
<1>9. ASSUME NEW p \in Seq(Event), UpTo(p, Left) PROVE UpTo(p, Left')
  <2>1. \A i \in 1 .. Len(p) : p[i] \in Nat
    BY ElementOfSeq DEF Event
  <2> QED BY <1>1, <1>4, <1>5, <1>9, <2>1 DEF UpTo
<1>10. UpTo(b, Left') /\ Increasing(b)
  BY <1>1, <1>4, <1>5, <1>6 DEF UpTo, Increasing
<1>11. Precedes(delivered, b)
  <2>1. \A i \in 1 .. Len(delivered) : delivered[i] \in Nat /\ delivered[i] <= Left
    BY ElementOfSeq, SMTT(60) DEF Event, OrderInv, TypeOK, UpTo
  <2> QED BY <1>1, <1>4, <1>6, <2>1 DEF Precedes
<1>12. ASSUME NEW e \in Caller
       PROVE  /\ UpTo(batch'[e], Left') /\ Increasing(batch'[e])
              /\ Precedes(delivered, batch'[e])
  <2>1. CASE e = c
    BY <1>2, <1>10, <1>11, <2>1 DEF OrderInv, TypeOK
  <2>2. CASE e # c
    <3>1. batch'[e] = batch[e] /\ batch[e] \in Seq(Event)
      BY <1>2, <2>2 DEF OrderInv, TypeOK
    <3> QED BY <1>9, <3>1 DEF OrderInv
  <2> QED BY <2>1, <2>2
<1>13. UpTo(delivered, Left') /\ Increasing(delivered)
  BY <1>9 DEF OrderInv, TypeOK
<1> QED BY <1>2, <1>7, <1>8, <1>12, <1>13 DEF OrderInv

\* A POST ends: its batch joins what was delivered, or is dropped.
LEMMA OrderPostEnds ==
    ASSUME OrderInv, TypeOK', NEW c \in Caller, PostSucceeds(c) \/ PostFails(c)
    PROVE  OrderInv'
<1> USE TelemetryAssumption
<1>1. /\ pc[c] = "post"
      /\ batch' = [batch EXCEPT ![c] = <<>>]
      /\ \/ pc' = [pc EXCEPT ![c] = "signal"] /\ flushMu' = flushMu
         \/ pc' = [pc EXCEPT ![c] = After(c)] /\ flushMu' = None
      /\ UNCHANGED <<queue, accepted>>
      /\ delivered' = delivered \o batch[c] \/ delivered' = delivered
  BY DEF PostSucceeds, PostFails
<1>2. After(c) \notin {"post", "signal"} /\ flushMu = c
  BY <1>1 DEF After, OrderInv, OnePost
<1>3. ASSUME NEW e \in Caller
      PROVE  /\ pc'[e] # "post" /\ batch'[e] = <<>>
             /\ pc'[e] = "signal" => flushMu' = e
  <2>1. CASE e = c
    BY <1>1, <1>2, <2>1 DEF OrderInv, TypeOK
  <2>2. CASE e # c
    <3>1. pc[e] \notin {"post", "signal"} /\ batch[e] = <<>>
      BY <1>2, <2>2 DEF OrderInv, OnePost
    <3> QED BY <1>1, <2>2, <3>1 DEF OrderInv, TypeOK
  <2> QED BY <2>1, <2>2
<1>4. OnePost'
  BY <1>3 DEF OnePost
<1>5. Left' = Left /\ Contiguous' /\ Left \in Nat
  BY <1>1 DEF OrderInv, Contiguous, Left
<1>6. /\ delivered \in Seq(Event) /\ batch[c] \in Seq(Event)
      /\ Len(delivered) \in Nat /\ Len(batch[c]) \in Nat
      /\ \A i \in 1 .. Len(delivered) : delivered[i] \in Nat
      /\ \A i \in 1 .. Len(batch[c]) : batch[c][i] \in Nat
  BY ElementOfSeq, LenProperties, SMTT(60) DEF OrderInv, TypeOK, Event
<1>7. UpTo(delivered', Left) /\ Increasing(delivered')
  <2>1. CASE delivered' = delivered
    BY <2>1 DEF OrderInv
  <2>2. CASE delivered' = delivered \o batch[c]
    <3> DEFINE n == Len(delivered)
               m == Len(batch[c])
    <3>1. /\ Len(delivered') = n + m
          /\ \A i \in 1 .. n : delivered'[i] = delivered[i]
          /\ \A i \in n + 1 .. n + m : delivered'[i] = batch[c][i - n]
      BY <1>6, <2>2, ConcatProperties
    <3>2. /\ \A i \in 1 .. n : delivered[i] <= Left
          /\ \A i \in 1 .. m : batch[c][i] <= Left
          /\ \A i, j \in 1 .. n : i < j => delivered[i] < delivered[j]
          /\ \A i, j \in 1 .. m : i < j => batch[c][i] < batch[c][j]
          /\ \A i \in 1 .. n, j \in 1 .. m : delivered[i] < batch[c][j]
      BY DEF OrderInv, UpTo, Increasing, Precedes
    <3>3. n \in Nat /\ m \in Nat
      BY <1>6
    <3> HIDE DEF n, m
    <3>4. UpTo(delivered', Left)
      BY <3>1, <3>2, <3>3 DEF UpTo
    <3>5. Increasing(delivered')
      BY <3>1, <3>2, <3>3 DEF Increasing
    <3> QED BY <3>4, <3>5
  <2> QED BY <1>1, <2>1, <2>2
<1>8. \A e \in Caller : /\ UpTo(batch'[e], Left') /\ Increasing(batch'[e])
                        /\ Precedes(delivered', batch'[e])
  <2>1. \A q : UpTo(<<>>, Left') /\ Increasing(<<>>) /\ Precedes(q, <<>>)
    <3>1. Len(<<>>) = 0
      BY EmptySeq
    <3> QED BY <3>1 DEF UpTo, Increasing, Precedes
  <2> QED BY <1>3, <2>1
<1> QED BY <1>4, <1>5, <1>7, <1>8 DEF OrderInv

\* The token: flushMu is released.
LEMMA OrderSignalFlush ==
    ASSUME OrderInv, TypeOK', NEW c \in Caller, SignalFlush(c)
    PROVE  OrderInv'
<1> USE TelemetryAssumption
<1>1. After(c) \notin {"post", "signal"} /\ flushMu = c
  BY DEF After, SignalFlush, OrderInv, OnePost
<1>2. \A e \in Caller : pc'[e] \notin {"post", "signal"} /\ batch'[e] = <<>>
  BY <1>1 DEF SignalFlush, OrderInv, OnePost, TypeOK
<1>3. OnePost'
  BY <1>2 DEF OnePost
<1>4. UNCHANGED <<queue, accepted, delivered, batch>>
  BY DEF SignalFlush
<1>5. Contiguous' /\ Left' = Left
  BY <1>4 DEF OrderInv, Contiguous, Left
<1> QED BY <1>3, <1>4, <1>5 DEF OrderInv

LEMMA OrderStep == OrderInv /\ TypeOK' /\ [Next]_vars => OrderInv'
<1> SUFFICES ASSUME OrderInv, TypeOK', [Next]_vars PROVE OrderInv'
  OBVIOUS
<1> USE TelemetryAssumption
<1>1. pc \in [Caller -> Place]
  BY DEF OrderInv, TypeOK
<1>2. \A c \in Caller : After(c) \notin {"post", "signal"}
  BY DEF After
<1>3. Worker \in Caller /\ Closer \in Caller /\ Flusher \subseteq Caller
  BY DEF Caller
<1>4. ASSUME NEW s \in Sender, Send(s) \/ Overflow(s) \/ SignalSend(s) PROVE OrderInv'
  <2>1. CASE Send(s)
    BY <2>1, OrderSend
  <2>2. CASE Overflow(s) \/ SignalSend(s)
    BY <2>2, OrderStutters DEF Overflow, SignalSend
  <2> QED BY <1>4, <2>1, <2>2
<1>5. ASSUME NEW c \in Caller, Flush(c) PROVE OrderInv'
  <2>1. CASE FlushNothing(c)
    BY <1>1, <1>2, <2>1, OrderStutters DEF FlushNothing
  <2>2. CASE TakeBatch(c)
    BY <2>2, OrderTakeBatch
  <2>3. CASE PostSucceeds(c) \/ PostFails(c)
    BY <2>3, OrderPostEnds
  <2>4. CASE SignalFlush(c)
    BY <2>4, OrderSignalFlush
  <2> QED BY <1>5, <2>1, <2>2, <2>3, <2>4 DEF Flush
<1>6. ASSUME NEW c \in Flusher, CallFlush(c) PROVE OrderInv'
  BY <1>1, <1>3, <1>6, OrderStutters DEF CallFlush
<1>7. CASE WorkerTicks \/ WorkerWakes \/ WorkerExits
  BY <1>1, <1>3, <1>7, OrderStutters DEF WorkerTicks, WorkerWakes, WorkerExits
<1>8. CASE CloseBegins \/ CloseSignals \/ CloseJoins \/ CloseTimesOut
  BY <1>1, <1>3, <1>8, OrderStutters DEF CloseBegins, CloseSignals, CloseJoins, CloseTimesOut
<1>9. CASE UNCHANGED vars
  BY <1>9, OrderStutters DEF vars
<1> QED BY <1>4, <1>5, <1>6, <1>7, <1>8, <1>9 DEF Next

\* Events reach the server in the order they were accepted, none twice, from
\* however many senders and flushers; and the queue keeps the freshest ones.
THEOREM DeliveredInOrder == Spec => []FreshestInOrder /\ []OnePost
<1> USE TelemetryAssumption
<1>1. Init /\ TypeOK => OrderInv
  <2> SUFFICES ASSUME Init, TypeOK PROVE OrderInv
    OBVIOUS
  <2>1. Len(<<>>) = 0
    BY EmptySeq
  <2>2. OnePost
    BY DEF Init, OnePost
  <2>3. Contiguous
    BY <2>1 DEF Init, Contiguous, Left
  <2>4. UpTo(<<>>, Left) /\ Increasing(<<>>) /\ Precedes(<<>>, <<>>)
    BY <2>1 DEF UpTo, Increasing, Precedes
  <2>5. delivered = <<>> /\ \A c \in Caller : batch[c] = <<>>
    BY DEF Init
  <2> QED BY <2>2, <2>3, <2>4, <2>5 DEF OrderInv
<1>2. OrderInv => FreshestInOrder /\ OnePost
  BY OrderInvSuffices DEF OrderInv, FreshestInOrder
<1> QED BY <1>1, <1>2, OrderStep, TypeCorrect, PTL DEF Spec
-----------------------------------------------------------------------------
(* Wakeups *)

\* A full batch in an open client always has somebody on the way to it: the token,
\* a sender that will put it there, or a caller inside Flush.  What takes one of
\* them away leaves another, or finds the queue empty.
THEOREM NoLostWakeup == Spec => []FullBatchAwake
<1> USE TelemetryAssumption
<1>1. Init => FullBatchAwake
  BY EmptySeq DEF Init, FullBatchAwake
<1>2. TypeOK /\ FullBatchAwake /\ [Next]_vars => FullBatchAwake'
  <2> SUFFICES ASSUME TypeOK, FullBatchAwake, [Next]_vars,
                      Len(queue') >= batchSize, ~closed', ~failed'
               PROVE  \/ wakeup'
                      \/ \E s \in Sender : sending'[s].trigger
                      \/ \E c \in Caller : pc'[c] \in {"lock", "post", "signal"}
    BY DEF FullBatchAwake
  <2> DEFINE Awake == \/ wakeup'
                      \/ \E s \in Sender : sending'[s].trigger
                      \/ \E c \in Caller : pc'[c] \in {"lock", "post", "signal"}
  <2>a. Worker \in Caller /\ Closer \in Caller /\ Flusher \subseteq Caller
    BY DEF Caller
  <2>b. queue' # <<>>
    BY EmptySeq
  <2>c. ASSUME queue' = queue, closed' = closed, failed' = failed,
               wakeup' = wakeup, \A s \in Sender : sending'[s].trigger = sending[s].trigger,
               \A c \in Caller : pc[c] \in {"lock", "post", "signal"} => pc'[c] = pc[c]
        PROVE  Awake
    BY <2>c DEF FullBatchAwake
  <2>1. ASSUME NEW s \in Sender, Send(s) PROVE Awake
    <3>1. sending'[s].trigger
      BY <2>1 DEF Send, TypeOK
    <3> QED BY <3>1
  <2>2. ASSUME NEW s \in Sender, Overflow(s) PROVE Awake
    <3>1. \A t \in Sender : sending'[t].trigger = sending[t].trigger
      BY <2>2 DEF Overflow, TypeOK
    <3> QED BY <2>2, <2>c, <3>1 DEF Overflow
  <2>3. ASSUME NEW s \in Sender, SignalSend(s) PROVE Awake
    BY <2>3 DEF SignalSend
  <2>4. ASSUME NEW c \in Caller, FlushNothing(c) PROVE Awake
    BY <2>4, <2>b DEF FlushNothing
  <2>5. ASSUME NEW c \in Caller, TakeBatch(c) PROVE Awake
    BY <2>5 DEF TakeBatch, TypeOK
  <2>6. ASSUME NEW c \in Caller, PostSucceeds(c) PROVE Awake
    <3>1. pc' = [pc EXCEPT ![c] = "signal"]
      BY <2>6, <2>b DEF PostSucceeds, Reflush
    <3> QED BY <3>1 DEF TypeOK
  <2>7. ASSUME NEW c \in Caller, PostFails(c) PROVE Awake
    BY <2>7 DEF PostFails
  <2>8. ASSUME NEW c \in Caller, SignalFlush(c) PROVE Awake
    BY <2>8 DEF SignalFlush
  <2>9. ASSUME NEW c \in Flusher, CallFlush(c) PROVE Awake
    BY <2>9, <2>a DEF CallFlush, TypeOK
  <2>10. CASE WorkerTicks \/ WorkerWakes
    BY <2>10, <2>a DEF WorkerTicks, WorkerWakes, TypeOK
  <2>11. CASE WorkerExits \/ CloseJoins \/ CloseTimesOut
    <3>1. \A c \in Caller : pc[c] \in {"lock", "post", "signal"} => pc'[c] = pc[c]
      BY <2>11 DEF WorkerExits, CloseJoins, CloseTimesOut, TypeOK
    <3> QED BY <2>11, <2>c, <3>1 DEF WorkerExits, CloseJoins, CloseTimesOut
  <2>12. CASE CloseBegins
    BY <2>12 DEF CloseBegins
  <2>13. CASE CloseSignals \/ UNCHANGED vars
    BY <2>13, <2>c DEF CloseSignals, vars
  <2> HIDE DEF Awake
  <2> QED BY <2>1, <2>2, <2>3, <2>4, <2>5, <2>6, <2>7, <2>8, <2>9, <2>10, <2>11, <2>12, <2>13
             DEF Next, Flush, Awake
<1> QED BY <1>1, <1>2, TypeCorrect, PTL DEF Spec

-----------------------------------------------------------------------------
(* Close *)

\* From CloseBegins on no Send fills the queue again; the final flush starts after
\* the worker is gone, and from its TakeBatch on there is room for one more batch.
TailInv ==
    /\ pc[Closer] \in {"idle", "join", "lock", "post", "gone"}
    /\ pc[Closer] # "idle" => closed
    /\ pc[Closer] \in {"lock", "post"} => pc[Worker] = "gone"
    /\ pc[Closer] = "post" => Len(queue) <= maxQueue - batchSize
    /\ CloseLeavesTail

\* A step after which Closer and Worker are where they were, and the queue is no longer.
LEMMA TailStutters ==
    ASSUME TypeOK, TypeOK', TailInv, closed => closed', closeErr' = closeErr,
           Len(queue') <= Len(queue) \/ pc[Closer] = "idle",
           pc'[Closer] = pc[Closer],
           pc[Worker] = "gone" => pc'[Worker] = "gone"
    PROVE  TailInv'
<1>1. Len(queue') \in Nat /\ Len(queue) \in Nat /\ maxQueue \in Nat /\ batchSize \in Nat
  BY TelemetryAssumption, SMTT(60) DEF TypeOK
<1> QED BY <1>1 DEF TailInv, CloseLeavesTail

\* What a flush leaves of a queue that is not over its limit.
LEMMA RestHasRoom ==
    ASSUME NEW q \in Seq(Event), Len(q) <= maxQueue
    PROVE  Len(RestOf(q)) <= maxQueue - batchSize /\ Len(RestOf(q)) <= Len(q)
<1>1. Len(BatchOf(q)) + Len(RestOf(q)) = Len(q) /\ BatchOf(q) \in Seq(Event) /\ RestOf(q) \in Seq(Event)
  BY BatchSplitsQueue
<1>2. Len(BatchOf(q)) = IF batchSize <= Len(q) THEN batchSize ELSE Len(q)
  <2>1. \A i \in 1 .. (IF batchSize <= Len(q) THEN batchSize ELSE Len(q)) : q[i] \in Event
    BY TelemetryAssumption, LenProperties, ElementOfSeq
  <2> QED BY <2>1, SubSeqProperties, TelemetryAssumption, LenProperties DEF BatchOf
<1>3. Len(BatchOf(q)) \in Nat /\ Len(RestOf(q)) \in Nat /\ Len(q) \in Nat
  BY <1>1, LenProperties
<1> QED BY <1>1, <1>2, <1>3, TelemetryAssumption

\* When Close returns without an error the worker is gone and at most what a full
\* queue holds above one batch is left, however many flushes ran at the same time.
THEOREM TailBounded == Spec => []CloseLeavesTail
<1> USE TelemetryAssumption
<1>1. Init => TailInv
  BY DEF Init, TailInv, CloseLeavesTail, Caller
<1>2. TypeOK /\ TypeOK' /\ TailInv /\ [Next]_vars => TailInv'
  <2> SUFFICES ASSUME TypeOK, TypeOK', TailInv, [Next]_vars PROVE TailInv'
    OBVIOUS
  <2>a. /\ Worker \in Caller /\ Closer \in Caller /\ Flusher \subseteq Caller
        /\ Worker # Closer /\ Closer \notin Flusher /\ Worker \notin Flusher
    BY DEF Caller
  <2>b. Len(queue) \in Nat /\ Len(queue') \in Nat
    BY DEF TypeOK
  <2>1. ASSUME NEW s \in Sender, Send(s) \/ Overflow(s) \/ SignalSend(s) PROVE TailInv'
    <3>1. pc' = pc /\ closed' = closed /\ closeErr' = closeErr
      BY <2>1 DEF Send, Overflow, SignalSend
    <3>2. Len(queue') <= Len(queue) \/ pc[Closer] = "idle"
      <4>1. CASE Send(s)
        BY <4>1 DEF Send, Accepts, TailInv
      <4>2. CASE Overflow(s) \/ SignalSend(s)
        BY <2>b, <4>2 DEF Overflow, SignalSend
      <4> QED BY <2>1, <4>1, <4>2
    <3> QED BY <3>1, <3>2, TailStutters
  <2>2. ASSUME NEW c \in Caller, Flush(c), c # Closer PROVE TailInv'
    <3>1. /\ pc[c] \in {"lock", "post", "signal"} /\ closed' = closed /\ closeErr' = closeErr
          /\ \A d \in Caller : d # c => pc'[d] = pc[d]
      BY <2>2 DEF Flush, FlushNothing, TakeBatch, PostSucceeds, PostFails, SignalFlush, TypeOK
    <3>2. Len(queue') <= Len(queue)
      <4>1. CASE TakeBatch(c)
        BY <4>1, RestHasRoom DEF TakeBatch, TypeOK
      <4>2. CASE ~TakeBatch(c)
        BY <2>2, <2>b, <4>2 DEF Flush, FlushNothing, PostSucceeds, PostFails, SignalFlush
      <4> QED BY <4>1, <4>2
    <3>3. pc[Worker] = "gone" => pc'[Worker] = "gone"
      BY <2>a, <3>1
    <3>4. pc'[Closer] = pc[Closer]
      BY <2>2, <2>a, <3>1
    <3> QED BY <3>1, <3>2, <3>3, <3>4, TailStutters
  <2>3. CASE FlushNothing(Closer)
    <3>1. /\ pc'[Closer] = "gone" /\ pc'[Worker] = pc[Worker] /\ pc[Worker] = "gone"
          /\ closed' /\ queue' = <<>>
      BY <2>3, <2>a DEF FlushNothing, After, TailInv, TypeOK
    <3>2. Len(queue') <= maxQueue - batchSize
      BY <3>1, EmptySeq
    <3> QED BY <3>1, <3>2 DEF TailInv, CloseLeavesTail
  <2>4. CASE TakeBatch(Closer)
    <3>1. /\ pc'[Closer] = "post" /\ pc'[Worker] = pc[Worker] /\ pc[Worker] = "gone"
          /\ closed' /\ queue' = RestOf(queue)
      BY <2>4, <2>a DEF TakeBatch, TailInv, TypeOK
    <3>2. Len(queue') <= maxQueue - batchSize
      BY <3>1, RestHasRoom DEF TypeOK
    <3> QED BY <3>1, <3>2 DEF TailInv, CloseLeavesTail
  <2>5. CASE PostSucceeds(Closer) \/ PostFails(Closer)
    <3>1. pc[Closer] = "post" /\ closed /\ closed' = closed /\ queue' = queue
      BY <2>5 DEF PostSucceeds, PostFails, TailInv
    <3>2. pc' = [pc EXCEPT ![Closer] = After(Closer)] /\ After(Closer) = "gone"
      BY <2>5, <2>a, <3>1 DEF PostSucceeds, PostFails, Reflush, After
    <3>3. pc'[Closer] = "gone" /\ pc'[Worker] = pc[Worker]
      BY <2>a, <3>2 DEF TypeOK
    <3> QED BY <3>1, <3>3 DEF TailInv, CloseLeavesTail
  <2>6. ASSUME NEW c \in Flusher, CallFlush(c) PROVE TailInv'
    <3>1. pc'[Closer] = pc[Closer] /\ pc'[Worker] = pc[Worker]
      BY <2>6, <2>a DEF CallFlush, TypeOK
    <3> QED BY <2>6, <2>b, <3>1, TailStutters DEF CallFlush
  <2>7. CASE WorkerTicks \/ WorkerWakes \/ WorkerExits
    <3>1. pc'[Closer] = pc[Closer] /\ pc[Worker] = "select"
      BY <2>7, <2>a DEF WorkerTicks, WorkerWakes, WorkerExits, TypeOK
    <3> QED BY <2>7, <2>b, <3>1, TailStutters DEF WorkerTicks, WorkerWakes, WorkerExits
  <2>8. CASE CloseBegins
    BY <2>8, <2>a DEF CloseBegins, TailInv, CloseLeavesTail, TypeOK
  <2>9. CASE CloseSignals \/ UNCHANGED vars
    BY <2>9, <2>b, TailStutters DEF CloseSignals, vars
  <2>10. CASE CloseJoins
    <3>1. pc'[Closer] = "lock" /\ pc'[Worker] = "gone" /\ closed'
      BY <2>10, <2>a DEF CloseJoins, TailInv, TypeOK
    <3> QED BY <3>1 DEF TailInv, CloseLeavesTail
  <2>11. CASE CloseTimesOut
    <3>1. pc'[Closer] = "gone" /\ closeErr' /\ closed'
      BY <2>11, <2>a DEF CloseTimesOut, TailInv, TypeOK
    <3> QED BY <3>1 DEF TailInv, CloseLeavesTail
  <2>12. ASSUME NEW c \in Caller, Flush(c) PROVE TailInv'
    <3>1. ~SignalFlush(Closer)
      BY DEF SignalFlush, TailInv
    <3> QED BY <2>2, <2>3, <2>4, <2>5, <2>12, <3>1 DEF Flush
  <2> QED BY <2>1, <2>6, <2>7, <2>8, <2>9, <2>10, <2>11, <2>12 DEF Next
<1>3. TailInv => CloseLeavesTail
  BY DEF TailInv
<1> QED BY <1>1, <1>2, <1>3, TypeCorrect, PTL DEF Spec

-----------------------------------------------------------------------------
(* The overload sampler. *)

\* A weighted mean is no more than what neither of the two exceeds.
LEMMA EmaBetween ==
    ASSUME O!Options, NEW p \in Nat, NEW m \in Nat, NEW most \in Nat
    PROVE  /\ O!emaStep(p, m) \in Nat
           /\ p <= most /\ m <= most => O!emaStep(p, m) <= most
<1> DEFINE u == AlphaDen - AlphaNum
           v == AlphaNum
           x == u * p
           y == v * m
           q == (x + y) \div AlphaDen
<1>1. u \in Nat /\ v \in Nat /\ AlphaDen \in Nat \ {0} /\ u + v = AlphaDen
  BY DEF O!Options
<1>2. O!emaStep(p, m) = q
  BY DEF O!emaStep
<1> HIDE DEF u, v
<1>3. x \in Nat /\ y \in Nat /\ u * most \in Nat /\ v * most \in Nat
  BY <1>1
<1>4. \A a, b, c \in Nat : b <= c => a * b <= a * c
  OBVIOUS
<1>5. p <= most /\ m <= most => x <= u * most /\ y <= v * most
  BY <1>1, <1>4
<1>6. u * most + v * most = AlphaDen * most
  BY <1>1
<1> HIDE DEF x, y
<1>7. \A a \in Nat, b \in Nat \ {0} : a \div b \in Int /\ (a \div b) * b <= a /\ a < (a \div b) * b + b
  OBVIOUS
<1>8. q \in Int /\ q * AlphaDen <= x + y /\ x + y < q * AlphaDen + AlphaDen
  BY <1>1, <1>3, <1>7
<1> HIDE DEF q
<1>9. \A a \in Int, b \in Nat \ {0} : a <= -1 => a * b + b <= 0
  OBVIOUS
<1>10. q \in Nat
  <2>1. ~(q <= -1)
    BY <1>1, <1>3, <1>8, <1>9
  <2> QED BY <1>8, <2>1
<1>11. \A a, b \in Nat, c \in Nat \ {0} : b + 1 <= a => c * b + c <= a * c
  OBVIOUS
<1>12. ASSUME p <= most, m <= most PROVE q <= most
  <2> DEFINE z == AlphaDen * most
             w == q * AlphaDen
  <2>1. x + y <= z /\ z \in Nat
    BY <1>1, <1>3, <1>5, <1>6, <1>12
  <2>2. most + 1 <= q => z + AlphaDen <= w
    BY <1>1, <1>10, <1>11
  <2>3. w <= x + y /\ x + y < w + AlphaDen /\ w \in Nat
    BY <1>1, <1>8, <1>10
  <2> HIDE DEF z, w
  <2>4. ~(most + 1 <= q)
    BY <1>1, <1>3, <2>1, <2>2, <2>3
  <2> QED BY <1>10, <2>4
<1> QED BY <1>2, <1>10, <1>12

\* The inductive invariant: until a sample has measured more than the limit the
\* smoothed lag is within it, and no stamp lies in the future.
SamplerInv ==
    /\ O!TypeOK /\ O!ShedForCause
    /\ tick # None => tick <= age
    /\ ~lagged => smoothed <= MaxLag

LEMMA SamplerStarts == O!Init => SamplerInv
<1> SUFFICES ASSUME O!Init PROVE SamplerInv
  OBVIOUS
<1>1. -SampleInterval \in Int /\ MaxLag \in Nat /\ MaxStall \in Nat
  BY SamplerOptions DEF O!Options
<1>2. late \in Int /\ 0 \in 0 .. MaxStall /\ 0 <= MaxLag
  BY <1>1 DEF O!Init
<1>3. /\ age = 0 /\ tick = None /\ waited = 0 /\ smoothed = 0 /\ shut = FALSE /\ stopped = FALSE
      /\ answer = "none" /\ loaded = TRUE /\ lagged = FALSE /\ streak = 0
  BY DEF O!Init
<1>4. waited \in 0 .. MaxStall /\ streak \in 0 .. 2 /\ age \in Nat /\ smoothed \in Nat /\ smoothed <= MaxLag
  BY <1>1, <1>2, <1>3
<1>5. O!TypeOK
  BY <1>2, <1>3, <1>4 DEF O!TypeOK
<1>6. O!ShedForCause /\ ~(tick # None)
  BY <1>3 DEF O!ShedForCause
<1> QED BY <1>4, <1>5, <1>6 DEF SamplerInv

LEMMA SampleKeeps == ASSUME SamplerInv, O!sample PROVE SamplerInv'
<1> DEFINE measured == O!Measured(tick)
<1> USE SamplerOptions
<1>1. tick \in Int /\ tick <= age /\ age \in Nat /\ smoothed \in Nat /\ lagged \in BOOLEAN
  BY DEF SamplerInv, O!TypeOK, O!sample
<1>2. measured \in Nat
  <2> DEFINE over == O!Larger(tick - SampleInterval, 0)
  <2>1. over \in Nat /\ Parts \in Nat
    BY <1>1 DEF O!Larger, O!Options
  <2>2. measured = over * Parts
    BY DEF O!Measured
  <2> HIDE DEF over, measured
  <2> QED BY <2>1, <2>2
<1>3. /\ smoothed' = O!emaStep(smoothed, measured)
      /\ lagged' = (lagged \/ measured > MaxLag)
  BY DEF O!sample
<1> HIDE DEF measured
<1>4. MaxLag \in Nat
  BY DEF O!Options
<1>5. smoothed' \in Nat /\ (smoothed <= MaxLag /\ measured <= MaxLag => smoothed' <= MaxLag)
  BY <1>1, <1>2, <1>3, <1>4, EmaBetween
<1>6. lagged' \in BOOLEAN /\ (lagged => lagged') /\ (~lagged' => smoothed' <= MaxLag)
  <2>1. lagged' \in BOOLEAN /\ (lagged => lagged')
    BY <1>1, <1>3, Zenon
  <2>2. ASSUME ~lagged' PROVE smoothed' <= MaxLag
    <3>1. ~lagged /\ ~(measured > MaxLag)
      BY <1>3, <2>2, Zenon
    <3>2. measured <= MaxLag
      BY <1>2, <1>4, <3>1
    <3>3. smoothed <= MaxLag
      BY <3>1 DEF SamplerInv
    <3> QED BY <1>5, <3>2, <3>3
  <2> QED BY <2>1, <2>2
<1>7. /\ age' \in Nat /\ late' = late /\ tick' = None /\ waited' = 0 /\ answer' = answer
      /\ shut' = shut /\ stopped' \in BOOLEAN /\ streak' \in 0 .. 2 /\ loaded' = loaded
  BY <1>1 DEF O!sample
<1> QED BY <1>5, <1>6, <1>7 DEF SamplerInv, O!TypeOK, O!ShedForCause, O!Options

LEMMA SamplerStep == SamplerInv /\ [O!Next]_(O!vars) => SamplerInv'
<1> SUFFICES ASSUME SamplerInv, [O!Next]_(O!vars) PROVE SamplerInv'
  OBVIOUS
<1> USE SamplerOptions
<1>1. CASE O!Tick
  BY <1>1 DEF SamplerInv, O!TypeOK, O!ShedForCause, O!Tick, O!Due, O!Options
<1>2. CASE O!Fire
  <2>1. late % SampleInterval \in Int
    BY <1>2 DEF SamplerInv, O!TypeOK, O!Options
  <2>2. /\ late \in Nat /\ age \in Nat /\ tick' \in {age - late, age} /\ age' = age
        /\ late' = (late % SampleInterval) - SampleInterval
        /\ UNCHANGED <<waited, smoothed, shut, stopped, answer, loaded, lagged, streak>>
    BY <1>2 DEF SamplerInv, O!TypeOK, O!Fire
  <2>3. late' \in Int /\ tick' \in Int /\ tick' <= age'
    BY <2>1, <2>2 DEF O!Options
  <2> QED BY <2>2, <2>3 DEF SamplerInv, O!TypeOK, O!ShedForCause
<1>3. CASE O!sample
  BY <1>3, SampleKeeps
<1>4. CASE O!Close
  BY <1>4 DEF SamplerInv, O!TypeOK, O!ShedForCause, O!Close
<1>5. CASE O!Handler
  <2>1. /\ answer' = IF smoothed > MaxLag THEN "503" ELSE "next"
        /\ UNCHANGED <<age, late, tick, waited, smoothed, shut, stopped, loaded, lagged, streak>>
    BY <1>5 DEF O!Handler, O!Overloaded
  <2>2. answer' \in {"next", "503"} /\ (answer' = "503" => smoothed > MaxLag)
    BY <2>1
  <2>3. smoothed > MaxLag => lagged
    <3>1. smoothed \in Nat /\ MaxLag \in Nat /\ (~lagged => smoothed <= MaxLag)
      BY DEF SamplerInv, O!TypeOK, O!Options
    <3> QED BY <3>1
  <2> QED BY <2>1, <2>2, <2>3 DEF SamplerInv, O!TypeOK, O!ShedForCause
<1>6. CASE O!Load
  BY <1>6 DEF SamplerInv, O!TypeOK, O!ShedForCause, O!Load
<1>7. CASE UNCHANGED O!vars
  BY <1>7 DEF SamplerInv, O!TypeOK, O!ShedForCause, O!vars
<1> QED BY <1>1, <1>2, <1>3, <1>4, <1>5, <1>6, <1>7 DEF O!Next

\* Requests are shed only after a sample has measured more lag than the limit,
\* whatever pattern of stalls, late ticks and skipped ones there was, and every
\* state of the sampler is well formed (sample, emaStep, Overloaded, Handler).
THEOREM ShedsForCause == O!Spec => []O!TypeOK /\ []O!ShedForCause
<1>1. SamplerInv => O!TypeOK /\ O!ShedForCause
  BY DEF SamplerInv
<1>2. O!Spec => O!Init /\ [][O!Next]_(O!vars)
  BY DEF O!Spec
<1> QED BY <1>1, <1>2, SamplerStarts, SamplerStep, PTL

-----------------------------------------------------------------------------
(* Both. *)

\* The goroutines behind the requests keep side by side what is proved of each:
\* events leave in order, no full batch sleeps, Close leaves a bounded tail, and
\* no request is shed without a cause.
THEOREM BackgroundKeepsAll ==
    BackgroundSpec => [](FreshestInOrder /\ FullBatchAwake /\ CloseLeavesTail /\ O!ShedForCause)
<1>1. BackgroundInit => Init /\ O!Init
  BY DEF BackgroundInit
<1>2. [BackgroundNext]_allVars => [Next]_vars /\ [O!Next]_(O!vars)
  BY DEF BackgroundNext, InTelemetry, InOverload, allVars, vars, overloadVars, O!vars
<1>3. BackgroundSpec => BackgroundInit /\ [][BackgroundNext]_allVars
  BY DEF BackgroundSpec
<1>4. BackgroundSpec => Spec
  BY <1>1, <1>2, <1>3, PTL DEF Spec
<1>5. SamplerInv => O!ShedForCause
  BY DEF SamplerInv
<1>6. BackgroundSpec => []O!ShedForCause
  BY <1>1, <1>2, <1>3, <1>5, SamplerStarts, SamplerStep, PTL
<1> QED BY <1>4, <1>6, DeliveredInOrder, NoLostWakeup, TailBounded, PTL
=============================================================================
