------------------------- MODULE TokenBudgetProofs -------------------------
(***************************************************************************)
(* Theorems about what the requests of a process share: TokenBudget, for   *)
(* any number of concurrent requests, Correlation (C), for every size of   *)
(* its window, every event and every order of the calls, and BotCorpus     *)
(* (B), for any feeds and any number of goroutines.                        *)
(***************************************************************************)
EXTENDS MCShared, FiniteSetTheorems, SequenceTheorems, WellFoundedInduction, TLAPS

\* What is in the heap after a collection was there before it, or is blank.
LEMMA CollectedEntry ==
    ASSUME NEW h, NEW st, NEW rq, NEW e \in EntryId
    PROVE  Collected(h, st, rq)[e] = h[e] \/ Collected(h, st, rq)[e] = Blank
BY DEF Collected

\* What a running request points to survives a collection.
LEMMA HeldSurvives ==
    ASSUME NEW h, NEW st, NEW rq, NEW p \in Proc, rq[p] # Nil, rq[p].entry \in EntryId
    PROVE  Collected(h, st, rq)[rq[p].entry] = h[rq[p].entry]
BY DEF Collected, Reachable

HeapType == [used : Nat, resetTime : Nat, spent : Nat]

\* A collection keeps the heap well formed.
LEMMA CollectedType ==
    ASSUME NEW h, NEW st, NEW rq, h \in [EntryId -> HeapType]
    PROVE  Collected(h, st, rq) \in [EntryId -> HeapType]
<1>1. Blank \in HeapType
  BY DEF Blank, HeapType
<1> QED BY <1>1 DEF Collected

\* Every state of the budget is well formed (Middleware, sweep, Reset, Close).
THEOREM TypeCorrect == Spec => []TypeOK
<1> USE BudgetAssumption DEF HeapType
<1>1. Init => TypeOK
  <2> SUFFICES ASSUME Init PROVE TypeOK
    OBVIOUS
  <2>1. Blank \in HeapType
    BY DEF Blank
  <2> QED BY <2>1 DEF Init, TypeOK, Holds
<1>2. TypeOK /\ [Next]_vars => TypeOK'
  <2> SUFFICES ASSUME TypeOK, [Next]_vars PROVE TypeOK'
    OBVIOUS
  <2>1. ASSUME NEW p \in Proc, NEW k \in Key, NEW c \in Cost, Arrive(p, k, c) PROVE TypeOK'
    <3>1. [key |-> k, at |-> now, cost |-> c, entry |-> Nil, projected |-> 0] \in Request
      BY DEF TypeOK, Request
    <3> QED BY <2>1, <3>1 DEF Arrive, TypeOK, Holds
  <2>2. ASSUME NEW p \in Proc, LookupCurrent(p) PROVE TypeOK'
    <3> DEFINE e == store[req[p].key]
    <3>1. req[p] \in Request /\ e \in EntryId
      BY <2>2 DEF LookupCurrent, TypeOK, Request
    <3>2. Projection(e, req[p].cost) \in Nat
      BY <3>1 DEF Projection, TypeOK, Request
    <3>3. [req[p] EXCEPT !.entry = e, !.projected = Projection(e, req[p].cost)] \in Request
      BY <3>1, <3>2 DEF Request
    <3> QED BY <2>2, <3>1, <3>3 DEF LookupCurrent, TypeOK, Holds, Request
  <2>3. ASSUME NEW p \in Proc, NEW e \in EntryId, LookupFresh(p, e) PROVE TypeOK'
    <3>1. req[p] \in Request /\ EndOf(req[p].at) \in Nat /\ req[p].cost \in Nat
      BY <2>3 DEF LookupFresh, TypeOK, Request, EndOf
    <3>2. [req[p] EXCEPT !.entry = e, !.projected = req[p].cost] \in Request
      BY <3>1 DEF Request
    <3>3. [heap EXCEPT ![e] = [used |-> 0, spent |-> 0, resetTime |-> EndOf(req[p].at)]]
             \in [EntryId -> HeapType]
      BY <3>1 DEF TypeOK
    <3>4. heap' \in [EntryId -> HeapType]
      BY <2>3, <3>3, CollectedType DEF LookupFresh
    <3> QED BY <2>3, <3>1, <3>2, <3>4, ZenonT(60) DEF LookupFresh, TypeOK, Holds, Request
  <2>4. ASSUME NEW p \in Proc, Refuse(p) PROVE TypeOK'
    <3>1. heap' \in [EntryId -> HeapType]
      BY <2>4, CollectedType DEF Refuse, TypeOK
    <3> QED BY <2>4, <3>1 DEF Refuse, Done, TypeOK, Holds
  <2>5. ASSUME NEW p \in Proc, LetThrough(p) PROVE TypeOK'
    BY <2>5 DEF LetThrough, TypeOK, Holds
  <2>6. ASSUME NEW p \in Proc, Charge(p) PROVE TypeOK'
    <3> DEFINE e == req[p].entry
    <3>1. req[p] \in Request /\ e \in EntryId
      BY <2>6 DEF Charge, TypeOK, Holds
    <3>2. req[p].projected \in Nat /\ Saturated(heap[e].spent + req[p].cost) \in Nat
      BY <3>1 DEF TypeOK, Request, Saturated
    <3>3. [heap EXCEPT ![e].used = req[p].projected,
                       ![e].spent = Saturated(@ + req[p].cost)] \in [EntryId -> HeapType]
      BY <3>1, <3>2, ZenonT(60) DEF TypeOK
    <3>4. heap' \in [EntryId -> HeapType]
      BY <2>6, <3>3, CollectedType DEF Charge
    <3> QED BY <2>6, <3>4 DEF Charge, Done, TypeOK, Holds
  <2>7. ASSUME NEW p \in Closer, CloseTest(p) \/ CloseStop(p) PROVE TypeOK'
    BY <2>7 DEF CloseTest, CloseStop, TypeOK, Holds
  <2>8. ASSUME NEW S, Reset(S) PROVE TypeOK'
    <3>1. heap' \in [EntryId -> HeapType]
      BY <2>8, CollectedType DEF Reset, TypeOK
    <3> QED BY <2>8, <3>1 DEF Reset, TypeOK, Holds
  <2>9. CASE sweep
    <3>1. heap' \in [EntryId -> HeapType]
      BY <2>9, CollectedType DEF sweep, TypeOK
    <3> QED BY <2>9, <3>1 DEF sweep, TypeOK, Holds
  <2>10. CASE Tick
    BY <2>10 DEF Tick, TypeOK, Holds
  <2>11. CASE UNCHANGED vars
    BY <2>11 DEF vars, TypeOK, Holds
  <2> QED BY <2>1, <2>2, <2>3, <2>4, <2>5, <2>6, <2>7, <2>8, <2>9, <2>10, <2>11
             DEF Next, Step
<1> QED BY <1>1, <1>2, PTL DEF Spec

-----------------------------------------------------------------------------
\* A request about to charge carries a projection that passed the test.
ChargesWithinMax == \A p \in Proc : pc[p] = "charge" => req[p].projected <= MaxTokens

\* RecordedWithinMax is inductive together with it: a Charge stores what the
\* request projected, however old that projection is.
MaxInv == RecordedWithinMax /\ ChargesWithinMax

\* No window of a key ever records more than MaxTokens, for any number of
\* concurrent requests: Middleware's test before its second critical section.
THEOREM RecordStaysWithinMax == Spec => []RecordedWithinMax
<1> USE BudgetAssumption
<1>1. Init => MaxInv
  BY DEF Init, MaxInv, RecordedWithinMax, ChargesWithinMax, Blank
<1>2. TypeOK /\ MaxInv /\ [Next]_vars => MaxInv'
  <2> SUFFICES ASSUME TypeOK, MaxInv, [Next]_vars PROVE MaxInv'
    OBVIOUS
  <2> USE DEF MaxInv, RecordedWithinMax, ChargesWithinMax
  <2>0. ASSUME NEW h, NEW st, NEW rq,
               \A e \in EntryId : h[e].used <= MaxTokens,
               heap' = Collected(h, st, rq)
        PROVE  \A e \in EntryId : heap'[e].used <= MaxTokens
    BY <2>0, CollectedEntry DEF Blank
  <2>1. ASSUME NEW p \in Proc, NEW k \in Key, NEW c \in Cost, Arrive(p, k, c) PROVE MaxInv'
    BY <2>1 DEF Arrive, TypeOK
  <2>2. ASSUME NEW p \in Proc, LookupCurrent(p) PROVE MaxInv'
    BY <2>2 DEF LookupCurrent, TypeOK
  <2>3. ASSUME NEW p \in Proc, NEW e \in EntryId, LookupFresh(p, e) PROVE MaxInv'
    <3> DEFINE h == [heap EXCEPT ![e] = [used |-> 0, spent |-> 0,
                                         resetTime |-> EndOf(req[p].at)]]
    <3>1. \A d \in EntryId : h[d].used <= MaxTokens
      BY DEF TypeOK
    <3>2. heap' = Collected(h, store', req')
      BY <2>3 DEF LookupFresh
    <3> HIDE DEF h
    <3>3. RecordedWithinMax'
      BY <2>0, <3>1, <3>2
    <3>4. ChargesWithinMax'
      BY <2>3 DEF LookupFresh, TypeOK
    <3> QED BY <3>3, <3>4
  <2>4. ASSUME NEW p \in Proc, Refuse(p) PROVE MaxInv'
    <3>1. RecordedWithinMax'
      BY <2>0, <2>4 DEF Refuse
    <3>2. ChargesWithinMax'
      BY <2>4 DEF Refuse, Done, TypeOK
    <3> QED BY <3>1, <3>2
  <2>5. ASSUME NEW p \in Proc, LetThrough(p) PROVE MaxInv'
    <3>1. req[p].projected <= MaxTokens
      BY <2>5 DEF LetThrough, Exceeds, TypeOK, Request, Holds
    <3> QED BY <2>5, <3>1 DEF LetThrough, TypeOK
  <2>6. ASSUME NEW p \in Proc, Charge(p) PROVE MaxInv'
    <3> DEFINE h == [heap EXCEPT ![req[p].entry].used = req[p].projected,
                                 ![req[p].entry].spent = Saturated(@ + req[p].cost)]
    <3>1. req[p].projected <= MaxTokens
      BY <2>6 DEF Charge
    <3>2. \A d \in EntryId : h[d].used <= MaxTokens
      BY <3>1 DEF TypeOK
    <3>3. heap' = Collected(h, store, req')
      BY <2>6 DEF Charge
    <3> HIDE DEF h
    <3>4. RecordedWithinMax'
      BY <2>0, <3>2, <3>3
    <3>5. ChargesWithinMax'
      BY <2>6 DEF Charge, Done, TypeOK
    <3> QED BY <3>4, <3>5
  <2>7. ASSUME NEW p \in Closer, CloseTest(p) \/ CloseStop(p) PROVE MaxInv'
    BY <2>7 DEF CloseTest, CloseStop, TypeOK
  <2>8. ASSUME NEW S, Reset(S) PROVE MaxInv'
    <3>1. RecordedWithinMax'
      BY <2>0, <2>8 DEF Reset
    <3> QED BY <2>8, <3>1 DEF Reset
  <2>9. CASE sweep
    <3>1. RecordedWithinMax'
      BY <2>0, <2>9 DEF sweep
    <3> QED BY <2>9, <3>1 DEF sweep
  <2>10. CASE Tick
    BY <2>10 DEF Tick
  <2>11. CASE UNCHANGED vars
    BY <2>11 DEF vars
  <2> QED BY <2>1, <2>2, <2>3, <2>4, <2>5, <2>6, <2>7, <2>8, <2>9, <2>10, <2>11
             DEF Next, Step
<1>3. MaxInv => RecordedWithinMax
  BY DEF MaxInv
<1> QED BY <1>1, <1>2, <1>3, TypeCorrect, PTL DEF Spec

-----------------------------------------------------------------------------
\* NeverOvercharged is inductive together with PendingCovered.
CoverInv == NeverOvercharged /\ PendingCovered

\* Interleaved charges lose tokens but never invent any: a window records at
\* most what its requests were let through for (Middleware, sweep, Reset).
THEOREM NeverOverchargesAny == Spec => [](NeverOvercharged /\ PendingCovered)
<1> USE BudgetAssumption
<1>1. Init => CoverInv
  BY DEF Init, CoverInv, NeverOvercharged, PendingCovered, Holds, Blank
<1>2. TypeOK /\ TypeOK' /\ CoverInv /\ [Next]_vars => CoverInv'
  <2> SUFFICES ASSUME TypeOK, TypeOK', CoverInv, [Next]_vars PROVE CoverInv'
    OBVIOUS
  <2> DEFINE Cover(h) == \A e \in EntryId : h[e].spent < MaxSpent => h[e].used <= h[e].spent
             Pending(h, q) == q.projected <= h[q.entry].spent + q.cost
                              \/ ~(h[q.entry].spent < MaxSpent)
  <2>0. ASSUME NEW h, NEW st, NEW rq, Cover(h), heap' = Collected(h, st, rq)
        PROVE  NeverOvercharged'
    BY <2>0, CollectedEntry DEF Blank, NeverOvercharged
  \* Collection keeps what a request that holds its entry needs.
  <2>a. ASSUME NEW h, NEW st, heap' = Collected(h, st, req'), NEW q \in Proc, Holds(q)',
               Pending(h, req'[q])
        PROVE  heap'[req'[q].entry].spent < MaxSpent
                  => req'[q].projected <= heap'[req'[q].entry].spent + req'[q].cost
    <3>1. req'[q] # Nil /\ req'[q].entry \in EntryId
      BY <2>a DEF TypeOK, Holds
    <3>2. heap'[req'[q].entry] = h[req'[q].entry]
      BY <2>a, <3>1, HeldSurvives
    <3> QED BY <2>a, <3>2
  <2>1. ASSUME NEW p \in Proc, NEW k \in Key, NEW c \in Cost, Arrive(p, k, c) PROVE CoverInv'
    BY <2>1 DEF Arrive, TypeOK, CoverInv, NeverOvercharged, PendingCovered, Holds
  <2>2. ASSUME NEW p \in Proc, LookupCurrent(p) PROVE CoverInv'
    <3> DEFINE e == store[req[p].key]
    <3>1. req[p] \in Request /\ e \in EntryId
      BY <2>2 DEF LookupCurrent, TypeOK, Request
    <3>2. NeverOvercharged'
      BY <2>2 DEF LookupCurrent, CoverInv, NeverOvercharged
    <3>3. ASSUME NEW q \in Proc, Holds(q)', q # p
          PROVE  heap'[req'[q].entry].spent < MaxSpent
                  => req'[q].projected <= heap'[req'[q].entry].spent + req'[q].cost
      BY <2>2, <3>3 DEF LookupCurrent, TypeOK, CoverInv, PendingCovered, Holds
    <3>4. heap'[e].spent < MaxSpent => req'[p].projected <= heap'[e].spent + req'[p].cost
      <4>1. req'[p].projected = heap[e].used + req[p].cost /\ req'[p].cost = req[p].cost
        BY <2>2, <3>1 DEF LookupCurrent, TypeOK, Projection, Request
      <4>2. heap' = heap
        BY <2>2 DEF LookupCurrent
      <4> QED BY <3>1, <4>1, <4>2 DEF CoverInv, NeverOvercharged, TypeOK, Request
    <3>5. req'[p].entry = e
      BY <2>2, <3>1 DEF LookupCurrent, TypeOK, Request
    <3> QED BY <3>2, <3>3, <3>4, <3>5 DEF CoverInv, PendingCovered
  <2>3. ASSUME NEW p \in Proc, NEW e \in EntryId, LookupFresh(p, e) PROVE CoverInv'
    <3> DEFINE h == [heap EXCEPT ![e] = [used |-> 0, spent |-> 0,
                                         resetTime |-> EndOf(req[p].at)]]
    <3>1. req[p] \in Request /\ EndOf(req[p].at) \in Nat
      BY <2>3 DEF LookupFresh, TypeOK, Request, EndOf
    <3>2. heap' = Collected(h, store', req')
      BY <2>3 DEF LookupFresh
    <3>3. Cover(h)
      BY DEF CoverInv, NeverOvercharged, TypeOK
    <3>4. h \in [EntryId -> HeapType] /\ h[e].spent = 0
      BY <3>1 DEF TypeOK, HeapType
    <3>5. ASSUME NEW q \in Proc, Holds(q)' PROVE Pending(h, req'[q])
      <4>1. CASE q = p
        <5>1. req'[p].entry = e /\ req'[p].projected = req[p].cost /\ req'[p].cost = req[p].cost
          BY <2>3, <3>1 DEF LookupFresh, TypeOK, Request
        <5> QED BY <3>1, <3>4, <4>1, <5>1 DEF Request, TypeOK
      <4>2. CASE q # p
        <5>1. Holds(q) /\ req'[q] = req[q] /\ req[q] # Nil /\ req[q] \in Request
                 /\ req[q].entry \in EntryId
          BY <2>3, <3>5, <4>2 DEF LookupFresh, TypeOK, Holds
        <5>2. req[q].entry # e
          BY <2>3, <5>1 DEF LookupFresh, Reachable
        <5>3. h[req[q].entry] = heap[req[q].entry]
          BY <5>1, <5>2 DEF TypeOK
        <5> QED BY <5>1, <5>3 DEF CoverInv, PendingCovered
      <4> QED BY <4>1, <4>2
    <3> HIDE DEF h
    <3>6. NeverOvercharged'
      BY <2>0, <3>2, <3>3
    <3> QED BY <2>a, <3>2, <3>5, <3>6 DEF CoverInv, PendingCovered
  <2>4. ASSUME NEW p \in Proc, Refuse(p) PROVE CoverInv'
    <3>1. heap' = Collected(heap, store, req') /\ Cover(heap)
      BY <2>4 DEF Refuse, CoverInv, NeverOvercharged
    <3>2. ASSUME NEW q \in Proc, Holds(q)' PROVE Pending(heap, req'[q])
      BY <2>4, <3>2 DEF Refuse, Done, TypeOK, Holds, CoverInv, PendingCovered
    <3> QED BY <2>0, <2>a, <3>1, <3>2 DEF CoverInv, PendingCovered
  <2>5. ASSUME NEW p \in Proc, LetThrough(p) PROVE CoverInv'
    BY <2>5 DEF LetThrough, TypeOK, CoverInv, NeverOvercharged, PendingCovered, Holds
  <2>6. ASSUME NEW p \in Proc, Charge(p) PROVE CoverInv'
    <3> DEFINE e == req[p].entry
               h == [heap EXCEPT ![e].used = req[p].projected,
                                 ![e].spent = Saturated(@ + req[p].cost)]
    <3>1. req[p] \in Request /\ e \in EntryId /\ Holds(p)
      BY <2>6 DEF Charge, TypeOK, Holds
    <3>2. heap' = Collected(h, store, req')
      BY <2>6 DEF Charge
    <3>3. /\ heap[e] \in HeapType
          /\ h[e].used = req[p].projected
          /\ h[e].spent = Saturated(heap[e].spent + req[p].cost)
          /\ \A d \in EntryId : d # e => h[d] = heap[d]
      BY <3>1 DEF TypeOK, HeapType
    <3>4. Saturated(heap[e].spent + req[p].cost) < MaxSpent
             => Saturated(heap[e].spent + req[p].cost) = heap[e].spent + req[p].cost
                /\ heap[e].spent < MaxSpent
      BY <3>1, <3>3 DEF Saturated, HeapType, Request
    <3>5. Cover(h)
      <4>1. heap[e].spent < MaxSpent => req[p].projected <= heap[e].spent + req[p].cost
        BY <3>1 DEF CoverInv, PendingCovered
      <4>2. h[e].spent < MaxSpent => h[e].used <= h[e].spent
        BY <3>1, <3>3, <3>4, <4>1
      <4>3. ASSUME NEW d \in EntryId, d # e, h[d].spent < MaxSpent
            PROVE  h[d].used <= h[d].spent
        BY <3>3, <4>3 DEF CoverInv, NeverOvercharged
      <4> HIDE DEF h
      <4> QED BY <4>2, <4>3
    <3>6. h \in [EntryId -> HeapType]
      <4>1. req[p].projected \in Nat /\ Saturated(heap[e].spent + req[p].cost) \in Nat
        BY <3>1, <3>3 DEF HeapType, Request, Saturated
      <4> QED BY <3>1, <4>1 DEF TypeOK, HeapType
    <3>7. \A d \in EntryId : ~(h[d].spent < MaxSpent) \/ h[d].spent >= heap[d].spent
      BY <3>1, <3>3, <3>4 DEF HeapType, Request, TypeOK
    <3>8. ASSUME NEW q \in Proc, Holds(q)' PROVE Pending(h, req'[q])
      <4>1. Holds(q) /\ req'[q] = req[q] /\ req[q] \in Request /\ req[q].entry \in EntryId
        BY <2>6, <3>8 DEF Charge, Done, TypeOK, Holds
      <4>2. Pending(heap, req[q])
        BY <4>1 DEF CoverInv, PendingCovered
      <4>3. heap[req[q].entry] \in HeapType /\ h[req[q].entry] \in HeapType
        BY <3>6, <4>1 DEF TypeOK, HeapType
      <4>4. ~(h[req[q].entry].spent < MaxSpent) \/ h[req[q].entry].spent >= heap[req[q].entry].spent
        BY <3>7, <4>1
      <4> HIDE DEF h
      <4> QED BY <4>1, <4>2, <4>3, <4>4 DEF Request, HeapType
    <3> HIDE DEF h
    <3>9. NeverOvercharged'
      BY <2>0, <3>2, <3>5
    <3> QED BY <2>a, <3>2, <3>8, <3>9 DEF CoverInv, PendingCovered
  <2>7. ASSUME NEW p \in Closer, CloseTest(p) \/ CloseStop(p) PROVE CoverInv'
    BY <2>7 DEF CloseTest, CloseStop, TypeOK, CoverInv, NeverOvercharged, PendingCovered, Holds
  <2>8. ASSUME heap' = Collected(heap, store', req), req' = req, pc' = pc PROVE CoverInv'
    <3>1. Cover(heap)
      BY DEF CoverInv, NeverOvercharged
    <3>2. ASSUME NEW q \in Proc, Holds(q)' PROVE Pending(heap, req'[q])
      BY <2>8, <3>2 DEF Holds, CoverInv, PendingCovered
    <3> QED BY <2>0, <2>8, <2>a, <3>1, <3>2 DEF CoverInv, PendingCovered
  <2>9. ASSUME NEW S, Reset(S) PROVE CoverInv'
    BY <2>8, <2>9 DEF Reset
  <2>10. CASE sweep
    BY <2>8, <2>10 DEF sweep
  <2>11. CASE Tick
    BY <2>11 DEF Tick, CoverInv, NeverOvercharged, PendingCovered, Holds
  <2>12. CASE UNCHANGED vars
    BY <2>12 DEF vars, CoverInv, NeverOvercharged, PendingCovered, Holds
  <2> QED BY <2>1, <2>2, <2>3, <2>4, <2>5, <2>6, <2>7, <2>9, <2>10, <2>11, <2>12
             DEF Next, Step
<1> QED BY <1>1, <1>2, TypeCorrect, PTL DEF Spec, CoverInv

-----------------------------------------------------------------------------
(* Correlation: the list of IPs *)

\* The least element of a nonempty set of naturals, for the inductions below.
LEMMA Least ==
    ASSUME NEW S, S \subseteq Nat, S # {}
    PROVE  \E m \in S : \A n \in S : m <= n
<1> DEFINE R == OpToRel(<, Nat)
<1>1. IsWellFoundedOn(R, Nat)
  BY NatLessThanWellFounded
<1>2. \A x, y \in Nat : <<y, x>> \in R <=> y < x
  BY DEF OpToRel
<1> HIDE DEF R
<1>3. PICK m \in S : \A n \in S : ~(<<n, m>> \in R)
  BY <1>1, WFMin, Zenon
<1>4. \A n \in S : ~(n < m)
  BY <1>2, <1>3
<1> QED BY <1>3, <1>4

Unique(s) == \A i, j \in 1 .. Len(s) : s[i] = s[j] => i = j

\* What list.Remove leaves: n is where ip was, or behind the end.
CutAt(s, ip, n, w) ==
    /\ n \in 1 .. Len(s) + 1
    /\ IF n <= Len(s) THEN s[n] = ip ELSE \A i \in 1 .. Len(s) : s[i] # ip
    /\ Len(w) = IF n <= Len(s) THEN Len(s) - 1 ELSE Len(s)
    /\ \A i \in 1 .. Len(w) : w[i] = IF i < n THEN s[i] ELSE s[i + 1]

LEMMA Cut ==
    ASSUME NEW s \in Seq(IP), NEW ip
    PROVE  /\ C!Without(s, ip) \in Seq(IP)
           /\ \E n : CutAt(s, ip, n, C!Without(s, ip))
<1> DEFINE at == {i \in DOMAIN s : s[i] = ip}
           w == C!Without(s, ip)
<1>0. DOMAIN s = 1 .. Len(s) /\ Len(s) \in Nat /\ \A i \in 1 .. Len(s) : s[i] \in IP
  OBVIOUS
<1>1. CASE at = {}
  <2>1. w = s
    BY <1>1 DEF C!Without
  <2>2. \A i \in 1 .. Len(s) : s[i] # ip
    BY <1>0, <1>1
  <2> HIDE DEF w, at
  <2>3. CutAt(s, ip, Len(s) + 1, w)
    <3>1. Len(s) + 1 \in 1 .. Len(s) + 1 /\ ~(Len(s) + 1 <= Len(s))
      BY <1>0
    <3>2. \A i \in 1 .. Len(w) : i < Len(s) + 1 /\ w[i] = s[i]
      BY <1>0, <2>1
    <3> QED BY <2>1, <2>2, <3>1, <3>2 DEF CutAt
  <2> QED BY <2>1, <2>3 DEF w
<1>2. CASE at # {}
  <2> DEFINE n == CHOOSE i \in at : TRUE
             front == SubSeq(s, 1, n - 1)
             back == SubSeq(s, n + 1, Len(s))
  <2>1. n \in 1 .. Len(s) /\ s[n] = ip
    BY <1>0, <1>2
  <2>2. w = front \o back
    BY <1>2 DEF C!Without, C!RemoveAt
  <2> HIDE DEF n, at
  <2>3. /\ front \in Seq(IP)
        /\ Len(front) = n - 1
        /\ \A i \in 1 .. n - 1 : front[i] = s[i]
    <3>1. \A i \in 1 .. n - 1 : s[i] \in IP
      BY <1>0, <2>1
    <3> QED BY <1>0, <2>1, <3>1, SubSeqProperties
  <2>4. /\ back \in Seq(IP)
        /\ Len(back) = Len(s) - n
        /\ \A i \in 1 .. Len(s) - n : back[i] = s[n + i]
    <3>1. \A i \in n + 1 .. Len(s) : s[i] \in IP
      BY <1>0, <2>1
    <3>2. /\ back \in Seq(IP)
          /\ Len(back) = IF n + 1 <= Len(s) THEN Len(s) - (n + 1) + 1 ELSE 0
          /\ \A i \in 1 .. Len(s) - (n + 1) + 1 : back[i] = s[n + 1 + i - 1]
      <4>1. n + 1 \in Int /\ Len(s) \in Int
        BY <1>0, <2>1
      <4> QED BY <3>1, <4>1, SubSeqProperties
    <3> HIDE DEF back
    <3>3. Len(back) = Len(s) - n
      <4>1. n \in Nat /\ Len(s) \in Nat /\ n <= Len(s)
        BY <1>0, <2>1
      <4>2. CASE n + 1 <= Len(s)
        BY <3>2, <4>1, <4>2
      <4>3. CASE ~(n + 1 <= Len(s))
        BY <3>2, <4>1, <4>3
      <4> QED BY <4>2, <4>3
    <3>4. ASSUME NEW i \in 1 .. Len(s) - n PROVE back[i] = s[n + i]
      <4>1. i \in 1 .. Len(s) - (n + 1) + 1 /\ n + 1 + i - 1 = n + i
        BY <1>0, <2>1
      <4> QED BY <3>2, <4>1
    <3> QED BY <3>2, <3>3, <3>4
  <2> HIDE DEF front, back
  <2>5. /\ w \in Seq(IP)
        /\ Len(w) = Len(front) + Len(back)
        /\ \A i \in 1 .. Len(front) + Len(back) :
              w[i] = IF i <= Len(front) THEN front[i] ELSE back[i - Len(front)]
    <3>1. front \in Seq(IP) /\ back \in Seq(IP)
      BY <2>3, <2>4
    <3> HIDE DEF w
    <3>2. w = front \o back
      BY <2>2
    <3> QED BY <3>1, <3>2, ConcatProperties
  <2> HIDE DEF w
  <2>6. Len(w) = Len(s) - 1
    BY <1>0, <2>1, <2>3, <2>4, <2>5
  <2>7. ASSUME NEW i \in 1 .. Len(w) PROVE w[i] = IF i < n THEN s[i] ELSE s[i + 1]
    <3>1. i \in 1 .. Len(front) + Len(back) /\ i \in Nat /\ n \in Nat
      BY <1>0, <2>1, <2>5
    <3>2. w[i] = IF i <= n - 1 THEN front[i] ELSE back[i - (n - 1)]
      BY <2>3, <2>5, <3>1
    <3>3. CASE i < n
      BY <2>3, <3>1, <3>2, <3>3
    <3>4. CASE ~(i < n)
      <4>1. i - (n - 1) \in 1 .. Len(s) - n /\ n + (i - (n - 1)) = i + 1
        BY <1>0, <2>1, <2>6, <3>1, <3>4
      <4> QED BY <2>4, <3>1, <3>2, <3>4, <4>1
    <3> QED BY <3>3, <3>4
  <2>8. CutAt(s, ip, n, w)
    BY <1>0, <2>1, <2>6, <2>7 DEF CutAt
  <2> QED BY <2>5, <2>8 DEF w
<1> QED BY <1>1, <1>2

\* The first elements of r are those of s.
Heads(s, r) == Len(s) <= Len(r) /\ \A i \in 1 .. Len(s) : s[i] = r[i]

\* An IP moved to the front of both lists, or taken from both, leaves the one
\* a head of the other.
LEMMA HeadsCut ==
    ASSUME NEW s \in Seq(IP), NEW r \in Seq(IP), NEW ip, Heads(s, r), Unique(r)
    PROVE  Heads(C!Without(s, ip), C!Without(r, ip))
<1> DEFINE v == C!Without(s, ip)
           w == C!Without(r, ip)
<1>1. PICK m : CutAt(s, ip, m, v)
  BY Cut
<1>2. PICK n : CutAt(r, ip, n, w)
  BY Cut
<1>3. Len(s) \in Nat /\ Len(r) \in Nat /\ Len(v) \in Nat /\ Len(w) \in Nat
  BY Cut
<1> HIDE DEF v, w
<1>4. CASE m <= Len(s)
  <2>1. m = n
    <3>1. m \in 1 .. Len(r) /\ r[m] = ip
      BY <1>1, <1>3, <1>4 DEF CutAt, Heads
    <3>2. n <= Len(r)
      BY <1>2, <1>3, <3>1 DEF CutAt
    <3> QED BY <1>2, <1>3, <3>1, <3>2 DEF CutAt, Unique
  <2>2. Len(v) = Len(s) - 1 /\ Len(w) = Len(r) - 1
    BY <1>1, <1>2, <1>3, <1>4, <2>1 DEF CutAt, Heads
  <2>3. ASSUME NEW i \in 1 .. Len(v) PROVE v[i] = w[i]
    <3>1. i \in 1 .. Len(s) /\ i + 1 \in 1 .. Len(s) /\ i \in 1 .. Len(w)
      BY <1>3, <2>2 DEF Heads
    <3>2. s[i] = r[i] /\ s[i + 1] = r[i + 1]
      BY <3>1 DEF Heads
    <3> QED BY <1>1, <1>2, <2>1, <3>1, <3>2 DEF CutAt
  <2> QED BY <1>3, <2>2, <2>3 DEF Heads, v, w
<1>5. CASE ~(m <= Len(s))
  <2>1. m = Len(s) + 1 /\ Len(v) = Len(s)
    BY <1>1, <1>3, <1>5 DEF CutAt
  <2>2. n > Len(s)
    <3>1. \A i \in 1 .. Len(s) : r[i] # ip
      BY <1>1, <1>5 DEF CutAt, Heads
    <3> QED BY <1>2, <1>3, <3>1 DEF CutAt, Heads
  <2>3. Len(v) <= Len(w)
    BY <1>2, <1>3, <2>1, <2>2 DEF CutAt, Heads
  <2>4. ASSUME NEW i \in 1 .. Len(v) PROVE v[i] = w[i]
    <3>1. i \in 1 .. Len(s) /\ i \in 1 .. Len(w) /\ i < n /\ i < m
      BY <1>2, <1>3, <2>1, <2>2, <2>3 DEF CutAt
    <3> QED BY <1>1, <1>2, <3>1 DEF CutAt, Heads
  <2> QED BY <2>3, <2>4 DEF Heads, v, w
<1> QED BY <1>4, <1>5

LEMMA UniqueCut ==
    ASSUME NEW s \in Seq(IP), NEW ip, Unique(s)
    PROVE  /\ Unique(C!Without(s, ip))
           /\ C!ToSet(C!Without(s, ip)) = C!ToSet(s) \ {ip}
           /\ Len(C!Without(s, ip)) <= Len(s)
           /\ ip \in C!ToSet(s) => Len(C!Without(s, ip)) < Len(s)
<1> DEFINE w == C!Without(s, ip)
<1>1. PICK n : CutAt(s, ip, n, w)
  BY Cut
<1>2. w \in Seq(IP) /\ Len(s) \in Nat /\ Len(w) \in Nat
  BY Cut
<1>3. DOMAIN s = 1 .. Len(s) /\ DOMAIN w = 1 .. Len(w)
  BY <1>2
<1> HIDE DEF w
<1> DEFINE old(i) == IF i < n THEN i ELSE i + 1
<1>4. \A i \in 1 .. Len(w) : old(i) \in 1 .. Len(s) /\ w[i] = s[old(i)] /\ old(i) # n
  BY <1>1, <1>2 DEF CutAt
<1>5. \A i, j \in 1 .. Len(w) : old(i) = old(j) => i = j
  BY <1>1, <1>2 DEF CutAt
<1> HIDE DEF old
<1>6. Unique(w)
  BY <1>4, <1>5 DEF Unique
<1>7. C!ToSet(w) = C!ToSet(s) \ {ip}
  <2>1. ASSUME NEW i \in 1 .. Len(w) PROVE w[i] \in C!ToSet(s) /\ w[i] # ip
    <3>1. w[i] = s[old(i)] /\ old(i) \in 1 .. Len(s)
      BY <1>4
    <3>2. s[old(i)] # ip
      BY <1>1, <1>2, <1>4, <3>1 DEF CutAt, Unique
    <3> QED BY <1>3, <3>1, <3>2 DEF C!ToSet
  <2>2. ASSUME NEW i \in 1 .. Len(s), s[i] # ip PROVE s[i] \in C!ToSet(w)
    <3>1. CASE i < n
      <4>1. i \in 1 .. Len(w) /\ w[i] = s[i]
        BY <1>1, <1>2, <3>1 DEF CutAt
      <4> QED BY <1>3, <4>1 DEF C!ToSet
    <3>2. CASE ~(i < n)
      <4>1. i # n /\ n <= Len(s)
        BY <1>1, <1>2, <2>2, <3>2 DEF CutAt
      <4>2. i - 1 \in 1 .. Len(w) /\ ~(i - 1 < n) /\ i - 1 + 1 = i
        BY <1>1, <1>2, <3>2, <4>1 DEF CutAt
      <4>3. w[i - 1] = s[i]
        BY <1>1, <4>2 DEF CutAt
      <4> QED BY <1>3, <4>2, <4>3 DEF C!ToSet
    <3> QED BY <3>1, <3>2
  <2> QED BY <1>3, <2>1, <2>2 DEF C!ToSet
<1>8. Len(w) <= Len(s) /\ (ip \in C!ToSet(s) => Len(w) < Len(s))
  <2>1. CASE n <= Len(s)
    BY <1>1, <1>2, <2>1 DEF CutAt
  <2>2. CASE ~(n <= Len(s))
    BY <1>1, <1>2, <1>3, <2>2 DEF CutAt, C!ToSet
  <2> QED BY <2>1, <2>2
<1> QED BY <1>6, <1>7, <1>8 DEF w

-----------------------------------------------------------------------------
(* The queue of an IP *)

\* kept is a tail of all; what was lost is older than the window at t, or
\* maxEventsPerIp newer events follow it.
Evidence(all, kept, t) ==
    /\ Len(kept) <= Len(all)
    /\ \A i \in 1 .. Len(kept) : kept[i] = all[Len(all) - Len(kept) + i]
    /\ \A i \in 1 .. Len(all) - Len(kept) : \/ t - windowSeconds > all[i].time
                                            \/ Len(all) - i >= maxEventsPerIp

\* The first n events of es are gone.
Dropped(es, n, rest) ==
    /\ n \in 0 .. Len(es)
    /\ Len(rest) = Len(es) - n
    /\ \A i \in 1 .. Len(es) - n : rest[i] = es[n + i]

LEMMA TailOf ==
    ASSUME NEW S, NEW es \in Seq(S), NEW n \in 0 .. Len(es)
    PROVE  /\ SubSeq(es, n + 1, Len(es)) \in Seq(S)
           /\ Dropped(es, n, SubSeq(es, n + 1, Len(es)))
<1> DEFINE rest == SubSeq(es, n + 1, Len(es))
<1>0. n \in Nat /\ Len(es) \in Nat /\ n <= Len(es) /\ n + 1 \in Int /\ Len(es) \in Int
  OBVIOUS
<1>1. \A i \in n + 1 .. Len(es) : es[i] \in S
  BY <1>0
<1>2. /\ rest \in Seq(S)
      /\ Len(rest) = IF n + 1 <= Len(es) THEN Len(es) - (n + 1) + 1 ELSE 0
      /\ \A i \in 1 .. Len(es) - (n + 1) + 1 : rest[i] = es[n + 1 + i - 1]
  BY <1>0, <1>1, SubSeqProperties
<1> HIDE DEF rest
<1>3. Len(rest) = Len(es) - n
  <2>1. CASE n + 1 <= Len(es)
    BY <1>0, <1>2, <2>1
  <2>2. CASE ~(n + 1 <= Len(es))
    BY <1>0, <1>2, <2>2
  <2> QED BY <2>1, <2>2
<1>4. ASSUME NEW i \in 1 .. Len(es) - n PROVE rest[i] = es[n + i]
  <2>1. i \in 1 .. Len(es) - (n + 1) + 1 /\ n + 1 + i - 1 = n + i
    BY <1>0
  <2> QED BY <1>2, <2>1
<1> QED BY <1>2, <1>3, <1>4 DEF Dropped, rest

\* The options are positive.
LEMMA Positive ==
    ASSUME C!Options
    PROVE  /\ windowSeconds \in Nat \ {0} /\ raceWindow \in Nat \ {0} /\ maxIps \in Nat \ {0}
           /\ maxEventsPerIp \in Nat \ {0} /\ MaxWindowTime \in Nat /\ MaxSkew \in Nat
           /\ MaxRecords \in Nat
BY DEF C!Options

\* The leading stale events go.
LEMMA Freshened ==
    ASSUME C!Options, NEW es \in Seq(C!Event), NEW t \in Int
    PROVE  \E n \in 0 .. Len(es) : /\ C!Fresh(es, t) = SubSeq(es, n + 1, Len(es))
                                   /\ \A i \in 1 .. n : es[i].time < t - windowSeconds
<1> DEFINE Keeps(i) == i > Len(es) \/ ~C!Stale(es[i], t)
           Is(i) == Keeps(i) /\ \A j \in 1 .. i - 1 : ~Keeps(j)
           Ends == {i \in 1 .. Len(es) + 1 : Keeps(i)}
<1>1. Len(es) \in Nat
  OBVIOUS
<1>2. Len(es) + 1 \in Ends /\ Ends \subseteq Nat
  BY <1>1
<1>3. PICK i \in Ends : \A j \in Ends : i <= j
  <2> HIDE DEF Ends
  <2> QED BY <1>2, Least
<1>4. i \in 1 .. Len(es) + 1 /\ Keeps(i)
  BY <1>3
<1>5. \A j \in 1 .. i - 1 : j \in 1 .. Len(es) + 1 /\ j \notin Ends
  BY <1>1, <1>3, <1>4
<1>6. \A j \in 1 .. i - 1 : ~Keeps(j)
  BY <1>5
<1>7. Is(i)
  BY <1>4, <1>6
<1>8. C!Fresh(es, t) = LET first == CHOOSE k \in 1 .. Len(es) + 1 : Is(k) IN SubSeq(es, first, Len(es))
  BY DEF C!Fresh
<1> HIDE DEF Is
<1>9. PICK first \in 1 .. Len(es) + 1 : Is(first) /\ C!Fresh(es, t) = SubSeq(es, first, Len(es))
  BY <1>4, <1>7, <1>8
<1>10. first - 1 \in 0 .. Len(es) /\ first - 1 + 1 = first
  BY <1>1
<1>11. \A j \in 1 .. first - 1 : es[j].time < t - windowSeconds
  BY <1>9 DEF Is, C!Stale
<1> QED BY <1>9, <1>10, <1>11

\* evictStale takes from the head only, and what is stale or too much.
LEMMA Evicted ==
    ASSUME C!Options, NEW es \in Seq(C!Event), NEW t \in Int
    PROVE  /\ C!evictStale(es, t) \in Seq(C!Event)
           /\ Len(C!evictStale(es, t)) <= maxEventsPerIp
           /\ \E n : /\ Dropped(es, n, C!evictStale(es, t))
                     /\ \A i \in 1 .. n : \/ es[i].time < t - windowSeconds
                                          \/ Len(es) - i >= maxEventsPerIp
<1> DEFINE fresh == C!Fresh(es, t)
           rest == C!evictStale(es, t)
<1>0. Len(es) \in Nat /\ maxEventsPerIp \in Nat
  BY DEF C!Options
<1>1. PICK n \in 0 .. Len(es) : /\ fresh = SubSeq(es, n + 1, Len(es))
                                /\ \A i \in 1 .. n : es[i].time < t - windowSeconds
  BY Freshened
<1>2. fresh \in Seq(C!Event) /\ Dropped(es, n, fresh)
  BY <1>1, TailOf
<1> HIDE DEF fresh
<1>3. Len(fresh) \in Nat
  BY <1>2
<1> DEFINE over == IF Len(fresh) > maxEventsPerIp THEN Len(fresh) - maxEventsPerIp ELSE 0
<1>4. over \in 0 .. Len(fresh) /\ Len(fresh) - over <= maxEventsPerIp
  BY <1>0, <1>3
<1>5. rest = SubSeq(fresh, over + 1, Len(fresh))
  BY <1>0, <1>3 DEF C!evictStale, C!Cap, fresh
<1>6. over > 0 => Len(fresh) - over = maxEventsPerIp
  BY <1>0, <1>3
<1> HIDE DEF over
<1>7. rest \in Seq(C!Event) /\ Dropped(fresh, over, rest)
  BY <1>2, <1>4, <1>5, TailOf
<1> HIDE DEF rest
<1>8. Len(rest) = Len(fresh) - over /\ Len(fresh) = Len(es) - n
  BY <1>2, <1>7 DEF Dropped
<1>9. Dropped(es, n + over, rest)
  <2>1. n + over \in 0 .. Len(es) /\ Len(rest) = Len(es) - (n + over)
    BY <1>0, <1>3, <1>4, <1>8
  <2>2. ASSUME NEW i \in 1 .. Len(es) - (n + over) PROVE rest[i] = es[n + over + i]
    <3>1. i \in 1 .. Len(fresh) - over /\ over + i \in 1 .. Len(es) - n
      BY <1>0, <1>3, <1>4, <1>8
    <3>2. rest[i] = fresh[over + i] /\ fresh[over + i] = es[n + (over + i)]
      BY <1>2, <1>7, <3>1 DEF Dropped
    <3>3. n + (over + i) = n + over + i
      BY <1>0, <1>3, <1>4
    <3> QED BY <3>2, <3>3
  <2> QED BY <2>1, <2>2 DEF Dropped
<1>10. ASSUME NEW i \in 1 .. n + over
       PROVE  es[i].time < t - windowSeconds \/ Len(es) - i >= maxEventsPerIp
  <2>1. CASE i <= n
    BY <1>1, <1>4, <2>1
  <2>2. CASE ~(i <= n)
    <3>1. over > 0
      BY <1>3, <1>4, <2>2
    <3>2. Len(es) - (n + over) = maxEventsPerIp
      BY <1>0, <1>3, <1>4, <1>6, <1>8, <3>1
    <3> QED BY <1>0, <1>3, <1>4, <3>2
  <2> QED BY <2>1, <2>2
<1>11. Len(rest) <= maxEventsPerIp
  BY <1>4, <1>8
<1> QED BY <1>7, <1>9, <1>10, <1>11 DEF rest

\* Evidence outlives an eviction by a call whose stamp is not of the future ...
LEMMA EvidenceEvicted ==
    ASSUME C!Options, NEW all \in Seq(C!Event), NEW kept \in Seq(C!Event),
           NEW t \in Int, NEW m \in Int, t <= m, Evidence(all, kept, m)
    PROVE  Evidence(all, C!evictStale(kept, t), m)
<1> DEFINE rest == C!evictStale(kept, t)
<1>1. PICK n : /\ Dropped(kept, n, rest)
               /\ \A i \in 1 .. n : \/ kept[i].time < t - windowSeconds
                                    \/ Len(kept) - i >= maxEventsPerIp
  BY Evicted
<1>2. Len(all) \in Nat /\ Len(kept) \in Nat /\ n \in 0 .. Len(kept) /\ Len(rest) = Len(kept) - n
  BY <1>1 DEF Dropped
<1> HIDE DEF rest
<1> DEFINE lost == Len(all) - Len(kept)
<1>3. lost \in Nat /\ Len(rest) <= Len(all) /\ Len(all) - Len(rest) = lost + n
  BY <1>2 DEF Evidence
<1>4. ASSUME NEW i \in 1 .. Len(rest) PROVE rest[i] = all[Len(all) - Len(rest) + i]
  <2>1. rest[i] = kept[n + i] /\ n + i \in 1 .. Len(kept)
    BY <1>1, <1>2 DEF Dropped
  <2>2. kept[n + i] = all[lost + (n + i)]
    BY <2>1 DEF Evidence
  <2>3. lost + (n + i) = Len(all) - Len(rest) + i
    BY <1>2, <1>3
  <2> QED BY <2>1, <2>2, <2>3
<1>5. ASSUME NEW i \in 1 .. Len(all) - Len(rest)
      PROVE  m - windowSeconds > all[i].time \/ Len(all) - i >= maxEventsPerIp
  <2>1. CASE i <= lost
    BY <1>2, <1>3, <2>1 DEF Evidence
  <2>2. CASE ~(i <= lost)
    <3>1. i - lost \in 1 .. n /\ i - lost \in 1 .. Len(kept) /\ lost + (i - lost) = i
      BY <1>2, <1>3, <2>2
    <3>2. kept[i - lost] = all[i]
      BY <3>1 DEF Evidence
    <3>3. all[i].time < t - windowSeconds \/ Len(kept) - (i - lost) >= maxEventsPerIp
      BY <1>1, <3>1, <3>2
    <3>4. Len(kept) - (i - lost) = Len(all) - i
      BY <1>2
    <3>5. all[i].time \in Int /\ windowSeconds \in Int
      <4>1. all[i] \in C!Event
        BY <1>2, <1>3
      <4> QED BY <4>1, Positive DEF C!Event
    <3> QED BY <3>3, <3>4, <3>5
  <2> QED BY <2>1, <2>2
<1> QED BY <1>3, <1>4, <1>5 DEF Evidence, rest

\* ... the arrival of another event ...
LEMMA EvidenceGrows ==
    ASSUME C!Options, NEW all \in Seq(C!Event), NEW kept \in Seq(C!Event), NEW e \in C!Event,
           NEW m \in Int, Evidence(all, kept, m)
    PROVE  Evidence(Append(all, e), Append(kept, e), m)
<1>1. /\ Len(all) \in Nat /\ Len(kept) \in Nat /\ Len(kept) <= Len(all) /\ maxEventsPerIp \in Nat
      /\ Len(Append(all, e)) = Len(all) + 1 /\ Len(Append(kept, e)) = Len(kept) + 1
      /\ \A i \in 1 .. Len(all) : Append(all, e)[i] = all[i]
      /\ \A i \in 1 .. Len(kept) : Append(kept, e)[i] = kept[i]
      /\ Append(all, e)[Len(all) + 1] = e /\ Append(kept, e)[Len(kept) + 1] = e
  BY AppendProperties DEF Evidence, C!Options
<1>2. ASSUME NEW i \in 1 .. Len(kept) + 1
      PROVE  Append(kept, e)[i] = Append(all, e)[Len(all) + 1 - (Len(kept) + 1) + i]
  <2>1. CASE i = Len(kept) + 1
    <3>1. Len(all) + 1 - (Len(kept) + 1) + i = Len(all) + 1
      BY <1>1, <2>1
    <3> QED BY <1>1, <2>1, <3>1
  <2>2. CASE i # Len(kept) + 1
    <3>1. i \in 1 .. Len(kept) /\ Len(all) - Len(kept) + i \in 1 .. Len(all)
          /\ Len(all) + 1 - (Len(kept) + 1) + i = Len(all) - Len(kept) + i
      BY <1>1, <2>2
    <3>2. kept[i] = all[Len(all) - Len(kept) + i]
      BY <3>1 DEF Evidence
    <3> QED BY <1>1, <3>1, <3>2
  <2> QED BY <2>1, <2>2
<1>3. ASSUME NEW i \in 1 .. Len(all) + 1 - (Len(kept) + 1)
      PROVE  \/ m - windowSeconds > Append(all, e)[i].time
             \/ Len(all) + 1 - i >= maxEventsPerIp
  <2>1. i \in 1 .. Len(all) - Len(kept) /\ i \in 1 .. Len(all)
    BY <1>1
  <2>2. Append(all, e)[i] = all[i]
    BY <1>1, <2>1
  <2>3. m - windowSeconds > all[i].time \/ Len(all) - i >= maxEventsPerIp
    BY <2>1 DEF Evidence
  <2>4. CASE Len(all) - i >= maxEventsPerIp
    BY <1>1, <2>1, <2>4
  <2> QED BY <2>2, <2>3, <2>4
<1>4. Len(kept) + 1 <= Len(all) + 1
  BY <1>1
<1> QED
  <2> HIDE DEF Evidence
  <2> DEFINE more == Append(all, e)
             tail == Append(kept, e)
  <2>1. Len(more) = Len(all) + 1 /\ Len(tail) = Len(kept) + 1
    BY <1>1
  <2>2. /\ \A i \in 1 .. Len(kept) + 1 : tail[i] = more[Len(all) + 1 - (Len(kept) + 1) + i]
        /\ \A i \in 1 .. Len(all) + 1 - (Len(kept) + 1) : \/ m - windowSeconds > more[i].time
                                                            \/ Len(all) + 1 - i >= maxEventsPerIp
    BY <1>2, <1>3
  <2> HIDE DEF more, tail
  <2>3. ASSUME NEW i \in 1 .. Len(tail) PROVE tail[i] = more[Len(more) - Len(tail) + i]
    <3>1. i \in 1 .. Len(kept) + 1
      BY <2>1
    <3>2. tail[i] = more[Len(all) + 1 - (Len(kept) + 1) + i]
      BY <2>2, <3>1
    <3> QED BY <2>1, <3>2
  <2>4. ASSUME NEW i \in 1 .. Len(more) - Len(tail)
        PROVE  m - windowSeconds > more[i].time \/ Len(more) - i >= maxEventsPerIp
    <3>1. i \in 1 .. Len(all) + 1 - (Len(kept) + 1)
      BY <2>1
    <3>2. m - windowSeconds > more[i].time \/ Len(all) + 1 - i >= maxEventsPerIp
      BY <2>2, <3>1
    <3> QED BY <2>1, <3>2
  <2>5. Len(tail) <= Len(more)
    BY <1>4, <2>1, Zenon
  <2>6. Evidence(more, tail, m)
    BY <2>3, <2>4, <2>5 DEF Evidence
  <2> QED BY <2>6 DEF more, tail

\* ... and time.
LEMMA EvidenceAges ==
    ASSUME C!Options, NEW all \in Seq(C!Event), NEW kept \in Seq(C!Event),
           NEW m \in Int, NEW n \in Int, m <= n, Evidence(all, kept, m)
    PROVE  Evidence(all, kept, n)
<1>1. Len(all) \in Nat /\ Len(kept) \in Nat /\ Len(kept) <= Len(all)
  BY DEF Evidence
<1>2. ASSUME NEW i \in 1 .. Len(all) - Len(kept)
      PROVE  n - windowSeconds > all[i].time \/ Len(all) - i >= maxEventsPerIp
  <2>1. all[i] \in C!Event
    BY <1>1
  <2>2. all[i].time \in Int /\ windowSeconds \in Int
    BY <2>1, SMTT(60) DEF C!Event, C!Options
  <2>3. m - windowSeconds > all[i].time \/ Len(all) - i >= maxEventsPerIp
    BY DEF Evidence
  <2> QED BY <2>2, <2>3
<1> QED BY <1>2 DEF Evidence

-----------------------------------------------------------------------------
(* The window *)

Tracked(kept, all, t) ==
    /\ kept \in Seq(C!Event) /\ all \in Seq(C!Event)
    /\ Len(kept) <= maxEventsPerIp
    /\ Evidence(all, kept, t)

\* How many of n IPs the window has room for.
Room(n) == IF n > maxIps THEN maxIps ELSE n

\* What holds of the window between two calls: it tracks the most recent IPs, as
\* many as it has room for, and of each the tail of its events.
Held ==
    /\ clock \in 0 .. MaxWindowTime /\ records \in 0 .. MaxRecords
    /\ recency \in Seq(IP) /\ Unique(recency)
    /\ order \in Seq(IP) /\ Heads(order, recency) /\ Len(order) = Room(Len(recency))
    /\ DOMAIN buckets = C!ToSet(order) /\ DOMAIN log = C!ToSet(order)
    /\ \A ip \in DOMAIN buckets : Tracked(buckets[ip], log[ip], clock)

\* A head of a sequence, as long as there is room for, is its latest part.
LEMMA HeadIsLatest ==
    ASSUME C!Options, NEW s \in Seq(IP), NEW r \in Seq(IP), Heads(s, r), Len(s) = Room(Len(r))
    PROVE  s = C!Latest(r)
<1> DEFINE head == SubSeq(r, 1, Len(s))
<1>0. Len(s) \in Nat /\ Len(r) \in Nat /\ Len(s) <= Len(r)
  BY DEF Heads
<1>1. head = C!Latest(r)
  BY DEF C!Latest, Room
<1>2. 1 \in Int /\ Len(s) \in Int /\ \A i \in 1 .. Len(s) : r[i] \in IP
  BY <1>0
<1>3. /\ head \in Seq(IP)
      /\ Len(head) = IF 1 <= Len(s) THEN Len(s) - 1 + 1 ELSE 0
      /\ \A i \in 1 .. Len(s) - 1 + 1 : head[i] = r[1 + i - 1]
  BY <1>2, SubSeqProperties
<1> HIDE DEF head
<1>4. Len(head) = Len(s)
  BY <1>0, <1>3
<1>5. ASSUME NEW i \in 1 .. Len(s) PROVE s[i] = head[i]
  <2>1. i \in 1 .. Len(s) - 1 + 1 /\ 1 + i - 1 = i
    BY <1>0
  <2> QED BY <1>0, <1>3, <2>1 DEF Heads
<1>6. s = head
  BY <1>3, <1>4, <1>5, SeqEqual
<1> QED BY <1>1, <1>6

LEMMA PutInFront ==
    ASSUME NEW s \in Seq(IP), NEW ip \in IP
    PROVE  /\ <<ip>> \o s \in Seq(IP)
           /\ Len(<<ip>> \o s) = Len(s) + 1
           /\ \A i \in 1 .. Len(s) + 1 : (<<ip>> \o s)[i] = IF i = 1 THEN ip ELSE s[i - 1]
<1> DEFINE both == <<ip>> \o s
<1>0. Len(s) \in Nat
  OBVIOUS
<1>1. <<ip>> \in Seq(IP) /\ Len(<<ip>>) = 1 /\ <<ip>>[1] = ip
  OBVIOUS
<1>2. /\ both \in Seq(IP)
      /\ Len(both) = 1 + Len(s)
      /\ \A i \in 1 .. 1 + Len(s) : both[i] = IF i <= 1 THEN <<ip>>[i] ELSE s[i - 1]
  BY <1>1, ConcatProperties
<1> HIDE DEF both
<1>3. ASSUME NEW i \in 1 .. Len(s) + 1 PROVE both[i] = IF i = 1 THEN ip ELSE s[i - 1]
  <2>1. i \in 1 .. 1 + Len(s) /\ (i <= 1 <=> i = 1)
    BY <1>0
  <2> QED BY <1>1, <1>2, <2>1
<1>4. Len(both) = Len(s) + 1
  BY <1>0, <1>2
<1> QED BY <1>2, <1>3, <1>4 DEF both

\* touchOrCreate: the IP moves to the front, of the history as well, and the
\* rear is cut.
LEMMA Touched ==
    ASSUME C!Options, NEW ip \in IP, order \in Seq(IP), recency \in Seq(IP),
           Unique(recency), Heads(order, recency), Len(order) = Room(Len(recency))
    PROVE  /\ C!Kept(ip) \in Seq(IP)
           /\ Len(C!Kept(ip)) = Room(Len(<<ip>> \o C!Without(recency, ip)))
           /\ C!ToSet(C!Kept(ip)) \subseteq C!ToSet(order) \cup {ip}
           /\ <<ip>> \o C!Without(recency, ip) \in Seq(IP)
           /\ Unique(<<ip>> \o C!Without(recency, ip))
           /\ Heads(C!Kept(ip), <<ip>> \o C!Without(recency, ip))
<1> DEFINE s == C!Without(order, ip)
           r == C!Without(recency, ip)
           pushed == <<ip>> \o s
           all == <<ip>> \o r
           kept == C!Kept(ip)
<1>1. Unique(order)
  BY DEF Unique, Heads
<1>2. s \in Seq(IP) /\ r \in Seq(IP) /\ Heads(s, r) /\ Unique(r)
      /\ C!ToSet(s) = C!ToSet(order) \ {ip} /\ C!ToSet(r) = C!ToSet(recency) \ {ip}
  BY <1>1, Cut, HeadsCut, UniqueCut
<1> HIDE DEF s, r
<1>3. Len(s) \in Nat /\ Len(r) \in Nat /\ Len(s) <= Len(r)
  BY <1>2 DEF Heads
<1>4. /\ pushed \in Seq(IP) /\ Len(pushed) = Len(s) + 1
      /\ \A i \in 1 .. Len(s) + 1 : pushed[i] = IF i = 1 THEN ip ELSE s[i - 1]
  BY <1>2, PutInFront
<1>5. /\ all \in Seq(IP) /\ Len(all) = Len(r) + 1
      /\ \A i \in 1 .. Len(r) + 1 : all[i] = IF i = 1 THEN ip ELSE r[i - 1]
  BY <1>2, PutInFront
<1>6. kept = SubSeq(pushed, 1, IF Len(pushed) > maxIps THEN maxIps ELSE Len(pushed))
  BY DEF C!Kept, C!Pushed, s
<1> HIDE DEF pushed, all, kept
<1> DEFINE n == IF Len(pushed) > maxIps THEN maxIps ELSE Len(pushed)
<1>7. n \in 0 .. Len(pushed) /\ n <= maxIps /\ Len(pushed) \in Nat
  BY <1>3, <1>4, Positive
<1> HIDE DEF n
<1>8. /\ kept \in Seq(IP) /\ Len(kept) = n
      /\ \A i \in 1 .. n : kept[i] = pushed[i]
  <2>1. 1 \in Int /\ n \in Int /\ \A i \in 1 .. n : pushed[i] \in IP
    BY <1>4, <1>7
  <2>2. kept = SubSeq(pushed, 1, n)
    BY <1>6 DEF n
  <2>3. /\ kept \in Seq(IP)
        /\ Len(kept) = IF 1 <= n THEN n - 1 + 1 ELSE 0
        /\ \A i \in 1 .. n - 1 + 1 : kept[i] = pushed[1 + i - 1]
    BY <2>1, <2>2, SubSeqProperties
  <2>4. Len(kept) = n
    BY <1>7, <2>3
  <2>5. ASSUME NEW i \in 1 .. n PROVE kept[i] = pushed[i]
    <3>1. i \in 1 .. n - 1 + 1 /\ 1 + i - 1 = i
      BY <1>7
    <3> QED BY <2>3, <3>1
  <2> QED BY <2>3, <2>4, <2>5
<1>9. Heads(kept, all)
  <2>1. Len(kept) <= Len(all)
    BY <1>3, <1>4, <1>5, <1>7, <1>8
  <2>2. ASSUME NEW i \in 1 .. Len(kept) PROVE kept[i] = all[i]
    <3>0. i \in 1 .. n /\ n <= Len(s) + 1
      BY <1>3, <1>4, <1>7, <1>8
    <3>1. i \in 1 .. Len(s) + 1 /\ i \in 1 .. Len(r) + 1 /\ kept[i] = pushed[i]
      BY <1>3, <1>7, <1>8, <3>0
    <3>2. i # 1 => i - 1 \in 1 .. Len(s)
      BY <1>3, <3>1
    <3> QED BY <1>2, <1>4, <1>5, <3>1, <3>2, ZenonT(60) DEF Heads
  <2> QED BY <2>1, <2>2 DEF Heads
<1>10. Unique(all)
  <2> SUFFICES ASSUME NEW i \in 1 .. Len(all), NEW j \in 1 .. Len(all), all[i] = all[j]
               PROVE  i = j
    BY DEF Unique
  <2>1. ASSUME NEW k \in 1 .. Len(r) PROVE r[k] # ip
    <3>1. DOMAIN r = 1 .. Len(r)
      BY <1>2
    <3>2. r[k] \in C!ToSet(r)
      BY <3>1 DEF C!ToSet
    <3> QED BY <1>2, <3>2
  <2>2. i \in 1 .. Len(r) + 1 /\ j \in 1 .. Len(r) + 1
    BY <1>5
  <2>3. CASE i = 1
    BY <1>3, <1>5, <2>1, <2>2, <2>3
  <2>4. CASE j = 1
    BY <1>3, <1>5, <2>1, <2>2, <2>4, SMTT(60)
  <2>5. CASE i # 1 /\ j # 1
    <3>1. i - 1 \in 1 .. Len(r) /\ j - 1 \in 1 .. Len(r) /\ r[i - 1] = r[j - 1]
      BY <1>3, <1>5, <2>2, <2>5
    <3>2. i - 1 = j - 1
      BY <1>2, <3>1 DEF Unique
    <3> QED BY <2>2, <3>2
  <2> QED BY <2>3, <2>4, <2>5
<1>11. C!ToSet(kept) \subseteq C!ToSet(order) \cup {ip}
  <2>1. DOMAIN kept = 1 .. n /\ DOMAIN s = 1 .. Len(s)
    BY <1>2, <1>8
  <2>2. ASSUME NEW i \in 1 .. n PROVE kept[i] \in C!ToSet(order) \cup {ip}
    <3>1. i \in 1 .. Len(s) + 1 /\ kept[i] = pushed[i]
      BY <1>3, <1>4, <1>7, <1>8
    <3>2. CASE i = 1
      BY <1>4, <3>1, <3>2
    <3>3. CASE i # 1
      <4>1. i - 1 \in 1 .. Len(s) /\ kept[i] = s[i - 1]
        BY <1>3, <1>4, <3>1, <3>3
      <4>2. s[i - 1] \in C!ToSet(s)
        BY <2>1, <4>1 DEF C!ToSet
      <4> QED BY <1>2, <4>1, <4>2
    <3> QED BY <3>2, <3>3
  <2> QED BY <2>1, <2>2 DEF C!ToSet
<1>12. Len(kept) = Room(Len(all))
  <2>1. Len(order) \in Nat /\ Len(recency) \in Nat /\ maxIps \in Nat /\ Len(order) <= Len(recency)
    BY Positive DEF Heads
  <2>2. PICK m : CutAt(order, ip, m, s)
    BY Cut DEF s
  <2>3. PICK k : CutAt(recency, ip, k, r)
    BY Cut DEF r
  <2>4. Len(order) >= m => Len(recency) >= k
    BY <2>1, <2>2, <2>3 DEF CutAt, Heads
  <2>5. Len(order) < m /\ Len(recency) >= k => Len(recency) > Len(order)
    BY <2>1, <2>2, <2>3 DEF CutAt, Heads
  <2>6. /\ Len(s) = IF m <= Len(order) THEN Len(order) - 1 ELSE Len(order)
        /\ Len(r) = IF k <= Len(recency) THEN Len(recency) - 1 ELSE Len(recency)
        /\ m \in Nat /\ k \in Nat
    BY <2>1, <2>2, <2>3 DEF CutAt
  <2>7. Room(Len(s) + 1) = Room(Len(r) + 1)
    BY <2>1, <2>4, <2>5, <2>6 DEF Room
  <2>8. n = Room(Len(s) + 1)
    BY <1>4 DEF n, Room
  <2> QED BY <1>5, <1>8, <2>7, <2>8
<1> QED BY <1>5, <1>8, <1>9, <1>10, <1>11, <1>12 DEF kept, all, r

LEMMA RecordHolds ==
    ASSUME C!Options, Held, NEW ip \in IP, NEW k \in Kind, NEW t \in C!Stamps, C!Record(ip, k, t)
    PROVE  Held'
<1> DEFINE e == [time |-> t, what |-> k]
           kept == C!evictStale(Append(C!EventsOf(buckets, ip), e), t)
           all == Append(C!EventsOf(log, ip), e)
<1>0. /\ order \in Seq(IP) /\ recency \in Seq(IP) /\ Unique(recency) /\ Heads(order, recency)
      /\ Len(order) = Room(Len(recency))
      /\ clock \in 0 .. MaxWindowTime /\ MaxWindowTime \in Nat /\ DOMAIN buckets = C!ToSet(order)
      /\ records \in 0 .. MaxRecords /\ DOMAIN log = DOMAIN buckets
      /\ \A i \in DOMAIN buckets : Tracked(buckets[i], log[i], clock)
  BY Positive DEF Held
<1>1. /\ records < MaxRecords /\ records' = records + 1 /\ clock' = clock
      /\ order' = C!Kept(ip) /\ recency' = <<ip>> \o C!Without(recency, ip)
      /\ buckets' = [i \in C!ToSet(order') |-> IF i = ip THEN kept ELSE buckets[i]]
      /\ log' = [i \in C!ToSet(order') |-> IF i = ip THEN all ELSE log[i]]
  BY DEF C!Record
<1>2. t \in 0 .. clock /\ e \in C!Event
  BY <1>0 DEF C!Stamps, C!Event
<1>3. Tracked(kept, all, clock)
  <2> DEFINE b == C!EventsOf(buckets, ip)
             l == C!EventsOf(log, ip)
  <2>1. b \in Seq(C!Event) /\ l \in Seq(C!Event) /\ Evidence(l, b, clock)
    <3>1. CASE ip \in DOMAIN buckets
      BY <1>0, <3>1 DEF C!EventsOf, Tracked
    <3>2. CASE ip \notin DOMAIN buckets
      <4>1. b = <<>> /\ l = <<>>
        BY <1>0, <3>2 DEF C!EventsOf
      <4>2. Len(<<>>) = 0 /\ 1 .. 0 = {}
        OBVIOUS
      <4> QED BY <4>1, <4>2 DEF Evidence
    <3> QED BY <3>1, <3>2
  <2> HIDE DEF b, l, e
  <2>2. clock \in Int /\ t \in Int /\ t <= clock
    BY <1>0, <1>2
  <2>3. Append(b, e) \in Seq(C!Event) /\ Append(l, e) \in Seq(C!Event)
    BY <1>2, <2>1, AppendProperties
  <2>4. Evidence(Append(l, e), Append(b, e), clock)
    BY <1>2, <2>1, <2>2, EvidenceGrows
  <2>5. kept \in Seq(C!Event) /\ Len(kept) <= maxEventsPerIp
    BY <2>2, <2>3, Evicted DEF b
  <2>6. Evidence(Append(l, e), C!evictStale(Append(b, e), t), clock)
    BY <2>2, <2>3, <2>4, EvidenceEvicted
  <2> QED BY <2>3, <2>5, <2>6 DEF Tracked, b, l
<1> HIDE DEF e, kept, all
<1>4. /\ order' \in Seq(IP) /\ Len(order') = Room(Len(recency'))
      /\ C!ToSet(order') \subseteq C!ToSet(order) \cup {ip}
      /\ recency' \in Seq(IP) /\ Unique(recency') /\ Heads(order', recency')
  BY <1>0, <1>1, Touched
<1>5. DOMAIN buckets' = C!ToSet(order') /\ DOMAIN log' = C!ToSet(order')
  BY <1>1
<1>6. ASSUME NEW i \in C!ToSet(order') PROVE Tracked(buckets'[i], log'[i], clock)
  <2>1. CASE i = ip
    BY <1>1, <1>3, <2>1
  <2>2. CASE i # ip
    <3>1. buckets'[i] = buckets[i] /\ log'[i] = log[i] /\ i \in DOMAIN buckets
      BY <1>0, <1>1, <1>4, <2>2
    <3> QED BY <1>0, <3>1
  <2> QED BY <2>1, <2>2
<1>7. records' \in 0 .. MaxRecords
  BY <1>0, <1>1, Positive
<1>8. clock' = clock /\ clock \in 0 .. MaxWindowTime
  BY <1>0, <1>1
<1>9. \A i \in DOMAIN buckets' : Tracked(buckets'[i], log'[i], clock')
  BY <1>5, <1>6, <1>8
<1> QED BY <1>4, <1>5, <1>7, <1>8, <1>9 DEF Held, Tracked, Evidence, Unique, Heads

LEMMA DetectHolds ==
    ASSUME C!Options, Held, NEW ip \in IP, NEW t \in C!Stamps, C!Detect(ip, t)
    PROVE  Held'
<1>0. clock \in Int /\ t \in Int /\ t <= clock /\ ip \in DOMAIN buckets
  BY Positive DEF Held, C!Stamps, C!Detect
<1> DEFINE kept == C!evictStale(buckets[ip], t)
<1>1. /\ buckets' = [buckets EXCEPT ![ip] = kept]
      /\ clock' = clock /\ order' = order /\ log' = log /\ recency' = recency /\ records' = records
  BY DEF C!Detect
<1>2. Tracked(buckets[ip], log[ip], clock)
  BY <1>0 DEF Held
<1>3. Tracked(kept, log[ip], clock)
  <2>1. kept \in Seq(C!Event) /\ Len(kept) <= maxEventsPerIp
    BY <1>0, <1>2, Evicted DEF Tracked
  <2>2. Evidence(log[ip], kept, clock)
    BY <1>0, <1>2, EvidenceEvicted DEF Tracked
  <2> QED BY <1>2, <2>1, <2>2 DEF Tracked
<1> HIDE DEF kept
<1>4. DOMAIN buckets' = DOMAIN buckets
      /\ \A i \in DOMAIN buckets : buckets'[i] = IF i = ip THEN kept ELSE buckets[i]
  BY <1>1
<1>5. \A i \in DOMAIN buckets' : Tracked(buckets'[i], log'[i], clock')
  BY <1>1, <1>3, <1>4 DEF Held
<1> QED BY <1>1, <1>4, <1>5, ZenonT(60) DEF Held, Tracked, Evidence, Unique, Heads

LEMMA ResetHolds ==
    ASSUME C!Options, Held, NEW ip \in IP, C!Reset(ip)
    PROVE  Held'
<1>0. /\ order \in Seq(IP) /\ recency \in Seq(IP) /\ Unique(recency) /\ Heads(order, recency)
      /\ DOMAIN buckets = C!ToSet(order) /\ DOMAIN log = DOMAIN buckets
      /\ Len(order) = Room(Len(recency))
      /\ \A i \in DOMAIN buckets : Tracked(buckets[i], log[i], clock)
  BY DEF Held
<1>1. Unique(order)
  BY <1>0 DEF Unique, Heads
<1>2. /\ order' = C!Without(order, ip) /\ recency' = order'
      /\ buckets' = [i \in DOMAIN buckets \ {ip} |-> buckets[i]]
      /\ log' = [i \in DOMAIN log \ {ip} |-> log[i]]
      /\ clock' = clock /\ records' = records
  BY <1>0, HeadIsLatest DEF C!Reset
<1>3. /\ order' \in Seq(IP) /\ recency' \in Seq(IP) /\ Unique(recency')
      /\ C!ToSet(order') = C!ToSet(order) \ {ip} /\ Len(order') <= Len(order)
  BY <1>0, <1>1, <1>2, Cut, UniqueCut
<1>4. Heads(order', recency') /\ Len(order') = Room(Len(recency'))
  <2>1. Len(order') \in Nat /\ Len(order) \in Nat /\ Len(recency) \in Nat /\ maxIps \in Nat
    BY <1>0, <1>3, Positive
  <2>2. Len(order') <= maxIps
    BY <1>0, <1>3, <2>1 DEF Room
  <2> QED BY <1>2, <2>1, <2>2 DEF Heads, Room
<1>5. DOMAIN buckets' = C!ToSet(order') /\ DOMAIN log' = C!ToSet(order')
  BY <1>0, <1>2, <1>3
<1>6. \A i \in DOMAIN buckets' : Tracked(buckets'[i], log'[i], clock')
  BY <1>0, <1>2
<1>7. clock' \in 0 .. MaxWindowTime /\ records' \in 0 .. MaxRecords
  BY <1>2 DEF Held
<1> QED BY <1>3, <1>4, <1>5, <1>6, <1>7 DEF Held, Tracked, Evidence, Unique, Heads

LEMMA HeldHolds == C!Spec => []Held
<1>0. C!Options
  BY SharedOptions
<1> USE <1>0
<1>1. C!Init => Held
  <2> SUFFICES ASSUME C!Init PROVE Held
    OBVIOUS
  <2>1. order = <<>> /\ recency = <<>> /\ clock = 0 /\ records = 0
    BY DEF C!Init
  <2>2. DOMAIN buckets = {} /\ DOMAIN log = {}
    BY DEF C!Init, C!Empty
  <2>3. <<>> \in Seq(IP) /\ Len(<<>>) = 0 /\ DOMAIN <<>> = {} /\ 1 .. 0 = {}
    OBVIOUS
  <2>4. C!ToSet(<<>>) = {}
    BY <2>3 DEF C!ToSet
  <2>5. Unique(<<>>) /\ Heads(<<>>, <<>>)
    BY <2>3 DEF Unique, Heads
  <2>6. 0 \in 0 .. MaxWindowTime /\ 0 \in 0 .. MaxRecords /\ Room(0) = 0
    BY Positive DEF Room
  <2> QED BY <2>1, <2>2, <2>3, <2>4, <2>5, <2>6 DEF Held
<1>2. Held /\ [C!Next]_(C!vars) => Held'
  <2> SUFFICES ASSUME Held, [C!Next]_(C!vars) PROVE Held'
    OBVIOUS
  <2>1. CASE C!ResetAll
    <3>1. order' = <<>> /\ recency' = <<>> /\ clock' = clock /\ records' = records
      BY <2>1 DEF C!ResetAll
    <3>2. DOMAIN buckets' = {} /\ DOMAIN log' = {}
      BY <2>1 DEF C!ResetAll, C!Empty
    <3>3. <<>> \in Seq(IP) /\ Len(<<>>) = 0 /\ DOMAIN <<>> = {} /\ 1 .. 0 = {}
      OBVIOUS
    <3>4. C!ToSet(order') = {} /\ Len(order') = 0
      BY <3>1, <3>3 DEF C!ToSet
    <3>5. Unique(recency') /\ Heads(order', recency')
      BY <3>1, <3>3 DEF Unique, Heads
    <3>6. Len(recency') = 0 /\ Room(0) = 0
      BY <3>1, <3>3, Positive DEF Room
    <3>7. clock' \in 0 .. MaxWindowTime /\ records' \in 0 .. MaxRecords
      BY <3>1 DEF Held
    <3> QED BY <3>1, <3>2, <3>3, <3>4, <3>5, <3>6, <3>7
               DEF Held, Tracked, Evidence, Unique, Heads
  <2>2. CASE C!Tick
    <3>1. /\ clock < MaxWindowTime /\ clock' = clock + 1
          /\ order' = order /\ buckets' = buckets /\ log' = log
          /\ recency' = recency /\ records' = records
      BY <2>2 DEF C!Tick
    <3>2. clock \in 0 .. MaxWindowTime /\ clock' \in 0 .. MaxWindowTime /\ clock <= clock'
      BY <3>1, Positive DEF Held
    <3>3. ASSUME NEW i \in DOMAIN buckets PROVE Tracked(buckets[i], log[i], clock')
      <4>1. Tracked(buckets[i], log[i], clock)
        BY DEF Held
      <4>2. clock \in Int /\ clock' \in Int
        BY <3>2, Positive
      <4>3. Evidence(log[i], buckets[i], clock')
        BY <3>2, <4>1, <4>2, EvidenceAges DEF Tracked
      <4> QED BY <4>1, <4>3 DEF Tracked
    <3> QED BY <3>1, <3>2, <3>3 DEF Held, Tracked, Evidence, Unique, Heads
  <2>3. CASE UNCHANGED C!vars
    BY <2>3 DEF Held, C!vars, Tracked, Evidence, Unique, Heads
  <2> QED BY <2>1, <2>2, <2>3, RecordHolds, DetectHolds, ResetHolds DEF C!Next
<1> QED BY <1>1, <1>2, PTL DEF C!Spec

\* Every state of the correlation window is well formed (Record, the detections
\* and Reset): no more than maxIps IPs, each once, and no more than
\* maxEventsPerIp events of each.
THEOREM WindowTypeCorrect == C!Spec => []C!TypeOK
<1>1. Held => C!TypeOK
  <2> SUFFICES ASSUME Held PROVE C!TypeOK
    OBVIOUS
  <2>1. C!IsInjective(order)
    BY DEF Held, Unique, Heads, C!IsInjective
  <2>2. Len(order) <= maxIps
    BY SharedOptions, Positive DEF Held, Room
  <2> QED BY <2>1, <2>2 DEF Held, Tracked, C!TypeOK
<1> QED BY <1>1, HeldHolds, PTL

\* Record loses an IP only to maxIps IPs recorded after it: the latest of the IPs
\* recorded since their last reset are tracked, all or exactly maxIps of them.
\* And it loses an event only from the head of its queue, when it is older than the window or
\* maxEventsPerIp newer events follow it: for every size of the window, every
\* number of IPs and of calls with late stamps (touchOrCreate, evictStale).
THEOREM EvidenceIsKept == C!Spec => []EvidenceKept
<1>1. Held => EvidenceKept
  <2> SUFFICES ASSUME Held PROVE C!EvidenceKept
    BY DEF EvidenceKept
  <2>1. order = C!Latest(recency)
    BY SharedOptions, HeadIsLatest DEF Held
  <2>2. ASSUME NEW ip \in DOMAIN buckets
        PROVE  buckets[ip] = SubSeq(log[ip], Len(log[ip]) - Len(buckets[ip]) + 1, Len(log[ip]))
    <3> DEFINE all == log[ip]
               kept == buckets[ip]
               lost == Len(all) - Len(kept)
               rest == SubSeq(all, lost + 1, Len(all))
    <3>1. kept \in Seq(C!Event) /\ all \in Seq(C!Event) /\ Evidence(all, kept, clock)
      BY DEF Held, Tracked
    <3> HIDE DEF all, kept
    <3>2. Len(all) \in Nat /\ Len(kept) \in Nat /\ Len(kept) <= Len(all)
      BY <3>1 DEF Evidence
    <3>3. lost \in 0 .. Len(all) /\ Len(all) - lost = Len(kept)
      BY <3>2
    <3>4. rest \in Seq(C!Event) /\ Dropped(all, lost, rest)
      BY <3>1, <3>3, TailOf
    <3> HIDE DEF rest, lost
    <3>5. Len(rest) = Len(kept)
      BY <3>3, <3>4 DEF Dropped
    <3>6. ASSUME NEW i \in 1 .. Len(kept) PROVE kept[i] = rest[i]
      <4>1. i \in 1 .. Len(all) - lost
        BY <3>3
      <4> QED BY <3>1, <3>4, <4>1 DEF Dropped, Evidence, lost
    <3>7. kept = rest
      BY <3>1, <3>4, <3>5, <3>6, SeqEqual
    <3> QED BY <3>7 DEF rest, lost, all, kept
  <2>3. ASSUME NEW ip \in DOMAIN buckets PROVE Evidence(log[ip], buckets[ip], clock)
    BY DEF Held, Tracked
  <2> QED BY <2>1, <2>2, <2>3 DEF C!EvidenceKept, Evidence
<1> QED BY <1>1, HeldHolds, PTL

-----------------------------------------------------------------------------
(* The scan for races *)

\* What is true of 0, and of i if of i - 1, is true up to n.
LEMMA Inductive ==
    ASSUME NEW n \in Nat, NEW G, 0 \in G, \A i \in 1 .. n : i - 1 \in G => i \in G
    PROVE  \A i \in 0 .. n : i \in G
<1> DEFINE Rest == {i \in 0 .. n : i \notin G}
<1>1. Rest = {}
  <2> SUFFICES ASSUME Rest # {} PROVE FALSE
    OBVIOUS
  <2>1. PICK m \in Rest : \A k \in Rest : m <= k
    <3>1. Rest \subseteq Nat
      OBVIOUS
    <3> HIDE DEF Rest
    <3> QED BY <3>1, Least
  <2>2. m \in 1 .. n /\ m - 1 \in 0 .. n /\ m - 1 \notin Rest
    BY <2>1
  <2> QED BY <2>1, <2>2
<1> QED BY <1>1

\* f starts at z and is stepped by s.
Stepped(f, n, D, z, s) ==
    /\ f \in [0 .. n -> D] /\ f[0] = z
    /\ \A i \in 1 .. n : f[i] = s[i][f[i - 1]]

\* Such a function exists.
LEMMA Iterates ==
    ASSUME NEW n \in Nat, NEW D, NEW z \in D, NEW s \in [1 .. n -> [D -> D]]
    PROVE  \E f : Stepped(f, n, D, z, s)
<1> DEFINE Steps(m) == \E f \in [0 .. m -> D] : f[0] = z /\ \A i \in 1 .. m : f[i] = s[i][f[i - 1]]
<1>1. Steps(0)
  <2>1. [i \in 0 .. 0 |-> z] \in [0 .. 0 -> D]
    OBVIOUS
  <2>2. [i \in 0 .. 0 |-> z][0] = z
    OBVIOUS
  <2>3. 1 .. 0 = {}
    OBVIOUS
  <2> QED BY <2>1, <2>2, <2>3
<1>2. ASSUME NEW m \in 1 .. n, Steps(m - 1) PROVE Steps(m)
  <2>1. PICK f \in [0 .. m - 1 -> D] : f[0] = z /\ \A i \in 1 .. m - 1 : f[i] = s[i][f[i - 1]]
    BY <1>2
  <2> DEFINE g == [i \in 0 .. m |-> IF i = m THEN s[m][f[m - 1]] ELSE f[i]]
  <2>2. f[m - 1] \in D
    BY <2>1
  <2>3. s[m][f[m - 1]] \in D
    BY <2>2
  <2>4. g \in [0 .. m -> D]
    BY <2>1, <2>3
  <2>5. \A i \in 0 .. m - 1 : g[i] = f[i]
    OBVIOUS
  <2>6. g[m] = s[m][f[m - 1]]
    OBVIOUS
  <2> HIDE DEF g
  <2>7. g[0] = z
    BY <2>1, <2>5
  <2>8. \A i \in 1 .. m : g[i] = s[i][g[i - 1]]
    BY <2>1, <2>5, <2>6
  <2> QED BY <2>4, <2>7, <2>8
<1> HIDE DEF Steps
<1>3. \A m \in 0 .. n : m \in {i \in 0 .. n : Steps(i)}
  <2> DEFINE G == {i \in 0 .. n : Steps(i)}
  <2>1. 0 \in G
    BY <1>1
  <2>2. \A i \in 1 .. n : i - 1 \in G => i \in G
    BY <1>2
  <2> HIDE DEF G
  <2>3. \A m \in 0 .. n : m \in G
    BY <2>1, <2>2, Inductive
  <2> QED BY <2>3 DEF G
<1>4. Steps(n)
  BY <1>3
<1> QED BY <1>4 DEF Steps, Stepped

\* A recursive definition over 0 .. n that a function satisfies is that function.
LEMMA Unfolds ==
    ASSUME NEW n \in Nat, NEW f, NEW g, DOMAIN f = 0 .. n, DOMAIN g = 0 .. n,
           f = [i \in 0 .. n |-> f[i]], g = [i \in 0 .. n |-> g[i]],
           f[0] = g[0], \A i \in 1 .. n : f[i - 1] = g[i - 1] => f[i] = g[i]
    PROVE  f = g
<1> DEFINE Same == {i \in 0 .. n : f[i] = g[i]}
<1>1. 0 \in Same /\ \A i \in 1 .. n : i - 1 \in Same => i \in Same
  <2>1. 0 \in Same
    OBVIOUS
  <2>2. ASSUME NEW i \in 1 .. n, i - 1 \in Same PROVE i \in Same
    <3>1. i \in 0 .. n /\ f[i] = g[i]
      BY <2>2, SMTT(60)
    <3> QED BY <3>1
  <2> QED BY <2>1, <2>2
<1>2. \A i \in 0 .. n : i \in Same
  <2> HIDE DEF Same
  <2> QED BY <1>1, Inductive
<1> QED BY <1>2

\* What a stamp is.
Time == Int

LEMMA TimeIsInt == \A t : t \in Time <=> t \in Int
BY DEF Time

\* TimesAt appends the stamp of one event of the route after another.
LEMMA StampsAppended ==
    ASSUME C!Options, NEW es \in Seq(C!Event), NEW route
    PROVE  \E f : /\ f \in [0 .. Len(es) -> Seq(Time)]
                  /\ f[0] = <<>>
                  /\ \A i \in 1 .. Len(es) :
                        f[i] = IF es[i].what.route = route THEN Append(f[i - 1], es[i].time)
                               ELSE f[i - 1]
                  /\ C!TimesAt(es, route) = f[Len(es)]
<1> DEFINE n == Len(es)
           D == Seq(Time)
           z == <<>>
           step == [i \in 1 .. n |-> [x \in D |->
                       IF es[i].what.route = route THEN Append(x, es[i].time) ELSE x]]
           Body(g) == [i \in 0 .. n |->
                          IF i = 0 THEN <<>>
                          ELSE IF es[i].what.route = route THEN Append(g[i - 1], es[i].time)
                               ELSE g[i - 1]]
           hits == CHOOSE g : g = Body(g)
<1>0. n \in Nat /\ z \in D /\ \A i \in 1 .. n : es[i].time \in Time
  <2>1. \A i \in 1 .. n : es[i] \in C!Event
    OBVIOUS
  <2> QED BY <2>1, TimeIsInt DEF C!Event
<1>1. step \in [1 .. n -> [D -> D]]
  <2>1. ASSUME NEW i \in 1 .. n, NEW x \in D
        PROVE  (IF es[i].what.route = route THEN Append(x, es[i].time) ELSE x) \in D
    BY <1>0, AppendProperties
  <2> HIDE DEF D
  <2> QED BY <2>1
<1>2. PICK f : Stepped(f, n, D, z, step)
  <2> HIDE DEF n, D, z, step
  <2> QED BY <1>0, <1>1, Iterates
<1>3. f \in [0 .. n -> D] /\ f[0] = <<>>
  BY <1>2 DEF Stepped
<1>4. ASSUME NEW i \in 1 .. n
      PROVE  f[i] = IF es[i].what.route = route THEN Append(f[i - 1], es[i].time) ELSE f[i - 1]
  <2>1. f[i] = step[i][f[i - 1]]
    BY <1>2 DEF Stepped
  <2>2. i - 1 \in 0 .. n
    <3> HIDE DEF n
    <3> QED BY <1>0
  <2>3. f[i - 1] \in D
    <3> HIDE DEF D, n
    <3> QED BY <1>3, <2>2
  <2>4. step[i] = [x \in D |-> IF es[i].what.route = route THEN Append(x, es[i].time) ELSE x]
    <3> HIDE DEF D, n
    <3> QED OBVIOUS
  <2> HIDE DEF D, n, step
  <2> QED BY <2>1, <2>3, <2>4
<1>5. f = Body(f)
  <2> HIDE DEF n, D
  <2>1. ASSUME NEW i \in 0 .. n
        PROVE  f[i] = IF i = 0 THEN <<>>
                      ELSE IF es[i].what.route = route THEN Append(f[i - 1], es[i].time)
                           ELSE f[i - 1]
    <3>1. i # 0 => i \in 1 .. n
      BY <1>0
    <3> QED BY <1>3, <1>4, <3>1
  <2>2. f = [i \in 0 .. n |-> f[i]]
    BY <1>3
  <2> QED BY <2>1, <2>2
<1>6. C!TimesAt(es, route) = hits[n]
  BY DEF C!TimesAt
<1> HIDE DEF Body
<1>7. hits = Body(hits)
  BY <1>5
<1> HIDE DEF hits
<1>8. hits = f
  <2>1. /\ DOMAIN hits = 0 .. n /\ DOMAIN f = 0 .. n
        /\ hits = [i \in 0 .. n |-> hits[i]] /\ f = [i \in 0 .. n |-> f[i]]
        /\ hits[0] = f[0]
    BY <1>0, <1>3, <1>7 DEF Body
  <2>2. ASSUME NEW i \in 1 .. n
        PROVE  hits[i] = IF es[i].what.route = route THEN Append(hits[i - 1], es[i].time)
                         ELSE hits[i - 1]
    <3> HIDE DEF n
    <3>1. i \in 0 .. n /\ i # 0
      BY <1>0
    <3>2. hits[i] = Body(hits)[i]
      BY <1>7
    <3> QED BY <3>1, <3>2 DEF Body
  <2>3. \A i \in 1 .. n : hits[i - 1] = f[i - 1] => hits[i] = f[i]
    BY <1>4, <2>2
  <2> HIDE DEF n
  <2> QED BY <1>0, <2>1, <2>3, Unfolds
<1> QED BY <1>3, <1>4, <1>6, <1>8

Ascends(s) == \A i, j \in 1 .. Len(s) : i < j => s[i] <= s[j]

\* The stamps of the first n events that are of the route, in their order.
Gathers(es, route, n, ts) ==
    /\ ts \in Seq(Time)
    /\ \A j \in 1 .. Len(ts) : \E i \in 1 .. n : es[i].what.route = route /\ es[i].time = ts[j]
    /\ \A i \in 1 .. n : es[i].what.route = route => \E j \in 1 .. Len(ts) : ts[j] = es[i].time
    /\ C!Sorted(es) => Ascends(ts)

LEMMA Gathered ==
    ASSUME C!Options, NEW es \in Seq(C!Event), NEW route
    PROVE  Gathers(es, route, Len(es), C!TimesAt(es, route))
<1> DEFINE len == Len(es)
<1>0. len \in Nat /\ DOMAIN es = 1 .. len /\ \A i \in 1 .. len : es[i].time \in Time
  <2>1. \A i \in 1 .. len : es[i] \in C!Event
    OBVIOUS
  <2> QED BY <2>1, TimeIsInt DEF C!Event
<1>1. PICK f : /\ f \in [0 .. len -> Seq(Time)]
               /\ f[0] = <<>>
               /\ \A i \in 1 .. len :
                     f[i] = IF es[i].what.route = route THEN Append(f[i - 1], es[i].time)
                            ELSE f[i - 1]
               /\ C!TimesAt(es, route) = f[len]
  BY StampsAppended
<1> DEFINE G == {n \in 0 .. len : Gathers(es, route, n, f[n])}
<1>2. 0 \in G
  <2>1. <<>> \in Seq(Time) /\ Len(<<>>) = 0 /\ 1 .. 0 = {}
    OBVIOUS
  <2> QED BY <1>0, <1>1, <2>1 DEF Gathers, Ascends
<1>3. ASSUME NEW n \in 1 .. len, n - 1 \in G PROVE n \in G
  <2> DEFINE old == f[n - 1]
             new == f[n]
  <2>1. Gathers(es, route, n - 1, old) /\ n \in 0 .. len /\ es[n].time \in Time
    BY <1>0, <1>3
  <2>2. new = IF es[n].what.route = route THEN Append(old, es[n].time) ELSE old
    BY <1>1
  <2> HIDE DEF old, new
  <2>3. old \in Seq(Time) /\ Len(old) \in Nat
    BY <2>1 DEF Gathers
  <2>4. \A i \in 1 .. n - 1 : i \in 1 .. n /\ i \in 1 .. len
    BY <1>0
  <2>5. CASE es[n].what.route # route
    <3>1. new = old
      BY <2>2, <2>5
    <3>2. \A i \in 1 .. n : es[i].what.route = route => i \in 1 .. n - 1
      BY <1>0, <2>5
    <3>3. Gathers(es, route, n, new)
      BY <2>1, <2>4, <3>1, <3>2 DEF Gathers
    <3> QED BY <2>1, <3>3 DEF new
  <2>6. CASE es[n].what.route = route
    <3>1. /\ new \in Seq(Time) /\ Len(new) = Len(old) + 1
          /\ \A j \in 1 .. Len(old) : new[j] = old[j]
          /\ new[Len(old) + 1] = es[n].time
      BY <2>1, <2>2, <2>3, <2>6, AppendProperties
    <3>2. ASSUME NEW j \in 1 .. Len(new)
          PROVE  \E i \in 1 .. n : es[i].what.route = route /\ es[i].time = new[j]
      <4>1. CASE j = Len(old) + 1
        BY <1>0, <2>6, <3>1, <4>1
      <4>2. CASE j # Len(old) + 1
        <5>1. j \in 1 .. Len(old)
          BY <2>3, <3>1, <4>2
        <5>2. PICK i \in 1 .. n - 1 : es[i].what.route = route /\ es[i].time = old[j]
          BY <2>1, <5>1 DEF Gathers
        <5> QED BY <2>4, <3>1, <5>1, <5>2
      <4> QED BY <4>1, <4>2
    <3>3. ASSUME NEW i \in 1 .. n, es[i].what.route = route
          PROVE  \E j \in 1 .. Len(new) : new[j] = es[i].time
      <4>1. CASE i = n
        <5>1. Len(old) + 1 \in 1 .. Len(new)
          BY <2>3, <3>1
        <5> QED BY <3>1, <4>1, <5>1
      <4>2. CASE i # n
        <5>1. i \in 1 .. n - 1
          BY <1>0, <4>2
        <5>2. PICK j \in 1 .. Len(old) : old[j] = es[i].time
          BY <2>1, <3>3, <5>1 DEF Gathers
        <5>3. j \in 1 .. Len(new) /\ new[j] = es[i].time
          BY <2>3, <3>1, <5>2
        <5> QED BY <5>3
      <4> QED BY <4>1, <4>2
    <3>4. ASSUME C!Sorted(es), NEW i \in 1 .. Len(new), NEW j \in 1 .. Len(new), i < j
          PROVE  new[i] <= new[j]
      <4>1. i \in 1 .. Len(old) /\ new[i] = old[i]
        BY <2>3, <3>1, <3>4
      <4>2. CASE j = Len(old) + 1
        <5>1. PICK k \in 1 .. n - 1 : es[k].time = old[i]
          BY <2>1, <4>1 DEF Gathers
        <5>2. k \in DOMAIN es /\ n \in DOMAIN es /\ k < n
          BY <1>0
        <5>3. es[k].time <= es[n].time
          BY <3>4, <5>2 DEF C!Sorted
        <5> QED BY <3>1, <4>1, <4>2, <5>1, <5>3
      <4>3. CASE j # Len(old) + 1
        <5>1. j \in 1 .. Len(old) /\ new[j] = old[j]
          BY <2>3, <3>1, <4>3
        <5> QED BY <2>1, <3>4, <4>1, <5>1 DEF Gathers, Ascends
      <4> QED BY <4>2, <4>3
    <3>5. Gathers(es, route, n, new)
      BY <3>1, <3>2, <3>3, <3>4 DEF Gathers, Ascends
    <3> QED BY <2>1, <3>5 DEF new
  <2> QED BY <2>5, <2>6
<1>4. len \in G
  <2> HIDE DEF G, len
  <2>1. len \in 0 .. len
    BY <1>0
  <2> QED BY <1>0, <1>2, <1>3, <2>1, Inductive
<1> QED BY <1>1, <1>4

Pointer == [a : Nat \ {0}, b : Nat \ {0}]

\* The two pointers are moved once after another.
LEMMA PointersMove ==
    ASSUME C!Options, NEW xs \in Seq(Time), NEW ys \in Seq(Time)
    PROVE  /\ C!Pointers(xs, ys) \in [0 .. Len(xs) + Len(ys) -> Pointer]
           /\ C!Pointers(xs, ys)[0] = [a |-> 1, b |-> 1]
           /\ \A i \in 1 .. Len(xs) + Len(ys) :
                 C!Pointers(xs, ys)[i] = C!Moved(xs, ys, C!Pointers(xs, ys)[i - 1])
<1> DEFINE n == Len(xs) + Len(ys)
           D == Pointer
           z == [a |-> 1, b |-> 1]
           M(p) == C!Moved(xs, ys, p)
           step == [i \in 1 .. n |-> [p \in D |-> M(p)]]
           Body(g) == [i \in 0 .. n |-> IF i = 0 THEN z ELSE M(g[i - 1])]
           at == C!Pointers(xs, ys)
<1>0. n \in Nat /\ z \in D
  BY DEF Pointer
<1>1. \A p \in D : M(p) \in D
  BY DEF Pointer, C!Moved
<1>2. at = CHOOSE g : g = Body(g)
  BY DEF C!Pointers
<1> HIDE DEF n, D, z, M, at
<1>3. step \in [1 .. n -> [D -> D]]
  BY <1>1
<1>4. PICK f : Stepped(f, n, D, z, step)
  <2> HIDE DEF step
  <2> QED BY <1>0, <1>3, Iterates
<1>5. f \in [0 .. n -> D] /\ f[0] = z
  BY <1>4 DEF Stepped
<1>6. ASSUME NEW i \in 1 .. n PROVE f[i] = M(f[i - 1])
  <2>1. f[i] = step[i][f[i - 1]]
    BY <1>4 DEF Stepped
  <2>2. i - 1 \in 0 .. n
    BY <1>0
  <2>3. f[i - 1] \in D
    BY <1>5, <2>2
  <2>4. step[i] = [p \in D |-> M(p)]
    OBVIOUS
  <2> HIDE DEF step
  <2> QED BY <2>1, <2>3, <2>4
<1>7. f = Body(f)
  <2>1. ASSUME NEW i \in 0 .. n PROVE f[i] = IF i = 0 THEN z ELSE M(f[i - 1])
    <3>1. i # 0 => i \in 1 .. n
      BY <1>0
    <3> QED BY <1>5, <1>6, <3>1
  <2>2. f = [i \in 0 .. n |-> f[i]]
    BY <1>5
  <2> QED BY <2>1, <2>2
<1> HIDE DEF Body
<1>8. at = Body(at)
  BY <1>2, <1>7
<1>9. at = f
  <2>1. /\ DOMAIN at = 0 .. n /\ DOMAIN f = 0 .. n
        /\ at = [i \in 0 .. n |-> at[i]] /\ f = [i \in 0 .. n |-> f[i]]
        /\ at[0] = f[0]
    BY <1>0, <1>5, <1>8 DEF Body
  <2>2. ASSUME NEW i \in 1 .. n PROVE at[i] = M(at[i - 1])
    <3>1. i \in 0 .. n /\ i # 0
      BY <1>0
    <3>2. at[i] = Body(at)[i]
      BY <1>8
    <3> QED BY <3>1, <3>2 DEF Body
  <2>3. \A i \in 1 .. n : at[i - 1] = f[i - 1] => at[i] = f[i]
    BY <1>6, <2>2
  <2> QED BY <1>0, <2>1, <2>3, Unfolds
<1> QED BY <1>5, <1>6, <1>9 DEF n, D, z, M, at

\* The scan is over at p.
Ended(xs, ys, p) == p.a > Len(xs) \/ p.b > Len(ys) \/ C!Close(xs[p.a], ys[p.b])

\* As long as it is not, a pointer moves in each iteration.
InStep(xs, ys, n, p) ==
    /\ p.a \in 1 .. Len(xs) + 1 /\ p.b \in 1 .. Len(ys) + 1
    /\ Ended(xs, ys, p) \/ p.a + p.b = n + 2

\* The scan has not passed x or y.
Before(x, y, p) == p.a <= x /\ p.b <= y

LEMMA MovesInStep ==
    ASSUME NEW xs \in Seq(Time), NEW ys \in Seq(Time), NEW n \in Nat \ {0}, NEW p \in Pointer,
           InStep(xs, ys, n - 1, p)
    PROVE  InStep(xs, ys, n, C!Moved(xs, ys, p))
<1>0. Len(xs) \in Nat /\ Len(ys) \in Nat /\ p.a \in Nat /\ p.b \in Nat
  BY DEF Pointer
<1>1. CASE Ended(xs, ys, p)
  BY <1>1 DEF Ended, C!Moved, InStep
<1>2. CASE ~Ended(xs, ys, p)
  <2> DEFINE q == C!Moved(xs, ys, p)
  <2>1. p.a <= Len(xs) /\ p.b <= Len(ys) /\ p.a + p.b = n + 1 /\ p.a >= 1 /\ p.b >= 1
    BY <1>0, <1>2 DEF Ended, InStep
  <2>2. \/ q = [p EXCEPT !.a = @ + 1]
        \/ q = [p EXCEPT !.b = @ + 1]
    BY <1>2 DEF Ended, C!Moved
  <2>3. \/ q.a = p.a + 1 /\ q.b = p.b
        \/ q.a = p.a /\ q.b = p.b + 1
    BY <2>2 DEF Pointer
  <2> HIDE DEF q
  <2>4. q.a \in 1 .. Len(xs) + 1 /\ q.b \in 1 .. Len(ys) + 1 /\ q.a + q.b = n + 2
    <3>1. CASE q.a = p.a + 1 /\ q.b = p.b
      BY <1>0, <2>1, <3>1, SMTT(60)
    <3>2. CASE q.a = p.a /\ q.b = p.b + 1
      BY <1>0, <2>1, <3>2, SMTT(60)
    <3> QED BY <2>3, <3>1, <3>2
  <2> QED BY <2>4 DEF InStep, q
<1> QED BY <1>1, <1>2

\* A pointer that passes x has left behind everything close to xs[x] (and the
\* other one to ys[y]): the stamps ascend.
LEMMA MovesBefore ==
    ASSUME C!Options, NEW xs \in Seq(Time), NEW ys \in Seq(Time), NEW p \in Pointer,
           Ascends(xs), Ascends(ys),
           NEW x \in 1 .. Len(xs), NEW y \in 1 .. Len(ys), C!Close(xs[x], ys[y]),
           Before(x, y, p)
    PROVE  Before(x, y, C!Moved(xs, ys, p))
<1> DEFINE q == C!Moved(xs, ys, p)
<1>0. /\ p.a \in 1 .. Len(xs) /\ p.b \in 1 .. Len(ys) /\ p.a <= x /\ p.b <= y
      /\ Len(xs) \in Nat /\ Len(ys) \in Nat /\ raceWindow \in Nat
  BY Positive DEF Before, Pointer
<1>1. xs[x] \in Int /\ ys[y] \in Int /\ xs[p.a] \in Int /\ ys[p.b] \in Int
  <2>1. xs[x] \in Time /\ ys[y] \in Time
    OBVIOUS
  <2>2. xs[p.a] \in Time /\ ys[p.b] \in Time
    BY <1>0
  <2> QED BY <2>1, <2>2, TimeIsInt
<1>2. xs[p.a] <= xs[x] /\ ys[p.b] <= ys[y]
  <2>1. p.a < x \/ p.a = x
    BY <1>0
  <2>2. p.b < y \/ p.b = y
    BY <1>0
  <2> QED BY <1>0, <1>1, <2>1, <2>2, SMTT(60) DEF Ascends
<1>3. CASE C!Close(xs[p.a], ys[p.b])
  BY <1>3 DEF C!Moved
<1>4. CASE ~C!Close(xs[p.a], ys[p.b]) /\ xs[p.a] < ys[p.b]
  <2>1. q = [p EXCEPT !.a = @ + 1]
    BY <1>0, <1>4 DEF C!Moved, C!Advance
  <2>2. q.a = p.a + 1 /\ q.b = p.b
    BY <2>1 DEF Pointer
  <2>3. p.a # x
    <3> SUFFICES ASSUME p.a = x PROVE FALSE
      OBVIOUS
    <3>1. ys[p.b] - xs[x] > raceWindow
      BY <1>0, <1>1, <1>4 DEF C!Close
    <3>2. ys[y] - xs[x] <= raceWindow
      BY <1>0, <1>1 DEF C!Close
    <3> QED BY <1>0, <1>1, <1>2, <3>1, <3>2
  <2> QED BY <1>0, <2>2, <2>3 DEF Before
<1>5. CASE ~C!Close(xs[p.a], ys[p.b]) /\ ~(xs[p.a] < ys[p.b])
  <2>1. q = [p EXCEPT !.b = @ + 1]
    BY <1>0, <1>5 DEF C!Moved, C!Advance
  <2>2. q.a = p.a /\ q.b = p.b + 1
    BY <2>1 DEF Pointer
  <2>3. p.b # y
    <3> SUFFICES ASSUME p.b = y PROVE FALSE
      OBVIOUS
    <3>1. xs[p.a] - ys[y] > raceWindow
      BY <1>0, <1>1, <1>5, SMTT(60) DEF C!Close
    <3>2. xs[x] - ys[y] <= raceWindow
      BY <1>0, <1>1 DEF C!Close
    <3> QED BY <1>0, <1>1, <1>2, <3>1, <3>2
  <2> QED BY <1>0, <2>2, <2>3 DEF Before
<1> QED BY <1>3, <1>4, <1>5

\* The scan is over after as many iterations as there are stamps.
LEMMA ScanEnds ==
    ASSUME C!Options, NEW xs \in Seq(Time), NEW ys \in Seq(Time)
    PROVE  Ended(xs, ys, C!Pointers(xs, ys)[Len(xs) + Len(ys)])
<1> DEFINE n == Len(xs) + Len(ys)
           at == C!Pointers(xs, ys)
           last == at[n]
           G == {i \in 0 .. n : InStep(xs, ys, i, at[i])}
<1>0. n \in Nat /\ Len(xs) \in Nat /\ Len(ys) \in Nat
  OBVIOUS
<1>1. /\ at \in [0 .. n -> Pointer] /\ at[0] = [a |-> 1, b |-> 1]
      /\ \A i \in 1 .. n : at[i] = C!Moved(xs, ys, at[i - 1])
  BY PointersMove
<1> HIDE DEF at
<1>2. last \in Pointer /\ n \in 0 .. n
  BY <1>0, <1>1
<1>3. 0 \in G
  BY <1>0, <1>1 DEF InStep
<1>4. ASSUME NEW i \in 1 .. n, i - 1 \in G PROVE i \in G
  <2>1. i \in Nat \ {0} /\ i \in 0 .. n /\ i - 1 \in 0 .. n
    BY <1>0
  <2>2. at[i - 1] \in Pointer /\ InStep(xs, ys, i - 1, at[i - 1])
    BY <1>1, <1>4, <2>1
  <2> QED BY <1>1, <2>1, <2>2, MovesInStep
<1>5. n \in G
  <2> HIDE DEF n, G
  <2> QED BY <1>0, <1>2, <1>3, <1>4, Inductive
<1>6. InStep(xs, ys, n, last)
  BY <1>5
<1> HIDE DEF last
<1>7. Ended(xs, ys, last)
  BY <1>0, <1>2, <1>6 DEF InStep, Ended, Pointer
<1> QED BY <1>7 DEF last, at

\* The scan of two lists of stamps finds only stamps that are close, and finds
\* some when there are some and both lists ascend.
LEMMA ScanExact ==
    ASSUME C!Options, NEW xs \in Seq(Time), NEW ys \in Seq(Time)
    PROVE  /\ C!TwoPointers(xs, ys) =>
                \E x \in 1 .. Len(xs), y \in 1 .. Len(ys) : C!Close(xs[x], ys[y])
           /\ Ascends(xs) /\ Ascends(ys) =>
                \A x \in 1 .. Len(xs), y \in 1 .. Len(ys) :
                   C!Close(xs[x], ys[y]) => C!TwoPointers(xs, ys)
<1> DEFINE n == Len(xs) + Len(ys)
           at == C!Pointers(xs, ys)
           last == at[n]
<1>0. n \in Nat /\ Len(xs) \in Nat /\ Len(ys) \in Nat
  OBVIOUS
<1>1. /\ at \in [0 .. n -> Pointer] /\ at[0] = [a |-> 1, b |-> 1]
      /\ \A i \in 1 .. n : at[i] = C!Moved(xs, ys, at[i - 1])
  BY PointersMove
<1>2. C!TwoPointers(xs, ys) <=> last.a <= Len(xs) /\ last.b <= Len(ys)
  BY DEF C!TwoPointers
<1> HIDE DEF at
<1>3. last \in Pointer /\ n \in 0 .. n
  BY <1>0, <1>1
<1>4. Ended(xs, ys, last)
  BY ScanEnds DEF at
<1>5. ASSUME C!TwoPointers(xs, ys)
      PROVE  \E x \in 1 .. Len(xs), y \in 1 .. Len(ys) : C!Close(xs[x], ys[y])
  <2> HIDE DEF last
  <2>1. last.a \in 1 .. Len(xs) /\ last.b \in 1 .. Len(ys)
    BY <1>0, <1>2, <1>3, <1>5 DEF Pointer
  <2>2. C!Close(xs[last.a], ys[last.b])
    BY <1>0, <1>4, <2>1 DEF Ended
  <2> QED BY <2>1, <2>2
<1>6. ASSUME Ascends(xs), Ascends(ys),
             NEW x \in 1 .. Len(xs), NEW y \in 1 .. Len(ys), C!Close(xs[x], ys[y])
      PROVE  C!TwoPointers(xs, ys)
  <2> DEFINE G == {i \in 0 .. n : Before(x, y, at[i])}
  <2>1. 0 \in G
    BY <1>0, <1>1 DEF Before
  <2>2. ASSUME NEW i \in 1 .. n, i - 1 \in G PROVE i \in G
    <3>1. i \in 0 .. n /\ i - 1 \in 0 .. n
      BY <1>0
    <3>2. at[i - 1] \in Pointer /\ Before(x, y, at[i - 1])
      BY <1>1, <2>2, <3>1
    <3>3. Before(x, y, C!Moved(xs, ys, at[i - 1]))
      BY <1>6, <3>2, MovesBefore
    <3> QED BY <1>1, <3>1, <3>3
  <2>3. n \in G
    <3> HIDE DEF n, G
    <3> QED BY <1>0, <1>3, <2>1, <2>2, Inductive
  <2>4. Before(x, y, last)
    BY <2>3
  <2> HIDE DEF last
  <2> QED BY <1>0, <1>2, <1>3, <2>4 DEF Before, Pointer
<1> QED BY <1>5, <1>6

\* racePairInBucket never invents a race, and finds every one in a bucket whose
\* stamps are in order: for every bucket that Record and the detections can
\* leave, every pair and every width of the race window.
THEOREM RaceScansExact == C!Spec => []RaceScanExact
<1>0. C!Options
  BY SharedOptions
<1> USE <1>0
<1>1. Held => RaceScanExact
  <2> SUFFICES ASSUME Held, NEW ip \in DOMAIN buckets, NEW pair \in RacePair
               PROVE  /\ C!RacePairInBucket(buckets[ip], pair) => C!InRace(buckets[ip], pair)
                      /\ C!Sorted(buckets[ip]) /\ C!InRace(buckets[ip], pair) =>
                            C!RacePairInBucket(buckets[ip], pair)
    BY DEF RaceScanExact, C!RaceScanExact
  <2> DEFINE es == buckets[ip]
             xs == C!TimesAt(es, pair[1])
             ys == C!TimesAt(es, pair[2])
  <2>1. es \in Seq(C!Event)
    BY DEF Held, Tracked
  <2> HIDE DEF es
  <2>2. Gathers(es, pair[1], Len(es), xs) /\ Gathers(es, pair[2], Len(es), ys)
    BY <2>1, Gathered
  <2>3. DOMAIN es = 1 .. Len(es)
    BY <2>1
  <2>4. C!RacePairInBucket(es, pair) <=> pair[1] # pair[2] /\ C!TwoPointers(xs, ys)
    BY DEF C!RacePairInBucket
  <2> HIDE DEF xs, ys
  <2>5. xs \in Seq(Time) /\ ys \in Seq(Time)
    BY <2>2 DEF Gathers
  <2>6. ASSUME C!RacePairInBucket(es, pair) PROVE C!InRace(es, pair)
    <3>1. PICK x \in 1 .. Len(xs), y \in 1 .. Len(ys) : C!Close(xs[x], ys[y])
      BY <2>4, <2>5, <2>6, ScanExact
    <3>2. PICK i \in 1 .. Len(es) : es[i].what.route = pair[1] /\ es[i].time = xs[x]
      BY <2>2 DEF Gathers
    <3>3. PICK j \in 1 .. Len(es) : es[j].what.route = pair[2] /\ es[j].time = ys[y]
      BY <2>2 DEF Gathers
    <3>4. C!Close(es[i].time, es[j].time)
      BY <3>1, <3>2, <3>3
    <3> QED BY <2>3, <2>4, <2>6, <3>2, <3>3, <3>4 DEF C!InRace
  <2>7. ASSUME C!Sorted(es), C!InRace(es, pair) PROVE C!RacePairInBucket(es, pair)
    <3>1. PICK i \in 1 .. Len(es), j \in 1 .. Len(es) :
             /\ es[i].what.route = pair[1] /\ es[j].what.route = pair[2]
             /\ C!Close(es[i].time, es[j].time)
      BY <2>3, <2>7 DEF C!InRace
    <3>2. PICK x \in 1 .. Len(xs) : xs[x] = es[i].time
      BY <2>2, <3>1 DEF Gathers
    <3>3. PICK y \in 1 .. Len(ys) : ys[y] = es[j].time
      BY <2>2, <3>1 DEF Gathers
    <3>4. C!Close(xs[x], ys[y])
      BY <3>1, <3>2, <3>3
    <3>5. Ascends(xs) /\ Ascends(ys)
      BY <2>2, <2>7 DEF Gathers
    <3>6. C!TwoPointers(xs, ys)
      BY <2>5, <3>4, <3>5, ScanExact
    <3> QED BY <2>4, <2>7, <3>6 DEF C!InRace
  <2> QED BY <2>6, <2>7 DEF es
<1> QED BY <1>1, HeldHolds, PTL

-----------------------------------------------------------------------------
(* Alarms *)

\* What n events are mapped to is a finite set, ...
LEMMA FiniteKinds ==
    ASSUME NEW n \in Nat, NEW g
    PROVE  IsFiniteSet({g[i] : i \in 1 .. n})
<1> DEFINE T == {g[i] : i \in 1 .. n}
           f == [i \in 1 .. n |-> g[i]]
<1>1. IsFiniteSet(1 .. n)
  BY FS_Interval
<1>2. f \in Surjection(1 .. n, T)
  BY DEF Surjection
<1>3. IsFiniteSet(T)
  <2> HIDE DEF f, T
  <2> QED BY <1>1, <1>2, FS_Surjection
<1> QED BY <1>3

\* ... and a subset of that is no larger.
LEMMA FewerKinds ==
    ASSUME NEW T, IsFiniteSet(T), NEW S, S \subseteq T
    PROVE  /\ C!Cardinality(S) <= C!Cardinality(T)
           /\ C!Cardinality(S) \in Nat /\ C!Cardinality(T) \in Nat
<1>1. IsFiniteSet(S) /\ Cardinality(S) <= Cardinality(T)
  BY FS_Subset
<1>2. Cardinality(S) \in Nat /\ Cardinality(T) \in Nat
  BY <1>1, FS_CardinalityType
<1> QED BY <1>1, <1>2 DEF C!Cardinality, Cardinality

\* More events of an IP make it no less of a scanner, ...
LEMMA ScannerLasts ==
    ASSUME C!Options, NEW es \in Seq(C!Event), NEW e \in C!Event, C!IsScanner(es)
    PROVE  C!IsScanner(Append(es, e))
<1> DEFINE more == Append(es, e)
           g == [i \in 1 .. Len(es) + 1 |-> more[i].what.vector]
           S == {es[i].what.vector : i \in 1 .. Len(es)}
           T == {g[i] : i \in 1 .. Len(es) + 1}
<1>1. /\ more \in Seq(C!Event) /\ Len(more) = Len(es) + 1 /\ Len(es) \in Nat
      /\ \A i \in 1 .. Len(es) : more[i] = es[i]
  BY AppendProperties
<1>2. DOMAIN more = 1 .. Len(es) + 1 /\ DOMAIN es = 1 .. Len(es)
  BY <1>1
<1>3. S \subseteq T
  <2> HIDE DEF more
  <2>1. \A i \in 1 .. Len(es) : i \in 1 .. Len(es) + 1 /\ g[i] = es[i].what.vector
    BY <1>1
  <2> HIDE DEF g
  <2> QED BY <2>1
<1>4. T = {more[i].what.vector : i \in 1 .. Len(es) + 1}
  OBVIOUS
<1>5. C!Cardinality(S) <= C!Cardinality(T) /\ C!Cardinality(S) \in Nat /\ C!Cardinality(T) \in Nat
  <2>1. Len(es) + 1 \in Nat
    BY <1>1
  <2> HIDE DEF g, S
  <2>2. IsFiniteSet(T)
    BY <2>1, FiniteKinds
  <2> HIDE DEF T
  <2> QED BY <1>3, <2>2, FewerKinds
<1> HIDE DEF more, S, T
<1>6. Len(es) >= scannerMinRequests /\ C!Cardinality(S) >= scannerDistinct
  BY <1>2 DEF C!IsScanner, S
<1>7. scannerDistinct \in Nat /\ scannerMinRequests \in Nat
  BY DEF C!Options
<1>8. Len(more) >= scannerMinRequests /\ C!Cardinality(T) >= scannerDistinct
  BY <1>1, <1>5, <1>6, <1>7
<1>9. C!IsScanner(more)
  BY <1>2, <1>4, <1>8 DEF C!IsScanner
<1> QED BY <1>9 DEF more

\* ... no less of a stuffer of credentials ...
LEMMA StuffingLasts ==
    ASSUME C!Options, NEW es \in Seq(C!Event), NEW e \in C!Event, NEW route,
           C!IsCredentialStuffing(es, route)
    PROVE  C!IsCredentialStuffing(Append(es, e), route)
<1> DEFINE more == Append(es, e)
           all == [i \in 1 .. Len(es) + 1 |-> more[i].what.value]
           S == C!ValuesAt(es, route)
           T == C!ValuesAt(more, route)
           A == {all[i] : i \in 1 .. Len(es) + 1}
<1>1. /\ more \in Seq(C!Event) /\ Len(more) = Len(es) + 1 /\ Len(es) \in Nat
      /\ \A i \in 1 .. Len(es) : more[i] = es[i]
  BY AppendProperties
<1>2. DOMAIN more = 1 .. Len(es) + 1 /\ DOMAIN es = 1 .. Len(es)
  BY <1>1
<1> HIDE DEF more
<1>3. S \subseteq T
  <2>1. \A i \in DOMAIN es : i \in DOMAIN more /\ more[i] = es[i]
    BY <1>1, <1>2
  <2> QED BY <2>1 DEF C!ValuesAt
<1>4. T \subseteq A
  BY <1>2 DEF C!ValuesAt
<1>5. IsFiniteSet(T)
  <2>1. Len(es) + 1 \in Nat
    BY <1>1
  <2> HIDE DEF all, T
  <2>2. IsFiniteSet(A)
    BY <2>1, FiniteKinds
  <2> HIDE DEF A
  <2> QED BY <1>4, <2>2, FS_Subset
<1>6. C!Cardinality(S) <= C!Cardinality(T) /\ C!Cardinality(S) \in Nat /\ C!Cardinality(T) \in Nat
  <2> HIDE DEF S, T
  <2> QED BY <1>3, <1>5, FewerKinds
<1> HIDE DEF S, T
<1>7. credStuffDistinct \in Nat
  BY DEF C!Options
<1>8. C!Cardinality(S) >= credStuffDistinct
  BY DEF C!IsCredentialStuffing, S
<1>9. C!Cardinality(T) >= credStuffDistinct
  BY <1>6, <1>7, <1>8
<1> QED BY <1>9 DEF C!IsCredentialStuffing, T, more

\* One more event appends its stamp, when it is of the route.
LEMMA StampsGrow ==
    ASSUME C!Options, NEW es \in Seq(C!Event), NEW e \in C!Event, NEW route
    PROVE  Heads(C!TimesAt(es, route), C!TimesAt(Append(es, e), route))
<1> DEFINE more == Append(es, e)
           len == Len(es)
<1>1. /\ more \in Seq(C!Event) /\ Len(more) = len + 1 /\ len \in Nat
      /\ \A i \in 1 .. len : more[i] = es[i]
      /\ more[len + 1] = e
  BY AppendProperties
<1> HIDE DEF more
<1>2. PICK f : /\ f \in [0 .. len -> Seq(Time)]
               /\ f[0] = <<>>
               /\ \A i \in 1 .. len :
                     f[i] = IF es[i].what.route = route THEN Append(f[i - 1], es[i].time)
                            ELSE f[i - 1]
               /\ C!TimesAt(es, route) = f[len]
  BY StampsAppended
<1>3. PICK g : /\ g \in [0 .. Len(more) -> Seq(Time)]
               /\ g[0] = <<>>
               /\ \A i \in 1 .. Len(more) :
                     g[i] = IF more[i].what.route = route THEN Append(g[i - 1], more[i].time)
                            ELSE g[i - 1]
               /\ C!TimesAt(more, route) = g[Len(more)]
  BY <1>1, StampsAppended
<1> DEFINE G == {i \in 0 .. len : f[i] = g[i]}
<1>4. 0 \in G
  BY <1>1, <1>2, <1>3
<1>5. ASSUME NEW i \in 1 .. len, i - 1 \in G PROVE i \in G
  <2>1. i \in 0 .. len /\ i \in 1 .. Len(more) /\ more[i] = es[i] /\ f[i - 1] = g[i - 1]
    BY <1>1, <1>5
  <2>2. f[i] = g[i]
    BY <1>2, <1>3, <2>1
  <2> QED BY <2>1, <2>2
<1>6. f[len] = g[len]
  <2>1. len \in 0 .. len
    BY <1>1
  <2>2. len \in G
    <3> HIDE DEF G, len
    <3> QED BY <1>1, <1>4, <1>5, <2>1, Inductive
  <2> QED BY <2>2
<1> DEFINE old == f[len]
           new == g[len + 1]
<1>7. old \in Seq(Time) /\ Len(old) \in Nat
  <2>1. len \in 0 .. len
    BY <1>1
  <2>2. old \in Seq(Time)
    BY <1>2, <2>1
  <2> HIDE DEF old
  <2> QED BY <2>2
<1>8. new = old \/ new = Append(old, e.time)
  <2>1. len + 1 \in 1 .. Len(more) /\ len + 1 - 1 = len
    BY <1>1
  <2>2. new = IF more[len + 1].what.route = route THEN Append(g[len + 1 - 1], more[len + 1].time)
              ELSE g[len + 1 - 1]
    BY <1>3, <2>1
  <2>3. g[len + 1 - 1] = old /\ more[len + 1] = e
    BY <1>1, <1>6, <2>1
  <2> HIDE DEF old, new
  <2> QED BY <2>2, <2>3
<1>9. C!TimesAt(es, route) = old /\ C!TimesAt(more, route) = new
  BY <1>1, <1>2, <1>3
<1> HIDE DEF old, new
<1>10. e.time \in Time
  BY TimeIsInt DEF C!Event
<1>11. CASE new = old
  BY <1>7, <1>9, <1>11 DEF Heads, more
<1>12. CASE new = Append(old, e.time)
  <2>1. /\ Len(new) = Len(old) + 1
        /\ \A i \in 1 .. Len(old) : new[i] = old[i]
    BY <1>7, <1>10, <1>12, AppendProperties
  <2>2. Len(old) <= Len(new)
    BY <1>7, <2>1
  <2> QED BY <1>9, <2>1, <2>2 DEF Heads, more
<1> QED BY <1>8, <1>11, <1>12

\* A scan that finds a race finds it when stamps follow, too.
LEMMA ScanLasts ==
    ASSUME C!Options, NEW xs \in Seq(Time), NEW ys \in Seq(Time),
           NEW us \in Seq(Time), NEW vs \in Seq(Time), Heads(xs, us), Heads(ys, vs),
           C!TwoPointers(xs, ys)
    PROVE  C!TwoPointers(us, vs)
<1> DEFINE n == Len(xs) + Len(ys)
           m == Len(us) + Len(vs)
           at == C!Pointers(xs, ys)
           on == C!Pointers(us, vs)
           last == at[n]
           Out(p) == p.a > Len(xs) \/ p.b > Len(ys)
<1>0. /\ n \in Nat /\ m \in Nat /\ n <= m /\ Len(xs) \in Nat /\ Len(ys) \in Nat
      /\ Len(us) \in Nat /\ Len(vs) \in Nat /\ Len(xs) <= Len(us) /\ Len(ys) <= Len(vs)
  BY DEF Heads
<1>1. /\ at \in [0 .. n -> Pointer] /\ at[0] = [a |-> 1, b |-> 1]
      /\ \A i \in 1 .. n : at[i] = C!Moved(xs, ys, at[i - 1])
  BY PointersMove
<1>2. /\ on \in [0 .. m -> Pointer] /\ on[0] = [a |-> 1, b |-> 1]
      /\ \A i \in 1 .. m : on[i] = C!Moved(us, vs, on[i - 1])
  BY PointersMove
<1>3. /\ C!TwoPointers(xs, ys) <=> last.a <= Len(xs) /\ last.b <= Len(ys)
      /\ C!TwoPointers(us, vs) <=> on[m].a <= Len(us) /\ on[m].b <= Len(vs)
  BY DEF C!TwoPointers
<1> HIDE DEF at, on, n, m
<1>4. last \in Pointer /\ n \in 0 .. n /\ m \in 0 .. m /\ n \in 0 .. m
  BY <1>0, <1>1
<1>5. ~Out(last)
  BY <1>0, <1>3, <1>4 DEF Pointer
\* Up to n, the longer scan goes as the shorter one does while that is in bounds.
<1>6. on[n] = last
  <2> DEFINE G == {i \in 0 .. n : on[i] = at[i] \/ Out(at[i])}
  <2>1. 0 \in G
    BY <1>0, <1>1, <1>2
  <2>2. ASSUME NEW i \in 1 .. n, i - 1 \in G PROVE i \in G
    <3> DEFINE p == at[i - 1]
    <3>1. i \in 0 .. n /\ i \in 1 .. m /\ i - 1 \in 0 .. n
      BY <1>0
    <3>2. at[i] = C!Moved(xs, ys, p) /\ on[i] = C!Moved(us, vs, on[i - 1]) /\ p \in Pointer
      BY <1>1, <1>2, <3>1
    <3>3. on[i - 1] = p \/ Out(p)
      BY <2>2
    <3> HIDE DEF p
    <3>4. CASE Out(p)
      <4>1. at[i] = p
        BY <3>2, <3>4 DEF C!Moved
      <4> QED BY <3>1, <3>4, <4>1
    <3>5. CASE ~Out(p)
      <4>1. p.a \in 1 .. Len(xs) /\ p.b \in 1 .. Len(ys) /\ p.a <= Len(us) /\ p.b <= Len(vs)
        BY <1>0, <3>2, <3>5 DEF Pointer
      <4>2. us[p.a] = xs[p.a] /\ vs[p.b] = ys[p.b]
        BY <4>1 DEF Heads
      <4>3. ~(p.a > Len(xs)) /\ ~(p.b > Len(ys)) /\ ~(p.a > Len(us)) /\ ~(p.b > Len(vs))
        BY <1>0, <4>1
      <4>4. C!Moved(us, vs, p) = C!Moved(xs, ys, p)
        BY <4>2, <4>3 DEF C!Moved
      <4> QED BY <3>1, <3>2, <3>3, <3>5, <4>4
    <3> QED BY <3>4, <3>5
  <2>3. n \in G
    <3> HIDE DEF G
    <3> QED BY <1>0, <1>4, <2>1, <2>2, Inductive
  <2> QED BY <1>5, <2>3
<1>7. C!Close(us[last.a], vs[last.b]) /\ last.a <= Len(us) /\ last.b <= Len(vs)
  <2>1. C!Close(xs[last.a], ys[last.b])
    <3>1. Ended(xs, ys, last)
      BY ScanEnds DEF n, at
    <3> QED BY <1>5, <3>1 DEF Ended
  <2>2. last.a \in 1 .. Len(xs) /\ last.b \in 1 .. Len(ys)
    BY <1>0, <1>4, <1>5 DEF Pointer
  <2>3. us[last.a] = xs[last.a] /\ vs[last.b] = ys[last.b]
    BY <2>2 DEF Heads
  <2> QED BY <1>0, <2>1, <2>2, <2>3
\* From there it stays where it is.
<1>8. on[m] = last
  <2> HIDE DEF last
  <2> DEFINE G == {i \in 0 .. m : i < n \/ on[i] = last}
  <2>1. 0 \in G
    BY <1>0, <1>6
  <2>2. ASSUME NEW i \in 1 .. m, i - 1 \in G PROVE i \in G
    <3>1. i \in 0 .. m
      BY <1>0
    <3>2. CASE i < n
      BY <3>1, <3>2
    <3>3. CASE i = n
      BY <1>6, <3>1, <3>3
    <3>4. CASE i > n
      <4>1. on[i - 1] = last /\ on[i] = C!Moved(us, vs, on[i - 1])
        BY <1>0, <1>2, <2>2, <3>4
      <4>2. C!Moved(us, vs, last) = last
        BY <1>7 DEF C!Moved
      <4> QED BY <3>1, <4>1, <4>2
    <3> QED BY <1>0, <3>1, <3>2, <3>3, <3>4
  <2>3. m \in G
    <3> HIDE DEF G
    <3> QED BY <1>0, <1>4, <2>1, <2>2, Inductive
  <2> QED BY <1>0, <2>3
<1> QED BY <1>3, <1>7, <1>8

\* ... and no less of a racer.
LEMMA AlarmsGrow ==
    ASSUME C!Options, NEW es \in Seq(C!Event), NEW e \in C!Event
    PROVE  C!Alarms(es) \subseteq C!Alarms(Append(es, e))
<1> DEFINE more == Append(es, e)
<1>1. more \in Seq(C!Event)
  BY AppendProperties
<1>2. C!IsScanner(es) => C!IsScanner(more)
  BY ScannerLasts
<1>3. \A route : C!IsCredentialStuffing(es, route) => C!IsCredentialStuffing(more, route)
  BY StuffingLasts
<1>4. ASSUME NEW pair \in RacePair, C!RacePairInBucket(es, pair)
      PROVE  C!RacePairInBucket(more, pair)
  <2>1. /\ Heads(C!TimesAt(es, pair[1]), C!TimesAt(more, pair[1]))
        /\ Heads(C!TimesAt(es, pair[2]), C!TimesAt(more, pair[2]))
    BY StampsGrow
  <2> HIDE DEF more
  <2>2. \A r : C!TimesAt(es, r) \in Seq(Time) /\ C!TimesAt(more, r) \in Seq(Time)
    BY <1>1, Gathered DEF Gathers
  <2>3. pair[1] # pair[2] /\ C!TwoPointers(C!TimesAt(es, pair[1]), C!TimesAt(es, pair[2]))
    BY <1>4 DEF C!RacePairInBucket
  <2>4. C!TwoPointers(C!TimesAt(more, pair[1]), C!TimesAt(more, pair[2]))
    BY <2>1, <2>2, <2>3, ScanLasts
  <2> QED BY <2>3, <2>4 DEF C!RacePairInBucket
<1> HIDE DEF more
<1>5. C!Alarms(es) \subseteq C!Alarms(more)
  BY <1>2, <1>3, <1>4 DEF C!Alarms
<1> QED BY <1>5 DEF more

\* What AlarmLasts says of a step, for an IP.
Lasts(old, new) ==
    \/ new = old
    \/ Len(old) = maxEventsPerIp
    \/ C!Alarms(old) \subseteq C!Alarms(new)
    \/ \E i \in DOMAIN old : old[i].time < clock - windowSeconds

LEMMA AlarmsEvicted ==
    ASSUME C!Options, NEW es \in Seq(C!Event), Len(es) <= maxEventsPerIp,
           NEW t \in Int, clock \in Int, t <= clock
    PROVE  Lasts(es, C!evictStale(es, t))
<1> DEFINE rest == C!evictStale(es, t)
<1>1. PICK n : /\ Dropped(es, n, rest)
               /\ \A i \in 1 .. n : es[i].time < t - windowSeconds \/ Len(es) - i >= maxEventsPerIp
  BY Evicted
<1>2. rest \in Seq(C!Event) /\ Len(es) \in Nat /\ n \in 0 .. Len(es) /\ DOMAIN es = 1 .. Len(es)
  BY <1>1, Evicted DEF Dropped
<1> HIDE DEF rest
<1>3. CASE n = 0
  <2>1. Len(rest) = Len(es) /\ \A i \in 1 .. Len(es) : rest[i] = es[i]
    <3>1. Len(rest) = Len(es)
      BY <1>1, <1>2, <1>3 DEF Dropped
    <3>2. ASSUME NEW i \in 1 .. Len(es) PROVE rest[i] = es[i]
      <4>1. i \in 1 .. Len(es) - 0 /\ 0 + i = i
        BY <1>2
      <4> QED BY <1>1, <1>3, <4>1 DEF Dropped
    <3> QED BY <3>1, <3>2
  <2>2. rest = es
    BY <1>2, <2>1, SeqEqual
  <2> QED BY <2>2 DEF Lasts, rest
<1>4. CASE n # 0
  <2>1. 1 \in 1 .. n /\ 1 \in DOMAIN es
    BY <1>2, <1>4
  <2>2. es[1].time < t - windowSeconds
    <3>1. ~(Len(es) - 1 >= maxEventsPerIp)
      BY <1>2, Positive
    <3> QED BY <1>1, <2>1, <3>1
  <2>3. es[1].time \in Int /\ windowSeconds \in Int
    <3>1. es[1] \in C!Event
      BY <1>2, <2>1
    <3> QED BY <3>1, Positive DEF C!Event
  <2>4. es[1].time < clock - windowSeconds
    BY <2>2, <2>3
  <2> QED BY <2>1, <2>4 DEF Lasts
<1> QED BY <1>3, <1>4

LEMMA AlarmsRecorded ==
    ASSUME C!Options, NEW es \in Seq(C!Event), Len(es) <= maxEventsPerIp,
           NEW t \in Int, clock \in Int, t <= clock, NEW e \in C!Event, e.time = t
    PROVE  Lasts(es, C!evictStale(Append(es, e), t))
<1> DEFINE more == Append(es, e)
           rest == C!evictStale(more, t)
<1>0. /\ more \in Seq(C!Event) /\ Len(more) = Len(es) + 1 /\ Len(es) \in Nat
      /\ \A i \in 1 .. Len(es) : more[i] = es[i]
      /\ more[Len(es) + 1] = e
  BY AppendProperties
<1> HIDE DEF more
<1>1. PICK n : /\ Dropped(more, n, rest)
               /\ \A i \in 1 .. n : \/ more[i].time < t - windowSeconds
                                    \/ Len(more) - i >= maxEventsPerIp
  BY <1>0, Evicted
<1>2. rest \in Seq(C!Event) /\ n \in 0 .. Len(more) /\ DOMAIN es = 1 .. Len(es)
  BY <1>0, <1>1, Evicted DEF Dropped
<1> HIDE DEF rest
<1>3. CASE n = 0
  <2>1. Len(rest) = Len(more) /\ \A i \in 1 .. Len(more) : rest[i] = more[i]
    <3>1. Len(rest) = Len(more)
      BY <1>0, <1>1, <1>3 DEF Dropped
    <3>2. ASSUME NEW i \in 1 .. Len(more) PROVE rest[i] = more[i]
      <4>1. i \in 1 .. Len(more) - 0 /\ 0 + i = i
        BY <1>0
      <4> QED BY <1>1, <1>3, <4>1 DEF Dropped
    <3> QED BY <3>1, <3>2
  <2>2. rest = more
    BY <1>0, <1>2, <2>1, SeqEqual
  <2>3. C!Alarms(es) \subseteq C!Alarms(rest)
    BY <2>2, AlarmsGrow DEF more
  <2> QED BY <2>3 DEF Lasts, rest, more
<1>4. CASE n # 0
  <2>1. 1 \in 1 .. n
    BY <1>0, <1>2, <1>4
  <2>2. CASE Len(more) - 1 >= maxEventsPerIp
    <3>1. Len(es) = maxEventsPerIp
      BY <1>0, <2>2, Positive
    <3> QED BY <3>1 DEF Lasts
  <2>3. CASE ~(Len(more) - 1 >= maxEventsPerIp)
    <3>1. more[1].time < t - windowSeconds
      BY <1>1, <2>1, <2>3
    <3>2. Len(es) # 0
      <4> SUFFICES ASSUME Len(es) = 0 PROVE FALSE
        OBVIOUS
      <4>1. more[1] = e
        BY <1>0
      <4> QED BY <3>1, <4>1, Positive
    <3>3. 1 \in 1 .. Len(es)
      BY <1>0, <3>2
    <3>4. es[1].time < t - windowSeconds
      BY <1>0, <3>1, <3>3
    <3>5. es[1].time \in Int /\ windowSeconds \in Int
      <4>1. es[1] \in C!Event
        BY <3>3
      <4> QED BY <4>1, Positive DEF C!Event
    <3>6. es[1].time < clock - windowSeconds
      BY <3>4, <3>5
    <3> QED BY <1>2, <3>3, <3>6 DEF Lasts
  <2> QED BY <2>2, <2>3
<1> QED BY <1>3, <1>4

\* An alarm of an IP that stays tracked goes out only when an event behind it
\* has left the window, or its full bucket turns over: no call that comes late,
\* and no detection of another alarm, silences it (evictStale, evaluate).
THEOREM AlarmsLast == C!Spec => AlarmLasts
<1>0. C!Options
  BY SharedOptions
<1> USE <1>0
<1> DEFINE AllLast == \A ip \in DOMAIN buckets \cap DOMAIN buckets' : Lasts(buckets[ip], buckets'[ip])
<1>1. Held /\ [C!Next]_(C!vars) => [AllLast]_buckets
  <2> SUFFICES ASSUME Held, [C!Next]_(C!vars), NEW ip \in DOMAIN buckets \cap DOMAIN buckets'
               PROVE  Lasts(buckets[ip], buckets'[ip])
    OBVIOUS
  <2>1. /\ buckets[ip] \in Seq(C!Event) /\ Len(buckets[ip]) <= maxEventsPerIp
        /\ clock \in Int
    BY Positive DEF Held, Tracked
  <2>2. buckets'[ip] = buckets[ip] => Lasts(buckets[ip], buckets'[ip])
    BY DEF Lasts
  <2>3. \A t \in C!Stamps : t \in Int /\ t <= clock /\ t \in 0 .. MaxWindowTime
    BY Positive DEF Held, C!Stamps
  <2>4. ASSUME NEW j \in IP, NEW t \in C!Stamps, C!Detect(j, t)
        PROVE  Lasts(buckets[ip], buckets'[ip])
    <3>1. buckets'[ip] = IF ip = j THEN C!evictStale(buckets[ip], t) ELSE buckets[ip]
      BY <2>4 DEF C!Detect
    <3> QED BY <2>1, <2>2, <2>3, <3>1, AlarmsEvicted
  <2>5. ASSUME NEW j \in IP, NEW t \in C!Stamps, NEW k \in Kind, C!Record(j, k, t)
        PROVE  Lasts(buckets[ip], buckets'[ip])
    <3> DEFINE e == [time |-> t, what |-> k]
    <3>1. buckets' = [i \in C!ToSet(order') |->
                        IF i = j THEN C!evictStale(Append(C!EventsOf(buckets, j), e), t)
                        ELSE buckets[i]]
      BY <2>5 DEF C!Record
    <3>2. e \in C!Event /\ e.time = t
      BY <2>3 DEF C!Event
    <3> HIDE DEF e
    <3>3. buckets'[ip] = IF ip = j THEN C!evictStale(Append(C!EventsOf(buckets, j), e), t)
                         ELSE buckets[ip]
      <4>1. ip \in C!ToSet(order')
        BY <3>1
      <4> QED BY <3>1, <4>1
    <3>4. ip = j => C!EventsOf(buckets, j) = buckets[ip]
      BY DEF C!EventsOf
    <3>5. Lasts(buckets[ip], C!evictStale(Append(buckets[ip], e), t))
      BY <2>1, <2>3, <3>2, AlarmsRecorded
    <3> QED BY <2>2, <3>3, <3>4, <3>5
  <2>6. ASSUME NEW j \in IP, C!Reset(j) PROVE buckets'[ip] = buckets[ip]
    BY <2>6 DEF C!Reset
  <2>7. ~C!ResetAll
    BY DEF C!ResetAll, C!Empty
  <2>8. C!Tick => buckets' = buckets
    BY DEF C!Tick
  <2>9. UNCHANGED C!vars => buckets' = buckets
    BY DEF C!vars
  <2> QED BY <2>2, <2>4, <2>5, <2>6, <2>7, <2>8, <2>9 DEF C!Next
<1>2. C!Spec => [][AllLast]_buckets
  <2> HIDE DEF AllLast
  <2> QED BY <1>1, HeldHolds, PTL DEF C!Spec
<1> QED BY <1>2 DEF AlarmLasts, C!AlarmLasts, Lasts

-----------------------------------------------------------------------------
(* The corpus of bots, which goroutines fetch and merge while requests walk  *)
(* it, for every number of fetching goroutines and of requests, and any feeds. *)

\* No id has two entries.
DistinctIds(corpus) == \A i, j \in DOMAIN corpus : corpus[i].id = corpus[j].id => i = j

\* compileBotEntry keeps the id.
LEMMA CompiledEntry ==
    ASSUME B!Options, NEW e \in B!Served
    PROVE  B!Compiled(e) \in B!Entry /\ B!Compiled(e).id = e.id
<1>1. B!Compiled(e) \in B!Entry /\ e \in B!Entry
  BY DEF B!Entry
<1>2. DOMAIN e = {"id", "category", "patterns", "forbidden"}
  BY <1>1 DEF B!Options, B!IsEntry
<1> QED BY <1>1, <1>2 DEF B!Compiled

\* What one round of the merging loop makes of a slice.
LEMMA PlacedEntry ==
    ASSUME B!Options, NEW corpus \in Seq(B!Entry), DistinctIds(corpus), NEW e \in B!Served,
           B!Compiles(e), NEW new, new = B!Placed(corpus, e)
    PROVE  /\ new \in Seq(B!Entry)
           /\ \E n \in 1 .. Len(corpus) + 1 :
                  /\ Len(new) = IF n <= Len(corpus) THEN Len(corpus) ELSE n
                  /\ new[n] = B!Compiled(e)
                  /\ \A i \in 1 .. Len(corpus) : i # n => new[i] = corpus[i] /\ corpus[i].id # e.id
                  /\ n <= Len(corpus) => corpus[n].id = e.id
<1>1. B!Compiled(e) \in B!Entry /\ B!Compiled(e).id = e.id
  BY CompiledEntry
<1>2. DOMAIN corpus = 1 .. Len(corpus) /\ Len(corpus) \in Nat
  OBVIOUS
<1>3. CASE \E i \in DOMAIN corpus : corpus[i].id = e.id
  <2> DEFINE I == { i \in 1 .. Len(corpus) : corpus[i].id = e.id }
  <2>1. PICK n \in 1 .. Len(corpus) : corpus[n].id = e.id
    BY <1>2, <1>3
  <2>2. \A i \in 1 .. Len(corpus) : i # n => corpus[i].id # e.id
    BY <1>2, <2>1 DEF DistinctIds
  <2>3. I = {n}
    BY <2>1, <2>2
  <2>4. B!SelectInSeq(corpus, LAMBDA x : x.id = e.id) = n
    BY <2>1, <2>3 DEF B!SelectInSeq, B!Min
  <2>5. new = [corpus EXCEPT ![n] = B!Compiled(e)]
    BY <1>3, <2>4 DEF B!Placed, B!ReplaceAt
  <2>6. new \in Seq(B!Entry) /\ Len(new) = Len(corpus)
    BY <1>1, <2>5
  <2>7. new[n] = B!Compiled(e) /\ \A i \in 1 .. Len(corpus) : i # n => new[i] = corpus[i]
    BY <1>2, <2>5
  <2>8. n \in 1 .. Len(corpus) + 1 /\ n <= Len(corpus)
    BY <1>2
  <2>9. /\ Len(new) = IF n <= Len(corpus) THEN Len(corpus) ELSE n
        /\ new[n] = B!Compiled(e)
        /\ \A i \in 1 .. Len(corpus) : i # n => new[i] = corpus[i] /\ corpus[i].id # e.id
        /\ n <= Len(corpus) => corpus[n].id = e.id
    BY <2>1, <2>2, <2>6, <2>7, <2>8
  <2> QED BY Zenon, <2>6, <2>8, <2>9
<1>4. CASE ~\E i \in DOMAIN corpus : corpus[i].id = e.id
  <2>1. new = Append(corpus, B!Compiled(e))
    BY <1>4 DEF B!Placed
  <2>2. /\ new \in Seq(B!Entry) /\ Len(new) = Len(corpus) + 1
        /\ new[Len(corpus) + 1] = B!Compiled(e)
        /\ \A i \in 1 .. Len(corpus) : new[i] = corpus[i]
    BY <1>1, <2>1
  <2> QED BY <1>2, <1>4, <2>2
<1> QED BY <1>3, <1>4

\* Which entry of a feed decides over an id after one more entry.
LEMMA LastOfNext ==
    ASSUME NEW s \in Seq(B!Served), NEW e \in B!Served, NEW id
    PROVE  B!LastOf(Append(s, e), id)
             = IF B!Compiles(e) /\ e.id = id THEN {Len(s) + 1} ELSE B!LastOf(s, id)
<1> DEFINE t == Append(s, e)
           n == Len(s) + 1
<1>1. /\ Len(s) \in Nat /\ DOMAIN s = 1 .. Len(s) /\ DOMAIN t = 1 .. n
      /\ t[n] = e /\ \A i \in DOMAIN s : t[i] = s[i]
  OBVIOUS
<1> HIDE DEF t, n
<1>2. n = Len(s) + 1
  BY DEF n
<1>3. \A i : i \in DOMAIN t <=> i \in DOMAIN s \/ i = n
  BY <1>1, <1>2
<1>4. \A i \in DOMAIN s : i <= n /\ i # n /\ i \in Int
  BY <1>1, <1>2
<1> DEFINE Of(f, i) == f[i].id = id /\ B!Compiles(f[i])
<1>5. CASE B!Compiles(e) /\ e.id = id
  <2>1. Of(t, n) /\ n \in DOMAIN t
    BY <1>1, <1>3, <1>5
  <2>2. \A i \in DOMAIN t : i <= n
    BY <1>2, <1>3, <1>4, <1>1
  <2>3. \A i \in DOMAIN t : n <= i => i = n
    BY <1>1, <1>2
  <2>4. B!LastOf(t, id) = {n}
    BY <2>1, <2>2, <2>3 DEF B!LastOf
  <2> QED BY <1>5, <2>4 DEF t, n
<1>6. CASE ~(B!Compiles(e) /\ e.id = id)
  <2>1. ~Of(t, n)
    BY <1>1, <1>6
  <2>2. \A i \in DOMAIN s : Of(t, i) <=> Of(s, i)
    BY <1>1
  <2>3. \A i \in DOMAIN t : Of(t, i) => i \in DOMAIN s
    BY <1>3, <2>1
  <2> HIDE DEF Of
  <2>4. { i \in DOMAIN t : Of(t, i) /\ \A j \in DOMAIN t : Of(t, j) => j <= i }
          = { i \in DOMAIN s : Of(s, i) /\ \A j \in DOMAIN s : Of(s, j) => j <= i }
    BY <1>3, <2>2, <2>3
  <2>5. B!LastOf(t, id) = { i \in DOMAIN t : Of(t, i) /\ \A j \in DOMAIN t : Of(t, j) => j <= i }
    BY Zenon DEF B!LastOf, Of
  <2>6. B!LastOf(s, id) = { i \in DOMAIN s : Of(s, i) /\ \A j \in DOMAIN s : Of(s, j) => j <= i }
    BY Zenon DEF B!LastOf, Of
  <2> QED BY <1>6, <2>4, <2>5, <2>6 DEF t
<1> QED BY <1>5, <1>6

\* The entry that decides over an id bears it, and compiles.
LEMMA LastOfIs ==
    ASSUME NEW s, NEW id, NEW i \in B!LastOf(s, id)
    PROVE  i \in DOMAIN s /\ s[i].id = id /\ B!Compiles(s[i])
BY DEF B!LastOf

\* A round of the merging loop takes the merge of a feed one entry further.
LEMMA MergeGoesOn ==
    ASSUME B!Options, NEW old \in Seq(B!Entry), NEW s \in Seq(B!Served), NEW e \in B!Served,
           NEW mid \in Seq(B!Entry), NEW new, new = B!Placed(mid, e),
           Len(old) <= Len(mid), B!MergeOf(old, s, mid)
    PROVE  new \in Seq(B!Entry) /\ Len(old) <= Len(new) /\ B!MergeOf(old, Append(s, e), new)
<1> DEFINE t == Append(s, e)
           Decided(f, i) == IF B!LastOf(f, old[i].id) = {} THEN old[i]
                            ELSE B!Compiled(f[CHOOSE j \in B!LastOf(f, old[i].id) : TRUE])
<1>1. /\ Len(s) \in Nat /\ DOMAIN s = 1 .. Len(s) /\ DOMAIN t = 1 .. Len(s) + 1
      /\ t[Len(s) + 1] = e /\ \A i \in DOMAIN s : t[i] = s[i] /\ s[i] \in B!Served
  OBVIOUS
<1>2. Len(old) \in Nat /\ DOMAIN old = 1 .. Len(old) /\ Len(mid) \in Nat /\ DOMAIN mid = 1 .. Len(mid)
  OBVIOUS
<1> HIDE DEF t
<1>3. /\ \A i \in DOMAIN old : mid[i] = Decided(s, i)
      /\ \A i \in DOMAIN s : B!Compiles(s[i]) => \E j \in DOMAIN mid : mid[j].id = s[i].id
      /\ \A j \in DOMAIN mid : j > Len(old) => \E i \in B!LastOf(s, mid[j].id) : mid[j] = B!Compiled(s[i])
      /\ \A i, j \in DOMAIN mid : mid[i].id = mid[j].id => i = j
  BY DEF B!MergeOf
<1>4. SUFFICES
      /\ new \in Seq(B!Entry) /\ Len(old) <= Len(new)
      /\ \A i \in DOMAIN old : new[i] = Decided(t, i)
      /\ \A i \in DOMAIN t : B!Compiles(t[i]) => \E j \in DOMAIN new : new[j].id = t[i].id
      /\ \A j \in DOMAIN new : j > Len(old) => \E i \in B!LastOf(t, new[j].id) : new[j] = B!Compiled(t[i])
      /\ \A i, j \in DOMAIN new : new[i].id = new[j].id => i = j
  BY Zenon DEF B!MergeOf, t
<1>5. ASSUME NEW id, ~(B!Compiles(e) /\ e.id = id)
      PROVE  /\ B!LastOf(t, id) = B!LastOf(s, id)
             /\ \A i \in B!LastOf(s, id) : t[i] = s[i]
  <2>1. B!LastOf(t, id) = B!LastOf(s, id)
    BY <1>5, LastOfNext DEF t
  <2> QED BY <1>1, <2>1, LastOfIs
<1>6. ASSUME NEW i \in DOMAIN old, ~(B!Compiles(e) /\ e.id = old[i].id)
      PROVE  Decided(t, i) = Decided(s, i)
  <2>1. B!LastOf(t, old[i].id) = B!LastOf(s, old[i].id)
    BY <1>5, <1>6
  <2>2. CASE B!LastOf(s, old[i].id) = {}
    BY <2>1, <2>2
  <2>3. CASE B!LastOf(s, old[i].id) # {}
    <3> DEFINE j == CHOOSE x \in B!LastOf(s, old[i].id) : TRUE
    <3>1. j \in B!LastOf(s, old[i].id)
      BY <2>3
    <3>2. t[j] = s[j]
      BY <1>5, <1>6, <3>1
    <3> QED BY <2>1, <2>3, <3>2
  <2> QED BY <2>2, <2>3
<1>7. CASE ~B!Compiles(e)
  <2>1. new = mid
    BY <1>7 DEF B!Placed
  <2>2. \A i \in DOMAIN old : Decided(t, i) = Decided(s, i)
    BY <1>6, <1>7
  <2>3. \A i \in DOMAIN t : B!Compiles(t[i]) => i \in DOMAIN s /\ t[i] = s[i]
    BY <1>1, <1>7
  <2>4. ASSUME NEW j \in DOMAIN mid, j > Len(old)
        PROVE  \E i \in B!LastOf(t, mid[j].id) : mid[j] = B!Compiled(t[i])
    <3>1. PICK i \in B!LastOf(s, mid[j].id) : mid[j] = B!Compiled(s[i])
      BY <1>3, <2>4
    <3> QED BY <1>5, <1>7, <3>1
  <2> HIDE DEF Decided
  <2> QED BY <1>3, <2>1, <2>2, <2>3, <2>4
<1>8. CASE B!Compiles(e)
  <2> DEFINE c == B!Compiled(e)
  <2>1. c.id = e.id
    BY CompiledEntry
  <2>2. DistinctIds(mid)
    BY <1>3 DEF DistinctIds
  <2>3. new \in Seq(B!Entry)
    BY <1>8, <2>2, PlacedEntry
  <2>4. PICK n \in 1 .. Len(mid) + 1 :
                  /\ Len(new) = IF n <= Len(mid) THEN Len(mid) ELSE n
                  /\ new[n] = c
                  /\ \A i \in 1 .. Len(mid) : i # n => new[i] = mid[i] /\ mid[i].id # e.id
                  /\ n <= Len(mid) => mid[n].id = e.id
    BY <1>8, <2>2, PlacedEntry
  <2> HIDE DEF c
  <2>5. /\ DOMAIN new = 1 .. Len(new) /\ Len(new) \in Nat /\ Len(mid) <= Len(new) /\ n \in DOMAIN new
        /\ \A i \in DOMAIN new : i # n => i \in DOMAIN mid
        /\ DOMAIN mid \subseteq DOMAIN new /\ DOMAIN old \subseteq DOMAIN mid
    BY <1>2, <2>3, <2>4
  <2>6. \A i \in DOMAIN new : i # n => new[i] = mid[i] /\ mid[i].id # e.id
    BY <1>2, <2>4, <2>5
  <2>7. B!LastOf(t, e.id) = {Len(s) + 1}
    BY <1>8, LastOfNext DEF t
  <2>8. ASSUME NEW i \in DOMAIN old PROVE new[i] = Decided(t, i) /\ mid[i].id = old[i].id
    <3>1. mid[i].id = old[i].id
      <4>1. CASE B!LastOf(s, old[i].id) = {}
        BY <1>3, <4>1
      <4>2. CASE B!LastOf(s, old[i].id) # {}
        <5> DEFINE j == CHOOSE x \in B!LastOf(s, old[i].id) : TRUE
        <5>1. j \in B!LastOf(s, old[i].id) /\ mid[i] = B!Compiled(s[j])
          BY <1>3, <4>2
        <5> HIDE DEF j
        <5>2. j \in DOMAIN s /\ s[j].id = old[i].id
          BY <5>1, LastOfIs
        <5>3. s[j] \in B!Served
          BY <1>1, <5>2
        <5> QED BY <5>1, <5>2, <5>3, CompiledEntry
      <4> QED BY <4>1, <4>2
    <3>2. CASE e.id = old[i].id
      <4>1. i = n
        BY <2>5, <2>6, <3>1, <3>2
      <4>2. Decided(t, i) = c
        BY <1>1, <2>7, <3>2 DEF c
      <4> QED BY <2>4, <3>1, <4>1, <4>2
    <3>3. CASE e.id # old[i].id
      <4>1. i # n
        <5>1. i \in 1 .. Len(mid)
          BY <1>2, <2>5
        <5> QED BY <1>2, <2>4, <3>1, <3>3, <5>1
      <4>2. new[i] = mid[i]
        BY <2>5, <2>6, <4>1
      <4> QED BY <1>3, <1>6, <3>1, <3>3, <4>2, ZenonT(60)
    <3> QED BY <3>2, <3>3
  <2>9. ASSUME NEW i \in DOMAIN t, B!Compiles(t[i])
        PROVE  \E j \in DOMAIN new : new[j].id = t[i].id
    <3>1. CASE t[i].id = e.id
      BY <2>1, <2>4, <2>5, <3>1
    <3>2. CASE t[i].id # e.id
      <4>1. i \in DOMAIN s /\ t[i] = s[i]
        BY <1>1, <3>2
      <4>2. PICK j \in DOMAIN mid : mid[j].id = s[i].id
        BY <1>3, <2>9, <4>1
      <4>3. j # n
        BY <1>2, <2>4, <3>2, <4>1, <4>2
      <4> QED BY <2>5, <2>6, <4>1, <4>2, <4>3
    <3> QED BY <3>1, <3>2
  <2>10. ASSUME NEW j \in DOMAIN new, j > Len(old)
         PROVE  \E i \in B!LastOf(t, new[j].id) : new[j] = B!Compiled(t[i])
    <3>1. CASE j = n
      BY <1>1, <2>1, <2>4, <2>7, <3>1 DEF c
    <3>2. CASE j # n
      <4>1. j \in DOMAIN mid /\ new[j] = mid[j] /\ mid[j].id # e.id
        BY <2>5, <2>6, <3>2
      <4>2. PICK i \in B!LastOf(s, mid[j].id) : mid[j] = B!Compiled(s[i])
        BY <1>3, <2>10, <4>1
      <4> QED BY <1>5, <4>1, <4>2
    <3> QED BY <3>1, <3>2
  <2>11. ASSUME NEW i \in DOMAIN new, NEW j \in DOMAIN new, new[i].id = new[j].id
         PROVE  i = j
    <3>1. CASE i = n /\ j # n
      BY <2>1, <2>4, <2>6, <2>11, <3>1
    <3>2. CASE i # n /\ j = n
      BY <2>1, <2>4, <2>6, <2>11, <3>2
    <3>3. CASE i # n /\ j # n
      BY <1>3, <2>5, <2>6, <2>11, <3>3
    <3> QED BY <3>1, <3>2, <3>3
  <2>12. Len(old) <= Len(new)
    BY <1>2, <2>5
  <2> HIDE DEF Decided
  <2> QED BY <2>3, <2>8, <2>9, <2>10, <2>11, <2>12
<1> QED BY <1>7, <1>8

\* DetectBot's loop: the first entry that matches decides.
LEMMA FirstMatch ==
    ASSUME NEW slice \in Seq(B!Entry), NEW a, NEW n \in Nat \ {0},
           \A j \in 1 .. n - 1 : j \in DOMAIN slice => ~B!Matches(slice[j], a)
    PROVE  /\ n > Len(slice) => B!CategoryBy(slice, a) = B!Behaviour(a)
           /\ n \in DOMAIN slice /\ B!Matches(slice[n], a) => B!CategoryBy(slice, a) = slice[n].category
<1> DEFINE firsts == { i \in DOMAIN slice : B!Matches(slice[i], a) }
<1>1. DOMAIN slice = 1 .. Len(slice) /\ Len(slice) \in Nat
  OBVIOUS
<1>2. \A i \in firsts : n <= i
  BY <1>1
<1>3. B!CategoryBy(slice, a)
        = IF firsts = {} THEN B!Behaviour(a)
          ELSE slice[CHOOSE i \in firsts : \A j \in firsts : i <= j].category
  BY DEF B!CategoryBy
<1>4. ASSUME n > Len(slice) PROVE B!CategoryBy(slice, a) = B!Behaviour(a)
  <2>1. firsts = {}
    BY <1>1, <1>2, <1>4
  <2> QED BY <1>3, <2>1
<1>5. ASSUME n \in DOMAIN slice, B!Matches(slice[n], a)
      PROVE  B!CategoryBy(slice, a) = slice[n].category
  <2>1. n \in firsts /\ \A i \in firsts : i \in Int
    BY <1>1, <1>5
  <2>2. \A i \in firsts : (\A j \in firsts : i <= j) => i = n
    BY <1>2, <2>1
  <2> HIDE DEF firsts
  <2>3. (CHOOSE i \in firsts : \A j \in firsts : i <= j) = n
    BY <1>2, <2>1, <2>2
  <2> QED BY <1>3, <2>1, <2>3
<1> QED BY <1>4, <1>5

\* mergeMu admits one goroutine at a time, and only the goroutine inside has a
\* slice of its own.
OneMerger ==
    /\ \A f, g \in mergeMu : f = g
    /\ \A f \in Fetcher : /\ fetch[f].at = "merging" <=> f \in mergeMu
                          /\ fetch[f].at # "start" => fetch[f].feed \in Feeds
                          /\ fetch[f].at \in {"start", "fetched"} => fetch[f].i = 1

\* The slice that is written is neither live nor walked by a request.
Unshared ==
    \A f \in mergeMu :
        /\ fetch[f].next # live
        /\ \A r \in Visitor : call[r].at # "idle" => call[r].slice # fetch[f].next

\* It holds the live corpus with the feed merged up to where the loop is.
Merging ==
    \A f \in mergeMu :
        LET new == arrays[fetch[f].next]
        IN  /\ fetch[f].i \in 1 .. Len(fetch[f].feed) + 1
            /\ Len(B!Corpus) <= Len(new)
            /\ B!MergeOf(B!Corpus, SubSeq(fetch[f].feed, 1, fetch[f].i - 1), new)

\* A request walks a corpus that was live as a whole, and what it has found so
\* far is what that corpus says.
Walked ==
    \A r \in Visitor :
        LET c == call[r]
            slice == arrays[c.slice]
        IN  /\ c.at # "idle" => slice \in seen[r]
            /\ c.at = "matching" =>
                   c.i # 0 /\ \A j \in 1 .. c.i - 1 : j \in DOMAIN slice => ~B!Matches(slice[j], c.agent)
            /\ c.at \in {"judged", "done"} => c.category = B!CategoryBy(slice, c.agent)

BotsInv == B!TypeOK /\ OneMerger /\ Unshared /\ Merging /\ Walked /\ DistinctIds(B!Corpus)

\* Facts about slices that the steps need.
LEMMA Slices ==
    ASSUME B!Options, B!TypeOK
    PROVE  /\ DOMAIN arrays = 1 .. Len(arrays) /\ Len(arrays) \in Nat
           /\ live \in DOMAIN arrays
           /\ \A a \in DOMAIN arrays : arrays[a] \in Seq(B!Entry)
           /\ \A r \in Visitor : call[r].slice \in DOMAIN arrays
           /\ \A f \in Fetcher : fetch[f].next \in DOMAIN arrays /\ fetch[f].i \in Nat
           /\ Bundled \in Seq(B!Entry)
<1>1. /\ arrays \in Seq(Seq(B!Entry)) /\ live \in DOMAIN arrays
      /\ \A r \in Visitor : call[r].slice \in DOMAIN arrays
      /\ \A f \in Fetcher : fetch[f].next \in DOMAIN arrays /\ fetch[f].i \in Nat
  BY DEF B!TypeOK
<1>2. Bundled \in Seq(B!Entry)
  <2>1. Bundled \in Seq(B!Served) /\ B!Served \subseteq B!Entry
    BY DEF B!Options, B!Entry
  <2> QED BY <2>1
<1> QED BY <1>1, <1>2

\* A merge that has taken nothing yet leaves the corpus as it was.
LEMMA MergeStarts ==
    ASSUME NEW old \in Seq(B!Entry), DistinctIds(old), NEW s \in Seq(B!Served)
    PROVE  B!MergeOf(old, SubSeq(s, 1, 0), old)
<1>1. SubSeq(s, 1, 0) = <<>> /\ DOMAIN <<>> = {}
  OBVIOUS
<1>2. \A id : B!LastOf(<<>>, id) = {}
  BY DEF B!LastOf
<1>3. \A j \in DOMAIN old : ~(j > Len(old))
  OBVIOUS
<1> QED BY <1>1, <1>2, <1>3 DEF B!MergeOf, DistinctIds

\* What a goroutine does to arrays and live leaves the requests alone, as long
\* as it does not write the slices they walk.
LEMMA WalkGoesOn ==
    ASSUME B!Options, BotsInv, B!Watch, call' = call, B!Corpus' \in Seq(B!Entry),
           \A r \in Visitor : call[r].at # "idle" => arrays'[call[r].slice] = arrays[call[r].slice]
    PROVE  Walked' /\ seen' \in [Visitor -> SUBSET Seq(B!Entry)]
<1>1. seen' = [r \in Visitor |-> IF call[r].at = "matching" THEN seen[r] \cup {B!Corpus'} ELSE seen[r]]
  BY DEF B!Watch
<1>2. seen \in [Visitor -> SUBSET Seq(B!Entry)]
  BY DEF BotsInv, B!TypeOK
<1>3. seen' \in [Visitor -> SUBSET Seq(B!Entry)]
  BY <1>1, <1>2
<1>4. Walked'
  <2> SUFFICES ASSUME NEW r \in Visitor
               PROVE  LET c == call[r]
                          slice == arrays'[c.slice]
                      IN  /\ c.at # "idle" => slice \in seen'[r]
                          /\ c.at = "matching" =>
                                 c.i # 0 /\ \A j \in 1 .. c.i - 1 : j \in DOMAIN slice => ~B!Matches(slice[j], c.agent)
                          /\ c.at \in {"judged", "done"} => c.category = B!CategoryBy(slice, c.agent)
    BY DEF Walked
  <2>1. seen[r] \subseteq seen'[r]
    BY <1>1
  <2>2. CASE call[r].at = "idle"
    BY <2>2
  <2>3. CASE call[r].at # "idle"
    <3>1. arrays'[call[r].slice] = arrays[call[r].slice]
      BY <2>3
    <3> QED BY <2>1, <3>1 DEF BotsInv, Walked
  <2> QED BY <2>2, <2>3
<1> QED BY <1>3, <1>4

\* A fetch that ends: an error or an empty answer ends the goroutine.
LEMMA FetchStep ==
    ASSUME B!Options, BotsInv, NEW f \in Fetcher, B!Fetch(f)
    PROVE  BotsInv'
<1>1. PICK feed \in Feeds :
        fetch' = [fetch EXCEPT ![f].feed = feed, ![f].at = IF feed = <<>> THEN "done" ELSE "fetched"]
  BY DEF B!Fetch
<1>2. /\ fetch[f].at = "start"
      /\ arrays' = arrays /\ live' = live /\ mergeMu' = mergeMu /\ call' = call /\ seen' = seen
  BY DEF B!Fetch
<1>3. B!TypeOK'
  <2> DEFINE Phases == {"start", "fetched", "merging", "done"}
             Fetches == [at : Phases, feed : Feeds \cup {<<>>}, i : Nat, next : DOMAIN arrays]
  <2>1. fetch \in [Fetcher -> Fetches]
    BY DEF BotsInv, B!TypeOK
  <2>2. fetch' = [fetch EXCEPT ![f] = [fetch[f] EXCEPT !.feed = feed,
                                                   !.at = IF feed = <<>> THEN "done" ELSE "fetched"]]
    BY <1>1, <2>1
  <2>3. [fetch[f] EXCEPT !.feed = feed, !.at = IF feed = <<>> THEN "done" ELSE "fetched"] \in Fetches
    BY <2>1
  <2> HIDE DEF Fetches
  <2>4. fetch' \in [Fetcher -> Fetches]
    BY <2>1, <2>2, <2>3
  <2> QED BY <1>2, <2>4 DEF BotsInv, B!TypeOK, Fetches
<1>4. f \notin mergeMu /\ mergeMu \subseteq Fetcher
  BY <1>2 DEF BotsInv, OneMerger, B!TypeOK
<1>5. /\ fetch'[f].feed = feed /\ fetch'[f].at \in {"done", "fetched"} /\ fetch'[f].i = fetch[f].i
      /\ \A g \in Fetcher : g # f => fetch'[g] = fetch[g]
  BY <1>1 DEF BotsInv, B!TypeOK
<1>6. OneMerger'
  <2>1. \A g, h \in mergeMu' : g = h
    BY <1>2 DEF BotsInv, OneMerger
  <2>2. ASSUME NEW g \in Fetcher
        PROVE  /\ fetch'[g].at = "merging" <=> g \in mergeMu'
               /\ fetch'[g].at # "start" => fetch'[g].feed \in Feeds
               /\ fetch'[g].at \in {"start", "fetched"} => fetch'[g].i = 1
    BY <1>2, <1>4, <1>5 DEF BotsInv, OneMerger
  <2> QED BY <2>1, <2>2 DEF OneMerger
<1>7. \A g \in mergeMu' : g \in mergeMu /\ fetch'[g] = fetch[g]
  BY <1>2, <1>4, <1>5
<1>8. Unshared'
  BY <1>2, <1>7 DEF BotsInv, Unshared
<1>9. Merging'
  BY <1>2, <1>7 DEF BotsInv, Merging, B!Corpus
<1>10. Walked'
  BY <1>2 DEF BotsInv, Walked
<1>11. DistinctIds(B!Corpus)'
  BY <1>2 DEF BotsInv, DistinctIds, B!Corpus
<1> QED BY <1>3, <1>6, <1>8, <1>9, <1>10, <1>11 DEF BotsInv

\* MergeBotPatterns locks and copies: the copy is a slice nobody else has.
LEMMA LockStep ==
    ASSUME B!Options, BotsInv, NEW f \in Fetcher, B!Lock(f)
    PROVE  BotsInv' /\ B!Corpus' = B!Corpus
<1>1. /\ fetch[f].at = "fetched" /\ mergeMu = {} /\ mergeMu' = {f}
      /\ arrays' = Append(arrays, B!Corpus)
      /\ fetch' = [fetch EXCEPT ![f].at = "merging", ![f].next = Len(arrays')]
      /\ live' = live /\ call' = call /\ B!Watch
  BY DEF B!Lock
<1>2. /\ DOMAIN arrays = 1 .. Len(arrays) /\ Len(arrays) \in Nat /\ live \in DOMAIN arrays
      /\ \A a \in DOMAIN arrays : arrays[a] \in Seq(B!Entry)
      /\ \A r \in Visitor : call[r].slice \in DOMAIN arrays
  BY Slices DEF BotsInv
<1> DEFINE n == Len(arrays) + 1
<1>3. B!Corpus \in Seq(B!Entry) /\ B!Corpus = arrays[live]
  BY <1>2 DEF B!Corpus
<1>4. arrays \in Seq(Seq(B!Entry))
  BY DEF BotsInv, B!TypeOK
<1>5. /\ arrays' \in Seq(Seq(B!Entry)) /\ Len(arrays') = n /\ DOMAIN arrays' = 1 .. n
      /\ arrays'[n] = B!Corpus /\ \A a \in DOMAIN arrays : arrays'[a] = arrays[a]
  BY <1>1, <1>3, <1>4
<1>6. n \notin DOMAIN arrays /\ n \in DOMAIN arrays' /\ DOMAIN arrays \subseteq DOMAIN arrays'
  BY <1>2, <1>5
<1>7. B!Corpus' = B!Corpus
  BY <1>1, <1>2, <1>5 DEF B!Corpus
<1>8. fetch' = [fetch EXCEPT ![f].at = "merging", ![f].next = n]
  BY <1>1, <1>5
<1> HIDE DEF n
<1>9. Walked' /\ seen' \in [Visitor -> SUBSET Seq(B!Entry)]
  BY <1>1, <1>2, <1>3, <1>5, <1>7, WalkGoesOn
<1>10. /\ fetch'[f].at = "merging" /\ fetch'[f].next = n
       /\ fetch'[f].feed = fetch[f].feed /\ fetch'[f].i = fetch[f].i
       /\ \A g \in Fetcher : g # f => fetch'[g] = fetch[g]
  BY <1>8 DEF BotsInv, B!TypeOK
<1>11. B!TypeOK'
  <2>1. fetch' \in [Fetcher -> [at : {"start", "fetched", "merging", "done"}, feed : Feeds \cup {<<>>},
                              i : Nat, next : DOMAIN arrays']]
    BY <1>6, <1>8 DEF BotsInv, B!TypeOK
  <2>2. call' \in [Visitor -> [at : {"idle", "matching", "judged", "done"}, agent : Agent,
                             slice : DOMAIN arrays', i : Nat, category : B!Category,
                             answer : {"none", "403", "next"}]]
    BY <1>1, <1>6 DEF BotsInv, B!TypeOK
  <2>3. live' \in DOMAIN arrays' /\ mergeMu' \subseteq Fetcher
    BY <1>1, <1>2, <1>6
  <2> QED BY <1>5, <1>9, <2>1, <2>2, <2>3 DEF B!TypeOK
<1>12. fetch[f].feed \in Feeds /\ fetch[f].i = 1
  BY <1>1 DEF BotsInv, OneMerger
<1>13. OneMerger'
  BY <1>1, <1>10, <1>12 DEF BotsInv, OneMerger
<1>14. Unshared'
  BY <1>1, <1>2, <1>6, <1>10 DEF Unshared
<1>15. Merging'
  <2>1. fetch[f].feed \in Seq(B!Served)
    BY <1>12 DEF B!Options
  <2>2. B!MergeOf(B!Corpus, SubSeq(fetch[f].feed, 1, 0), B!Corpus)
    BY <1>3, <2>1, MergeStarts DEF BotsInv
  <2>3. Len(fetch[f].feed) \in Nat /\ fetch'[f].i \in 1 .. Len(fetch'[f].feed) + 1 /\ fetch'[f].i - 1 = 0
    BY <1>10, <1>12, <2>1
  <2>4. Len(B!Corpus) <= Len(B!Corpus)
    BY <1>3
  <2>5. arrays'[fetch'[f].next] = B!Corpus
    BY <1>5, <1>10
  <2> QED BY <1>1, <1>7, <1>10, <2>2, <2>3, <2>4, <2>5 DEF Merging
<1>16. DistinctIds(B!Corpus)'
  BY <1>7 DEF BotsInv, DistinctIds
<1> QED BY <1>7, <1>9, <1>11, <1>13, <1>14, <1>15, <1>16 DEF BotsInv

\* One element more of a sequence.
LEMMA PrefixGrows ==
    ASSUME NEW S, NEW s \in Seq(S), NEW i \in 1 .. Len(s)
    PROVE  /\ SubSeq(s, 1, i - 1) \in Seq(S) /\ s[i] \in S
           /\ Append(SubSeq(s, 1, i - 1), s[i]) = SubSeq(s, 1, i)
<1> DEFINE p == SubSeq(s, 1, i - 1)
           q == SubSeq(s, 1, i)
<1>1. Len(s) \in Nat /\ i \in Nat /\ i - 1 \in Nat /\ \A j \in 1 .. Len(s) : s[j] \in S
  OBVIOUS
<1>2. p \in Seq(S) /\ Len(p) = i - 1 /\ \A j \in 1 .. i - 1 : p[j] = s[j]
  BY <1>1
<1>3. q \in Seq(S) /\ Len(q) = i /\ \A j \in 1 .. i : q[j] = s[j]
  BY <1>1
<1> HIDE DEF p, q
<1>4. Append(p, s[i]) \in Seq(S) /\ Len(Append(p, s[i])) = i
  BY <1>1, <1>2
<1>5. \A j \in 1 .. i : Append(p, s[i])[j] = q[j]
  BY <1>1, <1>2, <1>3
<1>6. Append(p, s[i]) = q
  BY <1>3, <1>4, <1>5, SeqEqual
<1> QED BY <1>1, <1>2, <1>6 DEF p, q

\* A round of the merging loop writes a slice that nobody reads.
LEMMA MergeEntryStep ==
    ASSUME B!Options, BotsInv, NEW f \in Fetcher, B!MergeEntry(f)
    PROVE  BotsInv' /\ B!Corpus' = B!Corpus
<1> DEFINE feed == fetch[f].feed
           i == fetch[f].i
           n == fetch[f].next
           new == B!Placed(arrays[n], feed[i])
<1>1. /\ fetch[f].at = "merging" /\ i <= Len(feed)
      /\ arrays' = [arrays EXCEPT ![n] = new]
      /\ fetch' = [fetch EXCEPT ![f].i = @ + 1]
      /\ live' = live /\ mergeMu' = mergeMu /\ call' = call /\ B!Watch
  BY DEF B!MergeEntry
<1>2. /\ DOMAIN arrays = 1 .. Len(arrays) /\ Len(arrays) \in Nat /\ live \in DOMAIN arrays
      /\ \A a \in DOMAIN arrays : arrays[a] \in Seq(B!Entry)
      /\ \A r \in Visitor : call[r].slice \in DOMAIN arrays
      /\ n \in DOMAIN arrays /\ i \in Nat
  BY Slices DEF BotsInv
<1>3. f \in mergeMu /\ mergeMu = {f} /\ feed \in Feeds
  BY <1>1 DEF BotsInv, OneMerger, B!TypeOK
<1>4. feed \in Seq(B!Served) /\ i \in 1 .. Len(feed) /\ Len(feed) \in Nat
  <2>1. feed \in Seq(B!Served)
    BY <1>3 DEF B!Options
  <2>2. i \in 1 .. Len(feed) + 1
    BY <1>3 DEF BotsInv, Merging
  <2> QED BY <1>1, <2>1, <2>2
<1>5. n # live /\ \A r \in Visitor : call[r].at # "idle" => call[r].slice # n
  BY <1>3 DEF BotsInv, Unshared
<1>6. /\ Len(B!Corpus) <= Len(arrays[n])
      /\ B!MergeOf(B!Corpus, SubSeq(feed, 1, i - 1), arrays[n])
  BY <1>3 DEF BotsInv, Merging
<1>7. B!Corpus \in Seq(B!Entry) /\ B!Corpus = arrays[live]
  BY <1>2 DEF B!Corpus
<1>8. /\ SubSeq(feed, 1, i - 1) \in Seq(B!Served) /\ feed[i] \in B!Served
      /\ Append(SubSeq(feed, 1, i - 1), feed[i]) = SubSeq(feed, 1, i)
  <2> HIDE DEF feed, i
  <2> QED BY <1>4, PrefixGrows
<1>9. /\ new \in Seq(B!Entry) /\ Len(B!Corpus) <= Len(new)
      /\ B!MergeOf(B!Corpus, SubSeq(feed, 1, i), new)
  <2> DEFINE read == SubSeq(feed, 1, i - 1)
             e == feed[i]
             mid == arrays[n]
  <2>1. mid \in Seq(B!Entry) /\ new = B!Placed(mid, e)
    BY <1>2
  <2>2. read \in Seq(B!Served) /\ e \in B!Served /\ Append(read, e) = SubSeq(feed, 1, i)
    BY <1>8
  <2>3. B!Corpus \in Seq(B!Entry) /\ Len(B!Corpus) <= Len(mid)
        /\ B!MergeOf(B!Corpus, read, mid)
    BY <1>6, <1>7
  <2> HIDE DEF new, read, e, mid
  <2>4. new \in Seq(B!Entry) /\ Len(B!Corpus) <= Len(new)
        /\ B!MergeOf(B!Corpus, Append(read, e), new)
    BY <2>1, <2>2, <2>3, MergeGoesOn
  <2> QED BY <2>2, <2>4
<1>10. fetch'[f].i = i + 1 /\ fetch'[f].feed = feed /\ fetch'[f].next = n /\ fetch'[f].at = "merging"
       /\ \A g \in Fetcher : g # f => fetch'[g] = fetch[g]
  BY <1>1 DEF BotsInv, B!TypeOK
<1>11. arrays \in Seq(Seq(B!Entry)) /\ fetch \in [Fetcher -> [at : {"start", "fetched", "merging", "done"},
                              feed : Feeds \cup {<<>>}, i : Nat, next : DOMAIN arrays]]
  BY DEF BotsInv, B!TypeOK
<1> HIDE DEF new, feed, n, i
<1>12. /\ arrays' \in Seq(Seq(B!Entry)) /\ DOMAIN arrays' = DOMAIN arrays
       /\ arrays'[n] = new /\ \A a \in DOMAIN arrays : a # n => arrays'[a] = arrays[a]
  BY <1>1, <1>2, <1>9, <1>11
<1>13. B!Corpus' = B!Corpus
  BY <1>1, <1>2, <1>5, <1>12 DEF B!Corpus
<1>14. Walked' /\ seen' \in [Visitor -> SUBSET Seq(B!Entry)]
  BY <1>1, <1>2, <1>5, <1>7, <1>12, <1>13, WalkGoesOn
<1>15. B!TypeOK'
  <2>1. fetch' \in [Fetcher -> [at : {"start", "fetched", "merging", "done"},
                              feed : Feeds \cup {<<>>}, i : Nat, next : DOMAIN arrays]]
    <3> DEFINE Fetches == [at : {"start", "fetched", "merging", "done"},
                           feed : Feeds \cup {<<>>}, i : Nat, next : DOMAIN arrays]
    <3>1. fetch' = [fetch EXCEPT ![f] = [fetch[f] EXCEPT !.i = @ + 1]] /\ fetch[f] \in Fetches
      BY <1>1, <1>11
    <3>2. [fetch[f] EXCEPT !.i = @ + 1] \in Fetches
      BY <3>1
    <3> HIDE DEF Fetches
    <3>3. fetch \in [Fetcher -> Fetches]
      BY <1>11 DEF Fetches
    <3>4. fetch' \in [Fetcher -> Fetches]
      BY <3>1, <3>2, <3>3
    <3> QED BY <3>4 DEF Fetches
  <2> QED BY <1>1, <1>2, <1>12, <1>14, <2>1 DEF BotsInv, B!TypeOK
<1>16. OneMerger'
  BY <1>1, <1>3, <1>10 DEF BotsInv, OneMerger
<1>17. Unshared'
  BY <1>1, <1>3, <1>5, <1>10 DEF Unshared
<1>18. Merging'
  <2>1. fetch'[f].i - 1 = i /\ fetch'[f].i \in 1 .. Len(fetch'[f].feed) + 1
    BY <1>4, <1>10 DEF feed
  <2> QED BY <1>1, <1>3, <1>9, <1>10, <1>12, <1>13, <2>1 DEF Merging, feed
<1>19. DistinctIds(B!Corpus)'
  BY <1>13 DEF BotsInv, DistinctIds
<1> QED BY <1>13, <1>14, <1>15, <1>16, <1>17, <1>18, <1>19 DEF BotsInv

\* The merged slice becomes the live corpus as a whole.
LEMMA StoreStep ==
    ASSUME B!Options, BotsInv, NEW f \in Fetcher, B!Store(f)
    PROVE  /\ BotsInv'
           /\ fetch[f].feed \in Feeds /\ Len(B!Corpus) <= Len(B!Corpus')
           /\ B!MergeOf(B!Corpus, fetch[f].feed, B!Corpus')
<1> DEFINE feed == fetch[f].feed
           n == fetch[f].next
<1>1. /\ fetch[f].at = "merging" /\ fetch[f].i > Len(feed)
      /\ live' = n /\ mergeMu' = mergeMu \ {f}
      /\ fetch' = [fetch EXCEPT ![f].at = "done"]
      /\ arrays' = arrays /\ call' = call /\ B!Watch
  BY DEF B!Store
<1>2. /\ \A a \in DOMAIN arrays : arrays[a] \in Seq(B!Entry)
      /\ n \in DOMAIN arrays
  BY Slices DEF BotsInv
<1>3. mergeMu = {f} /\ f \in mergeMu /\ feed \in Feeds
  BY <1>1 DEF BotsInv, OneMerger, B!TypeOK
<1>4. feed \in Seq(B!Served) /\ fetch[f].i \in 1 .. Len(feed) + 1
  BY <1>3 DEF BotsInv, Merging, B!Options
<1>5. fetch[f].i - 1 = Len(feed) /\ SubSeq(feed, 1, Len(feed)) = feed
  <2> HIDE DEF feed
  <2>1. fetch[f].i - 1 = Len(feed)
    BY <1>1, <1>4
  <2> QED BY <1>4, <2>1
<1>6. Len(B!Corpus) <= Len(arrays[n]) /\ B!MergeOf(B!Corpus, feed, arrays[n])
  BY <1>3, <1>5 DEF BotsInv, Merging
<1>7. B!Corpus' = arrays[n]
  BY <1>1 DEF B!Corpus
<1>8. /\ fetch'[f].at = "done" /\ fetch'[f].feed = feed
      /\ \A g \in Fetcher : g # f => fetch'[g] = fetch[g]
  BY <1>1 DEF BotsInv, B!TypeOK
<1>9. Walked' /\ seen' \in [Visitor -> SUBSET Seq(B!Entry)]
  BY <1>1, <1>2, <1>7, WalkGoesOn
<1>10. B!TypeOK'
  <2>1. fetch' \in [Fetcher -> [at : {"start", "fetched", "merging", "done"},
                              feed : Feeds \cup {<<>>}, i : Nat, next : DOMAIN arrays]]
    BY <1>1, ZenonT(60) DEF BotsInv, B!TypeOK
  <2> QED BY <1>1, <1>2, <1>9, <2>1 DEF BotsInv, B!TypeOK
<1>11. mergeMu' = {}
  BY <1>1, <1>3
<1>12. OneMerger'
  BY <1>3, <1>8, <1>11 DEF BotsInv, OneMerger
<1>13. Unshared' /\ Merging'
  BY <1>11 DEF Unshared, Merging
<1>14. DistinctIds(B!Corpus)'
  BY <1>6, <1>7 DEF DistinctIds, B!MergeOf
<1> QED BY <1>3, <1>6, <1>7, <1>9, <1>10, <1>12, <1>13, <1>14 DEF BotsInv

\* ResetBotPatternsForTest puts a copy of the bundled corpus in place.
LEMMA ResetStep ==
    ASSUME B!Options, BotsInv, B!ResetBotPatternsForTest
    PROVE  BotsInv' /\ B!Corpus' = Bundled
<1>1. /\ mergeMu = {} /\ arrays' = Append(arrays, Bundled) /\ live' = Len(arrays')
      /\ mergeMu' = mergeMu /\ fetch' = fetch /\ call' = call /\ B!Watch
  BY DEF B!ResetBotPatternsForTest
<1>2. /\ DOMAIN arrays = 1 .. Len(arrays) /\ Len(arrays) \in Nat
      /\ \A r \in Visitor : call[r].slice \in DOMAIN arrays
      /\ Bundled \in Seq(B!Entry) /\ arrays \in Seq(Seq(B!Entry))
  BY Slices DEF BotsInv, B!TypeOK
<1> DEFINE n == Len(arrays) + 1
<1>3. /\ arrays' \in Seq(Seq(B!Entry)) /\ Len(arrays') = n /\ DOMAIN arrays' = 1 .. n
      /\ arrays'[n] = Bundled /\ \A a \in DOMAIN arrays : arrays'[a] = arrays[a]
  BY <1>1, <1>2
<1>4. n \in DOMAIN arrays' /\ DOMAIN arrays \subseteq DOMAIN arrays'
  BY <1>2, <1>3
<1>5. B!Corpus' = Bundled
  BY <1>1, <1>3 DEF B!Corpus
<1>6. Walked' /\ seen' \in [Visitor -> SUBSET Seq(B!Entry)]
  BY <1>1, <1>2, <1>3, <1>5, WalkGoesOn
<1> HIDE DEF n
<1>7. B!TypeOK'
  <2>1. fetch' \in [Fetcher -> [at : {"start", "fetched", "merging", "done"}, feed : Feeds \cup {<<>>},
                              i : Nat, next : DOMAIN arrays']]
    BY <1>1, <1>4 DEF BotsInv, B!TypeOK
  <2>2. call' \in [Visitor -> [at : {"idle", "matching", "judged", "done"}, agent : Agent,
                             slice : DOMAIN arrays', i : Nat, category : B!Category,
                             answer : {"none", "403", "next"}]]
    BY <1>1, <1>4 DEF BotsInv, B!TypeOK
  <2>3. live' \in DOMAIN arrays' /\ mergeMu' \subseteq Fetcher
    BY <1>1, <1>3, <1>4
  <2> QED BY <1>3, <1>6, <2>1, <2>2, <2>3 DEF B!TypeOK
<1>8. OneMerger'
  BY <1>1 DEF BotsInv, OneMerger
<1>9. Unshared' /\ Merging'
  BY <1>1 DEF Unshared, Merging
<1>10. DistinctIds(B!Corpus)'
  BY <1>5 DEF B!Options, DistinctIds
<1> QED BY <1>5, <1>6, <1>7, <1>8, <1>9, <1>10 DEF BotsInv

\* A request loads the live slice, walks it, and answers.
LEMMA RequestStep ==
    ASSUME B!Options, BotsInv, NEW r \in Visitor, B!Load(r) \/ B!Match(r) \/ B!BotProtection(r)
    PROVE  BotsInv' /\ UNCHANGED <<arrays, live>>
<1> DEFINE Calls == [at : {"idle", "matching", "judged", "done"}, agent : Agent,
                     slice : DOMAIN arrays, i : Nat, category : B!Category,
                     answer : {"none", "403", "next"}]
           Fair(c, s) ==
               LET slice == arrays[c.slice]
               IN  /\ c.at # "idle" => slice \in s
                   /\ c.at = "matching" =>
                          c.i # 0 /\ \A j \in 1 .. c.i - 1 : j \in DOMAIN slice => ~B!Matches(slice[j], c.agent)
                   /\ c.at \in {"judged", "done"} => c.category = B!CategoryBy(slice, c.agent)
<1>1. /\ call \in [Visitor -> Calls] /\ seen \in [Visitor -> SUBSET Seq(B!Entry)]
      /\ live \in DOMAIN arrays /\ call[r] \in Calls
  BY DEF BotsInv, B!TypeOK
<1>2. \A q \in Visitor : Fair(call[q], seen[q])
  BY DEF BotsInv, Walked
<1>3. /\ \A a \in DOMAIN arrays : arrays[a] \in Seq(B!Entry)
      /\ call[r].slice \in DOMAIN arrays
  BY Slices DEF BotsInv
<1>4. /\ arrays' = arrays /\ live' = live /\ mergeMu' = mergeMu /\ fetch' = fetch
  BY DEF B!Load, B!Match, B!BotProtection
<1>5. SUFFICES ASSUME NEW c \in Calls, NEW s \in SUBSET Seq(B!Entry),
                      call' = [call EXCEPT ![r] = c], seen' = [seen EXCEPT ![r] = s],
                      Fair(c, s), c.at # "idle",
                      c.slice = live \/ (call[r].at # "idle" /\ c.slice = call[r].slice)
               PROVE  BotsInv'
  <2> HIDE DEF Calls, Fair
  <2>1. CASE B!Load(r)
    <3>1. PICK a \in Agent :
            call' = [call EXCEPT ![r] = [B!NoCall EXCEPT !.at = "matching", !.agent = a, !.slice = live]]
      BY <2>1 DEF B!Load
    <3> DEFINE c == [B!NoCall EXCEPT !.at = "matching", !.agent = a, !.slice = live]
    <3>2. (CHOOSE x \in Agent : TRUE) \in Agent
      BY DEF B!Options
    <3>3. /\ c \in Calls /\ c.at = "matching" /\ c.slice = live /\ c.i = 1
      BY <1>1, <3>2 DEF Calls, B!NoCall, B!Category
    <3>4. seen' = [seen EXCEPT ![r] = {B!Corpus}] /\ B!Corpus = arrays[live]
      BY <2>1 DEF B!Load, B!Corpus
    <3>5. {B!Corpus} \in SUBSET Seq(B!Entry)
      BY <1>1, <1>3, <3>4
    <3> HIDE DEF c
    <3>6. \A j : ~(j \in 1 .. c.i - 1)
      BY <3>3
    <3>7. Fair(c, {B!Corpus})
      BY <3>3, <3>4, <3>6 DEF Fair
    <3> QED BY <1>4, <1>5, <3>1, <3>3, <3>4, <3>5, <3>7 DEF c
  <2>2. CASE B!Match(r)
    <3> DEFINE b == call[r]
               slice == arrays[b.slice]
               c == IF b.i > Len(slice) THEN [b EXCEPT !.at = "judged", !.category = B!Behaviour(b.agent)]
                    ELSE IF B!Matches(slice[b.i], b.agent)
                         THEN [b EXCEPT !.at = "judged", !.category = slice[b.i].category]
                         ELSE [b EXCEPT !.i = @ + 1]
    <3>1. /\ b.at = "matching" /\ call' = [call EXCEPT ![r] = c]
          /\ seen' = seen
      BY <2>2 DEF B!Match
    <3>2. seen' = [seen EXCEPT ![r] = seen[r]] /\ seen[r] \in SUBSET Seq(B!Entry)
      BY <1>1, <3>1
    <3>3. /\ b.i \in Nat /\ b.agent \in Agent /\ b \in Calls /\ slice \in Seq(B!Entry)
          /\ Len(slice) \in Nat /\ DOMAIN slice = 1 .. Len(slice)
      BY <1>1, <1>3 DEF Calls
    <3>4. slice \in seen[r] /\ b.i # 0 /\ \A j \in 1 .. b.i - 1 : j \in DOMAIN slice => ~B!Matches(slice[j], b.agent)
      BY <1>2, <3>1 DEF Fair
    <3>5. c \in Calls /\ c.slice = b.slice /\ c.at \in {"matching", "judged"} /\ c.agent = b.agent
      <4>1. CASE b.i > Len(slice)
        <5>1. B!Behaviour(b.agent) \in B!Category
          BY DEF B!Behaviour, B!Category
        <5> QED BY <3>1, <3>3, <4>1, <5>1 DEF Calls
      <4>2. CASE ~(b.i > Len(slice))
        <5>1. slice[b.i].category \in B!Category
          BY <3>3, <3>4, <4>2 DEF B!Category
        <5>2. CASE B!Matches(slice[b.i], b.agent)
          <6>1. c = [b EXCEPT !.at = "judged", !.category = slice[b.i].category]
            BY <4>2, <5>2
          <6> HIDE DEF c
          <6> QED BY <3>3, <5>1, <6>1 DEF Calls
        <5>3. CASE ~B!Matches(slice[b.i], b.agent)
          <6>1. c = [b EXCEPT !.i = @ + 1]
            BY <4>2, <5>3
          <6> HIDE DEF c
          <6> QED BY <3>1, <3>3, <6>1 DEF Calls
        <5> QED BY <5>2, <5>3
      <4> QED BY <4>1, <4>2
    <3>6. Fair(c, seen[r])
      <4> DEFINE n == b.i
                 a == b.agent
      <4>1. /\ n > Len(slice) => B!CategoryBy(slice, a) = B!Behaviour(a)
            /\ n \in DOMAIN slice /\ B!Matches(slice[n], a) => B!CategoryBy(slice, a) = slice[n].category
        <5> HIDE DEF b, slice
        <5> QED BY <3>3, <3>4, FirstMatch
      <4>2. CASE n > Len(slice)
        <5>1. c.at = "judged" /\ c.category = B!Behaviour(a)
          BY <3>3, <4>2 DEF Calls
        <5> HIDE DEF c
        <5> QED BY <3>4, <3>5, <4>1, <4>2, <5>1 DEF Fair
      <4>3. CASE ~(n > Len(slice)) /\ B!Matches(slice[n], a)
        <5>1. c.at = "judged" /\ c.category = slice[n].category
          BY <3>3, <4>3 DEF Calls
        <5>2. n \in DOMAIN slice
          BY <3>3, <3>4, <4>3
        <5> HIDE DEF c
        <5> QED BY <3>4, <3>5, <4>1, <4>3, <5>1, <5>2 DEF Fair
      <4>4. CASE ~(n > Len(slice)) /\ ~B!Matches(slice[n], a)
        <5>1. c.at = "matching" /\ c.i = n + 1
          BY <3>1, <3>3, <4>4 DEF Calls
        <5>2. c.i # 0 /\ \A j \in 1 .. c.i - 1 : j \in 1 .. n - 1 \/ j = n
          BY <3>3, <5>1
        <5> HIDE DEF c, b, slice
        <5>3. \A j \in 1 .. c.i - 1 : j \in DOMAIN slice => ~B!Matches(slice[j], a)
          BY <3>4, <4>4, <5>2
        <5> QED BY <3>4, <3>5, <5>1, <5>2, <5>3 DEF Fair, slice
      <4> QED BY <4>2, <4>3, <4>4
    <3> HIDE DEF c
    <3>7. c.at # "idle" /\ b.at # "idle"
      BY <3>1, <3>5
    <3> QED BY <1>4, <1>5, <3>1, <3>2, <3>5, <3>6, <3>7
  <2>3. CASE B!BotProtection(r)
    <3> DEFINE b == call[r]
               answer == IF B!Denied(b.category) THEN "403" ELSE "next"
               c == [b EXCEPT !.at = "done", !.answer = answer]
    <3>1. /\ b.at = "judged" /\ seen' = seen
          /\ call' = [call EXCEPT ![r].at = "done", ![r].answer = answer]
      BY <2>3 DEF B!BotProtection
    <3>2. call' = [call EXCEPT ![r] = c]
      BY <1>1, <3>1 DEF Calls
    <3>3. answer \in {"none", "403", "next"}
      OBVIOUS
    <3> HIDE DEF answer
    <3>4. c \in Calls /\ c.at = "done" /\ c.slice = b.slice /\ c.category = b.category /\ c.agent = b.agent
      BY <1>1, <3>3 DEF Calls
    <3>5. Fair(c, seen[r])
      BY <1>2, <3>1, <3>4 DEF Fair
    <3>6. seen' = [seen EXCEPT ![r] = seen[r]] /\ seen[r] \in SUBSET Seq(B!Entry)
      BY <1>1, <3>1
    <3> HIDE DEF c
    <3> QED BY <1>4, <1>5, <3>1, <3>2, <3>4, <3>5, <3>6
  <2> QED BY <2>1, <2>2, <2>3
<1>6. /\ call'[r] = c /\ seen'[r] = s
      /\ \A q \in Visitor : q # r => call'[q] = call[q] /\ seen'[q] = seen[q]
  BY <1>1, <1>5
<1>7. B!TypeOK'
  BY <1>1, <1>4, <1>5 DEF BotsInv, B!TypeOK
<1>8. OneMerger'
  BY <1>4 DEF BotsInv, OneMerger
<1>9. Unshared'
  <2>1. \A f \in mergeMu : fetch[f].next # live /\ c.slice # fetch[f].next
    BY <1>5 DEF BotsInv, Unshared
  <2> QED BY <1>4, <1>6, <2>1 DEF BotsInv, Unshared
<1>10. Merging'
  BY <1>4 DEF BotsInv, Merging, B!Corpus
<1>11. Walked'
  <2>1. \A q \in Visitor : Fair(call'[q], seen'[q])
    BY <1>2, <1>5, <1>6
  <2> QED BY <1>4, <2>1 DEF Walked
<1>12. DistinctIds(B!Corpus)'
  BY <1>4 DEF BotsInv, DistinctIds, B!Corpus
<1> QED BY <1>7, <1>8, <1>9, <1>10, <1>11, <1>12 DEF BotsInv

\* The corpus is always a whole one, at most one goroutine writes a slice, and no
\* request walks the one that is written.
THEOREM CorpusSound == B!Spec => []BotsInv
<1>0. B!Options
  BY SharedOptions
<1> USE <1>0
<1>1. B!Init => BotsInv
  <2> SUFFICES ASSUME B!Init PROVE BotsInv
    OBVIOUS
  <2>1. /\ arrays = <<Bundled>> /\ live = 1 /\ mergeMu = {}
        /\ fetch = [f \in Fetcher |-> B!NewFetch]
        /\ call = [r \in Visitor |-> B!NoCall]
        /\ seen = [r \in Visitor |-> {}]
    BY DEF B!Init
  <2>2. Bundled \in Seq(B!Entry)
    <3>1. Bundled \in Seq(B!Served) /\ B!Served \subseteq B!Entry
      BY DEF B!Options, B!Entry
    <3> QED BY <3>1
  <2>3. arrays \in Seq(Seq(B!Entry)) /\ DOMAIN arrays = {1} /\ arrays[1] = Bundled
    BY <2>1, <2>2
  <2>4. (CHOOSE a \in Agent : TRUE) \in Agent
    BY DEF B!Options
  <2>5. B!NoCall \in [at : {"idle", "matching", "judged", "done"}, agent : Agent,
                         slice : DOMAIN arrays, i : Nat, category : B!Category,
                         answer : {"none", "403", "next"}]
    BY <2>3, <2>4 DEF B!NoCall, B!Category
  <2>6. B!NewFetch \in [at : {"start", "fetched", "merging", "done"}, feed : Feeds \cup {<<>>},
                           i : Nat, next : DOMAIN arrays]
    BY <2>3 DEF B!NewFetch
  <2>7. B!TypeOK
    BY <2>1, <2>3, <2>5, <2>6 DEF B!TypeOK
  <2>8. OneMerger
    BY <2>1 DEF OneMerger, B!NewFetch
  <2>9. Unshared /\ Merging
    BY <2>1 DEF Unshared, Merging
  <2>10. Walked
    BY <2>1 DEF Walked, B!NoCall
  <2>11. DistinctIds(B!Corpus)
    BY <2>1, <2>3 DEF DistinctIds, B!Corpus, B!Options
  <2> QED BY <2>7, <2>8, <2>9, <2>10, <2>11 DEF BotsInv
<1>2. BotsInv /\ [B!Next]_B!vars => BotsInv'
  <2> SUFFICES ASSUME BotsInv, [B!Next]_B!vars PROVE BotsInv'
    OBVIOUS
  <2>1. ASSUME NEW f \in Fetcher, B!Fetch(f) \/ B!Lock(f) \/ B!MergeEntry(f) \/ B!Store(f)
        PROVE  BotsInv'
    BY <2>1, FetchStep, LockStep, MergeEntryStep, StoreStep
  <2>2. ASSUME NEW r \in Visitor, B!Load(r) \/ B!Match(r) \/ B!BotProtection(r)
        PROVE  BotsInv'
    BY <2>2, RequestStep
  <2>3. CASE B!ResetBotPatternsForTest
    BY <2>3, ResetStep
  <2>4. CASE UNCHANGED B!vars
    BY <2>4 DEF B!vars, BotsInv, B!TypeOK, OneMerger, Unshared, Merging, Walked, DistinctIds, B!Corpus
  <2> QED BY <2>1, <2>2, <2>3, <2>4 DEF B!Next
<1> QED BY <1>1, <1>2, PTL DEF B!Spec

\* OneCorpusDecides of DetectBot: the category of a request is that of one corpus
\* that was live as a whole while it was classified, whatever is merged meanwhile.
THEOREM JudgedByOneCorpus == B!Spec => []OneCorpusDecides
<1>1. BotsInv => OneCorpusDecides
  BY DEF OneCorpusDecides, BotsInv, Walked, B!OneCorpusDecides
<1> QED BY <1>1, CorpusSound, PTL

\* WholeMerges of MergeBotPatterns: the corpus changes by whole feeds, each
\* applied to the corpus that was live until then, so no merge is lost.
THEOREM MergesAreWhole == B!Spec => WholeMerges
<1>0. B!Options
  BY SharedOptions
<1> USE <1>0
<1> DEFINE Whole == \/ B!Corpus' \in {B!Corpus, Bundled}
                    \/ \E feed \in Feeds :
                          Len(B!Corpus') >= Len(B!Corpus) /\ B!MergeOf(B!Corpus, feed, B!Corpus')
<1>1. BotsInv /\ BotsInv' /\ [B!Next]_B!vars
        => [\/ B!Corpus' \in {B!Corpus, Bundled}
            \/ \E feed \in Feeds :
                  Len(B!Corpus') >= Len(B!Corpus) /\ B!MergeOf(B!Corpus, feed, B!Corpus')
           ]_<<arrays, live>>
  <2> SUFFICES ASSUME BotsInv, BotsInv', [B!Next]_B!vars, ~UNCHANGED <<arrays, live>> PROVE Whole
    OBVIOUS
  <2>1. ASSUME NEW f \in Fetcher, B!Lock(f) \/ B!MergeEntry(f) PROVE Whole
    BY <2>1, LockStep, MergeEntryStep
  <2>2. ASSUME NEW f \in Fetcher, B!Store(f) PROVE Whole
    <3>1. /\ fetch[f].feed \in Feeds /\ Len(B!Corpus) <= Len(B!Corpus')
          /\ B!MergeOf(B!Corpus, fetch[f].feed, B!Corpus')
      BY <2>2, StoreStep
    <3>2. Len(B!Corpus) \in Nat /\ Len(B!Corpus)' \in Nat
      <4>1. B!Corpus \in Seq(B!Entry)
        <5>1. arrays \in Seq(Seq(B!Entry)) /\ live \in DOMAIN arrays
          BY DEF BotsInv, B!TypeOK
        <5> QED BY <5>1 DEF B!Corpus
      <4>2. arrays' \in Seq(Seq(B!Entry)) /\ live' \in DOMAIN arrays'
        BY DEF BotsInv, B!TypeOK
      <4>3. B!Corpus' \in Seq(B!Entry)
        BY <4>2 DEF B!Corpus
      <4> QED BY <4>1, <4>3
    <3> QED BY <3>1, <3>2
  <2>3. CASE B!ResetBotPatternsForTest
    BY <2>3, ResetStep
  <2>4. ASSUME NEW f \in Fetcher, B!Fetch(f) PROVE Whole
    BY <2>4 DEF B!Fetch
  <2>5. ASSUME NEW r \in Visitor, B!Load(r) \/ B!Match(r) \/ B!BotProtection(r) PROVE Whole
    BY <2>5, RequestStep
  <2>6. CASE UNCHANGED B!vars
    BY <2>6 DEF B!vars
  <2> QED BY <2>1, <2>2, <2>3, <2>4, <2>5, <2>6 DEF B!Next
<1> QED BY <1>1, CorpusSound, PTL DEF B!Spec, WholeMerges, B!WholeMerges

-----------------------------------------------------------------------------
(* All of them in one process. *)

\* A behaviour of the process is one of each of its parts: what one part does
\* changes nothing of the others.
THEOREM EachPartBehaves == SharedSpec => Spec /\ C!Spec /\ B!Spec
<1>1. SharedInit => Init /\ C!Init /\ B!Init
  BY DEF SharedInit
<1>2. [SharedNext]_allVars => [Next]_vars /\ [C!Next]_(C!vars) /\ [B!Next]_(B!vars)
  BY DEF SharedNext, allVars, vars, windowVars, corpusVars, C!vars, B!vars
<1> QED BY <1>1, <1>2, PTL DEF SharedSpec, Spec, C!Spec, B!Spec

\* What the process as a whole keeps, whoever shares its state: no budget is
\* overcharged by more than what runs, no evidence or alarm of an IP is lost
\* early, and a request is judged by one corpus.
THEOREM ProcessKeepsAll ==
    SharedSpec => /\ [](NeverOvercharged /\ EvidenceKept /\ RaceScanExact /\ OneCorpusDecides)
                  /\ AlarmLasts /\ WholeMerges
BY EachPartBehaves, NeverOverchargesAny, EvidenceIsKept, RaceScansExact, AlarmsLast,
   JudgedByOneCorpus, MergesAreWhole, PTL
=============================================================================
