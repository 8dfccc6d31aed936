------------------------- MODULE RateLimiterProofs -------------------------
(***************************************************************************)
(* Theorems about the three in-memory limiters, for every key set, quota,  *)
(* rate and window length: RateLimiter, TokenBucket (B) and SlidingWindow  *)
(* (S), as MCStandalone composes them.                                     *)
(***************************************************************************)
EXTENDS MCStandalone, TLAPS

\* Every state of the limiter is well formed (CheckKey, cleanup, Close).
THEOREM TypeCorrect == Spec => []TypeOK
<1>1. Init => TypeOK
  <2> SUFFICES ASSUME Init PROVE TypeOK
    OBVIOUS
  <2>1. reply \in [key : Key, allowed : BOOLEAN] \cup {NoEntry}
    BY Zenon DEF Init
  <2> QED BY <2>1 DEF Init, TypeOK
<1>2. TypeOK /\ [Next]_vars => TypeOK'
  <2> SUFFICES ASSUME TypeOK, [Next]_vars PROVE TypeOK'
    OBVIOUS
  <2> USE LimiterAssumption
  <2>1. ASSUME NEW k \in Key, OpenWindow(k) PROVE TypeOK'
    <3>1. [count |-> 1, resetTime |-> now + window] \in Entry
      BY DEF TypeOK, Entry
    <3> QED BY <2>1, <3>1 DEF OpenWindow, EndOf, TypeOK
  <2>2. ASSUME NEW k \in Key, CountRequest(k) PROVE TypeOK'
    <3> DEFINE e == Bump(store[k])
    <3>1. store[k] \in Entry
      BY <2>2 DEF CountRequest, TypeOK
    <3>2. e \in Entry /\ e.count \in Nat /\ e.resetTime \in Nat
      BY <3>1 DEF Bump, Entry
    <3>3. (e.count <= max) \in BOOLEAN
      BY <3>2
    <3> QED BY <2>2, <3>2, <3>3 DEF CountRequest, TypeOK
  <2>3. CASE cleanup
    BY <2>3 DEF cleanup, TypeOK
  <2>4. CASE Close
    BY <2>4 DEF Close, TypeOK
  <2>5. CASE Tick
    BY <2>5 DEF Tick, TypeOK
  <2>6. CASE UNCHANGED vars
    BY <2>6 DEF vars, TypeOK
  <2> QED BY <2>1, <2>2, <2>3, <2>4, <2>5, <2>6 DEF Next, CheckKey
<1> QED BY <1>1, <1>2, PTL DEF Spec

\* A refusal is backed by an exhausted window that ends when the client was
\* told, through every call, cleanup and tick: RefusalHeld of CheckKey.
THEOREM RefusalsHeld == Spec => []RefusalHeld
<1>1. Init => RefusalHeld
  BY DEF Init, RefusalHeld
<1>2. TypeOK /\ RefusalHeld /\ [Next]_vars => RefusalHeld'
  <2> SUFFICES ASSUME TypeOK, RefusalHeld, [Next]_vars, NEW j \in Key,
                      refused'[j] >= now', refused'[j] > 0
               PROVE  /\ store'[j] # NoEntry
                      /\ store'[j].resetTime = refused'[j]
                      /\ store'[j].count > max
    BY DEF RefusalHeld
  <2> USE LimiterAssumption
  <2>1. ASSUME NEW k \in Key, OpenWindow(k) PROVE store'[j] = store[j] /\ refused' = refused /\ now' = now
    <3>1. refused' = refused /\ now' = now
      BY <2>1 DEF OpenWindow
    <3>2. store[j] # NoEntry /\ store[j] \in Entry /\ ~(store[j].resetTime < now)
      BY <3>1 DEF RefusalHeld, TypeOK, Entry
    <3>3. k # j
      BY <2>1, <3>2 DEF OpenWindow, Over
    <3> QED BY <2>1, <3>1, <3>3 DEF OpenWindow, TypeOK
  <2>2. ASSUME NEW k \in Key, CountRequest(k)
        PROVE  /\ store'[j] # NoEntry
               /\ store'[j].resetTime = refused'[j]
               /\ store'[j].count > max
    <3> DEFINE e == Bump(store[k])
    <3>1. store[k] \in Entry
      BY <2>2 DEF CountRequest, TypeOK
    <3>2. e \in Entry /\ e.count = store[k].count + 1 /\ e.resetTime = store[k].resetTime
      BY <3>1 DEF Bump, Entry
    <3>3. now' = now /\ store' = [store EXCEPT ![k] = e]
      BY <2>2 DEF CountRequest
    <3>4. CASE k = j
      <4>1. store'[j] = e /\ e # NoEntry
        BY <3>2, <3>3, <3>4 DEF TypeOK
      <4>2. CASE e.count <= max
        <5>1. refused' = refused
          BY <2>2, <4>2 DEF CountRequest
        <5>2. store[j].count > max
          BY <3>3, <5>1 DEF RefusalHeld
        <5> QED BY <3>1, <3>2, <3>4, <4>2, <5>2 DEF Entry
      <4>3. CASE ~(e.count <= max)
        <5>1. refused'[j] = e.resetTime
          BY <2>2, <3>4, <4>3 DEF CountRequest, TypeOK
        <5> QED BY <4>1, <4>3, <5>1, <3>2 DEF Entry
      <4> QED BY <4>2, <4>3
    <3>5. CASE k # j
      BY <2>2, <3>3, <3>5 DEF CountRequest, TypeOK, RefusalHeld
    <3> QED BY <3>4, <3>5
  <2>3. CASE cleanup
    <3>1. store[j] # NoEntry /\ store[j] \in Entry /\ ~(store[j].resetTime < now)
      BY <2>3 DEF cleanup, RefusalHeld, TypeOK, Entry
    <3>2. store'[j] = store[j]
      BY <2>3, <3>1 DEF cleanup, Forgets, Over
    <3> QED BY <2>3, <3>2 DEF cleanup, RefusalHeld
  <2>4. CASE Close
    BY <2>4 DEF Close, RefusalHeld
  <2>5. CASE Tick
    BY <2>5 DEF Tick, RefusalHeld, TypeOK
  <2>6. CASE UNCHANGED vars
    BY <2>6 DEF vars, RefusalHeld
  <2>7. ASSUME NEW k \in Key, OpenWindow(k)
        PROVE  /\ store'[j] # NoEntry
               /\ store'[j].resetTime = refused'[j]
               /\ store'[j].count > max
    BY <2>1, <2>7 DEF RefusalHeld
  <2> QED BY <2>2, <2>3, <2>4, <2>5, <2>6, <2>7 DEF Next, CheckKey
<1> QED BY <1>1, <1>2, TypeCorrect, PTL DEF Spec

\* No client is admitted before the reset time of its last refusal: what the
\* Reset field of a refused RateLimitResult promises.
THEOREM NoEarlyAdmissions == Spec => NoEarlyAdmission
<1>1. TypeOK /\ RefusalHeld /\ [Next]_vars
        => [\A k \in Key : CheckKey(k) /\ reply'.allowed
                           => refused[k] = 0 \/ refused[k] < now]_vars
  <2> SUFFICES ASSUME TypeOK, RefusalHeld, NEW k \in Key, CheckKey(k), reply'.allowed,
                      refused[k] # 0, ~(refused[k] < now)
               PROVE  FALSE
    OBVIOUS
  <2> USE LimiterAssumption
  <2>1. store[k] \in Entry /\ store[k].resetTime >= now /\ store[k].count > max
    BY DEF RefusalHeld, TypeOK
  <2>2. ~OpenWindow(k)
    BY <2>1 DEF OpenWindow, Over, TypeOK, Entry
  <2>3. CountRequest(k)
    BY <2>2 DEF CheckKey
  <2>4. ~(Bump(store[k]).count <= max)
    BY <2>1 DEF Bump, Entry
  <2>5. ~reply'.allowed
    BY <2>3, <2>4 DEF CountRequest
  <2> QED BY <2>5
<1> QED BY <1>1, TypeCorrect, RefusalsHeld, PTL DEF Spec, NoEarlyAdmission

\* CheckKey, cleanup, Close and Tick implement a window quota: exactly the
\* first max requests of each window are admitted.
THEOREM ImplementsQuota == Spec => IsQuota
<1> DEFINE end == [k \in Key |-> IF store[k] = NoEntry THEN -1 ELSE store[k].resetTime]
           used == [k \in Key |-> IF store[k] = NoEntry THEN 0 ELSE CappedCount(store[k])]
<1>1. Init => Quota!Init
  BY DEF Init, Quota!Init, Quota!NoWindow
<1>2. TypeOK /\ [Next]_vars => [Quota!Next]_Quota!vars
  <2> SUFFICES ASSUME TypeOK, [Next]_vars PROVE [Quota!Next]_Quota!vars
    OBVIOUS
  <2> USE LimiterAssumption
  <2>1. ASSUME NEW k \in Key, OpenWindow(k) PROVE Quota!Open(k)
    <3>1. end[k] < now
      BY <2>1 DEF OpenWindow, Over, TypeOK, Entry
    <3>2. [count |-> 1, resetTime |-> now + window] # NoEntry
      BY DEF Entry, TypeOK
    <3>3. end' = [end EXCEPT ![k] = now + window]
      BY <2>1, <3>2 DEF OpenWindow, EndOf, TypeOK
    <3>4. used' = [used EXCEPT ![k] = 1]
      <4>1. CappedCount([count |-> 1, resetTime |-> now + window]) = 1
        BY DEF CappedCount
      <4>2. store' = [store EXCEPT ![k] = [count |-> 1, resetTime |-> now + window]]
        BY <2>1 DEF OpenWindow, EndOf
      <4> HIDE DEF CappedCount
      <4> QED BY <3>2, <4>1, <4>2 DEF TypeOK
    <3> QED BY <2>1, <3>1, <3>3, <3>4 DEF Quota!Open, Quota!Answer, OpenWindow
  <2>2. ASSUME NEW k \in Key, CountRequest(k) PROVE Quota!Admit(k) \/ Quota!Refuse(k)
    <3> DEFINE e == Bump(store[k])
    <3>1. store[k] \in Entry /\ store[k] # NoEntry
      BY <2>2 DEF CountRequest, TypeOK
    <3>2. e \in Entry /\ e # NoEntry /\ e.count = store[k].count + 1 /\ e.resetTime = store[k].resetTime
      BY <3>1 DEF Bump, Entry
    <3>3. store[k].count \in Nat /\ store[k].resetTime \in Nat /\ now \in Nat
      BY <3>1 DEF Entry, TypeOK
    <3>4. now <= end[k]
      BY <2>2, <3>3 DEF CountRequest, Over
    <3>5. store' = [store EXCEPT ![k] = e]
      BY <2>2 DEF CountRequest
    <3>6. end' = end
      BY <3>1, <3>2, <3>5 DEF TypeOK
    <3>7. now' = now
      BY <2>2 DEF CountRequest
    <3>8. CASE e.count <= max
      <4>1. used[k] + 1 <= max
        BY <3>1, <3>2, <3>3, <3>8 DEF CappedCount
      <4>2. CappedCount(e) = CappedCount(store[k]) + 1
        BY <3>2, <3>3, <3>8 DEF CappedCount
      <4>3. used' = [used EXCEPT ![k] = @ + 1]
        BY <3>1, <3>2, <3>5, <4>2 DEF TypeOK
      <4>4. reply' = [key |-> k, allowed |-> TRUE]
        BY <2>2, <3>8 DEF CountRequest
      <4> QED BY <3>4, <3>6, <3>7, <4>1, <4>3, <4>4 DEF Quota!Admit, Quota!Answer
    <3>9. CASE ~(e.count <= max)
      <4>1. CappedCount(e) = max /\ CappedCount(store[k]) = max
        BY <3>2, <3>3, <3>9 DEF CappedCount
      <4>2. used[k] >= max
        BY <3>1, <4>1
      <4>3. used' = used
        BY <3>1, <3>2, <3>5, <4>1 DEF TypeOK
      <4>4. reply' = [key |-> k, allowed |-> FALSE]
        <5>1. (e.count <= max) = FALSE
          BY <3>2, <3>3, <3>9
        <5>2. reply' = [key |-> k, allowed |-> e.count <= max]
          BY <2>2 DEF CountRequest
        <5> QED BY <5>1, <5>2
      <4> QED BY <3>4, <3>6, <3>7, <4>2, <4>3, <4>4 DEF Quota!Refuse, Quota!Answer
    <3> QED BY <3>8, <3>9
  <2>3. CASE cleanup
    <3>0. PICK Gone \in SUBSET Key :
             Gone = {k \in Key : store[k] # NoEntry /\ Forgets(store[k], now)}
      OBVIOUS
    <3>1. \A k \in Gone : end[k] < now
      BY <3>0 DEF Forgets, Over
    <3>2. end' = [k \in Key |-> IF k \in Gone THEN -1 ELSE end[k]]
      BY <2>3, <3>0 DEF cleanup
    <3>3. used' = [k \in Key |-> IF k \in Gone THEN 0 ELSE used[k]]
      BY <2>3, <3>0 DEF cleanup
    <3>4. now' = now /\ reply' = reply
      BY <2>3 DEF cleanup
    <3>5. Quota!Forget(Gone)
      BY <3>1, <3>2, <3>3, <3>4 DEF Quota!Forget, Quota!NoWindow, end, used
    <3> QED BY <3>5 DEF Quota!Next
  <2>4. CASE Close
    BY <2>4 DEF Close, Quota!vars, CappedCount
  <2>5. CASE Tick
    BY <2>5 DEF Tick, Quota!Next, Quota!Tick, CappedCount
  <2>6. CASE UNCHANGED vars
    BY <2>6 DEF vars, Quota!vars, CappedCount
  <2> QED BY <2>1, <2>2, <2>3, <2>4, <2>5, <2>6 DEF Next, CheckKey, Quota!Next
<1> QED BY <1>1, <1>2, TypeCorrect, PTL DEF Spec, IsQuota, Quota!Spec

-----------------------------------------------------------------------------
(* The token bucket, for every capacity, cost, rate and length of a second. *)

\* What a key is admitted for is missing in its bucket until the rate has made
\* up for it: a bucket that is not full hides no admission, and one that the
\* cleanup may delete owes nothing.
DebtCovered ==
    \A k \in Key :
        IF buckets[k] = NoEntry THEN debt[k] = 0
        ELSE /\ buckets[k].lastRefill <= now
             /\ \/ debt[k] = 0
                \/ debt[k] + buckets[k].tokens + (now - buckets[k].lastRefill) * Refill <= B!capacity

\* At the time a key was told, its bucket holds what a request costs.
RetryCovered ==
    \A k \in Key :
        retryAt[k] # NoEntry /\ buckets[k] # NoEntry =>
            buckets[k].tokens + (retryAt[k] - buckets[k].lastRefill) * Refill >= B!cost

BucketInv == B!TypeOK /\ DebtCovered /\ RetryCovered

\* A request costs no more than a full bucket holds: newTokenBucket raises the
\* capacity, NewTokenBucketLimiterWithCost cuts the cost.
LEMMA CostFits ==
    ASSUME B!Options
    PROVE  B!cost \in Nat /\ B!capacity \in Nat /\ B!cost <= B!capacity
<1> DEFINE price == IF Cost < 1 THEN 1 ELSE Cost
           paid == IF price > Capacity THEN Capacity ELSE price
           room == IF Capacity < 1 THEN 1 ELSE Capacity
<1>1. paid \in Nat /\ room \in Nat /\ paid <= room /\ BucketParts \in Nat
  BY DEF B!Options
<1>2. B!cost = BucketParts * paid /\ B!capacity = BucketParts * room
  BY DEF B!cost, B!capacity
<1> HIDE DEF paid, room
<1>3. \A a, b, c \in Nat : b <= c => a * b \in Nat /\ a * c \in Nat /\ a * b <= a * c
  OBVIOUS
<1> QED BY <1>1, <1>2, <1>3

\* Division rounds down.
LEMMA Quotient ==
    ASSUME NEW a \in Int, NEW d \in Nat \ {0}
    PROVE  a \div d \in Int /\ (a \div d) * d <= a /\ a < (a \div d) * d + d
OBVIOUS

\* A product grows with its first factor.
LEMMA ProductGrows ==
    ASSUME NEW a \in Int, NEW b \in Int, NEW c \in Nat, a <= b
    PROVE  a * c <= b * c
OBVIOUS

\* refill: what is in a bucket once the rate has been added, never above the
\* capacity; a key without a bucket finds a full one.
LEMMA BucketRefilled ==
    ASSUME B!Options, BucketInv, NEW k \in Key, NEW b,
           b = B!Refilled(IF buckets[k] = NoEntry
                               THEN [tokens |-> B!capacity, lastRefill |-> now] ELSE buckets[k])
    PROVE  /\ b \in B!Bucket /\ b.lastRefill = now
           /\ debt[k] = 0 \/ debt[k] + b.tokens <= B!capacity
           /\ retryAt[k] # NoEntry /\ now >= retryAt[k] => b.tokens >= B!cost
<1> DEFINE cap == B!capacity
           s == IF buckets[k] = NoEntry THEN [tokens |-> cap, lastRefill |-> now] ELSE buckets[k]
           sum == s.tokens + (now - s.lastRefill) * Refill
<1> USE DEF B!Options
<1>1. cap \in Nat /\ B!cost \in Nat /\ B!cost <= cap
  BY CostFits
<1>2. now \in 0 .. BucketMaxTime /\ now \in Nat /\ debt[k] \in Nat /\ retryAt[k] \in Nat \cup {NoEntry}
  BY DEF BucketInv, B!TypeOK
<1>3. s.tokens \in 0 .. cap /\ s.lastRefill \in 0 .. now
  <2>1. CASE buckets[k] = NoEntry
    BY <1>1, <1>2, <2>1
  <2>2. CASE buckets[k] # NoEntry
    <3>1. buckets[k] \in B!Bucket /\ buckets[k].lastRefill <= now
      BY <2>2 DEF BucketInv, B!TypeOK, DebtCovered
    <3> QED BY <2>2, <3>1, <1>1, <1>2 DEF B!Bucket
  <2> QED BY <2>1, <2>2
<1>4. (now - s.lastRefill) * Refill \in Nat
  <2> DEFINE idle == now - s.lastRefill
  <2>1. idle \in Nat
    BY <1>2, <1>3
  <2> HIDE DEF idle
  <2> QED BY <2>1 DEF idle
<1>5. b = [tokens |-> IF sum > cap THEN cap ELSE sum, lastRefill |-> now]
  BY DEF B!Refilled
<1>6. b.tokens = (IF sum > cap THEN cap ELSE sum) /\ b.lastRefill = now
  BY <1>5
<1>7. sum \in Nat
  BY <1>3, <1>4
<1>8. b \in B!Bucket
  BY <1>1, <1>2, <1>5, <1>7 DEF B!Bucket
<1>9. debt[k] = 0 \/ debt[k] + b.tokens <= cap
  <2>1. CASE buckets[k] = NoEntry
    BY <2>1 DEF BucketInv, DebtCovered
  <2>2. CASE buckets[k] # NoEntry
    <3>1. debt[k] = 0 \/ debt[k] + sum <= cap
      <4>1. \/ debt[k] = 0
            \/ debt[k] + buckets[k].tokens + (now - buckets[k].lastRefill) * Refill <= cap
        BY <2>2 DEF BucketInv, DebtCovered
      <4>2. s = buckets[k]
        BY <2>2
      <4>3. \/ debt[k] = 0
            \/ debt[k] + s.tokens + (now - s.lastRefill) * Refill <= cap
        BY <4>1, <4>2
      <4> HIDE DEF s
      <4> QED BY <4>3, <1>2, <1>3, <1>4
    <3> HIDE DEF sum
    <3> QED BY <3>1, <1>1, <1>2, <1>6, <1>7
  <2> QED BY <2>1, <2>2
<1>10. ASSUME retryAt[k] # NoEntry, now >= retryAt[k] PROVE b.tokens >= B!cost
  <2>1. retryAt[k] \in Nat
    BY <1>2, <1>10
  <2>2. CASE buckets[k] = NoEntry
    <3>1. s.tokens = cap
      BY <2>2
    <3> HIDE DEF s
    <3> QED BY <3>1, <1>1, <1>4, <1>6
  <2>3. CASE buckets[k] # NoEntry
    <3>1. s.tokens + (retryAt[k] - s.lastRefill) * Refill >= B!cost
      BY <1>10, <2>3 DEF BucketInv, RetryCovered
    <3> HIDE DEF s
    <3>2. (retryAt[k] - s.lastRefill) * Refill <= (now - s.lastRefill) * Refill
      <4> DEFINE before == retryAt[k] - s.lastRefill
                 after == now - s.lastRefill
      <4>1. before \in Int /\ after \in Int /\ before <= after
        BY <1>2, <1>3, <1>10, <2>1
      <4> HIDE DEF before, after
      <4>2. before * Refill <= after * Refill
        BY <4>1, ProductGrows
      <4> QED BY <4>2 DEF before, after
    <3>3. (retryAt[k] - s.lastRefill) * Refill \in Int
      BY <1>3, <2>1
    <3>4. sum >= B!cost
      BY <3>1, <3>2, <3>3, <1>1, <1>3, <1>4
    <3> HIDE DEF sum
    <3> QED BY <3>4, <1>1, <1>6, <1>7
  <2> QED BY <2>2, <2>3
<1> QED BY <1>6, <1>8, <1>9, <1>10

\* CheckKey keeps the invariant.
LEMMA BucketChecked ==
    ASSUME B!Options, BucketInv, NEW k \in Key, B!CheckKey(k)
    PROVE  BucketInv' /\ (retryAt[k] # NoEntry /\ now >= retryAt[k] => retryAt'[k] = NoEntry)
<1> DEFINE cap == B!capacity
           price == B!cost
           b == B!Refilled(IF buckets[k] = NoEntry
                                THEN [tokens |-> cap, lastRefill |-> now] ELSE buckets[k])
<1> USE DEF B!Options
<1>1. cap \in Nat /\ price \in Nat /\ price <= cap
  BY CostFits
<1>2. /\ b \in B!Bucket /\ b.lastRefill = now
      /\ debt[k] = 0 \/ debt[k] + b.tokens <= cap
      /\ retryAt[k] # NoEntry /\ now >= retryAt[k] => b.tokens >= price
  BY BucketRefilled
<1>3. /\ now' = now /\ closed' = closed
      /\ IF b.tokens < price
         THEN /\ buckets' = [buckets EXCEPT ![k] = b]
              /\ retryAt' = [retryAt EXCEPT ![k] = now + B!RetryAfter(b) * BucketSecond]
              /\ debt' = debt
         ELSE /\ buckets' = [buckets EXCEPT ![k] = [b EXCEPT !.tokens = @ - price]]
              /\ retryAt' = [retryAt EXCEPT ![k] = NoEntry]
              /\ debt' = [debt EXCEPT ![k] = @ + price]
  BY DEF B!CheckKey
<1> HIDE DEF b
<1>4. b.tokens \in 0 .. cap /\ now \in 0 .. BucketMaxTime /\ now \in Nat /\ debt \in [Key -> Nat]
      /\ b # NoEntry /\ retryAt \in [Key -> Nat \cup {NoEntry}]
      /\ buckets \in [Key -> B!Bucket \cup {NoEntry}] /\ closed \in BOOLEAN
  BY <1>2 DEF BucketInv, B!TypeOK, B!Bucket
<1> HIDE DEF cap, price
<1>5. CASE b.tokens < price
  <2> DEFINE wait == B!RetryAfter(b)
  <2>1. wait \in Nat /\ wait * (Refill * BucketSecond) >= price - b.tokens
    <3>1. wait = -((b.tokens - price) \div (Refill * BucketSecond))
      BY DEF B!RetryAfter, price
    <3>2. Refill * BucketSecond \in Nat \ {0}
      OBVIOUS
    <3> DEFINE d == Refill * BucketSecond
               q == (b.tokens - price) \div d
    <3>3. b.tokens - price \in Int /\ b.tokens - price < 0
      BY <1>1, <1>4, <1>5
    <3>4. q \in Int /\ q * d <= b.tokens - price
      BY <3>2, <3>3, Quotient
    <3>5. q * d < 0
      <4> HIDE DEF q, d
      <4>1. d \in Nat \ {0}
        BY <3>2 DEF d
      <4>2. q * d \in Int
        BY <3>4, <4>1
      <4> QED BY <3>3, <3>4, <4>2
    <3>6. wait = -q
      BY <3>1
    <3> HIDE DEF q, d, wait
    <3>7. d \in Nat \ {0} /\ q \in Int
      BY <3>2, <3>4 DEF d
    <3>8. q < 0
      BY <3>5, <3>7
    <3>9. (-q) * d = -(q * d)
      BY <3>7
    <3>10. wait \in Nat /\ wait * d >= price - b.tokens
      BY <3>3, <3>4, <3>6, <3>7, <3>8, <3>9, <1>1, <1>4
    <3> QED BY <3>10 DEF d
  <2> HIDE DEF wait
  <2>2. wait * BucketSecond \in Nat /\ (wait * BucketSecond) * Refill = wait * (Refill * BucketSecond)
    BY <2>1
  <2>3. retryAt' = [retryAt EXCEPT ![k] = now + wait * BucketSecond] /\ now + wait * BucketSecond \in Nat
    BY <1>3, <1>4, <1>5, <2>2 DEF wait
  <2>4. buckets' = [buckets EXCEPT ![k] = b] /\ debt' = debt /\ now' = now /\ closed' = closed
    BY <1>3, <1>5
  <2>5. B!TypeOK'
    BY <1>2, <1>4, <2>3, <2>4 DEF B!TypeOK
  <2>6. DebtCovered'
    <3> SUFFICES ASSUME NEW j \in Key, j = k
                 PROVE  /\ debt'[j] = 0 \/ debt'[j] + b.tokens + (now - now) * Refill <= cap
                        /\ buckets'[j] = b
      BY <1>2, <1>4, <2>4 DEF DebtCovered, BucketInv, cap
    <3>1. (now - now) * Refill = 0
      BY <1>4
    <3> QED BY <1>1, <1>2, <1>4, <2>4, <3>1
  <2>7. RetryCovered'
    <3> SUFFICES ASSUME NEW j \in Key, retryAt'[j] # NoEntry, buckets'[j] # NoEntry
                 PROVE  buckets'[j].tokens + (retryAt'[j] - buckets'[j].lastRefill) * Refill >= price
      BY DEF RetryCovered, price
    <3>1. CASE j = k
      <4>1. buckets'[j] = b /\ retryAt'[j] = now + wait * BucketSecond
        BY <1>4, <2>3, <2>4, <3>1
      <4>2. (now + wait * BucketSecond) - now = wait * BucketSecond
        BY <1>4, <2>2
      <4>3. buckets'[j].lastRefill = now
        BY <4>1, <1>2
      <4>4. retryAt'[j] - buckets'[j].lastRefill = wait * BucketSecond
        BY Zenon, <4>1, <4>2, <4>3
      <4> QED BY <1>1, <1>4, <2>1, <2>2, <4>1, <4>4
    <3>2. CASE j # k
      <4>1. buckets'[j] = buckets[j] /\ retryAt'[j] = retryAt[j]
        BY <1>4, <2>3, <2>4, <3>2
      <4> QED BY <3>2, <4>1 DEF RetryCovered, BucketInv, price
    <3> QED BY <3>1, <3>2
  <2>8. ~(retryAt[k] # NoEntry /\ now >= retryAt[k])
    BY <1>1, <1>2, <1>4, <1>5
  <2> QED BY <2>5, <2>6, <2>7, <2>8 DEF BucketInv
<1>6. CASE ~(b.tokens < price)
  <2> DEFINE c == [b EXCEPT !.tokens = @ - price]
  <2>1. c \in B!Bucket /\ c.tokens = b.tokens - price /\ c.lastRefill = now /\ c # NoEntry
    BY <1>1, <1>2, <1>4, <1>6 DEF B!Bucket, cap
  <2>2. /\ buckets' = [buckets EXCEPT ![k] = c] /\ debt' = [debt EXCEPT ![k] = @ + price]
        /\ retryAt' = [retryAt EXCEPT ![k] = NoEntry] /\ now' = now /\ closed' = closed
    BY <1>3, <1>6
  <2> HIDE DEF c
  <2>3. B!TypeOK'
    BY <1>1, <1>4, <2>1, <2>2 DEF B!TypeOK
  <2>4. DebtCovered'
    <3> SUFFICES debt[k] + price + c.tokens + (now - now) * Refill <= cap
      BY <1>4, <2>1, <2>2 DEF DebtCovered, BucketInv, cap
    <3>1. (now - now) * Refill = 0
      BY <1>4
    <3>2. debt[k] \in Nat
      BY <1>4
    <3> QED BY <1>1, <1>2, <1>4, <1>6, <2>1, <3>1, <3>2
  <2>5. RetryCovered'
    BY <1>4, <2>1, <2>2 DEF RetryCovered, BucketInv
  <2>6. retryAt'[k] = NoEntry
    BY <1>4, <2>2
  <2> QED BY <2>3, <2>4, <2>5, <2>6 DEF BucketInv
<1> QED BY <1>5, <1>6

\* A tick refills in the history what it adds to the bucket.
LEMMA BucketTicked ==
    ASSUME B!Options, BucketInv, B!Tick
    PROVE  BucketInv'
<1> DEFINE cap == B!capacity
<1> USE DEF B!Options
<1>1. /\ now' = now + 1 /\ now < BucketMaxTime /\ buckets' = buckets /\ closed' = closed /\ retryAt' = retryAt
      /\ debt' = [k \in Key |-> IF debt[k] > Refill THEN debt[k] - Refill ELSE 0]
  BY DEF B!Tick
<1>2. B!TypeOK'
  BY <1>1 DEF BucketInv, B!TypeOK
<1>3. DebtCovered'
  <2> SUFFICES ASSUME NEW k \in Key
               PROVE  IF buckets[k] = NoEntry THEN debt'[k] = 0
                      ELSE /\ buckets[k].lastRefill <= now'
                           /\ \/ debt'[k] = 0
                              \/ debt'[k] + buckets[k].tokens + (now' - buckets[k].lastRefill) * Refill <= cap
    BY <1>1 DEF DebtCovered
  <2>1. debt[k] \in Nat /\ now \in Nat /\ debt'[k] = IF debt[k] > Refill THEN debt[k] - Refill ELSE 0
    BY <1>1 DEF BucketInv, B!TypeOK
  <2>2. CASE buckets[k] = NoEntry
    BY <2>1, <2>2 DEF BucketInv, DebtCovered
  <2>3. CASE buckets[k] # NoEntry
    <3> DEFINE t == buckets[k].tokens
               last == buckets[k].lastRefill
    <3>1. t \in 0 .. cap /\ last \in 0 .. BucketMaxTime
      BY <2>3 DEF BucketInv, B!TypeOK, B!Bucket
    <3>2. last <= now /\ (debt[k] = 0 \/ debt[k] + t + (now - last) * Refill <= cap)
      BY <2>3 DEF BucketInv, DebtCovered
    <3>3. cap \in Nat
      BY CostFits
    <3> HIDE DEF t, last, cap
    <3>4. now' = now + 1 /\ now' - last = (now - last) + 1
      BY <1>1, <2>1, <3>1
    <3>5. (now' - last) * Refill = (now - last) * Refill + Refill /\ (now - last) * Refill \in Int
      <4> DEFINE idle == now - last
      <4>1. idle \in Int /\ now' - last = idle + 1
        BY <2>1, <3>1, <3>4
      <4> HIDE DEF idle
      <4>2. (idle + 1) * Refill = idle * Refill + Refill /\ idle * Refill \in Int
        BY <4>1
      <4> QED BY <4>1, <4>2 DEF idle
    <3>6. debt'[k] = 0 \/ debt'[k] + t + (now' - last) * Refill <= cap
      BY <2>1, <3>1, <3>2, <3>3, <3>5
    <3>7. last <= now'
      BY <2>1, <3>1, <3>2, <3>4
    <3> QED BY <2>3, <3>6, <3>7 DEF t, last, cap
  <2> QED BY <2>2, <2>3
<1>4. RetryCovered'
  BY <1>1 DEF BucketInv, RetryCovered
<1> QED BY <1>2, <1>3, <1>4 DEF BucketInv

\* cleanup: a bucket idle for twice the time it takes to fill owes nothing.
LEMMA BucketSwept ==
    ASSUME B!Options, BucketInv, B!cleanup
    PROVE  BucketInv'
<1> DEFINE cap == B!capacity
           Deleted(k) == buckets[k] # NoEntry /\ B!Stale(now - buckets[k].lastRefill)
<1> USE DEF B!Options
<1>1. /\ now' = now /\ closed' = closed /\ debt' = debt /\ retryAt' = retryAt
      /\ buckets' = [k \in Key |-> IF Deleted(k) THEN NoEntry ELSE buckets[k]]
  BY DEF B!cleanup
<1>2. ASSUME NEW k \in Key, Deleted(k) PROVE debt[k] = 0
  <2> DEFINE t == buckets[k].tokens
             more == (now - buckets[k].lastRefill) * Refill
  <2>1. t \in 0 .. cap /\ debt[k] \in Nat /\ buckets[k].lastRefill \in Int /\ now \in Int
    BY <1>2 DEF BucketInv, B!TypeOK, B!Bucket
  <2>2. more > 2 * cap
    BY <1>2 DEF B!Stale
  <2>3. debt[k] = 0 \/ debt[k] + t + more <= cap
    BY <1>2 DEF BucketInv, DebtCovered
  <2>4. more \in Int /\ cap \in Nat
    BY <2>1, CostFits
  <2> HIDE DEF t, more, cap
  <2> QED BY <2>1, <2>2, <2>3, <2>4
<1> HIDE DEF Deleted
<1>3. B!TypeOK'
  BY <1>1 DEF BucketInv, B!TypeOK
<1>4. DebtCovered'
  <2> SUFFICES ASSUME NEW k \in Key
               PROVE  IF buckets'[k] = NoEntry THEN debt[k] = 0
                      ELSE /\ buckets'[k].lastRefill <= now
                           /\ \/ debt[k] = 0
                              \/ debt[k] + buckets'[k].tokens + (now - buckets'[k].lastRefill) * Refill <= cap
    BY <1>1 DEF DebtCovered
  <2>1. CASE Deleted(k)
    BY <1>1, <1>2, <2>1
  <2>2. CASE ~Deleted(k)
    <3>1. buckets'[k] = buckets[k]
      BY <1>1, <2>2
    <3> QED BY <3>1 DEF BucketInv, DebtCovered
  <2> QED BY <2>1, <2>2
<1>5. RetryCovered'
  <2> SUFFICES ASSUME NEW k \in Key, retryAt[k] # NoEntry, buckets'[k] # NoEntry
               PROVE  buckets'[k].tokens + (retryAt[k] - buckets'[k].lastRefill) * Refill >= B!cost
    BY <1>1 DEF RetryCovered
  <2>1. buckets'[k] = buckets[k]
    BY <1>1
  <2> QED BY <2>1 DEF BucketInv, RetryCovered
<1> QED BY <1>3, <1>4, <1>5 DEF BucketInv

\* Every state of the token bucket is well formed, its debt is covered and so
\* is what it promised with a refusal.
THEOREM BucketsSound == B!Spec => []BucketInv
<1>0. B!Options
  BY StandaloneOptions
<1> USE <1>0
<1>1. B!Init => BucketInv
  <2> SUFFICES ASSUME B!Init PROVE BucketInv
    OBVIOUS
  <2>1. now \in 0 .. BucketMaxTime
    BY DEF B!Init, B!Options
  <2>2. B!TypeOK
    BY <2>1 DEF B!Init, B!TypeOK
  <2>3. DebtCovered /\ RetryCovered
    BY DEF B!Init, DebtCovered, RetryCovered
  <2> QED BY <2>2, <2>3 DEF BucketInv
<1>2. BucketInv /\ [B!Next]_(B!vars) => BucketInv'
  <2> SUFFICES ASSUME BucketInv, [B!Next]_(B!vars) PROVE BucketInv'
    OBVIOUS
  <2>1. ASSUME NEW k \in Key, B!CheckKey(k) PROVE BucketInv'
    BY <2>1, BucketChecked
  <2>2. CASE B!cleanup
    BY <2>2, BucketSwept
  <2>3. CASE B!Close
    BY <2>3 DEF B!Close, BucketInv, B!TypeOK, DebtCovered, RetryCovered
  <2>4. CASE B!Tick
    BY <2>4, BucketTicked
  <2>5. CASE UNCHANGED B!vars
    BY <2>5 DEF B!vars, BucketInv, B!TypeOK, DebtCovered, RetryCovered
  <2> QED BY <2>1, <2>2, <2>3, <2>4, <2>5 DEF B!Next
<1> QED BY <1>1, <1>2, PTL DEF B!Spec

\* BurstBounded of CheckKey, refill and cleanup: over any stretch of time a
\* client is admitted for one full bucket and what the rate refills, although
\* deleted buckets come back full.
THEOREM BurstsBounded == B!Spec => []BurstBounded
<1>0. B!Options
  BY StandaloneOptions
<1> USE <1>0
<1>1. BucketInv => B!BurstBounded
  <2> SUFFICES ASSUME BucketInv, NEW k \in Key PROVE debt[k] <= B!capacity
    BY DEF B!BurstBounded
  <2>1. debt[k] \in Nat /\ B!capacity \in Nat
    BY CostFits DEF BucketInv, B!TypeOK
  <2>2. CASE buckets[k] = NoEntry
    BY <2>1, <2>2 DEF BucketInv, DebtCovered
  <2>3. CASE buckets[k] # NoEntry
    <3> DEFINE t == buckets[k].tokens
               idle == now - buckets[k].lastRefill
    <3>1. t \in Nat /\ idle \in Nat
      BY <2>1, <2>3 DEF BucketInv, B!TypeOK, B!Bucket, DebtCovered
    <3>2. debt[k] = 0 \/ debt[k] + t + idle * Refill <= B!capacity
      BY <2>3 DEF BucketInv, DebtCovered
    <3> HIDE DEF t, idle
    <3>3. idle * Refill \in Nat
      BY <3>1 DEF B!Options
    <3> QED BY <2>1, <3>1, <3>2, <3>3
  <2> QED BY <2>2, <2>3
<1> QED BY <1>1, BucketsSound, PTL DEF BurstBounded

\* RetryHonoured of CheckKey's Reset field: a client that comes back when it was
\* told to is admitted.
THEOREM RetriesHonoured == B!Spec => RetryHonoured
<1>0. B!Options
  BY StandaloneOptions
<1> USE <1>0
<1>1. BucketInv => [\A k \in Key : B!CheckKey(k) /\ retryAt[k] # NoEntry /\ now >= retryAt[k]
                                     => retryAt'[k] = NoEntry]_(B!vars)
  BY BucketChecked
<1> QED BY <1>1, BucketsSound, PTL DEF B!Spec, B!RetryHonoured, RetryHonoured

-----------------------------------------------------------------------------
(* The sliding window, for every max, window of whole seconds and length of  *)
(* a second in ticks.                                                        *)

\* Division finds the multiple below.
LEMMA QuotientIs ==
    ASSUME NEW a \in Int, NEW d \in Nat \ {0}, NEW q \in Int, q * d <= a, a < q * d + d
    PROVE  a \div d = q
<1> DEFINE p == a \div d
<1>1. p \in Int /\ p * d <= a /\ a < p * d + d
  BY Quotient
<1> HIDE DEF p
<1>2. CASE p < q
  <2>1. p + 1 <= q /\ (p + 1) * d = p * d + d
    BY <1>1, <1>2
  <2>2. (p + 1) * d <= q * d
    BY <1>1, <2>1, ProductGrows
  <2> QED BY <1>1, <2>1, <2>2
<1>3. CASE q < p
  <2>1. q + 1 <= p /\ (q + 1) * d = q * d + d
    BY <1>1, <1>3
  <2>2. (q + 1) * d <= p * d
    BY <1>1, <2>1, ProductGrows
  <2> QED BY <1>1, <2>1, <2>2
<1>4. p = q
  BY <1>1, <1>2, <1>3
<1> QED BY <1>4 DEF p

\* CheckKey's windowStart is the multiple of the window below the clock: when
\* the window is whole seconds, cutting clock and start to seconds cuts nothing.
LEMMA Aligned ==
    ASSUME S!Options, NEW t \in Nat
    PROVE  /\ t \div slidingWindow \in Nat
           /\ S!WindowStart(t) = (t \div slidingWindow) * slidingWindow
           /\ S!WindowStart(t) \in Nat
           /\ S!WindowStart(t) <= t
           /\ t < S!WindowStart(t) + slidingWindow
<1>1. PICK m \in Nat \ {0} : slidingWindow = m * SlidingSecond
  BY DEF S!Options
<1>2. slidingWindow \in Nat \ {0} /\ SlidingSecond \in Nat \ {0}
  BY DEF S!Options
<1> DEFINE q == t \div slidingWindow
           s == t \div SlidingSecond
<1>3. q \in Int /\ q * slidingWindow <= t /\ t < q * slidingWindow + slidingWindow
  BY <1>2, Quotient
<1>4. s \in Int /\ s * SlidingSecond <= t /\ t < s * SlidingSecond + SlidingSecond
  BY <1>2, Quotient
<1> HIDE DEF q, s
<1>5. q * slidingWindow = (q * m) * SlidingSecond /\ q * m \in Int /\ (q * m + m) * SlidingSecond = (q * m) * SlidingSecond + slidingWindow
  BY <1>1, <1>2, <1>3
<1>6. q * m <= s
  <2> SUFFICES ASSUME s + 1 <= q * m PROVE FALSE
    BY <1>4, <1>5
  <2>1. (s + 1) * SlidingSecond <= (q * m) * SlidingSecond
    BY <1>2, <1>4, <1>5, ProductGrows
  <2>2. (s + 1) * SlidingSecond = s * SlidingSecond + SlidingSecond /\ (q * m) * SlidingSecond \in Int
    BY <1>2, <1>4, <1>5
  <2> QED BY <1>2, <1>3, <1>4, <1>5, <2>1, <2>2
<1>7. s < q * m + m
  <2> SUFFICES ASSUME q * m + m <= s PROVE FALSE
    BY <1>1, <1>4, <1>5
  <2>1. (q * m + m) * SlidingSecond <= s * SlidingSecond
    BY <1>1, <1>2, <1>4, <1>5, ProductGrows
  <2>2. s * SlidingSecond \in Int /\ (q * m) * SlidingSecond \in Int
    BY <1>2, <1>4, <1>5
  <2> QED BY <1>2, <1>3, <1>4, <1>5, <2>1, <2>2
<1> DEFINE unix == s * SlidingSecond
<1>8. unix \div slidingWindow = q
  <2>1. unix \in Int
    BY <1>2, <1>4
  <2>2. q * slidingWindow <= unix
    BY <1>2, <1>4, <1>5, <1>6, ProductGrows
  <2>3. unix < q * slidingWindow + slidingWindow
    BY <1>2, <1>3, <1>4, <2>1
  <2> HIDE DEF unix
  <2> QED BY <1>2, <1>3, <2>1, <2>2, <2>3, QuotientIs
<1>9. (q * slidingWindow) \div SlidingSecond = q * m
  <2> DEFINE a == q * slidingWindow
             n == q * m
  <2>1. a \in Int /\ n \in Int /\ n * SlidingSecond = a
    BY <1>2, <1>3, <1>5
  <2> HIDE DEF a, n
  <2>2. n * SlidingSecond <= a /\ a < n * SlidingSecond + SlidingSecond
    BY <1>2, <2>1
  <2>3. a \div SlidingSecond = n
    BY <1>2, <2>1, <2>2, QuotientIs
  <2> QED BY <2>3 DEF a, n
<1>10. S!WindowStart(t) = q * slidingWindow
  <2>1. S!WindowStart(t) = (((unix \div slidingWindow) * slidingWindow) \div SlidingSecond) * SlidingSecond
    BY DEF S!WindowStart, s
  <2> HIDE DEF unix
  <2> QED BY <1>5, <1>8, <1>9, <2>1
<1>11. q \in Nat
  <2> SUFFICES ASSUME q + 1 <= 0 PROVE FALSE
    BY <1>3
  <2>1. (q + 1) * slidingWindow <= 0 * slidingWindow
    BY <1>2, <1>3, ProductGrows
  <2>2. (q + 1) * slidingWindow = q * slidingWindow + slidingWindow /\ 0 * slidingWindow = 0 /\ q * slidingWindow \in Int
    BY <1>2, <1>3
  <2> QED BY <1>2, <1>3, <2>1, <2>2
<1>12. q * slidingWindow \in Nat
  BY <1>2, <1>11
<1> QED BY <1>3, <1>10, <1>11, <1>12 DEF q

\* From one tick to the next the window stays or the next one begins.
LEMMA NextWindow ==
    ASSUME S!Options, NEW t \in Nat
    PROVE  S!WindowStart(t + 1) \in {S!WindowStart(t), S!WindowStart(t) + slidingWindow}
<1> DEFINE p == t \div slidingWindow
           q == (t + 1) \div slidingWindow
<1>1. slidingWindow \in Nat \ {0}
  BY DEF S!Options
<1>2. /\ p \in Nat /\ S!WindowStart(t) = p * slidingWindow
      /\ p * slidingWindow <= t /\ t < p * slidingWindow + slidingWindow
  BY Aligned
<1>3. /\ q \in Nat /\ S!WindowStart(t + 1) = q * slidingWindow
      /\ q * slidingWindow <= t + 1 /\ t + 1 < q * slidingWindow + slidingWindow
  BY Aligned
<1> HIDE DEF p, q
<1>4. p * slidingWindow \in Nat /\ q * slidingWindow \in Nat
  BY <1>1, <1>2, <1>3
<1>5. p <= q
  <2> SUFFICES ASSUME q + 1 <= p PROVE FALSE
    BY <1>2, <1>3
  <2>1. (q + 1) * slidingWindow <= p * slidingWindow /\ (q + 1) * slidingWindow = q * slidingWindow + slidingWindow
    BY <1>1, <1>2, <1>3, ProductGrows
  <2> QED BY <1>1, <1>2, <1>3, <1>4, <2>1
<1>6. q <= p + 1
  <2> SUFFICES ASSUME p + 2 <= q PROVE FALSE
    BY <1>2, <1>3
  <2>1. (p + 2) * slidingWindow <= q * slidingWindow /\ (p + 2) * slidingWindow = p * slidingWindow + slidingWindow + slidingWindow
    BY <1>1, <1>2, <1>3, ProductGrows
  <2> QED BY <1>1, <1>2, <1>3, <1>4, <2>1
<1>7. (p + 1) * slidingWindow = p * slidingWindow + slidingWindow
  BY <1>1, <1>2
<1>8. q = p \/ q = p + 1
  BY <1>2, <1>3, <1>5, <1>6
<1> QED BY <1>2, <1>3, <1>7, <1>8

\* Nothing that the window still covers is forgotten: what was admitted in this
\* aligned window is counted by the current entry, and what was admitted in the
\* one before by the current entry that has not been rotated yet, or by the
\* previous one.
Tracked ==
    \A k \in Key :
        LET start == S!WindowStart(now) IN
        /\ current[k] # NoEntry => current[k].start <= start
        /\ inWindow[k] > 0 =>
               current[k] # NoEntry /\ current[k].start = start /\ inWindow[k] <= current[k].count
        /\ inLast[k] > 0 =>
               \/ /\ current[k] # NoEntry /\ current[k].start = start - slidingWindow
                  /\ inLast[k] <= current[k].count
               \/ /\ current[k] = NoEntry \/ current[k].start = start
                  /\ previous[k] # NoEntry /\ previous[k].start = start - slidingWindow
                  /\ inLast[k] <= previous[k].count

SlidingInv == S!TypeOK /\ Tracked /\ S!WeightedQuota

\* CheckKey's rotation leaves the two counts that the estimate weighs, and they
\* cover what was admitted.
LEMMA RotationCovers ==
    ASSUME S!Options, SlidingInv, NEW k \in Key, NEW r, r = S!Rotated(k)
    PROVE  /\ r.prev \in S!Entry \cup {NoEntry} /\ r.curr \in S!Entry \cup {NoEntry}
           /\ r.curr # NoEntry => r.curr.start = S!WindowStart(now)
           /\ inWindow[k] > 0 => r.curr # NoEntry
           /\ inWindow[k] <= S!Count(r.curr)
           /\ inLast[k] > 0 => r.prev # NoEntry /\ r.prev.start = S!WindowStart(now) - slidingWindow
           /\ inLast[k] <= S!Count(r.prev)
<1> DEFINE ws == S!WindowStart(now)
<1> USE DEF S!Options
<1>1. /\ now \in Nat /\ now <= SlidingMaxTime /\ inWindow[k] \in Nat /\ inLast[k] \in Nat
      /\ current[k] \in S!Entry \cup {NoEntry} /\ previous[k] \in S!Entry \cup {NoEntry}
  BY DEF SlidingInv, S!TypeOK
<1>2. ws \in Nat /\ ws <= now
  BY <1>1, Aligned
<1>3. /\ current[k] # NoEntry => current[k].start <= ws
      /\ inWindow[k] > 0 =>
             current[k] # NoEntry /\ current[k].start = ws /\ inWindow[k] <= current[k].count
      /\ inLast[k] > 0 =>
             \/ /\ current[k] # NoEntry /\ current[k].start = ws - slidingWindow
                /\ inLast[k] <= current[k].count
             \/ /\ current[k] = NoEntry \/ current[k].start = ws
                /\ previous[k] # NoEntry /\ previous[k].start = ws - slidingWindow
                /\ inLast[k] <= previous[k].count
  BY DEF SlidingInv, Tracked
<1>4. r = IF current[k] # NoEntry /\ current[k].start < ws
          THEN [prev |-> current[k], curr |-> [count |-> 0, start |-> ws]]
          ELSE [prev |-> previous[k], curr |-> current[k]]
  BY DEF S!Rotated
<1> HIDE DEF ws
<1>5. CASE current[k] # NoEntry /\ current[k].start < ws
  <2>1. r.prev = current[k] /\ r.curr = [count |-> 0, start |-> ws]
    BY <1>4, <1>5
  <2>2. current[k] \in S!Entry /\ [count |-> 0, start |-> ws] \in S!Entry
    BY <1>1, <1>2, <1>5 DEF S!Entry
  <2>3. r.curr # NoEntry /\ r.curr.start = ws /\ r.curr.count = 0
    BY <2>1, <2>2
  <2>4. current[k].start \in Nat /\ current[k].count \in Nat
    BY <2>2 DEF S!Entry
  <2>5. inWindow[k] = 0
    BY <1>1, <1>2, <1>3, <1>5, <2>4
  <2>6. inLast[k] > 0 => current[k].start = ws - slidingWindow /\ inLast[k] <= current[k].count
    BY <1>2, <1>3, <1>5, <2>4
  <2>7. S!Count(r.curr) = 0 /\ S!Count(r.prev) = current[k].count
    BY <1>5, <2>1, <2>3 DEF S!Count
  <2> QED BY <1>1, <1>5, <2>1, <2>2, <2>3, <2>4, <2>5, <2>6, <2>7 DEF ws
<1>6. CASE ~(current[k] # NoEntry /\ current[k].start < ws)
  <2>1. r.prev = previous[k] /\ r.curr = current[k]
    BY <1>4, <1>6
  <2>2. current[k] # NoEntry => current[k].start \in Nat /\ current[k].count \in Nat
    BY <1>1 DEF S!Entry
  <2>3. previous[k] # NoEntry => previous[k].start \in Nat /\ previous[k].count \in Nat
    BY <1>1 DEF S!Entry
  <2>4. current[k] # NoEntry => current[k].start = ws
    BY <1>2, <1>3, <1>6, <2>2
  <2>5. inLast[k] > 0 =>
          previous[k] # NoEntry /\ previous[k].start = ws - slidingWindow /\ inLast[k] <= previous[k].count
    BY <1>2, <1>3, <2>4
  <2>6. inWindow[k] <= S!Count(current[k])
    BY <1>1, <1>3, <2>2 DEF S!Count
  <2>7. inLast[k] <= S!Count(previous[k])
    BY <1>1, <2>3, <2>5 DEF S!Count
  <2> QED BY <1>1, <1>3, <2>1, <2>4, <2>5, <2>6, <2>7 DEF ws
<1> QED BY <1>5, <1>6

\* CheckKey keeps the invariant.
LEMMA SlidingChecked ==
    ASSUME S!Options, SlidingInv, NEW k \in Key, S!CheckKey(k)
    PROVE  SlidingInv'
<1> DEFINE ws == S!WindowStart(now)
           r == S!Rotated(k)
           p == S!Count(r.prev)
           c == S!Count(r.curr)
           ok == S!Estimate(p, c, now - ws) <= slidingMax * slidingWindow
           entry == [count |-> c + 1, start |-> IF r.curr = NoEntry THEN ws ELSE r.curr.start]
<1> USE DEF S!Options
<1>1. /\ now' = now /\ closed' = closed /\ inLast' = inLast
      /\ previous' = [previous EXCEPT ![k] = r.prev]
      /\ current' = [current EXCEPT ![k] = IF ok THEN entry ELSE r.curr]
      /\ inWindow' = [inWindow EXCEPT ![k] = IF ok THEN @ + 1 ELSE @]
  BY DEF S!CheckKey
<1>2. /\ r.prev \in S!Entry \cup {NoEntry} /\ r.curr \in S!Entry \cup {NoEntry}
      /\ r.curr # NoEntry => r.curr.start = ws
      /\ inWindow[k] > 0 => r.curr # NoEntry
      /\ inWindow[k] <= c
      /\ inLast[k] > 0 => r.prev # NoEntry /\ r.prev.start = ws - slidingWindow
      /\ inLast[k] <= p
  BY RotationCovers
<1>3. /\ now \in Nat /\ now <= SlidingMaxTime /\ now \in 0 .. SlidingMaxTime /\ closed \in BOOLEAN
      /\ inWindow \in [Key -> Nat] /\ inLast \in [Key -> Nat]
      /\ current \in [Key -> S!Entry \cup {NoEntry}]
      /\ previous \in [Key -> S!Entry \cup {NoEntry}]
  BY DEF SlidingInv, S!TypeOK
<1>4. ws \in Nat /\ ws <= now /\ now < ws + slidingWindow
  BY <1>3, Aligned
<1>5. c \in Nat /\ p \in Nat
  BY <1>2 DEF S!Count, S!Entry
<1>6. entry = [count |-> c + 1, start |-> ws] /\ entry \in S!Entry /\ entry # NoEntry
  BY <1>2, <1>3, <1>4, <1>5 DEF S!Entry
<1>7. p = IF r.prev = NoEntry THEN 0 ELSE r.prev.count
  BY DEF S!Count
<1>8. c = IF r.curr = NoEntry THEN 0 ELSE r.curr.count
  BY DEF S!Count
<1>9. ok => p * (slidingWindow - (now - ws)) + (c + 1) * slidingWindow <= slidingMax * slidingWindow
  <2>1. now - ws < slidingWindow
    BY <1>3, <1>4
  <2> QED BY <2>1 DEF S!Estimate
<1> HIDE DEF entry, ok, p, c, r
<1>10. S!TypeOK'
  BY <1>1, <1>2, <1>3, <1>6 DEF S!TypeOK
<1>11. S!WindowStart(now') = ws
  BY <1>1
<1> HIDE DEF ws
<1>12. Tracked'
  <2> SUFFICES ASSUME NEW j \in Key
               PROVE  /\ current'[j] # NoEntry => current'[j].start <= ws
                      /\ inWindow'[j] > 0 =>
                             current'[j] # NoEntry /\ current'[j].start = ws /\ inWindow'[j] <= current'[j].count
                      /\ inLast'[j] > 0 =>
                             \/ /\ current'[j] # NoEntry /\ current'[j].start = ws - slidingWindow
                                /\ inLast'[j] <= current'[j].count
                             \/ /\ current'[j] = NoEntry \/ current'[j].start = ws
                                /\ previous'[j] # NoEntry /\ previous'[j].start = ws - slidingWindow
                                /\ inLast'[j] <= previous'[j].count
    BY <1>11 DEF Tracked
  <2>1. CASE j # k
    <3>1. /\ current'[j] = current[j] /\ previous'[j] = previous[j]
          /\ inWindow'[j] = inWindow[j] /\ inLast'[j] = inLast[j]
      BY <1>1, <1>3, <2>1
    <3> QED BY <3>1 DEF SlidingInv, Tracked, ws
  <2>2. CASE j = k
    <3>1. previous'[j] = r.prev /\ inLast'[j] = inLast[k] /\ inLast[k] \in Nat /\ inWindow[k] \in Nat
      BY <1>1, <1>3, <2>2
    <3>2. inLast'[j] > 0 =>
            previous'[j] # NoEntry /\ previous'[j].start = ws - slidingWindow /\ inLast'[j] <= previous'[j].count
      BY <1>2, <1>7, <3>1
    <3>3. CASE ok
      <4>1. current'[j] = entry /\ inWindow'[j] = inWindow[k] + 1
        BY <1>1, <1>3, <2>2, <3>3
      <4>2. current'[j] # NoEntry /\ current'[j].start = ws /\ current'[j].count = c + 1
        BY <1>6, <4>1
      <4> QED BY <1>2, <1>4, <1>5, <3>1, <3>2, <4>1, <4>2
    <3>4. CASE ~ok
      <4>1. current'[j] = r.curr /\ inWindow'[j] = inWindow[k]
        BY <1>1, <1>3, <2>2, <3>4
      <4> QED BY <1>2, <1>4, <1>5, <1>8, <3>1, <3>2, <4>1
    <3> QED BY <3>3, <3>4
  <2> QED BY <2>1, <2>2
<1>13. S!WeightedQuota'
  <2> DEFINE covered == slidingWindow - (now - ws)
  <2> SUFFICES ASSUME NEW j \in Key
               PROVE  inLast'[j] * covered + inWindow'[j] * slidingWindow <= slidingMax * slidingWindow
    BY <1>1, <1>11 DEF S!WeightedQuota
  <2>1. inLast[j] * covered + inWindow[j] * slidingWindow <= slidingMax * slidingWindow
    BY DEF SlidingInv, S!WeightedQuota, ws
  <2>2. covered \in Nat
    BY <1>3, <1>4
  <2> HIDE DEF covered
  <2>3. CASE j = k /\ ok
    <3>1. inLast'[j] = inLast[k] /\ inWindow'[j] = inWindow[k] + 1 /\ inLast[k] \in Nat /\ inWindow[k] \in Nat
      BY <1>1, <1>3, <2>3
    <3>2. p * covered + (c + 1) * slidingWindow <= slidingMax * slidingWindow
      BY <1>9, <2>3 DEF covered
    <3>3. inLast[k] * covered <= p * covered
      BY <1>2, <1>5, <2>2, <3>1, ProductGrows
    <3>4. (inWindow[k] + 1) * slidingWindow <= (c + 1) * slidingWindow
      <4>1. inWindow[k] + 1 <= c + 1
        BY <1>2, <1>5, <3>1
      <4> QED BY <1>5, <3>1, <4>1, ProductGrows
    <3>5. /\ inLast[k] * covered \in Int /\ p * covered \in Int /\ slidingMax * slidingWindow \in Int
          /\ (inWindow[k] + 1) * slidingWindow \in Int /\ (c + 1) * slidingWindow \in Int
      BY <1>5, <2>2, <3>1
    <3>6. inLast[k] * covered + (inWindow[k] + 1) * slidingWindow <= slidingMax * slidingWindow
      BY <3>2, <3>3, <3>4, <3>5
    <3> QED BY <3>1, <3>6
  <2>4. CASE ~(j = k /\ ok)
    <3>1. inLast'[j] = inLast[j] /\ inWindow'[j] = inWindow[j]
      BY <1>1, <1>3, <2>4
    <3> QED BY <2>1, <3>1
  <2> QED BY <2>3, <2>4
<1> QED BY <1>10, <1>12, <1>13 DEF SlidingInv

\* cleanup promotes what is over and deletes only what no window covers.
LEMMA SlidingSwept ==
    ASSUME S!Options, SlidingInv, S!cleanup
    PROVE  SlidingInv'
<1> DEFINE ws == S!WindowStart(now)
           Stale(e) == e # NoEntry /\ e.start < ws
           Gone(e) == e # NoEntry /\ e.start < ws - slidingWindow
<1> USE DEF S!Options
<1>1. /\ now' = now /\ closed' = closed /\ inWindow' = inWindow /\ inLast' = inLast
      /\ previous' = [k \in Key |-> IF Stale(current[k]) THEN current[k]
                                    ELSE IF Gone(previous[k]) THEN NoEntry ELSE previous[k]]
      /\ current' = [k \in Key |-> IF Stale(current[k]) THEN NoEntry ELSE current[k]]
  BY DEF S!cleanup, S!Stale
<1>2. S!WindowStart(now') = ws
  BY <1>1
<1>3. ws \in Nat
  BY Aligned DEF SlidingInv, S!TypeOK
<1>4. ASSUME NEW k \in Key
      PROVE  /\ current[k] # NoEntry => current[k].start <= ws
             /\ inWindow[k] > 0 =>
                    current[k] # NoEntry /\ current[k].start = ws /\ inWindow[k] <= current[k].count
             /\ inLast[k] > 0 =>
                    \/ /\ current[k] # NoEntry /\ current[k].start = ws - slidingWindow
                       /\ inLast[k] <= current[k].count
                    \/ /\ current[k] = NoEntry \/ current[k].start = ws
                       /\ previous[k] # NoEntry /\ previous[k].start = ws - slidingWindow
                       /\ inLast[k] <= previous[k].count
  BY DEF SlidingInv, Tracked
<1> HIDE DEF ws
<1>5. S!TypeOK'
  BY <1>1 DEF SlidingInv, S!TypeOK
<1>6. Tracked'
  <2> SUFFICES ASSUME NEW k \in Key
               PROVE  /\ current'[k] # NoEntry => current'[k].start <= ws
                      /\ inWindow[k] > 0 =>
                             current'[k] # NoEntry /\ current'[k].start = ws /\ inWindow[k] <= current'[k].count
                      /\ inLast[k] > 0 =>
                             \/ /\ current'[k] # NoEntry /\ current'[k].start = ws - slidingWindow
                                /\ inLast[k] <= current'[k].count
                             \/ /\ current'[k] = NoEntry \/ current'[k].start = ws
                                /\ previous'[k] # NoEntry /\ previous'[k].start = ws - slidingWindow
                                /\ inLast[k] <= previous'[k].count
    BY <1>1, <1>2 DEF Tracked
  <2>1. slidingWindow \in Nat \ {0}
    OBVIOUS
  <2>2. CASE Stale(current[k])
    <3>1. current'[k] = NoEntry /\ previous'[k] = current[k]
      BY <1>1, <2>2
    <3>2. ~(current[k].start = ws)
      BY <1>3, <2>2
    <3> QED BY <1>4, <2>2, <3>1, <3>2
  <2>3. CASE ~Stale(current[k])
    <3>1. current'[k] = current[k]
      BY <1>1, <2>3
    <3>2. ~(current[k] # NoEntry /\ current[k].start = ws - slidingWindow)
      BY <1>3, <2>1, <2>3
    <3>3. previous[k] # NoEntry /\ previous[k].start = ws - slidingWindow => previous'[k] = previous[k]
      BY <1>1, <1>3, <2>1, <2>3
    <3> QED BY <1>4, <3>1, <3>2, <3>3
  <2> QED BY <2>2, <2>3
<1>7. S!WeightedQuota'
  BY <1>1, <1>2 DEF SlidingInv, S!WeightedQuota, ws
<1> QED BY <1>5, <1>6, <1>7 DEF SlidingInv

\* Time moves on within a window, or what was in the window is now in the last.
LEMMA SlidingTicked ==
    ASSUME S!Options, SlidingInv, S!Tick
    PROVE  SlidingInv'
<1> DEFINE ws == S!WindowStart(now)
           next == S!WindowStart(now + 1)
<1> USE DEF S!Options
<1>1. /\ now < SlidingMaxTime /\ now' = now + 1 /\ closed' = closed /\ current' = current /\ previous' = previous
      /\ IF next = ws THEN inWindow' = inWindow /\ inLast' = inLast
         ELSE inLast' = inWindow /\ inWindow' = [k \in Key |-> 0]
  BY DEF S!Tick, S!NoneAdmitted
<1>2. now \in Nat /\ inWindow \in [Key -> Nat] /\ inLast \in [Key -> Nat]
      /\ current \in [Key -> S!Entry \cup {NoEntry}]
  BY DEF SlidingInv, S!TypeOK
<1>3. ws \in Nat /\ ws <= now /\ now < ws + slidingWindow /\ next \in Nat /\ next <= now + 1 /\ now + 1 < next + slidingWindow
  <2>1. now + 1 \in Nat
    BY <1>2
  <2> QED BY <1>2, <2>1, Aligned
<1>4. next = ws \/ next = ws + slidingWindow
  BY <1>2, NextWindow
<1>5. slidingWindow \in Nat \ {0} /\ slidingMax \in Nat
  OBVIOUS
<1>6. ASSUME NEW k \in Key
      PROVE  /\ inWindow[k] \in Nat /\ inLast[k] \in Nat
             /\ current[k] # NoEntry => current[k].start \in Nat
             /\ current[k] # NoEntry => current[k].start <= ws
             /\ inWindow[k] > 0 =>
                    current[k] # NoEntry /\ current[k].start = ws /\ inWindow[k] <= current[k].count
             /\ inLast[k] > 0 =>
                    \/ /\ current[k] # NoEntry /\ current[k].start = ws - slidingWindow
                       /\ inLast[k] <= current[k].count
                    \/ /\ current[k] = NoEntry \/ current[k].start = ws
                       /\ previous[k] # NoEntry /\ previous[k].start = ws - slidingWindow
                       /\ inLast[k] <= previous[k].count
             /\ inLast[k] * (slidingWindow - (now - ws)) + inWindow[k] * slidingWindow <= slidingMax * slidingWindow
  <2>1. inWindow[k] \in Nat /\ inLast[k] \in Nat /\ (current[k] # NoEntry => current[k].start \in Nat)
    BY <1>2 DEF S!Entry
  <2>2. inLast[k] * (slidingWindow - (now - ws)) + inWindow[k] * slidingWindow <= slidingMax * slidingWindow
    BY DEF SlidingInv, S!WeightedQuota
  <2> QED BY <2>1, <2>2 DEF SlidingInv, Tracked
<1>7. S!WindowStart(now') = next
  BY <1>1
<1>8. S!TypeOK'
  <2>1. [k \in Key |-> 0] \in [Key -> Nat]
    OBVIOUS
  <2> QED BY <1>1, <1>2, <2>1 DEF SlidingInv, S!TypeOK
<1> HIDE DEF ws, next
<1>9. Tracked'
  <2> SUFFICES ASSUME NEW k \in Key
               PROVE  /\ current[k] # NoEntry => current[k].start <= next
                      /\ inWindow'[k] > 0 =>
                             current[k] # NoEntry /\ current[k].start = next /\ inWindow'[k] <= current[k].count
                      /\ inLast'[k] > 0 =>
                             \/ /\ current[k] # NoEntry /\ current[k].start = next - slidingWindow
                                /\ inLast'[k] <= current[k].count
                             \/ /\ current[k] = NoEntry \/ current[k].start = next
                                /\ previous[k] # NoEntry /\ previous[k].start = next - slidingWindow
                                /\ inLast'[k] <= previous[k].count
    BY <1>1, <1>7 DEF Tracked
  <2>1. CASE next = ws
    <3>1. inWindow'[k] = inWindow[k] /\ inLast'[k] = inLast[k]
      BY <1>1, <2>1
    <3> QED BY <1>6, <2>1, <3>1
  <2>2. CASE next # ws
    <3>1. inWindow'[k] = 0 /\ inLast'[k] = inWindow[k] /\ next = ws + slidingWindow
      BY <1>1, <1>4, <2>2
    <3>2. next - slidingWindow = ws
      BY <1>3, <1>5, <3>1
    <3> QED BY <1>3, <1>5, <1>6, <3>1, <3>2
  <2> QED BY <2>1, <2>2
<1>10. S!WeightedQuota'
  <2> DEFINE covered == slidingWindow - ((now + 1) - next)
  <2> SUFFICES ASSUME NEW k \in Key
               PROVE  inLast'[k] * covered + inWindow'[k] * slidingWindow <= slidingMax * slidingWindow
    BY <1>1, <1>7 DEF S!WeightedQuota
  <2>1. covered \in Nat /\ covered <= slidingWindow
    BY <1>2, <1>3, <1>5
  <2>2. inWindow[k] * slidingWindow \in Nat /\ slidingMax * slidingWindow \in Nat
    BY <1>5, <1>6
  <2>3. CASE next = ws
    <3> DEFINE before == slidingWindow - (now - ws)
    <3>1. inWindow'[k] = inWindow[k] /\ inLast'[k] = inLast[k]
      BY <1>1, <2>3
    <3>2. before \in Nat /\ covered <= before
      BY <1>2, <1>3, <1>5, <2>3
    <3>3. inLast[k] * before + inWindow[k] * slidingWindow <= slidingMax * slidingWindow
      BY <1>6
    <3> HIDE DEF covered, before
    <3>4. covered * inLast[k] <= before * inLast[k]
      BY <1>6, <2>1, <3>2, ProductGrows
    <3>5. covered * inLast[k] = inLast[k] * covered /\ before * inLast[k] = inLast[k] * before
          /\ inLast[k] * covered \in Int /\ inLast[k] * before \in Int
      BY <1>6, <2>1, <3>2
    <3>6. inLast[k] * covered + inWindow[k] * slidingWindow <= slidingMax * slidingWindow
      BY <2>2, <3>3, <3>4, <3>5
    <3> QED BY <3>1, <3>6
  <2>4. CASE next # ws
    <3> HIDE DEF covered
    <3>1. inWindow'[k] = 0 /\ inLast'[k] = inWindow[k]
      BY <1>1, <2>4
    <3>2. inWindow[k] * slidingWindow <= slidingMax * slidingWindow
      <4> DEFINE before == slidingWindow - (now - ws)
      <4>1. before \in Nat
        BY <1>2, <1>3, <1>5
      <4>2. inLast[k] * before + inWindow[k] * slidingWindow <= slidingMax * slidingWindow
        BY <1>6
      <4> HIDE DEF before
      <4>3. inLast[k] * before \in Nat
        BY <1>6, <4>1
      <4> QED BY <2>2, <4>2, <4>3
    <3>3. covered * inWindow[k] <= slidingWindow * inWindow[k]
      BY <1>5, <1>6, <2>1, ProductGrows
    <3>4. covered * inWindow[k] = inWindow[k] * covered /\ slidingWindow * inWindow[k] = inWindow[k] * slidingWindow
          /\ inWindow[k] * covered \in Int /\ 0 * slidingWindow = 0
      BY <1>5, <1>6, <2>1
    <3>5. inWindow[k] * covered + 0 * slidingWindow <= slidingMax * slidingWindow
      BY <2>2, <3>2, <3>3, <3>4
    <3> QED BY <3>1, <3>5
  <2> QED BY <2>3, <2>4
<1> QED BY <1>8, <1>9, <1>10 DEF SlidingInv

\* WeightedQuota of CheckKey's weighted estimate, however its counts are rotated
\* by requests and promoted by the cleanup: the limiter never forgets an
\* admitted request that the sliding window still covers.
THEOREM WeightedQuotaHeld == S!Spec => []WeightedQuota
<1>0. S!Options
  BY StandaloneOptions
<1> USE <1>0
<1>1. S!Init => SlidingInv
  <2> SUFFICES ASSUME S!Init PROVE SlidingInv
    OBVIOUS
  <2> USE DEF S!Init, S!Nothing, S!NoneAdmitted, S!Options
  <2>1. now \in 0 .. SlidingMaxTime /\ slidingWindow \in Nat \ {0} /\ slidingMax \in Nat /\ now \in Nat
    OBVIOUS
  <2>2. S!TypeOK
    BY <2>1 DEF S!TypeOK
  <2>3. Tracked
    <3>1. ASSUME NEW k \in Key
          PROVE  current[k] = NoEntry /\ ~(inWindow[k] > 0) /\ ~(inLast[k] > 0)
      OBVIOUS
    <3> QED BY <3>1, Zenon DEF Tracked
  <2>4. S!WeightedQuota
    <3> DEFINE covered == slidingWindow - (now - S!WindowStart(now))
    <3>1. covered \in Int
      BY <2>1, Aligned
    <3> HIDE DEF covered
    <3>2. 0 * covered = 0 /\ 0 * slidingWindow = 0 /\ slidingMax * slidingWindow \in Nat
      BY <2>1, <3>1
    <3>3. 0 * covered + 0 * slidingWindow <= slidingMax * slidingWindow
      BY <3>2
    <3> QED BY <3>3 DEF S!WeightedQuota, covered
  <2> QED BY <2>2, <2>3, <2>4 DEF SlidingInv
<1>2. SlidingInv /\ [S!Next]_(S!vars) => SlidingInv'
  <2> SUFFICES ASSUME SlidingInv, [S!Next]_(S!vars) PROVE SlidingInv'
    OBVIOUS
  <2>1. ASSUME NEW k \in Key, S!CheckKey(k) PROVE SlidingInv'
    BY <2>1, SlidingChecked
  <2>2. CASE S!cleanup
    BY <2>2, SlidingSwept
  <2>3. CASE S!Close
    BY <2>3 DEF S!Close, SlidingInv, S!TypeOK, Tracked, S!WeightedQuota
  <2>4. CASE S!Tick
    BY <2>4, SlidingTicked
  <2>5. CASE UNCHANGED S!vars
    BY <2>5 DEF S!vars, SlidingInv, S!TypeOK, Tracked, S!WeightedQuota
  <2> QED BY <2>1, <2>2, <2>3, <2>4, <2>5 DEF S!Next
<1>3. SlidingInv => S!WeightedQuota
  BY DEF SlidingInv
<1> QED BY <1>1, <1>2, <1>3, PTL DEF S!Spec, WeightedQuota
=============================================================================
