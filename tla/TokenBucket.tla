---------------------------- MODULE TokenBucket ----------------------------
(***************************************************************************)
(* The token bucket of middleware/rate_limit_token.go.  Tokens are counted *)
(* in parts, so that a tick refills a whole number of them; the bucket's   *)
(* float arithmetic is exact here.                                         *)
(***************************************************************************)
EXTENDS Integers

CONSTANTS Key,       \* client keys
          Parts,     \* parts of one token
          Capacity,  \* the capacity asked for, in tokens
          Cost,      \* the cost asked for, in tokens
          Refill,    \* parts refilled in a tick: refillRate
          Second,    \* ticks in a second
          NoEntry,   \* buckets[k] of a key the Go map does not hold
          MaxTime    \* bound: the clock stops here

VARIABLES now,       \* time.Now()
          buckets,   \* TokenBucketLimiter.buckets
          closed,    \* ctx is cancelled
          debt,      \* history: what k has been admitted for, less what the rate
                     \* has covered since
          retryAt    \* history: when k was told to come back, NoEntry when it was
                     \* not, or has been admitted since

vars == <<now, buckets, closed, debt, retryAt>>

\* The cost is cut to the capacity asked for, the capacity raised to one after.
cost == LET atLeastOne == IF Cost < 1 THEN 1 ELSE Cost
        IN  Parts * (IF atLeastOne > Capacity THEN Capacity ELSE atLeastOne)
capacity == Parts * (IF Capacity < 1 THEN 1 ELSE Capacity)

\* staleThreshold, in ticks: now.Sub(lastRefill) > 2 * capacity / refillRate.
StaleSoon(idle) == 4 * idle * Refill > 2 * capacity
Stale(idle) == idle * Refill > 2 * capacity

Bucket == [tokens : 0 .. capacity, lastRefill : 0 .. MaxTime]

\* The constructor makes a rate positive, but takes any capacity and cost; a
\* negative capacity would make the cost negative.
Options ==
    /\ Parts \in Nat \ {0} /\ Refill \in Nat \ {0} /\ Second \in Nat \ {0}
    /\ Capacity \in Nat /\ Cost \in Int /\ MaxTime \in Nat
    /\ NoEntry \notin Bucket \cup Nat

TypeOK ==
    /\ now \in 0 .. MaxTime
    /\ buckets \in [Key -> Bucket \cup {NoEntry}]
    /\ closed \in BOOLEAN
    /\ debt \in [Key -> Nat]
    /\ retryAt \in [Key -> Nat \cup {NoEntry}]

Init ==
    /\ now = 0
    /\ buckets = [k \in Key |-> NoEntry]
    /\ closed = FALSE
    /\ debt = [k \in Key |-> 0]
    /\ retryAt = [k \in Key |-> NoEntry]

-----------------------------------------------------------------------------
\* refill: math.Min(capacity, tokens + elapsed * refillRate)
Refilled(b) ==
    LET tokens == b.tokens + (now - b.lastRefill) * Refill
    IN  [tokens |-> IF tokens > capacity THEN capacity ELSE tokens, lastRefill |-> now]

\* math.Ceil((cost - bucket.tokens) / refillRate), in whole seconds.
RetryFloored(b) == (cost - b.tokens) \div (Refill * Second)
RetryAfter(b) == -((b.tokens - cost) \div (Refill * Second))

CheckKey(k) ==
    LET b == Refilled(IF buckets[k] = NoEntry
                      THEN [tokens |-> capacity, lastRefill |-> now] ELSE buckets[k])
    IN  /\ IF b.tokens < cost
           THEN /\ buckets' = [buckets EXCEPT ![k] = b]
                /\ retryAt' = [retryAt EXCEPT ![k] = now + RetryAfter(b) * Second]
                /\ UNCHANGED debt
           ELSE /\ buckets' = [buckets EXCEPT ![k] = [b EXCEPT !.tokens = @ - cost]]
                /\ retryAt' = [retryAt EXCEPT ![k] = NoEntry]
                /\ debt' = [debt EXCEPT ![k] = @ + cost]
        /\ UNCHANGED <<now, closed>>

\* The ticker goroutine's body.
cleanup ==
    /\ ~closed
    /\ buckets' = [k \in Key |->
                     IF buckets[k] # NoEntry /\ Stale(now - buckets[k].lastRefill)
                     THEN NoEntry ELSE buckets[k]]
    /\ UNCHANGED <<now, closed, debt, retryAt>>

Close == closed' = TRUE /\ UNCHANGED <<now, buckets, debt, retryAt>>

Tick ==
    /\ now < MaxTime
    /\ now' = now + 1
    /\ debt' = [k \in Key |-> IF debt[k] > Refill THEN debt[k] - Refill ELSE 0]
    /\ UNCHANGED <<buckets, closed, retryAt>>

Next == (\E k \in Key : CheckKey(k)) \/ cleanup \/ Close \/ Tick

Spec == Init /\ [][Next]_vars

-----------------------------------------------------------------------------
(* Properties *)

\* In no stretch of time is a client admitted for more than one full bucket
\* and what the rate refills meanwhile, although the cleanup deletes buckets
\* and a deleted bucket comes back full.
BurstBounded == \A k \in Key : debt[k] <= capacity

\* A client that comes back when it was told to is admitted, however the
\* bucket was refilled, asked too early or deleted in between.
RetryHonoured ==
    [][\A k \in Key :
         CheckKey(k) /\ retryAt[k] # NoEntry /\ now >= retryAt[k] => retryAt'[k] = NoEntry]_vars
=============================================================================
