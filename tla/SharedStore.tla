----------------------------- MODULE SharedStore -----------------------------
(***************************************************************************)
(* Rate limiting on a shared Redis: checkKeyWithStore of                   *)
(* middleware/rate_limit.go over RedisRateLimitStore of stores/redis.go.   *)
(* Each instance of the application has a limiter, whose mutex admits one  *)
(* request at a time, and a fallback store in its memory; Redis is shared, *)
(* each call to it is a step, and outages begin and end between any two.   *)
(* Keys do not interfere, so there is one.                                 *)
(***************************************************************************)
EXTENDS Integers, FiniteSets

CONSTANTS Instance,   \* instances of the application
          max,        \* RateLimiter.max
          window,     \* of the limiter and of its store, in ticks
          Nil,        \* no such key, no entry
          Never,      \* the expiry of a Redis key without TTL
          MaxTime,    \* bound: the clock stops here
          MaxOutages, \* bound: outages of Redis
          MaxCount    \* bound: counters saturate here

\* A key in Redis, and an entry of a fallback store.
Key == [count : Nat \ {0}, expires : Nat \cup {Never}]
Entry == [count : Nat \ {0}, reset : Nat]

ASSUME SharedStoreAssumption ==
    /\ max \in Nat \ {0} /\ window \in Nat \ {0}
    /\ MaxTime \in Nat /\ MaxOutages \in Nat
    /\ MaxCount \in Nat /\ MaxCount > max
    /\ IsFiniteSet(Instance)
    /\ Never \notin Nat /\ Nil \notin Key \cup Entry

VARIABLES now,
          redis,     \* the key in Redis: count and expiry, or Nil
          up,        \* Redis answers
          fallback,  \* fallback[i]: RedisRateLimitStore.fallback of instance i
          pc, at,    \* where the request of each instance is, and its clock reading
          outages,   \* history: outages so far
          admitted,  \* history: requests admitted since the key was created,
                     \* counted until the first outage
          sheltered, \* history: those instance i admitted through its fallback
                     \* in this outage and fallback window
          last       \* history: when a request was last admitted

vars == <<now, redis, up, fallback, pc, at, outages, admitted, sheltered, last>>
history == <<outages, admitted, sheltered, last>>

TypeOK ==
    /\ now \in 0 .. MaxTime
    /\ redis \in Key \cup {Nil}
    /\ up \in BOOLEAN
    /\ fallback \in [Instance -> Entry \cup {Nil}]
    /\ pc \in [Instance -> {"idle", "get", "ttl", "set", "incr", "expire"}]
    /\ at \in [Instance -> 0 .. MaxTime]
    /\ outages \in 0 .. MaxOutages
    /\ admitted \in Nat /\ sheltered \in [Instance -> Nat] /\ last \in Int

Init ==
    /\ now = 0
    /\ redis = Nil /\ up = TRUE
    /\ fallback = [i \in Instance |-> Nil]
    /\ pc = [i \in Instance |-> "idle"] /\ at = [i \in Instance |-> 0]
    /\ outages = 0 /\ admitted = 0 /\ last = -window - 1
    /\ sheltered = [i \in Instance |-> 0]
-----------------------------------------------------------------------------
\* Counters stop at MaxCount: beyond max their value makes no difference.
OneMore(n) == IF n < MaxCount THEN n + 1 ELSE n

\* now.After(e.ResetTime) in the fallback store.
Live(e) == e # Nil /\ now <= e.reset

Goto(i, place) == pc' = [pc EXCEPT ![i] = place]

\* What CheckKey answers, and the bookkeeping that goes with it.
AdmitsOneMore(n) == n <= max + 1
Admits(n) == n <= max

Answer(i, n, created) ==
    /\ Goto(i, "idle")
    /\ at' = [at EXCEPT ![i] = 0]
    /\ LET before == IF created THEN 0 ELSE admitted
       IN  admitted' = IF Admits(n) /\ outages = 0 THEN before + 1 ELSE before
    /\ last' = IF Admits(n) THEN now ELSE last

Shelters(i, n) ==
    sheltered' = [sheltered EXCEPT ![i] =
                    (IF Live(fallback[i]) THEN @ ELSE 0) + (IF Admits(n) THEN 1 ELSE 0)]

\* The limiter's mutex is free; the clock is read.
CheckKey(i) ==
    /\ pc[i] = "idle"
    /\ at' = [at EXCEPT ![i] = now]
    /\ Goto(i, "get")
    /\ UNCHANGED <<now, redis, up, fallback, history>>

\* Get: the value, then its TTL.
GetFinds(i) ==
    /\ pc[i] = "get"
    /\ up /\ redis # Nil
    /\ Goto(i, "ttl")
    /\ UNCHANGED <<now, redis, up, fallback, at, history>>

\* A missing key is an error of the client too: the fallback answers for both.
GetFallsBack(i) ==
    /\ pc[i] = "get"
    /\ ~(up /\ redis # Nil)
    /\ Goto(i, IF Live(fallback[i]) THEN "incr" ELSE "set")
    /\ fallback' = [fallback EXCEPT ![i] = IF Live(@) THEN @ ELSE Nil]
    /\ UNCHANGED <<now, redis, up, at, history>>

UsableOnceRead == TRUE
\* Without a TTL, or an answer, there is no entry.
Usable == up /\ redis # Nil /\ redis.expires # Never

GetTTL(i) ==
    /\ pc[i] = "ttl"
    /\ Goto(i, IF Usable THEN "incr" ELSE "set")
    /\ UNCHANGED <<now, redis, up, fallback, at, history>>

\* Set: a key that starts over at one.
Remaining(i) == IF at[i] + window > now THEN at[i] + window - now ELSE window
Starts == 1

Set(i) ==
    /\ pc[i] = "set"
    /\ up
    /\ redis' = [count |-> Starts, expires |-> now + Remaining(i)]
    /\ Answer(i, 1, redis = Nil)
    /\ UNCHANGED <<now, up, fallback, outages, sheltered>>

SetFallsBack(i) ==
    /\ pc[i] = "set"
    /\ ~up
    /\ fallback' = [fallback EXCEPT ![i] = [count |-> 1, reset |-> at[i] + window]]
    /\ Answer(i, 1, FALSE)
    /\ Shelters(i, 1)
    /\ UNCHANGED <<now, redis, up, outages>>

\* Increment: INCR on a dead key makes one without TTL, which EXPIRE then gets.
Incremented == IF redis # Nil THEN [redis EXCEPT !.count = OneMore(@)]
               ELSE [count |-> 1, expires |-> Never]

IncrementFirst(i) ==
    /\ pc[i] = "incr"
    /\ up /\ redis = Nil
    /\ redis' = Incremented
    /\ Goto(i, "expire")
    /\ admitted' = 0
    /\ UNCHANGED <<now, up, fallback, at, outages, sheltered, last>>

Increment(i) ==
    /\ pc[i] = "incr"
    /\ up /\ redis # Nil
    /\ redis' = Incremented
    /\ Answer(i, redis.count + 1, FALSE)
    /\ UNCHANGED <<now, up, fallback, outages, sheltered>>

\* The fallback counts in its own window.  Redis may have counted as well when
\* only the answer was lost.
Bumped(e) == IF Live(e) THEN [e EXCEPT !.count = OneMore(@)]
             ELSE [count |-> 1, reset |-> now + window]
FallbackCountOne(e) == 1
FallbackCount(e) == Bumped(e).count

IncrementFallsBack(i) ==
    /\ pc[i] = "incr"
    /\ ~up
    /\ fallback' = [fallback EXCEPT ![i] = Bumped(@)]
    /\ redis' \in {redis, Incremented}
    /\ Answer(i, FallbackCount(fallback[i]), redis' # redis /\ redis = Nil)
    /\ Shelters(i, FallbackCount(fallback[i]))
    /\ UNCHANGED <<now, up, outages>>

\* The error of EXPIRE is ignored.
Expire(i) ==
    /\ pc[i] = "expire"
    /\ redis' = IF up /\ redis # Nil THEN [redis EXCEPT !.expires = now + window] ELSE redis
    /\ Answer(i, 1, FALSE)
    /\ UNCHANGED <<now, up, fallback, outages, sheltered>>

\* The limiter's ticker; Reset of the key by the application.
Cleanup(i) ==
    /\ fallback[i] # Nil /\ ~Live(fallback[i])
    /\ fallback' = [fallback EXCEPT ![i] = Nil]
    /\ UNCHANGED <<now, redis, up, pc, at, history>>

Reset ==
    /\ up /\ redis # Nil
    /\ redis' = Nil
    /\ UNCHANGED <<now, up, fallback, pc, at, history>>
-----------------------------------------------------------------------------
Outage ==
    /\ up /\ outages < MaxOutages
    /\ up' = FALSE
    /\ outages' = outages + 1
    /\ admitted' = 0
    /\ sheltered' = [i \in Instance |-> 0]
    /\ UNCHANGED <<now, redis, fallback, pc, at, last>>

Recover ==
    /\ ~up
    /\ up' = TRUE
    /\ UNCHANGED <<now, redis, fallback, pc, at, history>>

\* Redis drops a key whose time is over.
Tick ==
    /\ now < MaxTime
    /\ now' = now + 1
    /\ redis' = IF redis # Nil /\ redis.expires = now' THEN Nil ELSE redis
    /\ UNCHANGED <<up, fallback, pc, at, history>>

Request(i) ==
    \/ CheckKey(i) \/ GetFinds(i) \/ GetFallsBack(i) \/ GetTTL(i)
    \/ Set(i) \/ SetFallsBack(i)
    \/ IncrementFirst(i) \/ Increment(i) \/ IncrementFallsBack(i) \/ Expire(i)

Next ==
    \/ \E i \in Instance : Request(i) \/ Cleanup(i)
    \/ Reset \/ Outage \/ Recover \/ Tick

Spec == Init /\ [][Next]_vars
-----------------------------------------------------------------------------
(* Properties *)

\* The limit is applied with and without Redis.  While it answers, the instances
\* together admit at most max requests per instance in the life of a key: each
\* may have found the key missing and set it back to one, once.  And the fallback
\* "keeps applying the limit during an outage" (redis.go:139): as long as one
\* lasts, an instance admits at most max requests per window of its fallback,
\* also when the outage begins in the middle of a request and when an earlier
\* one has left an entry behind.
QuotaKept ==
    /\ admitted <= max * Cardinality(Instance)
    /\ ~up => \A i \in Instance : sheltered[i] <= max

Refuses(i) ==
    \/ Increment(i) /\ ~Admits(redis.count + 1)
    \/ IncrementFallsBack(i) /\ ~Admits(FallbackCount(fallback[i]))

\* No client is locked out: a refused request arrived at most one window after
\* another was admitted, also when EXPIRE has failed and left a key that Redis
\* itself would keep for ever, whatever outages begin and end.
RefusalsRecent == [][\A i \in Instance : Refuses(i) => last >= at[i] - window]_vars

\* "It is safe for use across multiple application instances." (redis.go:103)
SharedLimit == admitted <= max
=============================================================================
