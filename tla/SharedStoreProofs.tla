------------------------- MODULE SharedStoreProofs -------------------------
(* Theorems about SharedStore, for every number of instances, every limit   *)
(* and window, and every number of outages.                                 *)
EXTENDS SharedStore, FiniteSetTheorems, TLAPS

\* A counter stays a counter, and passes max on its way.
LEMMA Counter ==
    ASSUME NEW n \in Nat \ {0}
    PROVE  /\ OneMore(n) \in Nat \ {0} /\ n <= OneMore(n)
           /\ OneMore(n) <= max => OneMore(n) = n + 1
           /\ n + 1 <= max => OneMore(n) = n + 1
BY SharedStoreAssumption DEF OneMore

\* A key in Redis or none, an entry or none.
LEMMA Stored ==
    ASSUME TypeOK
    PROVE  /\ redis # Nil => redis \in Key
           /\ \A i \in Instance : fallback[i] # Nil => fallback[i] \in Entry
           /\ \A k \in Key : k # Nil
           /\ \A e \in Entry : e # Nil
BY SharedStoreAssumption DEF TypeOK

\* What INCR leaves.
LEMMA IncrementedKey ==
    ASSUME TypeOK
    PROVE  /\ Incremented \in Key
           /\ redis = Nil => Incremented.expires = Never /\ Incremented.count = 1
           /\ redis # Nil => /\ Incremented.expires = redis.expires
                             /\ Incremented.count = OneMore(redis.count)
<1>1. CASE redis = Nil
  BY <1>1 DEF Incremented, Key
<1>2. CASE redis # Nil
  <2>1. redis \in Key /\ redis.count \in Nat \ {0}
    BY <1>2, Stored DEF Key
  <2>2. OneMore(redis.count) \in Nat \ {0}
    BY <2>1, Counter
  <2> QED BY <1>2, <2>1, <2>2 DEF Incremented, Key
<1> QED BY <1>1, <1>2

\* What the fallback's Increment leaves.
LEMMA BumpedEntry ==
    ASSUME TypeOK, NEW i \in Instance
    PROVE  /\ Bumped(fallback[i]) \in Entry
           /\ Live(fallback[i]) => /\ fallback[i] \in Entry
                                   /\ Bumped(fallback[i]).count = OneMore(fallback[i].count)
                                   /\ Bumped(fallback[i]).reset = fallback[i].reset
           /\ ~Live(fallback[i]) => /\ Bumped(fallback[i]).count = 1
                                    /\ Bumped(fallback[i]).reset = now + window
<1>1. CASE ~Live(fallback[i])
  BY <1>1, SharedStoreAssumption DEF Bumped, Entry, TypeOK
<1>2. CASE Live(fallback[i])
  <2>1. fallback[i] \in Entry /\ fallback[i].count \in Nat \ {0}
    BY <1>2, Stored DEF Live, Entry
  <2>2. OneMore(fallback[i].count) \in Nat \ {0}
    BY <2>1, Counter
  <2> QED BY <1>2, <2>1, <2>2 DEF Bumped, Entry
<1> QED BY <1>1, <1>2

\* An answer ends the request and keeps the books in order.
LEMMA Answered ==
    ASSUME TypeOK, NEW i \in Instance, NEW n \in Nat, NEW created \in BOOLEAN, Answer(i, n, created)
    PROVE  /\ pc' \in [Instance -> {"idle", "get", "ttl", "set", "incr", "expire"}]
           /\ pc' = [pc EXCEPT ![i] = "idle"]
           /\ at' \in [Instance -> 0 .. MaxTime]
           /\ admitted' \in Nat /\ last' \in Int
BY SharedStoreAssumption DEF Answer, Goto, TypeOK

\* When Set makes the key expire: at most a window from now, and not before.
LEMMA SetExpires ==
    ASSUME TypeOK, NEW i \in Instance, at[i] <= now
    PROVE  Remaining(i) \in Nat /\ 0 < Remaining(i) /\ Remaining(i) <= window
BY SharedStoreAssumption DEF Remaining, TypeOK

\* Every state of the limiters is well formed.
THEOREM TypeCorrect == Spec => []TypeOK
<1> USE SharedStoreAssumption
<1>1. Init => TypeOK
  BY DEF Init, TypeOK
<1>2. TypeOK /\ [Next]_vars => TypeOK'
  <2> SUFFICES ASSUME TypeOK, [Next]_vars PROVE TypeOK'
    OBVIOUS
  <2>1. ASSUME NEW i \in Instance, CheckKey(i) \/ GetFinds(i) \/ GetTTL(i) PROVE TypeOK'
    BY <2>1 DEF CheckKey, GetFinds, GetTTL, Goto, history, TypeOK
  <2>2. ASSUME NEW i \in Instance, GetFallsBack(i) PROVE TypeOK'
    BY <2>2 DEF GetFallsBack, Goto, history, TypeOK
  <2>3. ASSUME NEW i \in Instance, Set(i) PROVE TypeOK'
    <3>1. redis' \in Key
      BY <2>3 DEF Set, Starts, Remaining, Key, TypeOK
    <3> QED BY <2>3, <3>1, Answered DEF Set, TypeOK
  <2>4. ASSUME NEW i \in Instance, NEW n \in Nat, Shelters(i, n)
        PROVE  sheltered' \in [Instance -> Nat]
    <3>1. sheltered[i] \in Nat
      BY DEF TypeOK
    <3> QED BY <2>4, <3>1 DEF Shelters, TypeOK
  <2>5. ASSUME NEW i \in Instance, SetFallsBack(i) PROVE TypeOK'
    <3>1. [count |-> 1, reset |-> at[i] + window] \in Entry
      BY DEF Entry, TypeOK
    <3>2. fallback' \in [Instance -> Entry \cup {Nil}]
      BY <2>5, <3>1 DEF SetFallsBack, TypeOK
    <3> QED BY <2>4, <2>5, <3>2, Answered DEF SetFallsBack, TypeOK
  <2>6. ASSUME NEW i \in Instance, IncrementFirst(i) PROVE TypeOK'
    BY <2>6, IncrementedKey DEF IncrementFirst, Goto, TypeOK
  <2>7. ASSUME NEW i \in Instance, Increment(i) PROVE TypeOK'
    <3>1. redis.count + 1 \in Nat
      BY <2>7, Stored DEF Increment, Key
    <3> QED BY <2>7, <3>1, Answered, IncrementedKey DEF Increment, TypeOK
  <2>8. ASSUME NEW i \in Instance, IncrementFallsBack(i) PROVE TypeOK'
    <3>1. Bumped(fallback[i]) \in Entry /\ FallbackCount(fallback[i]) \in Nat
      BY BumpedEntry DEF Entry, FallbackCount
    <3>2. fallback' \in [Instance -> Entry \cup {Nil}]
      BY <2>8, <3>1 DEF IncrementFallsBack, TypeOK
    <3>3. redis' \in Key \cup {Nil}
      BY <2>8, IncrementedKey DEF IncrementFallsBack, TypeOK
    <3> QED BY <2>4, <2>8, <3>1, <3>2, <3>3, Answered DEF IncrementFallsBack, TypeOK
  <2>9. ASSUME NEW i \in Instance, Expire(i) PROVE TypeOK'
    <3>1. redis' \in Key \cup {Nil}
      <4>1. CASE redis = Nil
        BY <2>9, <4>1 DEF Expire
      <4>2. CASE redis # Nil
        BY <2>9, <4>2, Stored DEF Expire, Key, TypeOK
      <4> QED BY <4>1, <4>2
    <3> QED BY <2>9, <3>1, Answered DEF Expire, TypeOK
  <2>10. ASSUME NEW i \in Instance, Cleanup(i) PROVE TypeOK'
    BY <2>10 DEF Cleanup, history, TypeOK
  <2>11. CASE Reset \/ Recover \/ UNCHANGED vars
    BY <2>11 DEF Reset, Recover, vars, history, TypeOK
  <2>12. CASE Outage
    <3>1. outages' \in 0 .. MaxOutages
      BY <2>12 DEF Outage, TypeOK
    <3>2. sheltered' \in [Instance -> Nat] /\ up' \in BOOLEAN /\ admitted' \in Nat
      BY <2>12 DEF Outage
    <3>3. UNCHANGED <<now, redis, fallback, pc, at, last>>
      BY <2>12 DEF Outage
    <3> QED BY <3>1, <3>2, <3>3 DEF TypeOK
  <2>13. CASE Tick
    BY <2>13 DEF Tick, history, TypeOK
  <2> QED BY <2>1, <2>2, <2>3, <2>5, <2>6, <2>7, <2>8, <2>9, <2>10, <2>11, <2>12, <2>13
             DEF Next, Request
<1> QED BY <1>1, <1>2, PTL DEF Spec
-----------------------------------------------------------------------------
(* Refusals *)

\* Whatever can refuse a request was made by an admission less than a window ago:
\* a key with a TTL, an entry of a fallback.  A key without one refuses only who
\* had read its TTL before it was lost.
RecentInv ==
    /\ last <= now
    /\ \A i \in Instance : at[i] <= now
    /\ redis # Nil /\ redis.expires # Never =>
          redis.expires > now /\ last >= redis.expires - window
    /\ \A i \in Instance : fallback[i] # Nil => last >= fallback[i].reset - window
    /\ \A i \in Instance : pc[i] = "incr" => last >= at[i] - window

\* Clock readings are integers.
LEMMA Clocks ==
    ASSUME TypeOK
    PROVE  /\ now \in Nat /\ last \in Int /\ window \in Nat /\ window > 0
           /\ \A i \in Instance : at[i] \in Nat
           /\ redis # Nil /\ redis.expires # Never => redis.expires \in Nat
           /\ \A i \in Instance : fallback[i] # Nil => fallback[i].reset \in Nat
<1>1. redis # Nil => redis \in Key
  BY Stored
<1>2. \A i \in Instance : fallback[i] # Nil => fallback[i] \in Entry
  BY Stored
<1> QED BY <1>1, <1>2, SharedStoreAssumption DEF TypeOK, Key, Entry

\* A live entry of the fallback is evidence of a recent admission.
LEMMA LiveIsRecent ==
    ASSUME TypeOK, RecentInv, NEW i \in Instance, Live(fallback[i])
    PROVE  last >= now - window
BY Clocks DEF Live, RecentInv

\* So is a key with a TTL.
LEMMA UsableIsRecent ==
    ASSUME TypeOK, RecentInv, Usable PROVE last >= now - window
BY Clocks DEF Usable, RecentInv

\* An answer to i leaves no clock ahead, and nobody else's request less recent.
LEMMA AnswerIsRecent ==
    ASSUME TypeOK, RecentInv, NEW i \in Instance, NEW n \in Nat, NEW created \in BOOLEAN,
           Answer(i, n, created), now' = now
    PROVE  /\ last' >= last /\ last' <= now /\ last' \in Int
           /\ Admits(n) => last' = now
           /\ \A j \in Instance : at'[j] <= now
           /\ \A j \in Instance : pc'[j] = "incr" => last' >= at'[j] - window
<1>1. /\ pc' = [pc EXCEPT ![i] = "idle"] /\ at' = [at EXCEPT ![i] = 0]
      /\ last' = IF Admits(n) THEN now ELSE last
  BY DEF Answer, Goto
<1>2. last' >= last /\ last' <= now /\ last' \in Int
  BY <1>1, Clocks DEF RecentInv
<1>3. \A j \in Instance : j # i => pc'[j] = pc[j] /\ at'[j] = at[j]
  BY <1>1 DEF TypeOK
<1>4. at'[i] = 0 /\ pc'[i] = "idle"
  BY <1>1 DEF TypeOK
<1> QED BY <1>1, <1>2, <1>3, <1>4, Clocks DEF RecentInv

\* The first count of a window is within the limit.
LEMMA FirstAdmitted == Admits(1)
BY SharedStoreAssumption DEF Admits

\* RecentInv is inductive.
LEMMA RecentKept == ASSUME TypeOK, RecentInv, [Next]_vars PROVE RecentInv'
<1> USE Clocks
<1> DEFINE Own == \A j \in Instance : pc'[j] = "incr" => last' >= at'[j] - window
           Entries == \A j \in Instance : fallback'[j] # Nil => last' >= fallback'[j].reset - window
           Shared == redis' # Nil /\ redis'.expires # Never =>
                        redis'.expires > now' /\ last' >= redis'.expires - window
           Past == last' <= now' /\ \A j \in Instance : at'[j] <= now'
<1>a. Own /\ Entries /\ Shared /\ Past => RecentInv'
  BY DEF RecentInv
<1>b. redis' = redis /\ now' = now /\ last' >= last /\ last' \in Int => Shared
  BY DEF RecentInv
<1>c. fallback' = fallback /\ last' >= last /\ last' \in Int => Entries
  BY DEF RecentInv
<1> HIDE DEF Own, Entries, Shared, Past
<1>1. ASSUME NEW i \in Instance, CheckKey(i) \/ GetFinds(i) PROVE RecentInv'
  <2>1. Own /\ Past
    BY <1>1 DEF CheckKey, GetFinds, Goto, history, RecentInv, TypeOK, Own, Past
  <2> QED BY <1>1, <1>a, <1>b, <1>c, <2>1 DEF CheckKey, GetFinds, history
<1>2. ASSUME NEW i \in Instance, GetFallsBack(i) PROVE RecentInv'
  <2>1. UNCHANGED <<now, redis, up, at, last>>
    BY <1>2 DEF GetFallsBack, history
  <2>2. Own
    <3>1. \A j \in Instance : j # i => pc'[j] = pc[j]
      BY <1>2 DEF GetFallsBack, Goto, TypeOK
    <3>2. pc'[i] = "incr" => last >= now - window
      BY <1>2, LiveIsRecent DEF GetFallsBack, Goto, TypeOK
    <3>3. pc'[i] = "incr" => last >= at[i] - window
      BY <3>2 DEF RecentInv
    <3> QED BY <2>1, <3>1, <3>3 DEF Own, RecentInv
  <2>3. Entries
    BY <1>2, <2>1 DEF GetFallsBack, TypeOK, Entries, RecentInv
  <2>4. Past
    BY <2>1 DEF Past, RecentInv
  <2> QED BY <1>a, <1>b, <2>1, <2>2, <2>3, <2>4
<1>3. ASSUME NEW i \in Instance, GetTTL(i) PROVE RecentInv'
  <2>1. UNCHANGED <<now, redis, up, at, last, fallback>>
    BY <1>3 DEF GetTTL, history
  <2>2. Own
    <3>1. \A j \in Instance : j # i => pc'[j] = pc[j]
      BY <1>3 DEF GetTTL, Goto, TypeOK
    <3>2. pc'[i] = "incr" => last >= now - window
      BY <1>3, UsableIsRecent DEF GetTTL, Goto, TypeOK
    <3>3. pc'[i] = "incr" => last >= at[i] - window
      BY <3>2 DEF RecentInv
    <3> QED BY <2>1, <3>1, <3>3 DEF Own, RecentInv
  <2>4. Past
    BY <2>1 DEF Past, RecentInv
  <2> QED BY <1>a, <1>b, <1>c, <2>1, <2>2, <2>4
\* Answers to i.
<1>4. ASSUME NEW i \in Instance, NEW n \in Nat, NEW created \in BOOLEAN,
             Answer(i, n, created), now' = now
      PROVE  /\ Own /\ Past /\ last' >= last /\ last' \in Int
             /\ Admits(n) => last' = now
  BY <1>4, AnswerIsRecent DEF Own, Past
<1>5. ASSUME NEW i \in Instance, Set(i) PROVE RecentInv'
  <2>1. now' = now /\ fallback' = fallback /\ Answer(i, 1, redis = Nil)
    BY <1>5 DEF Set
  <2>2. /\ Own /\ Past /\ last' = now /\ last' >= last
    BY <1>4, <2>1, FirstAdmitted
  <2>3. redis'.expires = now + Remaining(i)
    BY <1>5 DEF Set
  <2>4. at[i] <= now
    BY DEF RecentInv
  <2>5. Shared
    <3>1. Remaining(i) \in Nat /\ 0 < Remaining(i) /\ Remaining(i) <= window
      BY <2>4, SetExpires
    <3> QED BY <2>1, <2>2, <2>3, <3>1 DEF Shared
  <2> QED BY <1>a, <1>c, <2>1, <2>2, <2>5
<1>6. ASSUME NEW i \in Instance, SetFallsBack(i) PROVE RecentInv'
  <2>1. now' = now /\ redis' = redis /\ Answer(i, 1, FALSE)
    BY <1>6 DEF SetFallsBack
  <2>2. /\ Own /\ Past /\ last' = now /\ last' >= last
    BY <1>4, <2>1, FirstAdmitted
  <2>3. Entries
    <3>1. fallback'[i] = [count |-> 1, reset |-> at[i] + window]
          /\ \A j \in Instance : j # i => fallback'[j] = fallback[j]
      BY <1>6 DEF SetFallsBack, TypeOK
    <3>2. last' >= fallback'[i].reset - window
      BY <2>2, <3>1 DEF RecentInv
    <3> QED BY <2>2, <3>1, <3>2 DEF Entries, RecentInv
  <2> QED BY <1>a, <1>b, <2>1, <2>2, <2>3
<1>7. ASSUME NEW i \in Instance, IncrementFirst(i) PROVE RecentInv'
  <2>1. UNCHANGED <<now, fallback, at, last>> /\ redis'.expires = Never
    BY <1>7, IncrementedKey DEF IncrementFirst
  <2>2. Own /\ Past
    BY <1>7, <2>1 DEF IncrementFirst, Goto, TypeOK, Own, Past, RecentInv
  <2>3. Shared
    BY <2>1 DEF Shared
  <2> QED BY <1>a, <1>c, <2>1, <2>2, <2>3
<1>8. ASSUME NEW i \in Instance, Increment(i) PROVE RecentInv'
  <2>1. /\ now' = now /\ fallback' = fallback /\ Answer(i, redis.count + 1, FALSE)
        /\ redis # Nil /\ redis' = Incremented
    BY <1>8 DEF Increment
  <2>4. redis.count + 1 \in Nat
    BY <2>1, Stored DEF Key
  <2>2. /\ Own /\ Past /\ last' >= last /\ last' \in Int
    BY <1>4, <2>1, <2>4
  <2>3. Shared
    BY <2>1, <2>2, IncrementedKey DEF Shared, RecentInv
  <2> QED BY <1>a, <1>c, <2>1, <2>2, <2>3
<1>9. ASSUME NEW i \in Instance, IncrementFallsBack(i) PROVE RecentInv'
  <2> DEFINE n == FallbackCount(fallback[i])
  <2>1. /\ now' = now /\ Answer(i, n, redis' # redis /\ redis = Nil)
        /\ redis' \in {redis, Incremented}
        /\ fallback' = [fallback EXCEPT ![i] = Bumped(fallback[i])]
    BY <1>9 DEF IncrementFallsBack
  <2>2. n \in Nat /\ (~Live(fallback[i]) => n = 1)
    BY BumpedEntry DEF FallbackCount, Entry
  <2>3. /\ Own /\ Past /\ last' >= last /\ last' \in Int
        /\ ~Live(fallback[i]) => last' = now
    BY <1>4, <2>1, <2>2, FirstAdmitted
  <2>4. Shared
    <3>1. CASE redis' = redis
      BY <1>b, <2>1, <2>3, <3>1
    <3>2. CASE redis' = Incremented
      BY <2>1, <2>3, <3>2, IncrementedKey DEF Shared, RecentInv
    <3> QED BY <2>1, <3>1, <3>2
  <2>5. Entries
    <3>1. fallback'[i] = Bumped(fallback[i]) /\ \A j \in Instance : j # i => fallback'[j] = fallback[j]
      BY <2>1 DEF TypeOK
    <3>2. last' >= Bumped(fallback[i]).reset - window
      <4>1. CASE Live(fallback[i])
        BY <2>3, <4>1, BumpedEntry DEF Live, RecentInv
      <4>2. CASE ~Live(fallback[i])
        BY <2>3, <4>2, BumpedEntry
      <4> QED BY <4>1, <4>2
    <3> QED BY <2>3, <3>1, <3>2 DEF Entries, RecentInv
  <2> QED BY <1>a, <2>3, <2>4, <2>5
<1>10. ASSUME NEW i \in Instance, Expire(i) PROVE RecentInv'
  <2>1. now' = now /\ fallback' = fallback /\ Answer(i, 1, FALSE)
    BY <1>10 DEF Expire
  <2>2. /\ Own /\ Past /\ last' = now /\ last' >= last
    BY <1>4, <2>1, FirstAdmitted
  <2>3. Shared
    <3>1. CASE redis' = redis
      BY <1>b, <2>1, <2>2, <3>1
    <3>2. CASE redis # Nil /\ redis' = [redis EXCEPT !.expires = now + window]
      <4>1. redis'.expires = now + window
        BY <3>2, Stored DEF Key
      <4> QED BY <2>1, <2>2, <4>1 DEF Shared
    <3> QED BY <1>10, <3>1, <3>2 DEF Expire
  <2> QED BY <1>a, <1>c, <2>1, <2>2, <2>3
<1>11. ASSUME NEW i \in Instance, Cleanup(i) PROVE RecentInv'
  BY <1>11 DEF Cleanup, history, TypeOK, RecentInv
<1>12. CASE Reset \/ Outage \/ Recover \/ UNCHANGED vars
  BY <1>12 DEF Reset, Outage, Recover, vars, history, RecentInv
<1>13. CASE Tick
  <2>1. now' = now + 1 /\ UNCHANGED <<fallback, pc, at, last>>
    BY <1>13 DEF Tick, history
  <2>2. Shared
    <3>1. CASE redis' = Nil
      BY <3>1 DEF Shared
    <3>2. CASE redis' = redis /\ redis.expires # now'
      BY <2>1, <3>2 DEF Shared, RecentInv
    <3>3. CASE redis = Nil /\ redis' = redis
      BY <3>3 DEF Shared
    <3> QED BY <1>13, <3>1, <3>2, <3>3 DEF Tick
  <2>3. Own /\ Past
    BY <2>1 DEF Own, Past, RecentInv
  <2> QED BY <1>a, <1>c, <2>1, <2>2, <2>3
<1> QED BY <1>1, <1>2, <1>3, <1>5, <1>6, <1>7, <1>8, <1>9, <1>10, <1>11, <1>12, <1>13
        DEF Next, Request

\* A refused request arrived at most one window after another was admitted, through
\* any outages, lost answers and failed EXPIREs.
THEOREM NobodyLockedOut == Spec => RefusalsRecent
<1>1. Init => RecentInv
  BY SharedStoreAssumption DEF Init, RecentInv
<1>2. TypeOK /\ RecentInv /\ [Next]_vars => RecentInv'
  BY RecentKept
<1>3. TypeOK /\ RecentInv => \A i \in Instance : Refuses(i) => last >= at[i] - window
  BY DEF RecentInv, Refuses, Increment, IncrementFallsBack
<1> QED BY <1>1, <1>2, <1>3, TypeCorrect, PTL DEF Spec, RefusalsRecent
-----------------------------------------------------------------------------
(* The limit in an outage *)

\* What instance i has admitted in this outage and window is in the count of its
\* live entry, and an instance caught between Get and Set has admitted nothing yet:
\* it was in Redis when the outage began.
ShelterInv == ~up => \A i \in Instance :
    /\ sheltered[i] <= max
    /\ Live(fallback[i]) => sheltered[i] <= fallback[i].count
    /\ pc[i] = "ttl" => sheltered[i] = 0
    /\ pc[i] = "set" /\ Live(fallback[i]) => sheltered[i] = 0

\* The counts are natural numbers.
LEMMA Counts ==
    ASSUME TypeOK
    PROVE  /\ \A i \in Instance : sheltered[i] \in Nat
           /\ \A i \in Instance : fallback[i] # Nil => fallback[i].count \in Nat \ {0}
           /\ redis # Nil => redis.count \in Nat \ {0}
           /\ max \in Nat \ {0} /\ admitted \in Nat
<1>1. redis # Nil => redis \in Key
  BY Stored
<1>2. \A i \in Instance : fallback[i] # Nil => fallback[i] \in Entry
  BY Stored
<1> QED BY <1>1, <1>2, SharedStoreAssumption DEF TypeOK, Key, Entry

\* ShelterInv is inductive.
LEMMA ShelterKept == ASSUME TypeOK, ShelterInv, [Next]_vars PROVE ShelterInv'
<1> DEFINE Kept(j) == /\ sheltered'[j] <= max
                      /\ Live(fallback[j])' => sheltered'[j] <= fallback'[j].count
                      /\ pc'[j] = "ttl" => sheltered'[j] = 0
                      /\ pc'[j] = "set" /\ Live(fallback[j])' => sheltered'[j] = 0
<1> SUFFICES ASSUME ~up', NEW j \in Instance PROVE Kept(j)
  BY DEF ShelterInv
<1>n. /\ \A k \in Instance : sheltered[k] \in Nat
      /\ \A k \in Instance : fallback[k] # Nil => fallback[k].count \in Nat \ {0}
      /\ max \in Nat \ {0}
  BY Counts
\* A step that leaves the entry and the place of j alone.
<1>a. ASSUME ~up, now' = now \/ now' = now + 1, fallback'[j] = fallback[j],
             sheltered'[j] = sheltered[j], pc'[j] = pc[j]
      PROVE  Kept(j)
  BY <1>a, Clocks DEF ShelterInv, Live
\* A request that stays in Redis, or has just come from it.
<1>1. ASSUME NEW i \in Instance, CheckKey(i) \/ GetFinds(i) \/ GetTTL(i) PROVE Kept(j)
  <2>1. UNCHANGED <<now, redis, up, fallback, sheltered>>
    BY <1>1 DEF CheckKey, GetFinds, GetTTL, history
  <2>2. CASE i # j
    <3>1. pc'[j] = pc[j]
      BY <1>1, <2>2 DEF CheckKey, GetFinds, GetTTL, Goto, TypeOK
    <3> QED BY <1>a, <2>1, <3>1
  <2>3. CASE i = j
    <3>1. pc'[j] = "get" \/ (pc[j] = "ttl" /\ pc'[j] \in {"incr", "set"})
      BY <1>1, <2>1, <2>3 DEF CheckKey, GetFinds, GetTTL, Goto, TypeOK
    <3> QED BY <2>1, <3>1 DEF ShelterInv, Live
  <2> QED BY <2>2, <2>3
<1>2. ASSUME NEW i \in Instance, GetFallsBack(i) PROVE Kept(j)
  <2>1. UNCHANGED <<now, redis, up, sheltered>>
    BY <1>2 DEF GetFallsBack, history
  <2>2. CASE i # j
    <3>1. pc'[j] = pc[j] /\ fallback'[j] = fallback[j]
      BY <1>2, <2>2 DEF GetFallsBack, Goto, TypeOK
    <3> QED BY <1>a, <2>1, <3>1
  <2>3. CASE i = j /\ Live(fallback[j])
    <3>1. pc'[j] = "incr" /\ fallback'[j] = fallback[j]
      BY <1>2, <2>3 DEF GetFallsBack, Goto, TypeOK
    <3> QED BY <2>1, <3>1 DEF ShelterInv, Live
  <2>4. CASE i = j /\ ~Live(fallback[j])
    <3>1. pc'[j] = "set" /\ fallback'[j] = Nil
      BY <1>2, <2>4 DEF GetFallsBack, Goto, TypeOK
    <3> QED BY <2>1, <3>1 DEF ShelterInv, Live
  <2> QED BY <2>2, <2>3, <2>4
<1>3. ASSUME NEW i \in Instance, NEW n \in Nat, NEW created \in BOOLEAN, ~up, now' = now,
             Answer(i, n, created), Shelters(i, n), \A k \in Instance : k # i => fallback'[k] = fallback[k],
             i = j => /\ fallback'[j] # Nil /\ (Admits(n) => n <= fallback'[j].count)
                      /\ fallback'[j].count \in Nat \ {0}
                      /\ sheltered'[j] <= max /\ sheltered'[j] <= fallback'[j].count
      PROVE  Kept(j)
  <2>1. pc' = [pc EXCEPT ![i] = "idle"]
    BY <1>3 DEF Answer, Goto
  <2>2. CASE i # j
    <3>1. pc'[j] = pc[j] /\ sheltered'[j] = sheltered[j] /\ fallback'[j] = fallback[j]
      BY <1>3, <2>1, <2>2 DEF Shelters, TypeOK
    <3> QED BY <1>3, <1>a, <3>1
  <2>3. CASE i = j
    <3>1. pc'[j] = "idle"
      BY <2>1, <2>3 DEF TypeOK
    <3> QED BY <1>3, <2>3, <3>1
  <2> QED BY <2>2, <2>3
<1>4. ASSUME NEW i \in Instance, SetFallsBack(i) PROVE Kept(j)
  <2>1. /\ ~up /\ now' = now /\ pc[i] = "set" /\ Answer(i, 1, FALSE) /\ Shelters(i, 1)
        /\ \A k \in Instance : k # i => fallback'[k] = fallback[k]
        /\ fallback'[i] = [count |-> 1, reset |-> at[i] + window]
    BY <1>4 DEF SetFallsBack, TypeOK
  <2>2. sheltered'[i] = 1
    <3>1. Live(fallback[i]) => sheltered[i] = 0
      BY <2>1 DEF ShelterInv
    <3> QED BY <2>1, <3>1, FirstAdmitted DEF Shelters, TypeOK
  <2>3. fallback'[i] \in Entry
    BY <2>1, Clocks DEF Entry
  <2>4. fallback'[i] # Nil /\ fallback'[i].count = 1
    BY <2>1, <2>3, Stored
  <2>5. sheltered'[i] <= max /\ sheltered'[i] <= fallback'[i].count
    BY <1>n, <2>2, <2>4
  <2>6. fallback'[i].count \in Nat \ {0} /\ 1 <= fallback'[i].count /\ 1 \in Nat
    BY <2>4
  <2>7. i = j => /\ fallback'[j] # Nil /\ (Admits(1) => 1 <= fallback'[j].count)
                 /\ fallback'[j].count \in Nat \ {0}
                 /\ sheltered'[j] <= max /\ sheltered'[j] <= fallback'[j].count
    BY <2>4, <2>5, <2>6
  <2> QED BY <1>3, <2>1, <2>6, <2>7
<1>5. ASSUME NEW i \in Instance, IncrementFallsBack(i) PROVE Kept(j)
  <2> DEFINE n == FallbackCount(fallback[i])
  <2>1. /\ ~up /\ now' = now /\ Answer(i, n, redis' # redis /\ redis = Nil) /\ Shelters(i, n)
        /\ \A k \in Instance : k # i => fallback'[k] = fallback[k]
        /\ fallback'[i] = Bumped(fallback[i])
    BY <1>5 DEF IncrementFallsBack, TypeOK
  <2>2. Bumped(fallback[i]) \in Entry /\ n = Bumped(fallback[i]).count /\ n \in Nat \ {0}
    BY BumpedEntry DEF FallbackCount, Entry
  <2>3. sheltered'[i] <= max /\ sheltered'[i] <= n
    <3>1. CASE ~Live(fallback[i])
      <4>1. n = 1
        BY <2>2, <3>1, BumpedEntry
      <4>2. sheltered'[i] = 1
        BY <2>1, <3>1, <4>1, FirstAdmitted DEF Shelters, TypeOK
      <4> QED BY <1>n, <4>1, <4>2
    <3>2. CASE Live(fallback[i])
      <4>1. /\ n = OneMore(fallback[i].count) /\ fallback[i].count \in Nat \ {0}
            /\ sheltered[i] <= fallback[i].count /\ sheltered[i] <= max
        <5>1. fallback[i] # Nil
          BY <3>2 DEF Live
        <5>2. fallback[i].count \in Nat \ {0}
          BY <5>1, <1>n
        <5>3. sheltered[i] <= fallback[i].count /\ sheltered[i] <= max
          BY <2>1, <3>2 DEF ShelterInv
        <5>4. n = OneMore(fallback[i].count)
          BY <2>2, <3>2, BumpedEntry
        <5> QED BY <5>2, <5>3, <5>4
      <4>5. sheltered[i] \in Nat /\ max \in Nat
        BY <1>n
      <4>2. sheltered'[i] = sheltered[i] + IF Admits(n) THEN 1 ELSE 0
        BY <2>1, <3>2 DEF Shelters, TypeOK
      <4>3. CASE Admits(n)
        <5>1. n <= max /\ n = fallback[i].count + 1
          BY <4>1, <4>3, Counter DEF Admits
        <5>2. sheltered'[i] = sheltered[i] + 1
          BY <4>2, <4>3
        <5>3. fallback[i].count \in Nat
          BY <4>1
        <5> HIDE DEF n
        <5> QED BY <4>1, <4>5, <5>1, <5>2, <5>3
      <4>4. CASE ~Admits(n)
        <5>1. fallback[i].count <= n
          BY <4>1, Counter
        <5>2. sheltered'[i] = sheltered[i]
          BY <4>2, <4>4, <4>5
        <5>3. fallback[i].count \in Nat /\ n \in Nat
          BY <2>2, <4>1
        <5> HIDE DEF n
        <5> QED BY <4>1, <4>5, <5>1, <5>2, <5>3
      <4> QED BY <4>3, <4>4
    <3> QED BY <3>1, <3>2
  <2>4. fallback'[i] # Nil /\ fallback'[i].count = n
    BY <2>1, <2>2, Stored
  <2>5. n \in Nat /\ n <= n
    BY <2>2
  <2> HIDE DEF n
  <2> QED BY <1>3, <2>1, <2>2, <2>3, <2>4, <2>5
<1>6. ASSUME NEW i \in Instance, Set(i) \/ IncrementFirst(i) \/ Increment(i) PROVE Kept(j)
  <2>1. up /\ up' = up
    BY <1>6 DEF Set, IncrementFirst, Increment
  <2> QED BY <2>1
<1>7. ASSUME NEW i \in Instance, Expire(i) PROVE Kept(j)
  <2>1. UNCHANGED <<now, up, fallback, sheltered>> /\ pc' = [pc EXCEPT ![i] = "idle"]
    BY <1>7 DEF Expire, Answer, Goto
  <2>2. pc'[j] = pc[j] \/ pc'[j] = "idle"
    BY <2>1 DEF TypeOK
  <2> QED BY <2>1, <2>2 DEF ShelterInv, Live
<1>8. ASSUME NEW i \in Instance, Cleanup(i) PROVE Kept(j)
  <2>1. UNCHANGED <<now, up, pc, sheltered>> /\ (fallback'[j] = fallback[j] \/ fallback'[j] = Nil)
    BY <1>8 DEF Cleanup, history, TypeOK
  <2> QED BY <2>1 DEF ShelterInv, Live
<1>9. CASE Outage
  <2>1. sheltered'[j] = 0 /\ fallback' = fallback
    BY <1>9 DEF Outage
  <2>2. fallback[j] # Nil => fallback[j].count \in Nat \ {0}
    BY <1>n
  <2>3. max \in Nat \ {0}
    BY <1>n
  <2>4. Live(fallback[j])' => fallback'[j] # Nil
    BY DEF Live
  <2>5. Live(fallback[j])' => 0 <= fallback'[j].count
    BY <2>1, <2>2, <2>4
  <2> QED BY <2>1, <2>3, <2>5
<1>10. CASE Reset \/ Recover \/ Tick \/ UNCHANGED vars
  BY <1>10, <1>a, Clocks DEF Reset, Recover, Tick, vars, history
<1> HIDE DEF Kept
<1> QED BY <1>1, <1>2, <1>4, <1>5, <1>6, <1>7, <1>8, <1>9, <1>10 DEF Next, Request
-----------------------------------------------------------------------------
(* The limit while Redis answers *)

Setting == {i \in Instance : pc[i] = "set"}
Expiring == {i \in Instance : pc[i] = "expire"}

\* Who may still set the present key back to one: with a TTL on it, only who is
\* about to; without one, everybody but those who are on their way to expire it.
Resetting == IF redis.expires = Never THEN Instance \ Expiring ELSE Setting

Capped(n) == IF n <= max THEN n ELSE max
Others == Cardinality(Instance) - 1 - Cardinality(Resetting)

\* Each instance that cannot set the present key back any more is good for max
\* requests, the count of the key for the rest; who is about to expire the key has
\* one answer coming.
QuotaInv ==
    /\ ~up => outages > 0
    /\ outages > 0 => admitted = 0
    /\ outages = 0 => admitted + Cardinality(Expiring) <=
                         IF redis = Nil THEN max * Cardinality(Instance)
                         ELSE Capped(redis.count) + max * Others

\* What Z3 is told of products.
LEMMA Products ==
    ASSUME NEW a \in Int, NEW b \in Int
    PROVE  /\ a <= b => max * a <= max * b
           /\ max * (a + 1) = max * a + max
           /\ max * (a - 1) = max * a - max
           /\ max * a \in Int
           /\ a >= 0 => a <= max * a
<1>0. max \in Nat /\ max >= 1
  BY SharedStoreAssumption
<1>1. ASSUME NEW c \in Nat, NEW d \in Nat PROVE d * c >= 0
  BY <1>1
<1>2. ASSUME a <= b PROVE max * a <= max * b
  <2> DEFINE d == b - a
  <2>1. d \in Nat /\ b = a + d
    BY <1>2
  <2> HIDE DEF d
  <2>2. max * d >= 0
    BY <1>0, <1>1, <2>1
  <2>3. max * (a + d) = max * a + max * d
    BY <1>0, <2>1
  <2> QED BY <1>0, <2>1, <2>2, <2>3
<1>3. max * (a + 1) = max * a + max /\ max * (a - 1) = max * a - max /\ max * a \in Int
  BY <1>0
<1>4. ASSUME a >= 0 PROVE a <= max * a
  <2>1. (max - 1) * a >= 0
    BY <1>0, <1>1, <1>4
  <2>2. (max - 1) * a = max * a - a
    BY <1>0
  <2> QED BY <1>0, <2>1, <2>2
<1> QED BY <1>2, <1>3, <1>4

\* Two sets of instances without a common member.
LEMMA Apart ==
    ASSUME NEW A, NEW B, A \subseteq Instance, B \subseteq Instance, A \cap B = {}
    PROVE  Cardinality(A) + Cardinality(B) <= Cardinality(Instance)
<1>1. IsFiniteSet(Instance) /\ IsFiniteSet(A) /\ IsFiniteSet(B)
  BY SharedStoreAssumption, FS_Subset
<1>2. Cardinality(A \cup B) = Cardinality(A) + Cardinality(B) - Cardinality(A \cap B)
  BY <1>1, FS_Union
<1>3. Cardinality(A \cup B) <= Cardinality(Instance) /\ Cardinality(A \cap B) = 0
  BY <1>1, FS_Subset, FS_EmptySet
<1>4. Cardinality(A) \in Nat /\ Cardinality(B) \in Nat
  BY <1>1, FS_CardinalityType
<1> QED BY <1>2, <1>3, <1>4

\* The numbers in QuotaInv.
LEMMA Numbers ==
    /\ Cardinality(Instance) \in Nat
    /\ Cardinality(Expiring) \in Nat /\ Cardinality(Setting) \in Nat /\ Cardinality(Resetting) \in Nat
    /\ Others \in Int
    /\ \A A, B \in SUBSET Instance : A \subseteq B => Cardinality(A) <= Cardinality(B)
    /\ \A A \in SUBSET Instance : Cardinality(A) \in Nat
<1>1. /\ IsFiniteSet(Instance)
      /\ \A A \in SUBSET Instance : IsFiniteSet(A)
  BY SharedStoreAssumption, FS_Subset
<1>2. \A A \in SUBSET Instance : Cardinality(A) \in Nat
  BY <1>1, FS_CardinalityType
<1>3. Expiring \in SUBSET Instance /\ Setting \in SUBSET Instance /\ Resetting \in SUBSET Instance
  BY DEF Expiring, Setting, Resetting
<1>4. Instance \in SUBSET Instance
  OBVIOUS
<1>5. \A A, B \in SUBSET Instance : A \subseteq B => Cardinality(A) <= Cardinality(B)
  BY <1>1, FS_Subset
<1> QED BY <1>2, <1>3, <1>4, <1>5 DEF Others

\* While Redis has always answered, there is room for all the instances.
LEMMA Room ==
    ASSUME TypeOK, QuotaInv, outages = 0
    PROVE  admitted + Cardinality(Expiring) <= max * Cardinality(Instance)
<1>1. CASE redis = Nil
  BY <1>1 DEF QuotaInv
<1>2. CASE redis # Nil
  <2> DEFINE N == Cardinality(Instance)
  <2>1. /\ N \in Nat /\ Others \in Int /\ Others <= N - 1
        /\ Cardinality(Expiring) \in Nat /\ N - 1 \in Int
    BY Numbers DEF Others
  <2>2. max * Others <= max * (N - 1) /\ max * (N - 1) = max * N - max
        /\ max * Others \in Int /\ max * N \in Int
    <3> DEFINE m == N - 1
    <3>1. m \in Int /\ Others <= m
      BY <2>1
    <3>2. max * Others <= max * m /\ max * Others \in Int
      <4> HIDE DEF m
      <4> QED BY <2>1, <3>1, Products
    <3>3. N \in Int
      BY <2>1
    <3>4. max * (N - 1) = max * N - max /\ max * N \in Int
      <4> HIDE DEF N
      <4> QED BY <3>3, Products
    <3> QED BY <3>2, <3>4
  <2>3. Capped(redis.count) <= max /\ Capped(redis.count) \in Nat /\ max \in Nat /\ admitted \in Nat
    BY <1>2, Counts DEF Capped
  <2>4. admitted + Cardinality(Expiring) <= Capped(redis.count) + max * Others
    BY <1>2 DEF QuotaInv
  <2> DEFINE a == max * Others
             b == max * (N - 1)
             c == max * N
             d == Capped(redis.count)
             e == Cardinality(Expiring)
  <2>5. /\ a <= b /\ b = c - max /\ a \in Int /\ c \in Int /\ d <= max /\ d \in Nat
        /\ max \in Nat /\ admitted + e <= d + a /\ admitted \in Nat /\ e \in Nat
    BY <2>1, <2>2, <2>3, <2>4
  <2>6. admitted + e <= c
    <3> HIDE DEF a, b, c, d, e
    <3> QED BY <2>5
  <2> QED BY <2>6
<1> QED BY <1>1, <1>2

\* What an invariant of the next state takes.
LEMMA QuotaNext ==
    ASSUME ~up' => outages' > 0, outages' > 0 => admitted' = 0,
           outages' = 0 /\ redis' = Nil =>
              admitted' + Cardinality(Expiring)' <= max * Cardinality(Instance),
           outages' = 0 /\ redis' # Nil =>
              admitted' + Cardinality(Expiring)' <= Capped(redis'.count) + max * Others'
    PROVE  QuotaInv'
BY DEF QuotaInv, Capped

\* Fewer who may set the key back, more others.
LEMMA BoundsReversed ==
    ASSUME NEW N \in Nat, NEW R \in Nat, NEW r \in Nat, NEW e \in Nat
    PROVE  /\ N - 1 - R \in Int
           /\ r <= R => N - 1 - R <= N - 1 - r
           /\ r + 1 <= R => (N - 1 - R) + 1 <= N - 1 - r
           /\ r + e + 1 <= N => e <= N - 1 - r /\ N - 1 - r >= 0
OBVIOUS

\* QuotaInv is inductive.
LEMMA QuotaInvKept == ASSUME TypeOK, QuotaInv, [Next]_vars PROVE QuotaInv'
<1> DEFINE E == Cardinality(Expiring)
           R == Cardinality(Resetting)
           N == Cardinality(Instance)
<1>s. /\ Expiring \in SUBSET Instance /\ Expiring' \in SUBSET Instance
      /\ Resetting \in SUBSET Instance /\ Resetting' \in SUBSET Instance
      /\ Setting \in SUBSET Instance /\ Setting' \in SUBSET Instance
  BY DEF Expiring, Setting, Resetting
<1>n. /\ E \in Nat /\ E' \in Nat /\ R \in Nat /\ R' \in Nat /\ N \in Nat
      /\ Others = N - 1 - R /\ Others' = N - 1 - R'
      /\ admitted \in Nat /\ max \in Nat /\ max >= 1 /\ outages \in Nat
      /\ redis # Nil => redis.count \in Nat \ {0}
  <2>1. E \in Nat /\ E' \in Nat /\ R \in Nat /\ R' \in Nat /\ N \in Nat
    BY <1>s, Numbers
  <2>2. Others = N - 1 - R /\ Others' = N - 1 - R'
    BY DEF Others
  <2> QED BY <2>1, <2>2, Counts DEF TypeOK
<1>up. outages = 0 => up
  BY DEF QuotaInv
\* Once there has been an outage, admissions are not counted.
<1>out. ASSUME outages' > 0, admitted' = 0 PROVE QuotaInv'
  BY <1>out, QuotaNext
\* The key is left alone, and nobody may set it back who could not before.
<1>same. ASSUME UNCHANGED <<redis, outages, admitted>>, ~up' => outages > 0, Expiring' = Expiring,
                outages = 0 /\ redis # Nil => Resetting' \subseteq Resetting
         PROVE  QuotaInv'
  <2>1. outages > 0 => admitted = 0
    BY DEF QuotaInv
  <2>2. E' = E
    BY <1>same
  <2>3. ASSUME outages = 0, redis # Nil
        PROVE  admitted + E <= Capped(redis.count) + max * Others'
    <3>1. R' <= R
      BY <1>same, <1>s, <2>3, Numbers
    <3>2. Others <= Others' /\ Others \in Int /\ Others' \in Int
      BY <1>n, <3>1, BoundsReversed
    <3>3. max * Others <= max * Others' /\ max * Others \in Int /\ max * Others' \in Int
      BY <3>2, Products
    <3>4. admitted + E <= Capped(redis.count) + max * Others
      BY <2>3 DEF QuotaInv
    <3>5. Capped(redis.count) \in Int
      BY <1>n, <2>3 DEF Capped
    <3> DEFINE a == max * Others
               b == max * Others'
    <3> HIDE DEF a, b, E
    <3> QED BY <1>n, <3>3, <3>4, <3>5 DEF a, b
  <2>4. outages = 0 /\ redis = Nil => admitted + E <= max * N
    BY DEF QuotaInv
  <2> HIDE DEF N, R
  <2> QED BY <1>same, <2>1, <2>2, <2>3, <2>4, QuotaNext DEF N
\* The key is gone.
<1>gone. ASSUME redis' = Nil, UNCHANGED outages, ~up' => outages > 0, outages > 0 => admitted' = 0,
                outages = 0 => admitted' \in Nat /\ admitted' + E' <= admitted + E
         PROVE  QuotaInv'
  <2>1. outages = 0 => admitted' + E' <= max * N
    <3> DEFINE a == max * N
    <3> SUFFICES ASSUME outages = 0 PROVE admitted' + E' <= a
      OBVIOUS
    <3>1. admitted + E <= a /\ a \in Int
      BY <1>n, Room, Products
    <3>2. admitted' \in Nat /\ admitted' + E' <= admitted + E
      BY <1>gone
    <3>3. admitted + E \in Int /\ admitted' + E' \in Int
      BY <1>n, <3>2
    <3> HIDE DEF a, E, R, N
    <3> QED BY <3>1, <3>2, <3>3
  <2> HIDE DEF E, R
  <2> QED BY <1>gone, <2>1, QuotaNext DEF E
<1>never. Never \notin Nat
  BY SharedStoreAssumption
<1>1. ASSUME NEW i \in Instance, CheckKey(i) \/ GetFinds(i) PROVE QuotaInv'
  <2>1. UNCHANGED <<redis, up, outages, admitted>>
    BY <1>1 DEF CheckKey, GetFinds, history
  <2>2. Expiring' = Expiring /\ Setting' = Setting \ {i}
    <3>1. CASE CheckKey(i)
      BY <3>1 DEF CheckKey, Goto, Expiring, Setting, TypeOK
    <3>2. CASE GetFinds(i)
      BY <3>2 DEF GetFinds, Goto, Expiring, Setting, TypeOK
    <3> QED BY <1>1, <3>1, <3>2
  <2>3. Resetting' \subseteq Resetting
    BY <2>1, <2>2 DEF Resetting
  <2>4. ~up' => outages > 0
    BY <2>1 DEF QuotaInv
  <2> QED BY <1>same, <2>1, <2>2, <2>3, <2>4
<1>2. ASSUME NEW i \in Instance, GetFallsBack(i) PROVE QuotaInv'
  <2>1. UNCHANGED <<redis, up, outages, admitted>> /\ ~(up /\ redis # Nil)
    BY <1>2 DEF GetFallsBack, history
  <2>2. Expiring' = Expiring
    BY <1>2 DEF GetFallsBack, Goto, Expiring, TypeOK
  <2>3. ~up' => outages > 0
    BY <2>1 DEF QuotaInv
  <2> QED BY <1>same, <1>up, <2>1, <2>2, <2>3
<1>3. ASSUME NEW i \in Instance, GetTTL(i) PROVE QuotaInv'
  <2>1. UNCHANGED <<redis, up, outages, admitted>>
    BY <1>3 DEF GetTTL, history
  <2>2. Expiring' = Expiring /\ (Usable => Setting' = Setting \ {i})
    BY <1>3 DEF GetTTL, Goto, Expiring, Setting, TypeOK
  <2>3. outages = 0 /\ redis # Nil => Resetting' \subseteq Resetting
    BY <1>up, <2>1, <2>2 DEF Resetting, Usable
  <2>4. ~up' => outages > 0
    BY <2>1 DEF QuotaInv
  <2> QED BY <1>same, <2>1, <2>2, <2>3, <2>4
\* A set starts the key over: i cannot set it back any more.
<1>4. ASSUME NEW i \in Instance, Set(i) PROVE QuotaInv'
  <2>1. /\ pc[i] = "set" /\ pc' = [pc EXCEPT ![i] = "idle"] /\ UNCHANGED <<up, outages>> /\ up
        /\ redis' = [count |-> 1, expires |-> now + Remaining(i)]
        /\ admitted' = IF outages = 0 THEN (IF redis = Nil THEN 0 ELSE admitted) + 1
                       ELSE IF redis = Nil THEN 0 ELSE admitted
    BY <1>4, FirstAdmitted DEF Set, Answer, Goto, Starts
  <2>2. Expiring' = Expiring /\ Setting' = Setting \ {i} /\ i \in Setting /\ i \notin Expiring
    BY <2>1 DEF Setting, Expiring, TypeOK
  <2>3. redis' # Nil /\ redis'.count = 1 /\ redis'.expires # Never
    <3>1. now + Remaining(i) \in Nat /\ now + Remaining(i) # Never
      BY <1>never, SharedStoreAssumption DEF Remaining, TypeOK
    <3>2. redis' \in Key
      BY <2>1, <3>1 DEF Key
    <3> QED BY <2>1, <3>1, <3>2, Stored
  <2>4. Resetting' = Setting \ {i}
    BY <2>2, <2>3 DEF Resetting
  <2>5. E' = E /\ Capped(redis'.count) = 1
    BY <1>n, <2>2, <2>3 DEF Capped
  <2>6. outages > 0 => admitted' = 0
    BY <1>n, <2>1 DEF QuotaInv
  <2>7. outages = 0 => admitted' + E <= 1 + max * Others'
    <3> SUFFICES ASSUME outages = 0 PROVE admitted' + E <= 1 + max * Others'
      OBVIOUS
    <3>1. CASE redis = Nil
      <4>1. R' + E + 1 <= N
        <5> DEFINE A == Setting \ {i}
                   B == Expiring \cup {i}
        <5>1. A \subseteq Instance /\ B \subseteq Instance /\ A \cap B = {}
          BY <2>1 DEF Setting, Expiring
        <5>2. Cardinality(A) + Cardinality(B) <= N
          BY <5>1, Apart
        <5>3. IsFiniteSet(Expiring)
          BY <1>s, SharedStoreAssumption, FS_Subset
        <5>4. Cardinality(B) = E + 1
          BY <2>2, <5>3, FS_AddElement
        <5> QED BY <1>n, <2>4, <5>2, <5>4
      <4>2. E <= Others' /\ Others' \in Int /\ Others' >= 0
        BY <1>n, <4>1, BoundsReversed
      <4>3. Others' <= max * Others' /\ max * Others' \in Int
        BY <4>2, Products
      <4>4. admitted' = 1
        BY <2>1, <3>1
      <4> DEFINE a == max * Others'
      <4> HIDE DEF a, E
      <4> QED BY <1>n, <4>2, <4>3, <4>4 DEF a
    <3>2. CASE redis # Nil
      <4>1. R' + 1 <= R
        <5>1. Resetting' \subseteq Resetting \ {i} /\ i \in Resetting
          BY <2>2, <2>4 DEF Resetting, Setting, Expiring
        <5>2. IsFiniteSet(Resetting)
          BY <1>s, SharedStoreAssumption, FS_Subset
        <5>3. Cardinality(Resetting \ {i}) = R - 1
          BY <5>1, <5>2, FS_RemoveElement
        <5>4. R' <= Cardinality(Resetting \ {i})
          BY <1>s, <5>1, Numbers
        <5> QED BY <1>n, <5>3, <5>4
      <4>2. Others + 1 <= Others' /\ Others \in Int /\ Others' \in Int /\ Others + 1 \in Int
        BY <1>n, <4>1, BoundsReversed
      <4>3. max * (Others + 1) <= max * Others' /\ max * Others' \in Int
        BY <4>2, Products
      <4>4. max * (Others + 1) = max * Others + max /\ max * Others \in Int
        BY <4>2, Products
      <4>5. admitted + E <= Capped(redis.count) + max * Others
        BY <3>2 DEF QuotaInv
      <4>6. Capped(redis.count) <= max /\ Capped(redis.count) \in Nat
        BY <1>n, <3>2 DEF Capped
      <4>7. admitted' = admitted + 1
        BY <2>1, <3>2
      <4> DEFINE a == max * Others
                 b == max * Others'
                 c == max * (Others + 1)
                 d == Capped(redis.count)
      <4> HIDE DEF a, b, c, d, E
      <4> QED BY <1>n, <4>3, <4>4, <4>5, <4>6, <4>7 DEF a, b, c, d
    <3> QED BY <3>1, <3>2
  <2> HIDE DEF R, N
  <2> QED BY <1>up, <2>1, <2>3, <2>5, <2>6, <2>7, QuotaNext
\* The first count: i is on its way to expire the key, as are all who may not set
\* it back.
<1>5. ASSUME NEW i \in Instance, IncrementFirst(i) PROVE QuotaInv'
  <2>1. /\ pc[i] = "incr" /\ pc' = [pc EXCEPT ![i] = "expire"] /\ UNCHANGED <<up, outages>> /\ up
        /\ redis = Nil /\ redis' = Incremented /\ admitted' = 0
    BY <1>5 DEF IncrementFirst, Goto
  <2>2. redis' # Nil /\ redis'.count = 1 /\ redis'.expires = Never
    BY <2>1, IncrementedKey, Stored
  <2>3. R' = N - E'
    <3>1. Resetting' = Instance \ Expiring'
      BY <2>2 DEF Resetting
    <3>2. Instance \cap Expiring' = Expiring'
      BY <1>s
    <3> QED BY <3>1, <3>2, SharedStoreAssumption, FS_Difference
  <2>4. E' >= 1
    <3>1. i \in Expiring'
      BY <2>1 DEF Expiring, TypeOK
    <3>2. {i} \in SUBSET Instance /\ {i} \subseteq Expiring' /\ Cardinality({i}) = 1
      BY <3>1, FS_Singleton
    <3> QED BY <1>s, <3>2, Numbers
  <2>5. Others' = E' - 1 /\ E' - 1 \in Int /\ E' - 1 >= 0
    BY <1>n, <2>3, <2>4, BoundsReversed
  <2>6. E' - 1 <= max * Others' /\ max * Others' \in Int
    BY <2>5, Products
  <2>7. Capped(redis'.count) = 1
    BY <1>n, <2>2 DEF Capped
  <2>8. admitted' + E' <= Capped(redis'.count) + max * Others'
    <3>1. ASSUME NEW x \in Nat, NEW y \in Int, x - 1 <= y PROVE x <= 1 + y
      BY <3>1
    <3> DEFINE a == max * Others'
    <3>2. E' - 1 <= a /\ a \in Int /\ E' \in Nat
      BY <1>n, <2>6
    <3>3. E' <= 1 + a
      <4> HIDE DEF a, E
      <4> QED BY <3>1, <3>2
    <3>4. 0 + E' = E'
      BY <1>n
    <3> QED BY <2>1, <2>7, <3>3, <3>4
  <2> QED BY <1>up, <2>1, <2>2, <2>8, QuotaNext
\* A count is an admission until it passes max.
<1>6. ASSUME NEW i \in Instance, Increment(i) PROVE QuotaInv'
  <2>1. /\ pc[i] = "incr" /\ pc' = [pc EXCEPT ![i] = "idle"] /\ UNCHANGED <<up, outages>> /\ up
        /\ redis # Nil /\ redis' = Incremented
        /\ admitted' = IF redis.count + 1 <= max /\ outages = 0 THEN admitted + 1 ELSE admitted
    BY <1>6 DEF Increment, Answer, Goto, Admits
  <2>2. /\ redis' # Nil /\ redis'.expires = redis.expires
        /\ redis'.count = OneMore(redis.count) /\ redis.count \in Nat \ {0}
    BY <1>n, <2>1, IncrementedKey, Stored
  <2>3. Expiring' = Expiring /\ Setting' = Setting
    BY <2>1 DEF Expiring, Setting, TypeOK
  <2>4. Resetting' = Resetting
    BY <2>2, <2>3 DEF Resetting
  <2>5. E' = E /\ Others' = Others
    BY <2>3, <2>4 DEF Others
  <2>6. outages > 0 => admitted' = 0
    BY <1>n, <2>1 DEF QuotaInv
  <2>7. outages = 0 => admitted + E <= Capped(redis.count) + max * Others
    BY <2>1 DEF QuotaInv
  <2>8. /\ Capped(redis'.count) \in Nat /\ Capped(redis.count) \in Nat
        /\ Capped(redis.count) <= Capped(redis'.count)
        /\ redis.count + 1 <= max => Capped(redis'.count) = Capped(redis.count) + 1
    <3>1. /\ OneMore(redis.count) \in Nat /\ redis.count <= OneMore(redis.count)
          /\ redis.count + 1 <= max => OneMore(redis.count) = redis.count + 1
      BY <2>2, Counter
    <3> QED BY <1>n, <2>2, <3>1 DEF Capped
  <2>9. max * Others \in Int
    BY <1>n, Products, BoundsReversed
  <2>10. outages = 0 => admitted' + E <= Capped(redis'.count) + max * Others
    <3> DEFINE a == max * Others
               c == Capped(redis.count)
               d == Capped(redis'.count)
    <3> SUFFICES ASSUME outages = 0 PROVE admitted' + E <= d + a
      OBVIOUS
    <3>1. admitted + E <= c + a /\ a \in Int /\ c \in Nat /\ d \in Nat /\ c <= d
      BY <2>7, <2>8, <2>9
    <3>2. redis.count + 1 <= max => d = c + 1
      BY <2>8
    <3> HIDE DEF a, c, d, E, R, N
    <3>3. CASE redis.count + 1 <= max
      <4>1. admitted' = admitted + 1
        BY <2>1, <3>3
      <4> QED BY <1>n, <3>1, <3>2, <3>3, <4>1
    <3>4. CASE ~(redis.count + 1 <= max)
      <4>1. admitted' = admitted
        BY <2>1, <3>4
      <4> QED BY <1>n, <3>1, <4>1
    <3> QED BY <3>3, <3>4
  <2> QED BY <1>up, <2>1, <2>2, <2>5, <2>6, <2>10, QuotaNext
\* In an outage.
<1>7. ASSUME NEW i \in Instance, SetFallsBack(i) \/ IncrementFallsBack(i) PROVE QuotaInv'
  <2>1. /\ ~up /\ UNCHANGED outages /\ \E n \in Nat, created \in BOOLEAN : Answer(i, n, created)
    <3>1. CASE SetFallsBack(i)
      <4>1. Answer(i, 1, FALSE)
        BY <3>1 DEF SetFallsBack
      <4> QED BY <3>1, <4>1 DEF SetFallsBack
    <3>2. CASE IncrementFallsBack(i)
      <4>1. FallbackCount(fallback[i]) \in Nat
        BY BumpedEntry DEF FallbackCount, Entry
      <4>2. Answer(i, FallbackCount(fallback[i]), redis' # redis /\ redis = Nil)
        BY <3>2 DEF IncrementFallsBack
      <4> QED BY <3>2, <4>1, <4>2 DEF IncrementFallsBack
    <3> QED BY <1>7, <3>1, <3>2
  <2>2. outages > 0 /\ admitted = 0
    BY <2>1 DEF QuotaInv
  <2>3. admitted' = 0
    BY <1>n, <2>1, <2>2 DEF Answer
  <2> QED BY <1>out, <2>1, <2>2, <2>3
\* The creator of the key expires it, and answers.
<1>8. ASSUME NEW i \in Instance, Expire(i) PROVE QuotaInv'
  <2>1. /\ pc[i] = "expire" /\ pc' = [pc EXCEPT ![i] = "idle"] /\ UNCHANGED <<up, outages>>
        /\ redis' = IF up /\ redis # Nil THEN [redis EXCEPT !.expires = now + window] ELSE redis
        /\ admitted' = IF outages = 0 THEN admitted + 1 ELSE admitted
    BY <1>8, FirstAdmitted DEF Expire, Answer, Goto
  <2>2. Expiring' = Expiring \ {i} /\ i \in Expiring /\ Setting' = Setting
    BY <2>1 DEF Expiring, Setting, TypeOK
  <2>3. E' = E - 1
    <3>1. IsFiniteSet(Expiring)
      BY <1>s, SharedStoreAssumption, FS_Subset
    <3> QED BY <2>2, <3>1, FS_RemoveElement
  <2>4. ~up' => outages > 0
    BY <2>1 DEF QuotaInv
  <2>5. outages > 0 => admitted' = 0
    BY <1>n, <2>1 DEF QuotaInv
  <2>6. outages = 0 => admitted' \in Nat /\ admitted' + E' = admitted + E
    <3> HIDE DEF E, R, N
    <3> QED BY <1>n, <2>1, <2>3
  <2>7. CASE redis = Nil
    <3>1. redis' = Nil
      BY <2>1, <2>7
    <3>2. outages = 0 => admitted' \in Nat /\ admitted' + E' <= admitted + E
      <4> HIDE DEF E, R, N
      <4> QED BY <1>n, <2>6
    <3> QED BY <1>gone, <2>1, <2>4, <2>5, <3>1, <3>2
  <2>8. CASE redis # Nil /\ outages = 0
    <3>1. redis' # Nil /\ redis'.count = redis.count /\ redis'.expires # Never
      <4>1. redis \in Key /\ now + window \in Nat
        BY <2>8, Stored, Clocks
      <4>2. redis' = [redis EXCEPT !.expires = now + window]
        BY <1>up, <2>1, <2>8
      <4>3. redis' \in Key /\ redis'.count = redis.count /\ redis'.expires = now + window
        BY <4>1, <4>2 DEF Key
      <4> QED BY <1>never, <4>1, <4>3, Stored
    <3>2. Resetting' \subseteq Resetting
      BY <2>2, <3>1 DEF Resetting, Setting, Expiring
    <3>3. R' <= R
      BY <1>s, <3>2, Numbers
    <3>4. Others <= Others' /\ Others \in Int /\ Others' \in Int
      BY <1>n, <3>3, BoundsReversed
    <3>5. max * Others <= max * Others' /\ max * Others \in Int /\ max * Others' \in Int
      BY <3>4, Products
    <3>6. admitted + E <= Capped(redis.count) + max * Others
      BY <2>8 DEF QuotaInv
    <3>7. Capped(redis.count) \in Int
      BY <1>n, <2>8 DEF Capped
    <3>8. admitted' + E' <= Capped(redis'.count) + max * Others'
      <4> DEFINE a == max * Others
                 b == max * Others'
                 c == Capped(redis.count)
                 x == admitted + E
      <4>1. a <= b /\ a \in Int /\ b \in Int /\ x <= c + a /\ c \in Int /\ x \in Int
        BY <1>n, <3>5, <3>6, <3>7
      <4>2. x <= c + b
        <5> HIDE DEF a, b, c, x
        <5> QED BY <4>1
      <4>3. Capped(redis'.count) = c
        BY <3>1
      <4> QED BY <2>6, <2>8, <4>2, <4>3
    <3> QED BY <2>1, <2>4, <2>5, <2>8, <3>1, <3>8, QuotaNext
  <2>9. CASE outages # 0
    BY <1>n, <1>out, <2>1, <2>5, <2>9
  <2> QED BY <2>7, <2>8, <2>9
<1>9. ASSUME NEW i \in Instance, Cleanup(i) PROVE QuotaInv'
  <2>1. UNCHANGED <<redis, up, pc, outages, admitted>>
    BY <1>9 DEF Cleanup, history
  <2> QED BY <1>same, <2>1 DEF QuotaInv, Expiring, Resetting, Setting
<1>10. CASE Recover \/ UNCHANGED vars
  <2>1. UNCHANGED <<redis, pc, outages, admitted>> /\ (up' = TRUE \/ up' = up)
    BY <1>10 DEF Recover, vars, history
  <2> QED BY <1>same, <2>1 DEF QuotaInv, Expiring, Resetting, Setting
<1>11. CASE Reset \/ Tick
  <2>1. UNCHANGED <<up, pc, outages, admitted>> /\ (redis' = Nil \/ redis' = redis)
    BY <1>11 DEF Reset, Tick, history
  <2>2. Expiring' = Expiring /\ (~up' => outages > 0) /\ (outages > 0 => admitted = 0)
    BY <2>1 DEF QuotaInv, Expiring
  <2>3. CASE redis' = Nil
    <3>1. E' = E /\ admitted \in Nat
      BY <1>n, <2>2
    <3>2. admitted + E <= admitted + E
      BY <1>n
    <3> QED BY <1>gone, <2>1, <2>2, <2>3, <3>1, <3>2
  <2>4. CASE redis' = redis
    BY <1>same, <2>1, <2>2, <2>4 DEF Resetting, Setting, Expiring
  <2> QED BY <2>1, <2>3, <2>4
<1>12. CASE Outage
  BY <1>n, <1>12, <1>out DEF Outage
<1> QED BY <1>1, <1>2, <1>3, <1>4, <1>5, <1>6, <1>7, <1>8, <1>9, <1>10, <1>11, <1>12
        DEF Next, Request

\* The limit holds with Redis and without: max admissions per instance in the life
\* of a key, and max per window of each fallback in an outage.
THEOREM QuotaHeld == Spec => []QuotaKept
<1>1. Init => QuotaInv /\ ShelterInv
  <2> SUFFICES ASSUME Init PROVE QuotaInv /\ ShelterInv
    OBVIOUS
  <2>1. ShelterInv
    BY DEF Init, ShelterInv
  <2>2. Expiring = {}
    BY DEF Init, Expiring
  <2>3. Cardinality(Expiring) = 0 /\ Cardinality(Instance) \in Nat
    BY <2>2, FS_EmptySet, Numbers
  <2>4. 0 <= max * Cardinality(Instance)
    BY <2>3, Products
  <2> QED BY <2>1, <2>3, <2>4 DEF Init, QuotaInv
<1>2. TypeOK /\ QuotaInv /\ ShelterInv /\ [Next]_vars => (QuotaInv /\ ShelterInv)'
  BY QuotaInvKept, ShelterKept
<1>3. TypeOK /\ QuotaInv /\ ShelterInv => QuotaKept
  <2> SUFFICES ASSUME TypeOK, QuotaInv, ShelterInv PROVE QuotaKept
    OBVIOUS
  <2>1. admitted <= max * Cardinality(Instance)
    <3> DEFINE a == max * Cardinality(Instance)
               e == Cardinality(Expiring)
    <3>1. a \in Int /\ a >= 0 /\ e \in Nat /\ admitted \in Nat /\ outages \in Nat
      BY Numbers, Products, Counts DEF TypeOK
    <3>2. CASE outages = 0
      <4>1. admitted + e <= a
        BY <3>2, Room
      <4>2. admitted <= a
        <5> HIDE DEF a, e
        <5> QED BY <3>1, <4>1
      <4> QED BY <4>2
    <3>3. CASE outages > 0
      BY <3>1, <3>3 DEF QuotaInv
    <3> QED BY <3>1, <3>2, <3>3
  <2> QED BY <2>1 DEF QuotaKept, ShelterInv
<1> QED BY <1>1, <1>2, <1>3, TypeCorrect, PTL DEF Spec
=============================================================================
