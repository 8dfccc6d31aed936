---------------------------- MODULE ClientsProofs ----------------------------
(***************************************************************************)
(* Theorems about what the standing of a client is kept in, as MCClients   *)
(* has it: BruteForce, for every choice of points and durations, and       *)
(* Intelligence (R), for every number of callers, of refresh goroutines    *)
(* and of callers of Close, and every size of the cache.                   *)
(***************************************************************************)
EXTENDS MCClients, FiniteSetTheorems, SequenceTheorems, TLAPS

GuessType == [passed : Nat, resetTime : Nat]

\* One more attempt leaves a well-formed entry that is not over.
LEMMA BumpedType ==
    ASSUME NEW e \in Entry \cup {Nil}, NEW dur \in Nat, now \in Nat
    PROVE  /\ Bumped(e, dur) \in Entry
           /\ Lapsed(e) => Bumped(e, dur) = [count |-> 1, resetTime |-> now + dur]
           /\ ~Lapsed(e) => Bumped(e, dur) = [count |-> e.count + 1, resetTime |-> e.resetTime]
<1> USE BruteForceAssumption
<1>1. CASE Lapsed(e)
  BY <1>1 DEF Bumped, Entry
<1>2. CASE ~Lapsed(e)
  <2>1. e \in Entry
    BY <1>2 DEF Lapsed
  <2> QED BY <1>2, <2>1 DEF Bumped, Entry
<1> QED BY <1>1, <1>2

\* The history counts what it should.
LEMMA GuessedType ==
    ASSUME NEW k \in Key, NEW n \in Nat, TypeOK
    PROVE  /\ Guessed(k, n) \in GuessType
           /\ Lapsed(guess[k]) =>
                Guessed(k, n) = [passed |-> n, resetTime |-> now + SlowDuration]
           /\ ~Lapsed(guess[k]) =>
                Guessed(k, n) = [passed |-> guess[k].passed + n,
                                 resetTime |-> guess[k].resetTime]
<1> USE BruteForceAssumption
<1>1. CASE Lapsed(guess[k])
  BY <1>1 DEF Guessed, GuessType, TypeOK
<1>2. CASE ~Lapsed(guess[k])
  <2>1. guess[k] \in GuessType
    BY <1>2 DEF Lapsed, TypeOK, GuessType
  <2> QED BY <1>2, <2>1 DEF Guessed, GuessType
<1> QED BY <1>1, <1>2

\* Every state of the limiter is well formed (CheckKey, Reset, Block, cleanup).
THEOREM TypeCorrect == Spec => []TypeOK
<1> USE BruteForceAssumption DEF GuessType
<1>1. Init => TypeOK
  BY DEF Init, TypeOK
<1>2. TypeOK /\ [Next]_vars => TypeOK'
  <2> SUFFICES ASSUME TypeOK, [Next]_vars PROVE TypeOK'
    OBVIOUS
  <2>0. ASSUME NEW k \in Key
        PROVE  /\ SlowBumped(k) \in Entry
               /\ FastBumped(k) \in Entry
               /\ Guessed(k, 0) \in GuessType
               /\ Guessed(k, 1) \in GuessType
    BY BumpedType, GuessedType DEF SlowBumped, FastBumped, TypeOK
  <2>1. ASSUME NEW k \in Key, RefuseBlocked(k) PROVE TypeOK'
    BY <2>1 DEF RefuseBlocked, Blocks, TypeOK
  <2>2. ASSUME NEW k \in Key, TripBlock(k) PROVE TypeOK'
    BY <2>0, <2>2 DEF TripBlock, TypeOK
  <2>3. ASSUME NEW k \in Key, RefuseFast(k) PROVE TypeOK'
    <3>1. FastBumped(k).resetTime \in Nat
      BY <2>0 DEF Entry
    <3> QED BY <2>0, <2>3, <3>1 DEF RefuseFast, CountFast, TypeOK
  <2>4. ASSUME NEW k \in Key, Allow(k) PROVE TypeOK'
    <3>1. SlowBumped(k) \in Entry /\ FastBumped(k) \in Entry /\ Guessed(k, 1) \in GuessType
      BY <2>0
    <3>2. fast' \in [Key -> Entry \cup {Nil}] /\ slow' \in [Key -> Entry \cup {Nil}]
      BY <2>4, <3>1 DEF Allow, CountFast, TypeOK
    <3>3. blocked' \in [Key -> Nat \cup {Nil}] /\ told' \in [Key -> Nat] /\ now' \in Nat
      BY <2>4 DEF Allow, CountFast, TypeOK
    <3>4. guess' \in [Key -> GuessType \cup {Nil}]
      BY <2>4, <3>1 DEF Allow, TypeOK
    <3> QED BY <3>2, <3>3, <3>4 DEF TypeOK
  <2>5. ASSUME NEW k \in Key, Reset(k) PROVE TypeOK'
    BY <2>5 DEF Reset, TypeOK
  <2>6. ASSUME NEW k \in Key, NEW d \in ManualBlock, Block(k, d) PROVE TypeOK'
    <3>1. d \in Nat
      OBVIOUS
    <3> QED BY <2>6, <3>1 DEF Block, TypeOK
  <2>7. CASE cleanup
    BY <2>7 DEF cleanup, Prune, PrunedBlocks, TypeOK
  <2>8. CASE Tick
    BY <2>8 DEF Tick, TypeOK
  <2>9. CASE UNCHANGED vars
    BY <2>9 DEF vars, TypeOK
  <2> QED BY <2>1, <2>2, <2>3, <2>4, <2>5, <2>6, <2>7, <2>8, <2>9 DEF Next, CheckKey
<1> QED BY <1>1, <1>2, PTL DEF Spec

-----------------------------------------------------------------------------
\* The bound on guesses is inductive together with the agreement of the slow
\* counter with what passed.
GuessInv == GuessesBounded /\ GuessesCounted

\* A guesser gets at most SlowPoints attempts through per SlowDuration: the
\* purpose of CheckKey's slow window, through every interleaving of attempts,
\* blocks, resets of other keys and cleanups.
THEOREM GuessingIsBounded == Spec => [](GuessesBounded /\ GuessesCounted)
<1> USE BruteForceAssumption
<1>1. Init => GuessInv
  BY DEF Init, GuessInv, GuessesBounded, GuessesCounted, Lapsed
<1>2. TypeOK /\ GuessInv /\ [Next]_vars => GuessInv'
  <2> SUFFICES ASSUME TypeOK, GuessInv, [Next]_vars, NEW j \in Key
               PROVE  /\ guess'[j] # Nil => guess'[j].passed <= SlowPoints
                      /\ Lapsed(guess[j])' <=> Lapsed(slow[j])'
                      /\ ~Lapsed(guess[j])' => /\ slow'[j].resetTime = guess'[j].resetTime
                                               /\ guess'[j].passed <= slow'[j].count
    BY DEF GuessInv, GuessesBounded, GuessesCounted
  <2> DEFINE Good == /\ guess'[j] # Nil => guess'[j].passed <= SlowPoints
                     /\ Lapsed(guess[j])' <=> Lapsed(slow[j])'
                     /\ ~Lapsed(guess[j])' => /\ slow'[j].resetTime = guess'[j].resetTime
                                              /\ guess'[j].passed <= slow'[j].count
  <2>0. /\ guess[j] \in GuessType \cup {Nil} /\ slow[j] \in Entry \cup {Nil} /\ now \in Nat
        /\ guess[j] # Nil => guess[j].passed <= SlowPoints
        /\ Lapsed(guess[j]) <=> Lapsed(slow[j])
        /\ ~Lapsed(guess[j]) => /\ slow[j].resetTime = guess[j].resetTime
                                /\ guess[j].passed <= slow[j].count
    BY DEF TypeOK, GuessType, GuessInv, GuessesBounded, GuessesCounted
  <2>a. ASSUME now' = now, guess'[j] = guess[j], slow'[j] = slow[j] PROVE Good
    BY <2>0, <2>a DEF Lapsed, Over
  \* A counted attempt moves the slow counter and the history together.
  <2>b. ASSUME NEW n \in {0, 1}, now' = now,
               slow'[j] = SlowBumped(j), guess'[j] = Guessed(j, n),
               n = 0 \/ SlowBumped(j).count <= SlowPoints
        PROVE  Good
    <3>1. CASE Lapsed(guess[j])
      <4>1. slow'[j] = [count |-> 1, resetTime |-> now + SlowDuration]
        BY <2>0, <2>b, <3>1, BumpedType DEF SlowBumped
      <4>2. guess'[j] = [passed |-> n, resetTime |-> now + SlowDuration]
        BY <2>b, <3>1, GuessedType
      <4>3. n \in Nat /\ n <= SlowPoints /\ n <= 1
        OBVIOUS
      <4>4. ~Lapsed(guess[j])' /\ ~Lapsed(slow[j])'
        BY <2>0, <2>b, <4>1, <4>2 DEF Lapsed, Over, Entry
      <4>5. guess'[j].passed = n /\ slow'[j].count = 1 /\ slow'[j].resetTime = guess'[j].resetTime
        BY <4>1, <4>2
      <4> QED BY <4>3, <4>4, <4>5
    <3>2. CASE ~Lapsed(guess[j])
      <4>1. slow[j] \in Entry /\ guess[j] \in GuessType
        BY <2>0, <3>2 DEF Lapsed
      <4>2. slow'[j] = [count |-> slow[j].count + 1, resetTime |-> slow[j].resetTime]
        BY <2>0, <2>b, <3>2, BumpedType DEF SlowBumped
      <4>3. guess'[j] = [passed |-> guess[j].passed + n, resetTime |-> guess[j].resetTime]
        BY <2>b, <3>2, GuessedType
      <4>4. guess'[j].passed <= slow'[j].count
        BY <2>0, <3>2, <4>1, <4>2, <4>3 DEF Entry, GuessType
      <4>5. guess'[j].passed <= SlowPoints
        <5>1. CASE n = 0
          BY <2>0, <3>2, <4>1, <4>3, <5>1 DEF Lapsed, GuessType
        <5>2. CASE n = 1
          BY <2>b, <4>1, <4>2, <4>3, <4>4, <5>2 DEF Entry, GuessType
        <5> QED BY <5>1, <5>2
      <4>6. ~Lapsed(slow[j])' /\ ~Lapsed(guess[j])'
        <5>1. slow[j].resetTime >= now /\ guess[j].resetTime >= now
          BY <2>0, <3>2, <4>1 DEF Lapsed, Over, Entry, GuessType
        <5>2. slow'[j] # Nil /\ guess'[j] # Nil
          BY <4>1, <4>2, <4>3 DEF Entry, GuessType
        <5>3. slow'[j].resetTime = slow[j].resetTime /\ guess'[j].resetTime = guess[j].resetTime
          BY <4>2, <4>3
        <5>4. slow[j].resetTime \in Nat /\ guess[j].resetTime \in Nat
          BY <4>1 DEF Entry, GuessType
        <5> HIDE BruteForceAssumption
        <5> QED BY <2>0, <2>b, <5>1, <5>2, <5>3, <5>4 DEF Lapsed, Over
      <4> QED BY <2>0, <3>2, <4>2, <4>3, <4>4, <4>5, <4>6
    <3> QED BY <3>1, <3>2
  <2>1. ASSUME NEW k \in Key, RefuseBlocked(k) PROVE Good
    BY <2>1, <2>a DEF RefuseBlocked
  <2>2. ASSUME NEW k \in Key, TripBlock(k) PROVE Good
    <3>1. CASE k = j
      BY <2>2, <2>b, <3>1 DEF TripBlock, TypeOK
    <3>2. CASE k # j
      BY <2>2, <2>a, <3>2 DEF TripBlock, TypeOK
    <3> QED BY <3>1, <3>2
  <2>3. ASSUME NEW k \in Key, RefuseFast(k) PROVE Good
    <3>1. CASE k = j
      BY <2>3, <2>b, <3>1 DEF RefuseFast, CountFast, TypeOK
    <3>2. CASE k # j
      BY <2>3, <2>a, <3>2 DEF RefuseFast, CountFast, TypeOK
    <3> QED BY <3>1, <3>2
  <2>4. ASSUME NEW k \in Key, Allow(k) PROVE Good
    <3>1. CASE k = j
      <4>1. SlowBumped(j).count <= SlowPoints
        <5>1. SlowBumped(j) \in Entry
          BY <2>0, BumpedType DEF SlowBumped
        <5> QED BY <2>4, <3>1, <5>1 DEF Allow, CountFast, SlowTrips, Entry
      <4> QED BY <2>4, <2>b, <3>1, <4>1 DEF Allow, CountFast, TypeOK
    <3>2. CASE k # j
      BY <2>4, <2>a, <3>2 DEF Allow, CountFast, TypeOK
    <3> QED BY <3>1, <3>2
  <2>5. ASSUME NEW k \in Key, Reset(k) PROVE Good
    <3>1. CASE k = j
      BY <2>5, <3>1 DEF Reset, TypeOK, Lapsed
    <3>2. CASE k # j
      BY <2>5, <2>a, <3>2 DEF Reset, TypeOK
    <3> QED BY <3>1, <3>2
  <2>6. ASSUME NEW k \in Key, NEW d \in ManualBlock, Block(k, d) PROVE Good
    BY <2>6, <2>a DEF Block
  <2>7. CASE cleanup
    <3>1. now' = now /\ guess' = guess /\ slow'[j] = IF slow[j] # Nil /\ Over(slow[j]) THEN Nil ELSE slow[j]
      BY <2>7 DEF cleanup, Prune
    <3>2. CASE slow[j] # Nil /\ Over(slow[j])
      BY <2>0, <3>1, <3>2 DEF Lapsed, Over
    <3>3. CASE ~(slow[j] # Nil /\ Over(slow[j]))
      BY <2>a, <3>1, <3>3
    <3> QED BY <3>2, <3>3
  <2>8. CASE Tick
    <3>1. now' = now + 1 /\ guess' = guess /\ slow' = slow
      BY <2>8 DEF Tick
    <3> QED BY <2>0, <3>1 DEF Lapsed, Over, Entry, GuessType
  <2>9. CASE UNCHANGED vars
    BY <2>9, <2>a DEF vars
  <2> QED BY <2>1, <2>2, <2>3, <2>4, <2>5, <2>6, <2>7, <2>8, <2>9 DEF Next, CheckKey
<1> QED BY <1>1, <1>2, TypeCorrect, PTL DEF Spec, GuessInv

-----------------------------------------------------------------------------
\* Until the time a refusal named, the block or the exhausted fast window that
\* caused it is still there: CheckKey and cleanup never drop it early.
THEOREM RefusalsBacked == Spec => []RefusalBacked
<1> USE BruteForceAssumption
<1>1. Init => RefusalBacked
  BY DEF Init, RefusalBacked
<1>2. TypeOK /\ RefusalBacked /\ [Next]_vars => RefusalBacked'
  <2> DEFINE Backed(j) == \/ blocked'[j] # Nil /\ blocked'[j] >= told'[j]
                          \/ /\ fast'[j] # Nil /\ fast'[j].resetTime >= told'[j]
                             /\ fast'[j].count > FastPoints
  <2> SUFFICES ASSUME TypeOK, RefusalBacked, [Next]_vars, NEW j \in Key, told'[j] > now'
               PROVE  Backed(j)
    BY DEF RefusalBacked
  <2>a. ASSUME now' >= now, now' \in Nat, told'[j] = told[j],
               blocked'[j] = blocked[j], fast'[j] = fast[j]
        PROVE  Backed(j)
    BY <2>a DEF RefusalBacked, TypeOK
  <2>1. ASSUME NEW k \in Key, RefuseBlocked(k) PROVE Backed(j)
    <3>1. CASE k = j
      BY <2>1, <3>1 DEF RefuseBlocked, Blocks, TypeOK
    <3>2. CASE k # j
      BY <2>1, <2>a, <3>2 DEF RefuseBlocked, TypeOK
    <3> QED BY <3>1, <3>2
  <2>2. ASSUME NEW k \in Key, TripBlock(k) PROVE Backed(j)
    <3>1. CASE k = j
      BY <2>2, <3>1 DEF TripBlock, TypeOK
    <3>2. CASE k # j
      BY <2>2, <2>a, <3>2 DEF TripBlock, TypeOK
    <3> QED BY <3>1, <3>2
  <2>3. ASSUME NEW k \in Key, RefuseFast(k) PROVE Backed(j)
    <3>1. CASE k = j
      <4>1. FastBumped(j) \in Entry
        BY BumpedType DEF FastBumped, TypeOK
      <4>2. fast'[j] = FastBumped(j) /\ told'[j] = FastBumped(j).resetTime
        BY <2>3, <3>1 DEF RefuseFast, CountFast, TypeOK
      <4>3. FastBumped(j).count > FastPoints
        BY <2>3, <3>1 DEF RefuseFast, FastTrips
      <4> QED BY <4>1, <4>2, <4>3 DEF Entry
    <3>2. CASE k # j
      BY <2>3, <2>a, <3>2 DEF RefuseFast, CountFast, TypeOK
    <3> QED BY <3>1, <3>2
  <2>4. ASSUME NEW k \in Key, Allow(k) PROVE Backed(j)
    <3>1. k # j
      BY <2>4 DEF Allow, CountFast, TypeOK
    <3> QED BY <2>4, <2>a, <3>1 DEF Allow, CountFast, TypeOK
  <2>5. ASSUME NEW k \in Key, Reset(k) PROVE Backed(j)
    <3>1. k # j
      BY <2>5 DEF Reset, TypeOK
    <3> QED BY <2>5, <2>a, <3>1 DEF Reset, TypeOK
  <2>6. ASSUME NEW k \in Key, NEW d \in ManualBlock, Block(k, d) PROVE Backed(j)
    <3>1. k # j
      BY <2>6 DEF Block, TypeOK
    <3> QED BY <2>6, <2>a, <3>1 DEF Block, TypeOK
  <2>7. CASE cleanup
    <3>1. told[j] > now /\ told' = told /\ now' = now
      BY <2>7 DEF cleanup
    <3>2. CASE blocked[j] # Nil /\ blocked[j] >= told[j]
      BY <2>7, <3>1, <3>2 DEF cleanup, PrunedBlocks, TypeOK
    <3>3. CASE fast[j] # Nil /\ fast[j].resetTime >= told[j] /\ fast[j].count > FastPoints
      <4>1. fast[j] \in Entry /\ ~Over(fast[j])
        BY <3>1, <3>3 DEF Over, TypeOK, Entry
      <4>2. fast'[j] = fast[j]
        BY <2>7, <4>1 DEF cleanup, Prune
      <4> QED BY <3>1, <3>3, <4>2
    <3> QED BY <3>1, <3>2, <3>3 DEF RefusalBacked
  <2>8. CASE Tick
    BY <2>8, <2>a DEF Tick, TypeOK
  <2>9. CASE UNCHANGED vars
    BY <2>9, <2>a DEF vars, TypeOK
  <2> QED BY <2>1, <2>2, <2>3, <2>4, <2>5, <2>6, <2>7, <2>8, <2>9 DEF Next, CheckKey
<1> QED BY <1>1, <1>2, TypeCorrect, PTL DEF Spec

\* No attempt is let through before the time the last refusal named, unless
\* the application called Reset or Block: RetryAfter is never too long a wait.
THEOREM NoEarlyAdmissions == Spec => NoEarlyAdmission
<1> USE BruteForceAssumption
<1>1. TypeOK /\ RefusalBacked => [\A k \in Key : Allow(k) => told[k] <= now]_vars
  <2> SUFFICES ASSUME TypeOK, RefusalBacked, NEW k \in Key, Allow(k), ~(told[k] <= now)
               PROVE  FALSE
    OBVIOUS
  <2>1. told[k] > now
    BY DEF TypeOK
  <2>2. ~(blocked[k] # Nil /\ blocked[k] >= told[k])
    BY <2>1 DEF Allow, CountFast, Blocks, TypeOK
  <2>3. fast[k] # Nil /\ fast[k].resetTime >= told[k] /\ fast[k].count > FastPoints
    BY <2>1, <2>2 DEF RefusalBacked
  <2>4. fast[k] \in Entry /\ ~Lapsed(fast[k])
    BY <2>1, <2>3 DEF TypeOK, Lapsed, Over, Entry
  <2>5. FastBumped(k) = [count |-> fast[k].count + 1, resetTime |-> fast[k].resetTime]
    BY <2>4, BumpedType DEF FastBumped, TypeOK
  <2>6. FastTrips(FastBumped(k).count)
    BY <2>3, <2>4, <2>5 DEF FastTrips, Entry
  <2> QED BY <2>6 DEF Allow
<1> QED BY <1>1, TypeCorrect, RefusalsBacked, PTL DEF Spec, NoEarlyAdmission

\* A block that CheckKey imposes ends at most BlockDuration after the stretch of
\* SlowDuration that the client's first counted attempt opened: retries trip it
\* again, but cannot prolong it for ever.
THEOREM LockoutsEnd == Spec => LockoutEnds
<1> USE BruteForceAssumption
<1>1. TypeOK /\ GuessesCounted =>
        [\A k \in Key : TripBlock(k) =>
            guess[k] # Nil /\ blocked'[k] <= guess[k].resetTime + BlockDuration]_vars
  <2> SUFFICES ASSUME TypeOK, GuessesCounted, NEW k \in Key, TripBlock(k)
               PROVE  guess[k] # Nil /\ blocked'[k] <= guess[k].resetTime + BlockDuration
    OBVIOUS
  <2>1. SlowBumped(k).count > SlowPoints
    BY DEF TripBlock, SlowTrips
  \* A fresh slow window counts one attempt, which trips nothing.
  <2>2. ~Lapsed(slow[k])
    <3>1. ASSUME Lapsed(slow[k]) PROVE FALSE
      <4>1. SlowBumped(k).count = 1
        BY <3>1, BumpedType DEF SlowBumped, TypeOK
      <4> QED BY <2>1, <4>1
    <3> QED BY <3>1
  <2>3. ~Lapsed(guess[k])
    BY <2>2 DEF GuessesCounted
  <2>4. guess[k] # Nil /\ guess[k] \in GuessType /\ ~Over(guess[k])
    BY <2>3 DEF Lapsed, TypeOK, GuessType
  <2>5. now <= guess[k].resetTime
    BY <2>4 DEF Over, GuessType, TypeOK
  <2>6. blocked'[k] = now + BlockDuration
    BY DEF TripBlock, TypeOK
  <2> QED BY <2>4, <2>5, <2>6 DEF GuessType, TypeOK
<1> QED BY <1>1, TypeCorrect, GuessingIsBounded, PTL DEF Spec, LockoutEnds

-----------------------------------------------------------------------------
(* The reputation of an address. *)

CacheEntry == [ip : IP, answer : 0 .. MaxVersion, expires : 0 .. MaxClock + ttl]

\* No address has two entries.
Distinct(es) == \A i, j \in DOMAIN es : es[i].ip = es[j].ip => i = j

-----------------------------------------------------------------------------
(* The cache *)

\* What list.Remove leaves: the other elements, in a list no longer than before.
LEMMA Removed ==
    ASSUME cache \in Seq(CacheEntry), NEW ip, Distinct(cache)
    PROVE  /\ R!Without(ip) \in Seq(CacheEntry)
           /\ Len(R!Without(ip)) <= Len(cache)
           /\ (\E e \in R!ToSet(cache) : e.ip = ip) => Len(R!Without(ip)) < Len(cache)
           /\ \A i \in DOMAIN R!Without(ip) : R!Without(ip)[i] \in R!ToSet(cache) /\ R!Without(ip)[i].ip # ip
           /\ Distinct(R!Without(ip))
<1> USE DEF Distinct
<1> DEFINE at == {i \in DOMAIN cache : cache[i].ip = ip}
<1>0. DOMAIN cache = 1 .. Len(cache) /\ Len(cache) \in Nat
  OBVIOUS
<1>1. CASE at = {}
  <2>1. R!Without(ip) = cache
    BY <1>1 DEF R!Without
  <2>2. ~\E e \in R!ToSet(cache) : e.ip = ip
    BY <1>1 DEF R!ToSet
  <2>3. \A i \in DOMAIN cache : cache[i] \in R!ToSet(cache) /\ cache[i].ip # ip
    BY <1>1 DEF R!ToSet
  <2> QED BY <1>0, <2>1, <2>2, <2>3
<1>2. CASE at # {}
  <2> DEFINE n == CHOOSE i \in at : TRUE
             front == SubSeq(cache, 1, n - 1)
             back == SubSeq(cache, n + 1, Len(cache))
  <2>1. n \in 1 .. Len(cache) /\ cache[n].ip = ip
    BY <1>0, <1>2
  <2>2. R!Without(ip) = front \o back
    BY <1>2 DEF R!Without, R!RemoveAt
  <2> HIDE DEF n
  <2>3. \A i \in 1 .. Len(cache) : cache[i] \in CacheEntry
    BY <1>0
  <2>4. /\ front \in Seq(CacheEntry)
        /\ Len(front) = n - 1
        /\ \A i \in 1 .. n - 1 : front[i] = cache[i]
    <3>1. \A i \in 1 .. n - 1 : cache[i] \in CacheEntry
      BY <1>0, <2>1, <2>3
    <3> QED BY <1>0, <2>1, <3>1, SubSeqProperties
  <2>5. /\ back \in Seq(CacheEntry)
        /\ Len(back) = Len(cache) - n
        /\ \A i \in 1 .. Len(cache) - n : back[i] = cache[n + i]
    <3>1. \A i \in n + 1 .. Len(cache) : cache[i] \in CacheEntry
      BY <1>0, <2>1, <2>3
    <3>2. n \in Nat /\ n \in 1 .. Len(cache) /\ Len(cache) \in Nat
      BY <1>0, <2>1
    <3>3. n + 1 <= Len(cache) + 1 /\ n + 1 \in 1 .. Len(cache) + 1 /\ Len(cache) \in n .. Len(cache)
      BY <3>2
    <3>4. /\ back \in Seq(CacheEntry)
          /\ Len(back) = IF n + 1 <= Len(cache) THEN Len(cache) - (n + 1) + 1 ELSE 0
          /\ \A i \in 1 .. Len(cache) - (n + 1) + 1 : back[i] = cache[n + 1 + i - 1]
      <4>1. n + 1 \in Int /\ Len(cache) \in Int
        BY <3>2
      <4> QED BY <3>1, <4>1, SubSeqProperties
    <3>5. ASSUME NEW i \in 1 .. Len(cache) - n PROVE back[i] = cache[n + i]
      <4>1. i \in 1 .. Len(cache) - (n + 1) + 1 /\ n + 1 + i - 1 = n + i
        BY <3>2
      <4> HIDE DEF back
      <4> QED BY <3>4, <4>1
    <3> HIDE DEF back
    <3> QED BY <3>2, <3>4, <3>5
  <2> HIDE DEF front, back
  <2>6. /\ R!Without(ip) \in Seq(CacheEntry)
        /\ Len(R!Without(ip)) = Len(cache) - 1
        /\ \A i \in 1 .. Len(cache) - 1 :
              R!Without(ip)[i] = IF i < n THEN cache[i] ELSE cache[i + 1]
    <3> DEFINE both == front \o back
    <3>1. /\ both \in Seq(CacheEntry)
          /\ Len(both) = Len(front) + Len(back)
          /\ \A i \in 1 .. Len(front) + Len(back) :
                both[i] = IF i <= Len(front) THEN front[i] ELSE back[i - Len(front)]
      BY <2>4, <2>5, ConcatProperties, ZenonT(60)
    <3> HIDE DEF both
    <3>2. Len(both) = Len(cache) - 1
      BY <1>0, <2>1, <2>4, <2>5, <3>1
    <3>3. ASSUME NEW i \in 1 .. Len(cache) - 1
          PROVE  both[i] = IF i < n THEN cache[i] ELSE cache[i + 1]
      <4>1. i \in 1 .. Len(front) + Len(back) /\ i \in Nat /\ n \in Nat
        BY <1>0, <2>1, <3>1, <3>2
      <4>2. both[i] = IF i <= n - 1 THEN front[i] ELSE back[i - (n - 1)]
        BY <2>4, <3>1, <4>1
      <4>3. CASE i < n
        BY <2>4, <4>1, <4>2, <4>3
      <4>4. CASE ~(i < n)
        <5>1. i - (n - 1) \in 1 .. Len(cache) - n /\ n + (i - (n - 1)) = i + 1
          BY <1>0, <2>1, <4>1, <4>4
        <5> QED BY <2>5, <4>1, <4>2, <4>4, <5>1
      <4> QED BY <4>3, <4>4
    <3>4. R!Without(ip) = both
      BY <2>2 DEF both
    <3> QED BY <3>1, <3>2, <3>3, <3>4
  <2>7. DOMAIN R!Without(ip) = 1 .. Len(cache) - 1
    BY <2>6
  <2>8. ASSUME NEW i \in 1 .. Len(cache) - 1
        PROVE  R!Without(ip)[i] \in R!ToSet(cache) /\ R!Without(ip)[i].ip # ip
    <3>0. Len(cache) \in Nat /\ n \in Nat /\ i \in 1 .. Len(cache) /\ i + 1 \in 1 .. Len(cache)
      BY <1>0, <2>1
    <3>1. PICK k \in 1 .. Len(cache) : k # n /\ R!Without(ip)[i] = cache[k]
      <4>1. CASE i < n
        BY <2>6, <3>0, <4>1
      <4>2. CASE ~(i < n)
        <5>1. R!Without(ip)[i] = cache[i + 1] /\ i + 1 # n
          BY <2>6, <3>0, <4>2
        <5> QED BY <3>0, <5>1
      <4> QED BY <4>1, <4>2
    <3> QED BY <1>0, <2>1, <3>1 DEF R!ToSet
  <2>9. ASSUME NEW i \in 1 .. Len(cache) - 1, NEW j \in 1 .. Len(cache) - 1,
               R!Without(ip)[i].ip = R!Without(ip)[j].ip
        PROVE  i = j
    <3> DEFINE old(k) == IF k < n THEN k ELSE k + 1
    <3>1. \A k \in 1 .. Len(cache) - 1 : old(k) \in DOMAIN cache /\ R!Without(ip)[k] = cache[old(k)]
      BY <1>0, <2>1, <2>6
    <3>2. old(i) = old(j)
      <4> HIDE DEF old
      <4> QED BY <2>9, <3>1
    <3> QED BY <1>0, <2>1, <3>2
  <2> QED BY <1>0, <2>6, <2>7, <2>8, <2>9
<1> QED BY <1>1, <1>2

\* PushFront, of an element no other has the address of.
LEMMA InFront ==
    ASSUME NEW e \in CacheEntry, NEW es \in Seq(CacheEntry), Distinct(es),
           \A i \in DOMAIN es : es[i].ip # e.ip
    PROVE  /\ <<e>> \o es \in Seq(CacheEntry)
           /\ Len(<<e>> \o es) = Len(es) + 1
           /\ \A f \in R!ToSet(<<e>> \o es) : f = e \/ f \in R!ToSet(es)
           /\ Distinct(<<e>> \o es)
<1> DEFINE both == <<e>> \o es
<1>1. /\ both \in Seq(CacheEntry)
      /\ Len(both) = 1 + Len(es)
      /\ \A i \in 1 .. 1 + Len(es) : both[i] = IF i <= 1 THEN e ELSE es[i - 1]
  <2>1. <<e>> \in Seq(CacheEntry) /\ Len(<<e>>) = 1 /\ <<e>>[1] = e
    OBVIOUS
  <2>2. \A i \in 1 .. 1 + Len(es) : i <= 1 => i = 1
    OBVIOUS
  <2>3. /\ both \in Seq(CacheEntry)
        /\ Len(both) = 1 + Len(es)
        /\ \A i \in 1 .. 1 + Len(es) : both[i] = IF i <= 1 THEN <<e>>[i] ELSE es[i - 1]
    BY <2>1, ConcatProperties
  <2> HIDE DEF both
  <2> QED BY <2>1, <2>2, <2>3
<1> HIDE DEF both
<1>2. Len(es) \in Nat /\ DOMAIN es = 1 .. Len(es) /\ DOMAIN both = 1 .. 1 + Len(es)
  BY <1>1
<1>3. \A f \in R!ToSet(both) : f = e \/ f \in R!ToSet(es)
  BY <1>1, <1>2 DEF R!ToSet
<1>4. Distinct(both)
  <2>1. both[1] = e /\ \A i \in DOMAIN es : i + 1 \in DOMAIN both /\ both[i + 1] = es[i]
    BY <1>1, <1>2
  <2>2. ASSUME NEW i \in DOMAIN both PROVE i = 1 \/ (i - 1 \in DOMAIN es /\ both[i] = es[i - 1])
    BY <1>1, <1>2
  <2>3. ASSUME NEW i \in DOMAIN both, NEW j \in DOMAIN both, both[i].ip = both[j].ip
        PROVE  i = j
    <3>1. CASE i = 1 \/ j = 1
      BY <2>1, <2>2, <2>3, <3>1
    <3>2. CASE i # 1 /\ j # 1
      <4>1. i - 1 = j - 1
        BY <2>2, <2>3, <3>2 DEF Distinct
      <4> QED BY <1>2, <4>1
    <3> QED BY <3>1, <3>2
  <2> QED BY <2>3 DEF Distinct
<1>5. Len(both) = Len(es) + 1
  BY <1>1, <1>2
<1> QED BY <1>1, <1>3, <1>4, <1>5 DEF both

\* The eviction loop keeps a front part.
LEMMA Evicted ==
    ASSUME R!Options, NEW es \in Seq(CacheEntry), Distinct(es)
    PROVE  /\ R!Evict(es) \in Seq(CacheEntry)
           /\ Len(R!Evict(es)) <= cacheMax
           /\ R!ToSet(R!Evict(es)) \subseteq R!ToSet(es)
           /\ Distinct(R!Evict(es))
<1> DEFINE n == IF Len(es) > cacheMax THEN cacheMax ELSE Len(es)
<1>1. /\ n \in Nat /\ n <= cacheMax /\ n <= Len(es)
      /\ Len(es) \in Nat /\ DOMAIN es = 1 .. Len(es)
  BY DEF R!Options
<1>2. R!Evict(es) = SubSeq(es, 1, n)
  BY DEF R!Evict
<1> HIDE DEF n
<1>3. /\ R!Evict(es) \in Seq(CacheEntry)
      /\ Len(R!Evict(es)) = n
      /\ \A i \in 1 .. n : R!Evict(es)[i] = es[i]
  <2>1. \A i \in 1 .. n : es[i] \in CacheEntry
    BY <1>1
  <2> QED BY <1>1, <1>2, <2>1, SubSeqProperties
<1>4. DOMAIN R!Evict(es) = 1 .. n /\ 1 .. n \subseteq DOMAIN es
  BY <1>1, <1>3
<1> QED BY <1>1, <1>3, <1>4 DEF R!ToSet, Distinct

\* get: an entry moved to the front is still the only one of its address.
LEMMA MovedToFront ==
    ASSUME cache \in Seq(CacheEntry), Distinct(cache), NEW e \in R!ToSet(cache)
    PROVE  LET moved == <<e>> \o R!Without(e.ip)
           IN  /\ moved \in Seq(CacheEntry) /\ Distinct(moved)
               /\ Len(moved) <= Len(cache)
               /\ R!ToSet(moved) \subseteq R!ToSet(cache)
<1>1. e \in CacheEntry
  BY DEF R!ToSet
<1> DEFINE rest == R!Without(e.ip)
<1>2. /\ rest \in Seq(CacheEntry) /\ Distinct(rest)
      /\ Len(rest) < Len(cache)
      /\ \A i \in DOMAIN rest : rest[i] \in R!ToSet(cache) /\ rest[i].ip # e.ip
  BY Removed
<1> HIDE DEF rest
<1>3. /\ <<e>> \o rest \in Seq(CacheEntry) /\ Distinct(<<e>> \o rest)
      /\ Len(<<e>> \o rest) = Len(rest) + 1
      /\ \A f \in R!ToSet(<<e>> \o rest) : f = e \/ f \in R!ToSet(rest)
  BY <1>1, <1>2, InFront
<1>4. R!ToSet(rest) \subseteq R!ToSet(cache)
  BY <1>2 DEF R!ToSet
<1>5. Len(<<e>> \o rest) <= Len(cache)
  BY <1>2, <1>3
<1>6. R!ToSet(<<e>> \o rest) \subseteq R!ToSet(cache)
  BY <1>3, <1>4
<1> QED BY <1>3, <1>5, <1>6 DEF rest

\* set: the new entry is the only one of its address, the others are old ones.
LEMMA StoredInFront ==
    ASSUME R!Options, time \in 0 .. MaxClock, cache \in Seq(CacheEntry), Distinct(cache),
           NEW ip \in IP, NEW answer \in 0 .. MaxVersion
    PROVE  /\ R!Stored(ip, answer) \in Seq(CacheEntry) /\ Distinct(R!Stored(ip, answer))
           /\ Len(R!Stored(ip, answer)) <= cacheMax
           /\ \A f \in R!ToSet(R!Stored(ip, answer)) :
                 \/ f.ip = ip /\ f.answer = answer
                 \/ f.ip # ip /\ f \in R!ToSet(cache)
<1> DEFINE e == [ip |-> ip, answer |-> answer, expires |-> time + ttl]
           rest == R!Without(ip)
<1>1. e \in CacheEntry /\ e.ip = ip /\ e.answer = answer
  BY DEF CacheEntry, R!Options
<1>2. /\ rest \in Seq(CacheEntry) /\ Distinct(rest)
      /\ \A i \in DOMAIN rest : rest[i] \in R!ToSet(cache) /\ rest[i].ip # ip
  BY Removed
<1>3. R!Stored(ip, answer) = R!Evict(<<e>> \o rest)
  BY DEF R!Stored
<1> HIDE DEF e, rest
<1>4. /\ <<e>> \o rest \in Seq(CacheEntry) /\ Distinct(<<e>> \o rest)
      /\ \A f \in R!ToSet(<<e>> \o rest) : f = e \/ f \in R!ToSet(rest)
  BY <1>1, <1>2, InFront
<1>5. \A f \in R!ToSet(rest) : f \in R!ToSet(cache) /\ f.ip # ip
  BY <1>2 DEF R!ToSet
<1>6. \A f \in R!ToSet(<<e>> \o rest) :
         \/ f.ip = ip /\ f.answer = answer
         \/ f.ip # ip /\ f \in R!ToSet(cache)
  BY <1>1, <1>4, <1>5
<1> QED BY <1>3, <1>4, <1>6, Evicted

-----------------------------------------------------------------------------
(* Types *)

\* A call past isClosed and a refresh goroutine have an address.
Addressed ==
    /\ \A p \in Checker : asks[p].at # "idle" => asks[p].ip \in IP
    /\ \A j \in R!wg : refresh[j].ip \in IP

Asking == [at : {"idle", "get", "schedule", "add"}, ip : IP \cup {Nil}]
Refreshing == [at : {"none", "fetch", "answered", "store", "delete", "leaving"},
               ip : IP \cup {Nil}, answer : 0 .. MaxVersion]

\* What TypeOK says of the cache, in the words of the lemmas.
LEMMA Cache ==
    ASSUME R!TypeOK PROVE cache \in Seq(CacheEntry) /\ Distinct(cache)
BY DEF R!TypeOK, CacheEntry, Distinct

\* A step of one caller of Check.
LEMMA AskStep ==
    ASSUME R!TypeOK, Addressed, NEW p \in Checker, NEW a \in Asking, a.at # "idle" => a.ip \in IP,
           asks' = [asks EXCEPT ![p] = a]
    PROVE  /\ asks' \in [Checker -> Asking]
           /\ \A q \in Checker : asks'[q].at # "idle" => asks'[q].ip \in IP
BY DEF R!TypeOK, Addressed, Asking

\* A step of one refresh goroutine.
LEMMA RefreshStep ==
    ASSUME R!TypeOK, Addressed, NEW j \in Job, NEW r \in Refreshing, r.at # "none" => r.ip \in IP,
           refresh' = [refresh EXCEPT ![j] = r]
    PROVE  /\ refresh' \in [Job -> Refreshing]
           /\ \A i \in R!wg' : refresh'[i].ip \in IP
BY DEF R!TypeOK, Addressed, Refreshing, R!wg

\* Where a goroutine's own steps lead it: same address, an answer that was its
\* own or the server's, or none.
LEMMA RefreshMoves ==
    ASSUME R!Options, R!TypeOK, Addressed, NEW j \in Job, R!Refresh(j)
    PROVE  \E r \in Refreshing :
              /\ refresh' = [refresh EXCEPT ![j] = r]
              /\ refresh[j].at # "none"
              /\ r.at # "none" => r.ip = refresh[j].ip
              /\ r.at # "none" => r.ip \in IP
              /\ r.at \in {"answered", "store"} => r.answer \in {refresh[j].answer, version}
<1>1. refresh[j] \in Refreshing /\ version \in 0 .. MaxVersion /\ 0 \in 0 .. MaxVersion
  BY DEF R!TypeOK, Refreshing, R!Options
<1>2. refresh[j].at # "none" => refresh[j].ip \in IP
  BY DEF Addressed, R!wg
<1> DEFINE Leads(r) ==
             /\ r \in Refreshing
             /\ refresh' = [refresh EXCEPT ![j] = r]
             /\ refresh[j].at # "none"
             /\ r.at # "none" => r.ip = refresh[j].ip
             /\ r.at # "none" => r.ip \in IP
             /\ r.at \in {"answered", "store"} => r.answer \in {refresh[j].answer, version}
<1>3. CASE R!FetchAnswers(j)
  <2>1. Leads([refresh[j] EXCEPT !.at = "answered", !.answer = version])
    BY <1>1, <1>2, <1>3 DEF R!FetchAnswers, R!At, Refreshing
  <2> QED BY <2>1
<1>4. CASE R!FetchFails(j) \/ R!Store(j) \/ (R!StoreTest(j) /\ ~R!Stores)
  <2>1. Leads([refresh[j] EXCEPT !.at = "delete", !.answer = 0])
    BY <1>1, <1>2, <1>4, ZenonT(60) DEF R!FetchFails, R!Store, R!StoreTest, R!Leave, R!At, Refreshing
  <2> QED BY <2>1
<1>5. CASE R!StoreTest(j) /\ R!Stores
  <2>1. Leads([refresh[j] EXCEPT !.at = "store"])
    BY <1>1, <1>2, <1>5 DEF R!StoreTest, R!Move, R!At, Refreshing
  <2> QED BY <2>1
<1>6. CASE R!Delete(j)
  <2>1. Leads([refresh[j] EXCEPT !.at = "leaving"])
    BY <1>1, <1>2, <1>6 DEF R!Delete, R!Move, R!At, Refreshing
  <2> QED BY <2>1
<1>7. CASE R!Done(j)
  <2>1. Leads(R!NoRefresh)
    BY <1>1, <1>2, <1>7 DEF R!Done, R!At, Refreshing, R!NoRefresh
  <2> QED BY <2>1
<1> HIDE DEF Leads
<1> QED BY <1>3, <1>4, <1>5, <1>6, <1>7 DEF R!Refresh, R!Fetch

\* ScheduleAdd starts a goroutine that was not there.
LEMMA Started ==
    ASSUME R!TypeOK, Addressed, NEW p \in Checker, R!ScheduleAdd(p)
    PROVE  \E j \in Job :
              /\ refresh[j].at = "none"
              /\ refresh' = [refresh EXCEPT ![j] = [at |-> "fetch", ip |-> asks[p].ip, answer |-> 0]]
              /\ asks[p].ip \in IP
<1> DEFINE j == CHOOSE k \in Job \ R!wg : TRUE
<1>1. j \in Job /\ j \notin R!wg
  BY DEF R!ScheduleAdd, R!wg
<1>2. /\ refresh' = [refresh EXCEPT ![j] = [at |-> "fetch", ip |-> asks[p].ip, answer |-> 0]]
      /\ asks[p].ip \in IP
  BY DEF R!ScheduleAdd, Addressed
<1> HIDE DEF j
<1> QED BY <1>1, <1>2 DEF R!wg

\* Every state is well formed: no address is cached twice, no cache is over its
\* limit, and no goroutine is without the address it works for.
THEOREM ReputationTypeCorrect == R!Spec => [](R!TypeOK /\ Addressed)
<1>0. R!Options
  BY ClientsOptions
<1> USE <1>0
<1>1. R!Init => R!TypeOK /\ Addressed
  <2> SUFFICES ASSUME R!Init PROVE R!TypeOK /\ Addressed
    OBVIOUS
  <2>1. /\ time \in 0 .. MaxClock /\ version \in 0 .. MaxVersion /\ 0 \in 0 .. MaxVersion
        /\ cache \in Seq([ip : IP, answer : 0 .. MaxVersion, expires : 0 .. MaxClock + ttl])
        /\ Len(cache) <= cacheMax /\ DOMAIN cache = {}
    BY DEF R!Init, R!Options
  <2>2. R!wg = {}
    BY DEF R!Init, R!wg, R!NoRefresh
  <2> QED BY <2>1, <2>2 DEF R!Init, R!TypeOK, Addressed, R!NotAsking, R!NoRefresh
<1>2. R!TypeOK /\ Addressed /\ [R!Next]_(R!vars) => R!TypeOK' /\ Addressed'
  <2> SUFFICES ASSUME R!TypeOK, Addressed, [R!Next]_(R!vars) PROVE R!TypeOK' /\ Addressed'
    OBVIOUS
  <2> DEFINE Cached == cache' \in Seq(CacheEntry) /\ Len(cache') <= cacheMax /\ Distinct(cache')
             Asks == /\ asks' \in [Checker -> Asking]
                     /\ \A q \in Checker : asks'[q].at # "idle" => asks'[q].ip \in IP
             Refreshes == /\ refresh' \in [Job -> Refreshing]
                          /\ \A i \in R!wg' : refresh'[i].ip \in IP
             Others == /\ time' \in 0 .. MaxClock /\ version' \in 0 .. MaxVersion
                       /\ closed' \in BOOLEAN /\ inFlight' \subseteq IP
                       /\ inFlightMu' \in Checker \cup {Nil}
                       /\ closing' \in [Closer -> {"idle", "wait", "clear", "returned", "again"}]
  <2>a. Cached /\ Asks /\ Refreshes /\ Others => R!TypeOK' /\ Addressed'
    BY DEF R!TypeOK, Addressed, CacheEntry, Distinct, Asking, Refreshing
  <2>b. cache' = cache => Cached
    BY Cache DEF R!TypeOK
  <2>c. asks' = asks => Asks
    BY DEF R!TypeOK, Addressed, Asking
  <2>d. refresh' = refresh => Refreshes
    BY DEF R!TypeOK, Addressed, Refreshing, R!wg
  <2>e. UNCHANGED <<time, version, closed, inFlight, inFlightMu, closing>> => Others
    BY DEF R!TypeOK
  <2>f. R!NotAsking \in Asking /\ R!NotAsking.at = "idle"
    BY DEF R!NotAsking, Asking
  <2>g. \A p \in Checker : asks[p] \in Asking /\ (asks[p].at # "idle" => asks[p].ip \in IP)
    BY DEF R!TypeOK, Addressed, Asking
  <2>j. ASSUME cache' \in Seq(CacheEntry), Distinct(cache'), Len(cache') <= Len(cache)
        PROVE  Cached
    <3>1. Len(cache') \in Nat /\ Len(cache) \in Nat /\ cacheMax \in Nat /\ Len(cache) <= cacheMax
      BY <2>j, Cache DEF R!TypeOK, R!Options
    <3> QED BY <2>j, <3>1
  <2> HIDE DEF Cached, Asks, Refreshes, Others
  <2>h. ASSUME NEW p \in Checker, R!Return(p) PROVE Asks
    BY <2>f, <2>h, AskStep DEF R!Return, Asks
  <2>i. ASSUME NEW p \in Checker, NEW place \in {"schedule", "add"},
               asks[p].at # "idle", R!Goto(p, place)
        PROVE  Asks
    <3>1. [asks[p] EXCEPT !.at = place] \in Asking /\ asks[p].ip \in IP
      BY <2>g, <2>i DEF Asking
    <3>2. [asks[p] EXCEPT !.at = place].ip = asks[p].ip
      BY <2>g DEF Asking
    <3>3. asks' = [asks EXCEPT ![p] = [asks[p] EXCEPT !.at = place]]
      BY <2>i DEF R!Goto
    <3> QED BY <3>1, <3>2, <3>3, AskStep DEF Asks
  <2>1. ASSUME NEW p \in Checker, NEW ip \in IP, R!CheckOpen(p, ip)
        PROVE  R!TypeOK' /\ Addressed'
    <3>1. [at |-> "get", ip |-> ip] \in Asking
      BY DEF Asking
    <3>2. Asks
      BY <2>1, <3>1, AskStep DEF R!CheckOpen, Asks
    <3> QED BY <2>1, <2>a, <2>b, <2>d, <2>e, <3>2 DEF R!CheckOpen
  <2>2. ASSUME NEW p \in Checker, R!CheckHit(p) PROVE R!TypeOK' /\ Addressed'
    <3>1. PICK e \in R!ToSet(cache) : cache' = <<e>> \o R!Without(e.ip)
      BY <2>2 DEF R!CheckHit, R!EntryOf
    <3>2. Cached
      BY <2>j, <3>1, Cache, MovedToFront
    <3> QED BY <2>2, <2>a, <2>d, <2>e, <2>h, <3>2 DEF R!CheckHit
  <2>3. ASSUME NEW p \in Checker, R!CheckMiss(p) PROVE R!TypeOK' /\ Addressed'
    <3> DEFINE rest == R!Without(asks[p].ip)
    <3>2. rest \in Seq(CacheEntry) /\ Distinct(rest) /\ Len(rest) <= Len(cache)
      BY Cache, Removed
    <3>3. cache' = rest
      BY <2>3 DEF R!CheckMiss
    <3> HIDE DEF rest
    <3>1. Cached
      BY <2>j, <3>2, <3>3
    <3> QED BY <2>3, <2>a, <2>d, <2>e, <2>i, <3>1 DEF R!CheckMiss
  <2>4. ASSUME NEW p \in Checker, R!ScheduleNothing(p) PROVE R!TypeOK' /\ Addressed'
    BY <2>4, <2>a, <2>b, <2>d, <2>e, <2>h DEF R!ScheduleNothing
  <2>5. ASSUME NEW p \in Checker, R!ScheduleTest(p) PROVE R!TypeOK' /\ Addressed'
    <3>1. Asks /\ Others
      BY <2>5, <2>i DEF R!ScheduleTest, Others, R!TypeOK
    <3> QED BY <2>5, <2>a, <2>b, <2>d, <3>1 DEF R!ScheduleTest
  <2>6. ASSUME NEW p \in Checker, R!ScheduleAdd(p) PROVE R!TypeOK' /\ Addressed'
    <3>1. PICK j \in Job :
             /\ refresh' = [refresh EXCEPT ![j] = [at |-> "fetch", ip |-> asks[p].ip, answer |-> 0]]
             /\ asks[p].ip \in IP
      BY <2>6, Started
    <3>2. [at |-> "fetch", ip |-> asks[p].ip, answer |-> 0] \in Refreshing
      BY <3>1 DEF Refreshing, R!Options
    <3>3. Refreshes
      BY <3>1, <3>2, RefreshStep DEF Refreshes
    <3>4. Asks /\ Others
      BY <2>6, <2>h, <3>1 DEF R!ScheduleAdd, Others, R!TypeOK
    <3> QED BY <2>6, <2>a, <2>b, <3>3, <3>4 DEF R!ScheduleAdd
  <2>7. ASSUME NEW j \in Job, R!Refresh(j) PROVE R!TypeOK' /\ Addressed'
    <3>1. PICK r \in Refreshing : /\ refresh' = [refresh EXCEPT ![j] = r]
                                  /\ refresh[j].at # "none"
                                  /\ r.at # "none" => r.ip \in IP
      BY <2>7, RefreshMoves
    <3>2. Refreshes
      BY <3>1, RefreshStep DEF Refreshes
    <3>3. Cached
      <4>1. CASE R!Store(j)
        <5>1. refresh[j].ip \in IP /\ refresh[j].answer \in 0 .. MaxVersion
          BY <3>1 DEF R!TypeOK, Addressed, R!wg
        <5> QED BY <4>1, <5>1, Cache, StoredInFront DEF R!Store, R!TypeOK, Cached
      <4>2. CASE ~R!Store(j)
        BY <2>7, <2>b, <4>2 DEF R!Refresh, R!Fetch, R!FetchAnswers, R!FetchFails, R!StoreTest, R!Delete, R!Done
      <4> QED BY <4>1, <4>2
    <3>4. /\ asks' = asks /\ inFlight' \subseteq inFlight
          /\ UNCHANGED <<time, version, closed, inFlightMu, closing>>
      BY <2>7 DEF R!Refresh, R!Fetch, R!FetchAnswers, R!FetchFails, R!StoreTest, R!Store, R!Delete, R!Done, R!Released
    <3>5. Others
      BY <3>4 DEF Others, R!TypeOK
    <3> QED BY <2>a, <2>c, <3>2, <3>3, <3>4, <3>5
  <2>8. CASE R!VerdictsChange
    <3>1. Others
      BY <2>8 DEF R!VerdictsChange, Others, R!TypeOK, R!Options
    <3> QED BY <2>8, <2>a, <2>b, <2>c, <2>d, <3>1 DEF R!VerdictsChange
  <2>9. ASSUME NEW c \in Closer, R!CloseBegins(c) \/ R!Close(c) PROVE R!TypeOK' /\ Addressed'
    <3>1. Others /\ asks' = asks /\ refresh' = refresh
      BY <2>9 DEF R!CloseBegins, R!Close, R!CloseWaits, R!CloseClears, Others, R!TypeOK
    <3>2. Cached
      <4>1. CASE cache' = <<>>
        <5>1. <<>> \in Seq(CacheEntry) /\ Len(<<>>) <= cacheMax /\ DOMAIN <<>> = {}
          BY DEF R!Options
        <5> QED BY <4>1, <5>1 DEF Cached, Distinct
      <4> QED BY <2>9, <2>b, <4>1 DEF R!CloseBegins, R!Close, R!CloseWaits, R!CloseClears
    <3> QED BY <2>a, <2>c, <2>d, <3>1, <3>2
  <2>10. CASE R!Tick
    <3>1. Others
      BY <2>10 DEF R!Tick, Others, R!TypeOK, R!Options
    <3> QED BY <2>10, <2>a, <2>b, <2>c, <2>d, <3>1 DEF R!Tick
  <2>11. CASE UNCHANGED R!vars
    BY <2>11, <2>a, <2>b, <2>c, <2>d, <2>e DEF R!vars
  <2> QED
    BY <2>1, <2>2, <2>3, <2>4, <2>5, <2>6, <2>7, <2>8, <2>9, <2>10, <2>11 DEF R!Next, R!Schedule
<1> QED BY <1>1, <1>2, PTL DEF R!Spec

-----------------------------------------------------------------------------
(* inFlight *)

\* inFlight holds the address of every refresh that has not reached its deferred
\* delete, no two of them have one, and the caller that is about to add one holds
\* inFlightMu since it found the address free.
InFlightInv ==
    /\ inFlight = {refresh[j].ip : j \in R!Active}
    /\ \A i, j \in R!Active : refresh[i].ip = refresh[j].ip => i = j
    /\ \A p \in Checker : asks[p].at = "add" <=> inFlightMu = p
    /\ \A p \in Checker : asks[p].at = "add" => asks[p].ip \notin inFlight
    /\ IsFiniteSet(R!Active)

\* One name per goroutine: as many names as goroutines.
LEMMA AsManyNames == InFlightInv => R!InFlightExact
<1> SUFFICES ASSUME InFlightInv PROVE Cardinality(inFlight) = Cardinality(R!Active)
  BY DEF InFlightInv, R!InFlightExact, R!Cardinality, Cardinality
<1> DEFINE f == [j \in R!Active |-> refresh[j].ip]
<1>1. f \in Bijection(R!Active, inFlight)
  BY DEF InFlightInv, Bijection, Injection, Surjection, IsInjective
<1>2. ExistsBijection(R!Active, inFlight)
  BY <1>1 DEF ExistsBijection
<1> QED BY <1>2, FS_Bijection DEF InFlightInv

\* A step that leaves the places and addresses of the active goroutines alone
\* disturbs nothing.
LEMMA SameActive ==
    ASSUME InFlightInv, R!Active' = R!Active, \A j \in R!Active : refresh'[j].ip = refresh[j].ip,
           inFlight' = inFlight
    PROVE  /\ inFlight' = {refresh'[j].ip : j \in R!Active'}
           /\ \A i, j \in R!Active' : refresh'[i].ip = refresh'[j].ip => i = j
           /\ IsFiniteSet(R!Active')
BY DEF InFlightInv

\* The inductive invariant behind InFlightNames (scheduleRefresh, client.go:209).
THEOREM InFlightKept == R!Spec => []InFlightInv
<1>0. R!Options
  BY ClientsOptions
<1> USE <1>0
<1>1. R!Init => InFlightInv
  <2> SUFFICES ASSUME R!Init PROVE InFlightInv
    OBVIOUS
  <2>1. R!Active = {}
    BY DEF R!Init, R!Active, R!wg, R!NoRefresh
  <2> QED BY <2>1, FS_EmptySet DEF R!Init, InFlightInv, R!NotAsking, R!Options
<1>2. R!TypeOK /\ Addressed /\ InFlightInv /\ [R!Next]_(R!vars) => InFlightInv'
  <2> SUFFICES ASSUME R!TypeOK, Addressed, InFlightInv, [R!Next]_(R!vars) PROVE InFlightInv'
    OBVIOUS
  <2> DEFINE Names == /\ inFlight' = {refresh'[j].ip : j \in R!Active'}
                      /\ \A i, j \in R!Active' : refresh'[i].ip = refresh'[j].ip => i = j
                      /\ IsFiniteSet(R!Active')
             Lock == /\ \A p \in Checker : asks'[p].at = "add" <=> inFlightMu' = p
                     /\ \A p \in Checker : asks'[p].at = "add" => asks'[p].ip \notin inFlight'
  <2>a. Names /\ Lock => InFlightInv'
    BY DEF InFlightInv
  <2>b. refresh' = refresh /\ inFlight' = inFlight => Names
    BY SameActive DEF R!Active, R!wg
  <2>c. asks' = asks /\ inFlightMu' = inFlightMu /\ inFlight' \subseteq inFlight => Lock
    BY DEF InFlightInv
  <2> HIDE DEF Names, Lock
  \* A caller that does not hold the mutex and does not take it.
  <2>d. ASSUME NEW p \in Checker, NEW a, asks' = [asks EXCEPT ![p] = a],
               asks[p].at # "add", a.at # "add", inFlightMu' = inFlightMu, inFlight' = inFlight
        PROVE  Lock
    BY <2>d DEF Lock, InFlightInv, R!TypeOK
  <2>1. ASSUME NEW p \in Checker, NEW ip \in IP, R!CheckOpen(p, ip) PROVE InFlightInv'
    <3> DEFINE a == [at |-> "get", ip |-> ip]
    <3>2. asks' = [asks EXCEPT ![p] = a] /\ asks[p].at # "add" /\ a.at # "add"
      BY <2>1 DEF R!CheckOpen
    <3> HIDE DEF a
    <3>1. Lock
      BY <2>1, <2>d, <3>2 DEF R!CheckOpen
    <3> QED BY <2>1, <2>a, <2>b, <3>1 DEF R!CheckOpen
  <2>2. ASSUME NEW p \in Checker, R!CheckHit(p) \/ R!ScheduleNothing(p) PROVE InFlightInv'
    <3>1. Lock
      BY <2>2, <2>d DEF R!CheckHit, R!ScheduleNothing, R!Return, R!NotAsking
    <3> QED BY <2>2, <2>a, <2>b, <3>1 DEF R!CheckHit, R!ScheduleNothing
  <2>3. ASSUME NEW p \in Checker, R!CheckMiss(p) PROVE InFlightInv'
    <3>1. asks' = [asks EXCEPT ![p] = [asks[p] EXCEPT !.at = "schedule"]]
      BY <2>3 DEF R!CheckMiss, R!Goto
    <3>2. [asks[p] EXCEPT !.at = "schedule"].at # "add"
      BY DEF R!TypeOK
    <3>3. Lock
      BY <2>3, <2>d, <3>1, <3>2 DEF R!CheckMiss
    <3> QED BY <2>3, <2>a, <2>b, <3>3 DEF R!CheckMiss
  <2>4. ASSUME NEW p \in Checker, R!ScheduleTest(p) PROVE InFlightInv'
    <3>1. /\ asks[p].ip \notin inFlight /\ inFlightMu = Nil /\ inFlightMu' = p
          /\ inFlight' = inFlight /\ asks' = [asks EXCEPT ![p].at = "add"]
      BY <2>4 DEF R!ScheduleTest, R!Busy, R!Goto
    <3>2. \A q \in Checker : asks[q].at # "add"
      BY <3>1 DEF InFlightInv, R!Options
    <3>3. /\ asks'[p].at = "add" /\ asks'[p].ip = asks[p].ip
          /\ \A q \in Checker : q # p => asks'[q] = asks[q]
      BY <3>1 DEF R!TypeOK
    <3>4. Lock
      BY <3>1, <3>2, <3>3 DEF Lock
    <3> QED BY <2>4, <2>a, <2>b, <3>4 DEF R!ScheduleTest
  <2>5. ASSUME NEW p \in Checker, R!ScheduleAdd(p) PROVE InFlightInv'
    <3> DEFINE ip == asks[p].ip
    <3>1. PICK j \in Job :
             /\ refresh[j].at = "none"
             /\ refresh' = [refresh EXCEPT ![j] = [at |-> "fetch", ip |-> ip, answer |-> 0]]
      BY <2>5, Started
    <3>2. /\ refresh'[j].at = "fetch" /\ refresh'[j].ip = ip
          /\ \A i \in Job : i # j => refresh'[i] = refresh[i]
      BY <3>1 DEF R!TypeOK
    <3>3. R!Active' = R!Active \cup {j} /\ j \notin R!Active
      BY <3>1, <3>2 DEF R!Active, R!wg
    <3>4. inFlight' = inFlight \cup {ip} /\ ip \notin inFlight
      BY <2>5 DEF R!ScheduleAdd, InFlightInv
    <3>5. Names
      <4>1. inFlight' = {refresh'[k].ip : k \in R!Active'}
        BY <3>2, <3>3, <3>4 DEF InFlightInv, R!Active, R!wg
      <4>2. \A i, k \in R!Active' : refresh'[i].ip = refresh'[k].ip => i = k
        BY <3>2, <3>3, <3>4 DEF InFlightInv, R!Active, R!wg
      <4>3. IsFiniteSet(R!Active')
        BY <3>3, FS_AddElement DEF InFlightInv
      <4> QED BY <4>1, <4>2, <4>3 DEF Names
    <3>6. Lock
      <4>1. inFlightMu = p /\ inFlightMu' = Nil /\ asks' = [asks EXCEPT ![p] = R!NotAsking]
        BY <2>5 DEF R!ScheduleAdd, InFlightInv, R!Return
      <4>2. \A q \in Checker : asks'[q].at # "add"
        BY <4>1 DEF InFlightInv, R!TypeOK, R!NotAsking
      <4> QED BY <4>1, <4>2 DEF Lock, R!Options
    <3> QED BY <2>a, <3>5, <3>6
  <2>6. ASSUME NEW j \in Job, R!Delete(j) PROVE InFlightInv'
    <3>1. /\ refresh[j].at = "delete" /\ inFlight' = inFlight \ {refresh[j].ip}
          /\ refresh' = [refresh EXCEPT ![j].at = "leaving"]
      BY <2>6 DEF R!Delete, R!At, R!Move, R!Released
    <3>2. /\ refresh'[j].at = "leaving"
          /\ \A i \in Job : i # j => refresh'[i] = refresh[i]
      BY <3>1 DEF R!TypeOK
    <3>3. R!Active' = R!Active \ {j} /\ j \in R!Active
      BY <3>1, <3>2 DEF R!Active, R!wg
    <3>4. Names
      <4>1. inFlight' = {refresh'[k].ip : k \in R!Active'}
        BY <3>1, <3>2, <3>3 DEF InFlightInv, R!Active, R!wg
      <4>2. \A i, k \in R!Active' : refresh'[i].ip = refresh'[k].ip => i = k
        BY <3>2, <3>3 DEF InFlightInv, R!Active, R!wg
      <4>3. IsFiniteSet(R!Active')
        BY <3>3, FS_RemoveElement DEF InFlightInv
      <4> QED BY <4>1, <4>2, <4>3 DEF Names
    <3> QED BY <2>6, <2>a, <2>c, <3>1, <3>4 DEF R!Delete
  <2>7. ASSUME NEW j \in Job, R!Fetch(j) \/ R!StoreTest(j) \/ R!Store(j) \/ R!Done(j)
        PROVE  InFlightInv'
    <3>1. /\ inFlight' = inFlight /\ inFlightMu' = inFlightMu /\ asks' = asks
          /\ \A i \in Job : i # j => refresh'[i] = refresh[i]
      BY <2>7 DEF R!Fetch, R!FetchAnswers, R!FetchFails, R!StoreTest, R!Store, R!Done, R!Move, R!Leave, R!TypeOK
    <3>2. \/ /\ refresh'[j].ip = refresh[j].ip
             /\ refresh[j].at \notin {"none", "leaving"} /\ refresh'[j].at \notin {"none", "leaving"}
          \/ refresh[j].at = "leaving" /\ refresh'[j].at = "none"
      BY <2>7 DEF R!Fetch, R!FetchAnswers, R!FetchFails, R!StoreTest, R!Store, R!Done, R!Move, R!Leave, R!At,
                  R!NoRefresh, R!TypeOK
    <3>3. R!Active' = R!Active /\ \A i \in R!Active : refresh'[i].ip = refresh[i].ip
      BY <3>1, <3>2 DEF R!Active, R!wg
    <3>4. Names
      BY <3>1, <3>3, SameActive DEF Names
    <3> QED BY <2>a, <2>c, <3>1, <3>4
  <2>8. CASE R!VerdictsChange \/ R!Tick \/ UNCHANGED R!vars \/ \E c \in Closer : R!CloseBegins(c) \/ R!Close(c)
    BY <2>8, <2>a, <2>b, <2>c
    DEF R!VerdictsChange, R!Tick, R!vars, R!CloseBegins, R!Close, R!CloseWaits, R!CloseClears
  <2> QED BY <2>1, <2>2, <2>3, <2>4, <2>5, <2>6, <2>7, <2>8 DEF R!Next, R!Schedule, R!Refresh
<1> QED BY <1>1, <1>2, ReputationTypeCorrect, PTL DEF R!Spec

\* inFlight names exactly the addresses with a refresh goroutine, each once,
\* although the test, the insertion and the deferred delete of scheduleRefresh are
\* three steps of two goroutines.
THEOREM InFlightNames == R!Spec => []InFlightExact
BY InFlightKept, AsManyNames, PTL DEF InFlightExact

-----------------------------------------------------------------------------
(* Verdicts *)

\* The version of the server's answers never runs ahead of the server, and an
\* answer on its way to the cache is no older than the one it will replace.
AnswersInOrder ==
    /\ \A e \in R!ToSet(cache) : e.answer <= version
    /\ \A j \in Job : refresh[j].at \in {"answered", "store"} =>
          /\ refresh[j].answer <= version
          /\ \A e \in R!ToSet(cache) : e.ip = refresh[j].ip => e.answer <= refresh[j].answer

\* Once wg.Wait is over no goroutine is between isClosed and cache.set, and none
\* gets there: the client is closed.
QuietOnceWaited ==
    /\ \A c \in Closer : closing[c] # "idle" => closed
    /\ (\E c \in Closer : closing[c] \in {"clear", "returned"}) =>
          \A j \in Job : refresh[j].at # "store"
    /\ (\E c \in Closer : closing[c] = "returned") => cache = <<>>

\* Versions are natural numbers.
LEMMA Versions ==
    ASSUME R!Options, R!TypeOK
    PROVE  /\ version \in Nat
           /\ \A e \in R!ToSet(cache) : e.answer \in Nat /\ e.ip \in IP
           /\ \A j \in Job : refresh[j].answer \in Nat
<1>1. \A e \in R!ToSet(cache) : e \in CacheEntry
  BY Cache DEF R!ToSet
<1> QED BY <1>1 DEF R!TypeOK, R!Options, CacheEntry

\* What a step does to the cache: it keeps some of it, and cache.set adds one answer.
LEMMA CacheMoves ==
    ASSUME R!Options, R!TypeOK, Addressed, [R!Next]_(R!vars)
    PROVE  \/ R!ToSet(cache') \subseteq R!ToSet(cache)
           \/ \E j \in Job :
                 /\ R!Store(j)
                 /\ \A f \in R!ToSet(cache') :
                       \/ f.ip = refresh[j].ip /\ f.answer = refresh[j].answer
                       \/ f.ip # refresh[j].ip /\ f \in R!ToSet(cache)
<1>1. ASSUME NEW p \in Checker, R!CheckHit(p) PROVE R!ToSet(cache') \subseteq R!ToSet(cache)
  <2>1. PICK e \in R!ToSet(cache) : cache' = <<e>> \o R!Without(e.ip)
    BY <1>1 DEF R!CheckHit, R!EntryOf
  <2> QED BY <2>1, Cache, MovedToFront
<1>2. ASSUME NEW p \in Checker, R!CheckMiss(p) PROVE R!ToSet(cache') \subseteq R!ToSet(cache)
  <2> DEFINE rest == R!Without(asks[p].ip)
  <2>1. \A i \in DOMAIN rest : rest[i] \in R!ToSet(cache)
    BY Cache, Removed
  <2>2. cache' = rest
    BY <1>2 DEF R!CheckMiss
  <2> HIDE DEF rest
  <2> QED BY <2>1, <2>2 DEF R!ToSet
<1>3. ASSUME NEW j \in Job, R!Store(j)
      PROVE  \A f \in R!ToSet(cache') :
                \/ f.ip = refresh[j].ip /\ f.answer = refresh[j].answer
                \/ f.ip # refresh[j].ip /\ f \in R!ToSet(cache)
  <2>1. refresh[j].ip \in IP /\ refresh[j].answer \in 0 .. MaxVersion /\ time \in 0 .. MaxClock
    BY <1>3 DEF R!Store, R!At, R!TypeOK, Addressed, R!wg
  <2> QED BY <1>3, <2>1, Cache, StoredInFront DEF R!Store
<1>4. ASSUME NEW c \in Closer, R!CloseClears(c) PROVE R!ToSet(cache') \subseteq R!ToSet(cache)
  BY <1>4 DEF R!CloseClears, R!ToSet
<1>5. \/ cache' = cache
      \/ \E p \in Checker : R!CheckHit(p) \/ R!CheckMiss(p)
      \/ \E j \in Job : R!Store(j)
      \/ \E c \in Closer : R!CloseClears(c)
  BY DEF R!Next, R!CheckOpen, R!Schedule, R!ScheduleNothing, R!ScheduleTest, R!ScheduleAdd, R!Refresh, R!Fetch,
         R!FetchAnswers, R!FetchFails, R!StoreTest, R!Delete, R!Done, R!VerdictsChange, R!CloseBegins, R!Close,
         R!CloseWaits, R!Tick, R!vars
<1> QED BY <1>1, <1>2, <1>3, <1>4, <1>5

\* What a step does to a refresh that has its answer: nothing, or it has just come,
\* or it is about to be stored because the client is open.
LEMMA RefreshSteps ==
    ASSUME R!Options, R!TypeOK, Addressed, [R!Next]_(R!vars), NEW j \in Job,
           refresh'[j].at \in {"answered", "store"}
    PROVE  /\ refresh'[j].ip = refresh[j].ip
           /\ \/ /\ refresh[j].at \in {"answered", "store"}
                 /\ refresh'[j].answer = refresh[j].answer
              \/ /\ refresh[j].at = "fetch" /\ refresh'[j].answer = version
                 /\ cache' = cache /\ version' = version
           /\ refresh'[j].at = "store" => refresh[j].at = "store" \/ ~closed
<1>1. CASE refresh' = refresh
  BY <1>1
<1>2. ASSUME NEW p \in Checker, R!ScheduleAdd(p)
      PROVE  refresh'[j] = refresh[j]
  <2>1. PICK k \in Job :
           refresh' = [refresh EXCEPT ![k] = [at |-> "fetch", ip |-> asks[p].ip, answer |-> 0]]
    BY <1>2, Started
  <2> QED BY <2>1 DEF R!TypeOK
<1>3. ASSUME NEW k \in Job, R!Refresh(k), k # j
      PROVE  refresh'[j] = refresh[j]
  BY <1>3 DEF R!Refresh, R!Fetch, R!FetchAnswers, R!FetchFails, R!StoreTest, R!Store, R!Delete, R!Done, R!Move,
              R!Leave, R!TypeOK
<1>4. CASE R!FetchAnswers(j)
  BY <1>4 DEF R!FetchAnswers, R!At, R!TypeOK
<1>5. CASE R!StoreTest(j)
  BY <1>5 DEF R!StoreTest, R!Stores, R!Move, R!Leave, R!At, R!TypeOK
<1>6. CASE R!FetchFails(j) \/ R!Store(j) \/ R!Delete(j) \/ R!Done(j)
  BY <1>6 DEF R!FetchFails, R!Store, R!Delete, R!Done, R!Move, R!Leave, R!NoRefresh, R!TypeOK
<1>7. \/ refresh' = refresh
      \/ \E p \in Checker : R!ScheduleAdd(p)
      \/ \E k \in Job : R!Refresh(k)
  BY DEF R!Next, R!CheckOpen, R!CheckHit, R!CheckMiss, R!Schedule, R!ScheduleNothing, R!ScheduleTest,
         R!VerdictsChange, R!CloseBegins, R!Close, R!CloseWaits, R!CloseClears, R!Tick, R!vars
<1> QED BY <1>1, <1>2, <1>3, <1>4, <1>5, <1>6, <1>7 DEF R!Refresh, R!Fetch

\* AnswersInOrder is inductive: the only refresh of an address stores the only
\* answer that is newer than the cached one.
LEMMA OrderKept ==
    ASSUME R!Options, R!TypeOK, Addressed, InFlightInv, AnswersInOrder, [R!Next]_(R!vars)
    PROVE  AnswersInOrder'
<1> USE Versions
<1>0. version' \in Nat /\ version <= version'
  <2>1. CASE R!VerdictsChange
    BY <2>1 DEF R!VerdictsChange
  <2>2. CASE ~R!VerdictsChange
    <3>1. version' = version
      BY <2>2 DEF R!Next, R!CheckOpen, R!CheckHit, R!CheckMiss, R!Schedule, R!ScheduleNothing, R!ScheduleTest,
         R!ScheduleAdd, R!Refresh, R!Fetch, R!FetchAnswers, R!FetchFails, R!StoreTest, R!Store, R!Delete, R!Done,
         R!CloseBegins, R!Close, R!CloseWaits, R!CloseClears, R!Tick, R!vars
    <3> QED BY <3>1
  <2> QED BY <2>1, <2>2
<1>1. ASSUME NEW f \in R!ToSet(cache') PROVE f.answer <= version'
  <2>1. CASE f \in R!ToSet(cache)
    BY <1>0, <2>1 DEF AnswersInOrder
  <2>2. CASE \E j \in Job : R!Store(j) /\ f.answer = refresh[j].answer
    BY <1>0, <2>2 DEF AnswersInOrder, R!Store, R!At
  <2> QED BY <2>1, <2>2, CacheMoves
<1>2. ASSUME NEW j \in Job, refresh'[j].at \in {"answered", "store"}
      PROVE  refresh'[j].answer <= version'
  BY <1>0, <1>2, RefreshSteps DEF AnswersInOrder
<1>3. ASSUME NEW j \in Job, refresh'[j].at \in {"answered", "store"},
             NEW f \in R!ToSet(cache'), f.ip = refresh'[j].ip
      PROVE  f.answer <= refresh'[j].answer
  <2>1. refresh'[j].ip = refresh[j].ip
    BY <1>3, RefreshSteps
  <2>2. CASE f \in R!ToSet(cache)
    BY <1>3, <2>1, <2>2, RefreshSteps DEF AnswersInOrder
  <2>3. CASE \E k \in Job : R!Store(k) /\ f.ip = refresh[k].ip /\ f.answer = refresh[k].answer
    <3>1. PICK k \in Job : R!Store(k) /\ f.ip = refresh[k].ip
      BY <2>3
    <3>2. refresh[k].at = "store" /\ refresh'[k].at = "delete"
      BY <3>1 DEF R!Store, R!Leave, R!At, R!TypeOK
    <3>3. k \in R!Active /\ j \in R!Active
      BY <1>3, <3>2, RefreshSteps DEF R!Active, R!wg
    <3>4. k = j
      BY <1>3, <2>1, <3>1, <3>3 DEF InFlightInv
    <3> QED BY <1>3, <3>2, <3>4
  <2> QED BY <2>2, <2>3, CacheMoves
<1> QED BY <1>1, <1>2, <1>3 DEF AnswersInOrder

\* QuietOnceWaited is inductive: after wg.Wait a refresh may still start, but it
\* finds the client closed.
LEMMA QuietKept ==
    ASSUME R!Options, R!TypeOK, R!TypeOK', Addressed, QuietOnceWaited, [R!Next]_(R!vars)
    PROVE  QuietOnceWaited'
<1>1. ASSUME NEW c \in Closer, R!CloseBegins(c) \/ R!Close(c) PROVE QuietOnceWaited'
  <2>1. refresh' = refresh /\ \A d \in Closer : d # c => closing'[d] = closing[d]
    BY <1>1 DEF R!CloseBegins, R!Close, R!CloseWaits, R!CloseClears, R!TypeOK
  <2>2. CASE R!CloseBegins(c)
    BY <2>1, <2>2 DEF R!CloseBegins, QuietOnceWaited, R!TypeOK
  <2>3. CASE R!CloseWaits(c)
    BY <2>1, <2>3 DEF R!CloseWaits, R!Waited, R!wg, QuietOnceWaited, R!TypeOK
  <2>4. CASE R!CloseClears(c)
    BY <2>1, <2>4 DEF R!CloseClears, QuietOnceWaited, R!TypeOK
  <2> QED BY <1>1, <2>2, <2>3, <2>4 DEF R!Close
<1>2. CASE closing' = closing /\ closed' = closed
  <2>1. ASSUME NEW c \in Closer, closing'[c] \in {"clear", "returned"}, NEW j \in Job
        PROVE  refresh'[j].at # "store"
    BY <1>2, <2>1, RefreshSteps DEF QuietOnceWaited
  <2>2. ASSUME NEW c \in Closer, closing'[c] = "returned" PROVE cache' = <<>>
    <3>1. cache = <<>> /\ \A j \in Job : ~R!Store(j)
      BY <1>2, <2>2 DEF QuietOnceWaited, R!Store, R!At
    <3>2. R!ToSet(cache') \subseteq R!ToSet(cache)
      BY <3>1, CacheMoves
    <3>3. DOMAIN cache' = {}
      <4>1. DOMAIN cache = {}
        BY <3>1
      <4> QED BY <3>2, <4>1, Zenon DEF R!ToSet
    <3>4. Len(cache') \in Nat /\ DOMAIN cache' = 1 .. Len(cache')
      BY DEF R!TypeOK
    <3>5. Len(cache') = 0
      BY <3>3, <3>4
    <3> QED BY <3>5 DEF R!TypeOK
  <2> QED BY <1>2, <2>1, <2>2 DEF QuietOnceWaited
<1>3. (closing' = closing /\ closed' = closed) \/ \E c \in Closer : R!CloseBegins(c) \/ R!Close(c)
  BY DEF R!Next, R!CheckOpen, R!CheckHit, R!CheckMiss, R!Schedule, R!ScheduleNothing, R!ScheduleTest,
         R!ScheduleAdd, R!Refresh, R!Fetch, R!FetchAnswers, R!FetchFails, R!StoreTest, R!Store, R!Delete, R!Done,
         R!VerdictsChange, R!Tick, R!vars
<1> QED BY <1>1, <1>2, <1>3

\* No verdict is replaced by an older answer of the server, and after Close has
\* dropped the cache nothing fills it again, although a refresh may outlive Close
\* and answers come in any order.
THEOREM VerdictsNeverRegress == R!Spec => VerdictsAdvance
<1>0. R!Options
  BY ClientsOptions
<1> USE <1>0
<1>1. R!Init => AnswersInOrder /\ QuietOnceWaited
  <2> SUFFICES ASSUME R!Init PROVE AnswersInOrder /\ QuietOnceWaited
    OBVIOUS
  <2>1. R!ToSet(cache) = {} /\ \A j \in Job : refresh[j].at = "none"
    BY DEF R!Init, R!NoRefresh, R!ToSet
  <2> QED BY <2>1 DEF R!Init, AnswersInOrder, QuietOnceWaited
<1>2. R!TypeOK /\ R!TypeOK' /\ Addressed /\ InFlightInv /\ AnswersInOrder /\ QuietOnceWaited /\ [R!Next]_(R!vars)
         => AnswersInOrder' /\ QuietOnceWaited'
  BY OrderKept, QuietKept
<1>3. R!TypeOK /\ Addressed /\ AnswersInOrder /\ QuietOnceWaited /\ QuietOnceWaited' /\ [R!Next]_(R!vars) =>
         /\ \A e \in R!ToSet(cache), f \in R!ToSet(cache') : e.ip = f.ip => e.answer <= f.answer
         /\ (\E c \in Closer : closing[c] = "returned") => cache' = <<>>
  <2> SUFFICES ASSUME R!TypeOK, Addressed, AnswersInOrder, QuietOnceWaited, QuietOnceWaited', [R!Next]_(R!vars)
               PROVE  /\ \A e \in R!ToSet(cache), f \in R!ToSet(cache') :
                            e.ip = f.ip => e.answer <= f.answer
                      /\ (\E c \in Closer : closing[c] = "returned") => cache' = <<>>
    OBVIOUS
  <2>1. ASSUME NEW e \in R!ToSet(cache), NEW f \in R!ToSet(cache'), e.ip = f.ip
        PROVE  e.answer <= f.answer
    <3>1. CASE f \in R!ToSet(cache)
      <4>1. e = f
        BY <2>1, <3>1, Cache DEF Distinct, R!ToSet
      <4> QED BY <4>1, Versions
    <3>2. CASE \E j \in Job : R!Store(j) /\ f.ip = refresh[j].ip /\ f.answer = refresh[j].answer
      BY <2>1, <3>2 DEF AnswersInOrder, R!Store, R!At
    <3> QED BY <3>1, <3>2, CacheMoves
  <2>2. ASSUME NEW c \in Closer, closing[c] = "returned" PROVE closing'[c] = "returned"
    BY <2>2, ZenonT(60) DEF R!Next, R!CheckOpen, R!CheckHit, R!CheckMiss, R!Schedule, R!ScheduleNothing, R!ScheduleTest,
         R!ScheduleAdd, R!Refresh, R!Fetch, R!FetchAnswers, R!FetchFails, R!StoreTest, R!Store, R!Delete, R!Done,
         R!VerdictsChange, R!CloseBegins, R!Close, R!CloseWaits, R!CloseClears, R!Tick, R!vars, R!TypeOK
  <2> QED BY <2>1, <2>2 DEF QuietOnceWaited
<1> QED BY <1>1, <1>2, <1>3, ReputationTypeCorrect, InFlightKept, PTL DEF R!Spec, VerdictsAdvance, R!VerdictsAdvance

-----------------------------------------------------------------------------
(* Both. *)

\* Each part of the composition behaves as its own specification says.
THEOREM EachPartBehaves == ClientsSpec => Spec /\ R!Spec
<1>1. ClientsInit => Init /\ R!Init
  BY DEF ClientsInit
<1>2. [ClientsNext]_allVars => [Next]_vars /\ [R!Next]_(R!vars)
  BY DEF ClientsNext, InBruteForce, InIntelligence, allVars, vars, reputationVars, R!vars
<1> QED BY <1>1, <1>2, PTL DEF ClientsSpec, Spec, R!Spec

\* What both keep about the clients of a process: guesses stay bounded, no
\* refusal is undone early, a lockout ends, addresses in flight are those of the
\* goroutines, and verdicts never go back.
THEOREM ClientsKeepAll ==
    ClientsSpec => /\ [](GuessesBounded /\ InFlightExact)
                   /\ NoEarlyAdmission /\ LockoutEnds /\ VerdictsAdvance
BY EachPartBehaves, GuessingIsBounded, NoEarlyAdmissions, LockoutsEnd, InFlightNames,
   VerdictsNeverRegress, PTL
=============================================================================
