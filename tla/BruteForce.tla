----------------------------- MODULE BruteForce -----------------------------
(***************************************************************************)
(* The two-tier login limiter of middleware/brute_force.go: a fast window, *)
(* a slow window that trips a block, and the block itself.  Every method   *)
(* holds the mutex and reads the clock inside it, so each is one action.   *)
(***************************************************************************)
EXTENDS Integers

CONSTANTS Key,           \* login keys
          FastPoints, FastDuration,
          SlowPoints, SlowDuration,
          BlockDuration,
          ManualBlock,   \* durations the application passes to Block
          Nil,           \* no map entry
          MaxTime,       \* bound: the clock stops here
          MaxCount       \* bound: attempts counted in one slow window

Entry == [count : Nat, resetTime : Nat]

ASSUME BruteForceAssumption ==
    /\ FastPoints \in Nat \ {0} /\ FastDuration \in Nat \ {0}
    /\ SlowPoints \in Nat \ {0} /\ SlowDuration \in Nat \ {0}
    /\ BlockDuration \in Nat \ {0}
    /\ ManualBlock \subseteq Nat
    /\ MaxTime \in Nat /\ MaxCount \in Nat
    /\ Nil \notin Entry \cup Nat \cup [passed : Nat, resetTime : Nat]

VARIABLES now,       \* time.Now()
          fast,      \* BruteForce.fast
          slow,      \* BruteForce.slow
          blocked,   \* BruteForce.blocked: when the block expires
          told,      \* history: told[k] is the time the last refusal of k named
                     \* (now + RetryAfter), 0 when it was answered since
          guess      \* history: guess[k].passed attempts of k were allowed in the
                     \* SlowDuration that ends at guess[k].resetTime

vars == <<now, fast, slow, blocked, told, guess>>

TypeOK ==
    /\ now \in Nat
    /\ fast \in [Key -> Entry \cup {Nil}]
    /\ slow \in [Key -> Entry \cup {Nil}]
    /\ blocked \in [Key -> Nat \cup {Nil}]
    /\ told \in [Key -> Nat]
    /\ guess \in [Key -> [passed : Nat, resetTime : Nat] \cup {Nil}]

Init ==
    /\ now = 0
    /\ fast = [k \in Key |-> Nil]
    /\ slow = [k \in Key |-> Nil]
    /\ blocked = [k \in Key |-> Nil]
    /\ told = [k \in Key |-> 0]
    /\ guess = [k \in Key |-> Nil]

-----------------------------------------------------------------------------
\* e.resetTime.Before(now)
Over(e) == e.resetTime < now

\* !ok || e.resetTime.Before(now)
Lapsed(e) == e # Nil => Over(e)

\* Wrong: every attempt prolongs the window.
BumpedAnew(e, dur) == [count |-> IF Lapsed(e) THEN 1 ELSE e.count + 1, resetTime |-> now + dur]

\* bump: the entry a windowed counter holds after one more attempt.
Bumped(e, dur) == IF Lapsed(e)
                  THEN [count |-> 1, resetTime |-> now + dur]
                  ELSE [e EXCEPT !.count = @ + 1]

SlowBumped(k) == Bumped(slow[k], SlowDuration)
FastBumped(k) == Bumped(fast[k], FastDuration)

\* now.Before(until)
Blocks(until) == until # Nil /\ now < until

\* slowCount > SlowPoints, fastCount > FastPoints
SlowTripsLate(n) == n > SlowPoints + 1
SlowTrips(n) == n > SlowPoints
FastTrips(n) == n > FastPoints

\* History: n more attempts of k passed; the first counted attempt after the
\* previous stretch of SlowDuration opens the next.
Guessed(k, n) == IF Lapsed(guess[k])
                 THEN [passed |-> n, resetTime |-> now + SlowDuration]
                 ELSE [guess[k] EXCEPT !.passed = @ + n]

Bounded(k) == /\ ~Lapsed(slow[k]) => slow[k].count < MaxCount
              /\ ~Lapsed(fast[k]) => fast[k].count < MaxCount

\* CheckKey, step 1: a live block refuses without counting.
RefuseBlocked(k) ==
    /\ Blocks(blocked[k])
    /\ told' = [told EXCEPT ![k] = blocked[k]]
    /\ UNCHANGED <<now, fast, slow, blocked, guess>>

\* CheckKey, step 2: the slow window is exhausted and trips the block; the
\* fast window is not counted.
TripBlock(k) ==
    /\ ~Blocks(blocked[k])
    /\ Bounded(k)
    /\ SlowTrips(SlowBumped(k).count)
    /\ slow' = [slow EXCEPT ![k] = SlowBumped(k)]
    /\ blocked' = [blocked EXCEPT ![k] = now + BlockDuration]
    /\ told' = [told EXCEPT ![k] = now + BlockDuration]
    /\ guess' = [guess EXCEPT ![k] = Guessed(k, 0)]
    /\ UNCHANGED <<now, fast>>

\* CheckKey, step 3: an expired block is dropped, both windows count, and the
\* fast one refuses or lets through.
CountFast(k) ==
    /\ ~Blocks(blocked[k])
    /\ Bounded(k)
    /\ ~SlowTrips(SlowBumped(k).count)
    /\ slow' = [slow EXCEPT ![k] = SlowBumped(k)]
    /\ fast' = [fast EXCEPT ![k] = FastBumped(k)]
    /\ blocked' = [blocked EXCEPT ![k] = Nil]
    /\ UNCHANGED now

RefuseFast(k) ==
    /\ CountFast(k)
    /\ FastTrips(FastBumped(k).count)
    /\ told' = [told EXCEPT ![k] = FastBumped(k).resetTime]
    /\ guess' = [guess EXCEPT ![k] = Guessed(k, 0)]

Allow(k) ==
    /\ CountFast(k)
    /\ ~FastTrips(FastBumped(k).count)
    /\ told' = [told EXCEPT ![k] = 0]
    /\ guess' = [guess EXCEPT ![k] = Guessed(k, 1)]

CheckKey(k) == RefuseBlocked(k) \/ TripBlock(k) \/ RefuseFast(k) \/ Allow(k)

\* Reset: after a successful login.
Reset(k) ==
    /\ fast' = [fast EXCEPT ![k] = Nil]
    /\ slow' = [slow EXCEPT ![k] = Nil]
    /\ blocked' = [blocked EXCEPT ![k] = Nil]
    /\ told' = [told EXCEPT ![k] = 0]
    /\ guess' = [guess EXCEPT ![k] = Nil]
    /\ UNCHANGED now

\* Block: replaces a block that is there, also by a shorter one.
Block(k, d) ==
    /\ blocked' = [blocked EXCEPT ![k] = now + d]
    /\ told' = [told EXCEPT ![k] = 0]
    /\ UNCHANGED <<now, fast, slow, guess>>

\* What the cleanup goroutine deletes: windows and blocks that are over.
PruneCurrent(m) == [k \in Key |-> Nil]
Prune(m) == [k \in Key |-> IF m[k] # Nil /\ Over(m[k]) THEN Nil ELSE m[k]]

PrunedBlocks == [k \in Key |-> IF blocked[k] # Nil /\ now > blocked[k]
                               THEN Nil ELSE blocked[k]]

cleanup ==
    /\ fast' = Prune(fast)
    /\ slow' = Prune(slow)
    /\ blocked' = PrunedBlocks
    /\ UNCHANGED <<now, told, guess>>

Tick ==
    /\ now < MaxTime
    /\ now' = now + 1
    /\ UNCHANGED <<fast, slow, blocked, told, guess>>

Next ==
    \/ \E k \in Key : CheckKey(k) \/ Reset(k)
    \/ \E k \in Key, d \in ManualBlock : Block(k, d)
    \/ cleanup \/ Tick

Spec == Init /\ [][Next]_vars

-----------------------------------------------------------------------------
(* Properties *)

\* A guesser gets at most SlowPoints attempts through in SlowDuration, however
\* attempts, fast refusals, blocks that run out, cleanups and manual blocks
\* interleave: only a successful login (Reset) starts over.
GuessesBounded ==
    \A k \in Key : guess[k] # Nil => guess[k].passed <= SlowPoints

\* The slow counter GuessesBounded rests on is not lost, outlives no window and
\* misses no attempt that passed.
GuessesCounted ==
    \A k \in Key :
        /\ Lapsed(guess[k]) <=> Lapsed(slow[k])
        /\ ~Lapsed(guess[k]) => /\ slow[k].resetTime = guess[k].resetTime
                                /\ guess[k].passed <= slow[k].count

\* A refusal is kept: until the time it named, the key is blocked or its fast
\* window is exhausted and lasts that long.
RefusalBacked ==
    \A k \in Key : told[k] > now =>
        \/ blocked[k] # Nil /\ blocked[k] >= told[k]
        \/ fast[k] # Nil /\ fast[k].resetTime >= told[k] /\ fast[k].count > FastPoints

\* RetryAfter never lies on the long side: no attempt is let through before the
\* time the last refusal named, unless the application called Reset or Block.
NoEarlyAdmission ==
    [][\A k \in Key : Allow(k) => told[k] <= now]_vars

\* A client that retries as soon as it may can trip the block again, as the slow
\* counter outlives its own block (CheckKey, step 2), but not for ever: only
\* within the SlowDuration its first attempt opened, so that every block CheckKey
\* imposes ends BlockDuration after that at the latest.
LockoutEnds ==
    [][\A k \in Key : TripBlock(k) =>
          guess[k] # Nil /\ blocked'[k] <= guess[k].resetTime + BlockDuration]_vars

\* brute_force.go:47: RetryAfter is "when !Allowed, how long until the client
\* may retry": a client that has waited longer is not refused again.
RetryIsAllowed ==
    [][\A k \in Key : CheckKey(k) /\ told[k] > 0 /\ told[k] < now => Allow(k)]_vars
=============================================================================
