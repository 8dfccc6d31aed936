------------------------------- MODULE Guards -------------------------------
(***************************************************************************)
(* Guards.Run (guards/guards.go) for jobs without HTTP: rate limit, bot,   *)
(* prompt injection and token budget in that order.  The two stateful      *)
(* checks read the clock before they take the mutex, so a call may apply   *)
(* a time stamp that others have overtaken; bot and prompt detection are   *)
(* pure and stand for one verdict.                                         *)
(***************************************************************************)
EXTENDS Integers

CONSTANTS Key,               \* Input.Key
          Job,               \* goroutines that call Run
          Tokens,            \* values of Input.Tokens
          Max,               \* RateLimitOptions.Max
          Window,            \* RateLimitOptions.Window, in ticks
          MaxTokens,         \* TokenBudgetOptions.MaxTokens
          TokenWindow,       \* TokenBudgetOptions.Window, in ticks
          MaxRequestTokens,  \* TokenBudgetOptions.MaxRequestTokens
          NoEntry,           \* rlStore[k], tbStore[k] of a key the map does not hold
          MaxTime,           \* bound: the clock stops here
          MaxCount           \* bound: calls of one key in one window

VARIABLES now,       \* time.Now()
          rlStore,   \* Guards.rlStore
          tbStore,   \* Guards.tbStore
          closed,    \* stop is closed
          call,      \* call[j]: where j is in Run, for which key and tokens, with
                     \* which time stamp
          refused,   \* history: refused[k] is the reset time of the last refusal
                     \* of k by the rate limit, 0 when there is none to honour
          spent      \* history: tokens of the calls of k that were let through
                     \* since its budget window was opened

vars == <<now, rlStore, tbStore, closed, call, refused, spent>>

\* rateLimitEntry, tokenBudgetEntry, and a call of Run
rlEntry == [count : Nat, resetTime : Nat]
tbEntry == [used : 0 .. MaxTokens, resetTime : Nat]
Running == [at : {"rate", "screen", "budget"}, key : Key, cost : Nat, stamp : Nat]
Idle == [at |-> "idle"]

\* The options as the checks use them, with their defaults in place, and the
\* bounds.
Options ==
    /\ Max \in Nat \ {0} /\ Window \in Nat \ {0}
    /\ MaxTokens \in Nat \ {0} /\ TokenWindow \in Nat \ {0} /\ MaxRequestTokens \in Nat
    /\ Tokens \subseteq Int
    /\ MaxTime \in Nat /\ MaxCount \in Nat
    /\ NoEntry \notin rlEntry \cup tbEntry

TypeOK ==
    /\ now \in 0 .. MaxTime
    /\ rlStore \in [Key -> rlEntry \cup {NoEntry}]
    /\ tbStore \in [Key -> tbEntry \cup {NoEntry}]
    /\ closed \in BOOLEAN
    /\ call \in [Job -> Running \cup {Idle}]
    /\ \A j \in Job : call[j] # Idle => call[j].stamp <= now
    /\ refused \in [Key -> Nat]
    /\ spent \in [Key -> Nat]

Init ==
    /\ now = 0
    /\ rlStore = [k \in Key |-> NoEntry]
    /\ tbStore = [k \in Key |-> NoEntry]
    /\ closed = FALSE
    /\ call = [j \in Job |-> Idle]
    /\ refused = [k \in Key |-> 0]
    /\ spent = [k \in Key |-> 0]

-----------------------------------------------------------------------------
Returns(j) == call' = [call EXCEPT ![j] = Idle]
Reaches(j, place) == call' = [call EXCEPT ![j] = [@ EXCEPT !.at = place, !.stamp = now]]

\* t.After(entry.resetTime), or no entry
Over(e, t) == e = NoEntry \/ e.resetTime < t

\* Run up to the mutex of checkRateLimit.  Negative costs are cut to zero.
Call(j, k, tokens) ==
    /\ call[j] = Idle
    /\ call' = [call EXCEPT ![j] = [at |-> "rate", key |-> k, stamp |-> now,
                                    cost |-> IF tokens < 0 THEN 0 ELSE tokens]]
    /\ UNCHANGED <<now, rlStore, tbStore, closed, refused, spent>>

\* checkRateLimit inside the mutex: every call counts, the refused ones too.
checkRateLimit(j) ==
    LET k == call[j].key
        e == IF Over(rlStore[k], call[j].stamp)
             THEN [count |-> 1, resetTime |-> call[j].stamp + Window]
             ELSE [rlStore[k] EXCEPT !.count = @ + 1]
    IN  /\ call[j].at = "rate"
        /\ e.count <= MaxCount
        /\ rlStore' = [rlStore EXCEPT ![k] = e]
        /\ IF e.count > Max
           THEN Returns(j) /\ refused' = [refused EXCEPT ![k] = e.resetTime]
           ELSE Reaches(j, "screen") /\ UNCHANGED refused
        /\ UNCHANGED <<now, tbStore, closed, spent>>

\* checkBot and DetectPromptInjection deny, or checkTokenBudget denies the call
\* by itself, before it looks at the clock.
Denied(j) ==
    /\ call[j].at = "screen"
    /\ Returns(j)
    /\ UNCHANGED <<now, rlStore, tbStore, closed, refused, spent>>

\* None of them denies: checkTokenBudget up to its mutex.
Screened(j) ==
    /\ call[j].at = "screen"
    /\ MaxRequestTokens > 0 => call[j].cost <= MaxRequestTokens
    /\ Reaches(j, "budget")
    /\ UNCHANGED <<now, rlStore, tbStore, closed, refused, spent>>

\* What the budget stores for a call that costs c: a denied one opens a window
\* but is not charged.
Charged(e, c) == IF e.used + c > MaxTokens THEN e ELSE [e EXCEPT !.used = @ + c]

\* checkTokenBudget inside the mutex, and Run's return.
checkTokenBudget(j) ==
    LET k     == call[j].key
        c     == call[j].cost
        opens == Over(tbStore[k], call[j].stamp)
        e     == IF opens THEN [used |-> 0, resetTime |-> call[j].stamp + TokenWindow]
                 ELSE tbStore[k]
        ok    == e.used + c <= MaxTokens
    IN  /\ call[j].at = "budget"
        /\ tbStore' = [tbStore EXCEPT ![k] = Charged(e, c)]
        /\ spent' = [spent EXCEPT ![k] = (IF opens THEN 0 ELSE @) + (IF ok THEN c ELSE 0)]
        /\ Returns(j)
        /\ UNCHANGED <<now, rlStore, closed, refused>>

\* Reset(key); Reset("") is S = Key.
Reset(S) ==
    /\ rlStore' = [k \in Key |-> IF k \in S THEN NoEntry ELSE rlStore[k]]
    /\ tbStore' = [k \in Key |-> IF k \in S THEN NoEntry ELSE tbStore[k]]
    /\ refused' = [k \in Key |-> IF k \in S THEN 0 ELSE refused[k]]
    /\ UNCHANGED <<now, closed, call, spent>>

SweptEarly(e, t) == IF e # NoEntry /\ e.resetTime <= t THEN NoEntry ELSE e

\* The body of sweepLoop, with the time the ticker sent: it may have waited in
\* the channel, and for the mutex.
Swept(e, t) == IF Over(e, t) THEN NoEntry ELSE e

Sweep(t) ==
    /\ ~closed
    /\ t <= now
    /\ rlStore' = [k \in Key |-> Swept(rlStore[k], t)]
    /\ tbStore' = [k \in Key |-> Swept(tbStore[k], t)]
    /\ UNCHANGED <<now, closed, call, refused, spent>>

Close ==
    /\ closed' = TRUE
    /\ UNCHANGED <<now, rlStore, tbStore, call, refused, spent>>

Tick ==
    /\ now < MaxTime
    /\ now' = now + 1
    /\ UNCHANGED <<rlStore, tbStore, closed, call, refused, spent>>

Next ==
    \/ \E j \in Job :
          \/ \E k \in Key, tokens \in Tokens : Call(j, k, tokens)
          \/ checkRateLimit(j) \/ Denied(j) \/ Screened(j) \/ checkTokenBudget(j)
    \/ \E k \in Key : Reset({k})
    \/ Reset(Key)
    \/ \E t \in 0 .. MaxTime : Sweep(t)
    \/ Close
    \/ Tick

Spec == Init /\ [][Next]_vars

-----------------------------------------------------------------------------
(* Properties *)

\* A key the rate limit refused gets no call past it before the reset time it
\* was told has passed, unless it is Reset: not with a stamp that others have
\* overtaken, not with the stale stamp of a sweep.
RefusedStaysOut ==
    [][\A j \in Job :
         checkRateLimit(j) /\ call'[j] # Idle =>
            LET k == call[j].key IN refused[k] = 0 \/ refused[k] < now]_vars

\* Until the reset time it was told has passed, a refused key keeps the full
\* window that refused it.
RefusalHeld ==
    \A k \in Key : refused[k] # 0 /\ refused[k] >= now =>
        /\ rlStore[k] # NoEntry
        /\ rlStore[k].resetTime = refused[k]
        /\ rlStore[k].count > Max

\* A call that was denied, by whichever check, does not charge the budget: what
\* a window has used is what the calls it let through cost, at most MaxTokens.
DenialsAreFree ==
    \A k \in Key : tbStore[k] # NoEntry =>
        tbStore[k].used = spent[k] /\ spent[k] <= MaxTokens
=============================================================================
