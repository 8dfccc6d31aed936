---------------------------- MODULE RateLimiter ----------------------------
(***************************************************************************)
(* The in-memory fixed-window limiter of middleware/rate_limit.go.         *)
(* CheckKey and cleanup hold the mutex from their first read to their last *)
(* write (and read the clock inside it), so each is one action; calls of   *)
(* several goroutines interleave between actions.                          *)
(***************************************************************************)
EXTENDS Integers

CONSTANTS Key,       \* client keys
          max,       \* RateLimiter.max
          window,    \* RateLimiter.window, in ticks
          NoEntry,   \* store[k] of a key the Go map does not hold
          MaxTime,   \* bound: the clock stops here
          MaxCount   \* bound: requests of one key in one window

Entry == [count : Nat, resetTime : Nat]

ASSUME LimiterAssumption ==
    /\ max \in Nat \ {0}
    /\ window \in Nat \ {0}
    /\ MaxTime \in Nat
    /\ MaxCount \in Nat
    /\ NoEntry \notin Entry

VARIABLES now,       \* time.Now()
          store,     \* RateLimiter.store
          closed,    \* ctx is cancelled: the cleanup goroutine is gone
          reply,     \* the last result: key and Allowed
          refused    \* history: refused[k] is the reset time k was last told
                     \* with a refusal, 0 when it was never refused

vars == <<now, store, closed, reply, refused>>

TypeOK ==
    /\ now \in Nat
    /\ store \in [Key -> Entry \cup {NoEntry}]
    /\ closed \in BOOLEAN
    /\ reply \in [key : Key, allowed : BOOLEAN] \cup {NoEntry}
    /\ refused \in [Key -> Nat]

Init ==
    /\ now = 0
    /\ store = [k \in Key |-> NoEntry]
    /\ closed = FALSE
    /\ reply = NoEntry
    /\ refused = [k \in Key |-> 0]

-----------------------------------------------------------------------------
\* entry.resetTime.Before(now): the window still holds at resetTime itself.
Over(e, t) == e.resetTime < t

\* now.Add(rl.window)
EndBackwards(t) == t - window
EndOf(t) == t + window

\* What a call stores for a key it already has a window for: refused requests
\* are counted as well.
BumpTwice(e) == [e EXCEPT !.count = @ + 2]
Bump(e) == [e EXCEPT !.count = @ + 1]

\* The entries cleanup deletes.
Forgets(e, t) == Over(e, t)

\* CheckKey, first branch: no entry, or an expired one.
OpenWindow(k) ==
    /\ store[k] # NoEntry => Over(store[k], now)
    /\ store' = [store EXCEPT ![k] = [count |-> 1, resetTime |-> EndOf(now)]]
    /\ reply' = [key |-> k, allowed |-> TRUE]
    /\ UNCHANGED <<now, closed, refused>>

\* CheckKey, second branch: count the request and compare.
CountRequest(k) ==
    /\ store[k] # NoEntry
    /\ ~Over(store[k], now)
    /\ store[k].count < MaxCount
    /\ LET e  == Bump(store[k])
           ok == e.count <= max
       IN  /\ store' = [store EXCEPT ![k] = e]
           /\ reply' = [key |-> k, allowed |-> ok]
           /\ refused' = IF ok THEN refused
                         ELSE [refused EXCEPT ![k] = e.resetTime]
    /\ UNCHANGED <<now, closed>>

CheckKey(k) == OpenWindow(k) \/ CountRequest(k)

\* The ticker goroutine's body, until Close cancels its context.
cleanup ==
    /\ ~closed
    /\ store' = [k \in Key |->
                   IF store[k] # NoEntry /\ Forgets(store[k], now)
                   THEN NoEntry ELSE store[k]]
    /\ UNCHANGED <<now, closed, reply, refused>>

Close == closed' = TRUE /\ UNCHANGED <<now, store, reply, refused>>

Tick ==
    /\ now < MaxTime
    /\ now' = now + 1
    /\ UNCHANGED <<store, closed, reply, refused>>

Next == (\E k \in Key : CheckKey(k)) \/ cleanup \/ Close \/ Tick

Spec == Init /\ [][Next]_vars

-----------------------------------------------------------------------------
(* Properties *)

\* A client that was refused is not admitted again before the reset time it
\* was told has passed, whatever cleanup and the other keys do in between.
NoEarlyAdmission ==
    [][\A k \in Key : CheckKey(k) /\ reply'.allowed
                       => refused[k] = 0 \/ refused[k] < now]_vars

\* A refusal is remembered by a window that ends no earlier than the client
\* was told: what makes NoEarlyAdmission inductive.
RefusalHeld ==
    \A k \in Key :
        refused[k] >= now /\ refused[k] > 0 =>
            /\ store[k] # NoEntry
            /\ store[k].resetTime = refused[k]
            /\ store[k].count > max

\* The limiter is a window quota: at most max requests of a key are admitted
\* in a window, and no request is refused while quota is left.
CappedCount(e) == IF e.count <= max THEN e.count ELSE max

Quota == INSTANCE WindowQuota WITH
    Max <- max,
    Window <- window,
    end <- [k \in Key |-> IF store[k] = NoEntry THEN -1 ELSE store[k].resetTime],
    used <- [k \in Key |-> IF store[k] = NoEntry THEN 0 ELSE CappedCount(store[k])]

IsQuota == Quota!Spec
=============================================================================
