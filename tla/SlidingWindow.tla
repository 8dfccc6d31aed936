--------------------------- MODULE SlidingWindow ---------------------------
(***************************************************************************)
(* The weighted sliding window of middleware/rate_limit_sliding.go.  It    *)
(* counts per window aligned on the Unix clock and adds the count of the   *)
(* window before, weighted by the part of it the sliding window still      *)
(* covers.  A tick is a fraction of a second; float arithmetic is exact    *)
(* here.                                                                   *)
(***************************************************************************)
EXTENDS Integers

CONSTANTS Key,       \* client keys
          max,       \* SlidingWindowLimiter.max
          window,    \* SlidingWindowLimiter.window, in ticks
          Second,    \* ticks in a second
          NoEntry,   \* current[k], previous[k] of a key the Go map does not hold
          MaxTime    \* bound: the clock stops here

VARIABLES now,       \* time.Now()
          current,   \* SlidingWindowLimiter.current
          previous,  \* SlidingWindowLimiter.previous
          closed,    \* ctx is cancelled
          inWindow,  \* history: requests of k admitted since the aligned window began
          inLast     \* history: requests of k admitted in the aligned window before

vars == <<now, current, previous, closed, inWindow, inLast>>

Entry == [count : Nat, start : 0 .. MaxTime]

\* Windows of whole seconds.  The constructor takes any max and window: a
\* negative max refuses everything, a window of zero divides by zero.
Options ==
    /\ max \in Nat /\ MaxTime \in Nat /\ Second \in Nat \ {0}
    /\ window \in Nat \ {0} /\ \E seconds \in 1 .. window : window = seconds * Second
    /\ NoEntry \notin Entry

TypeOK ==
    /\ now \in 0 .. MaxTime
    /\ current \in [Key -> Entry \cup {NoEntry}]
    /\ previous \in [Key -> Entry \cup {NoEntry}]
    /\ closed \in BOOLEAN
    /\ inWindow \in [Key -> Nat]
    /\ inLast \in [Key -> Nat]

Nothing == [k \in Key |-> NoEntry]
NoneAdmitted == [k \in Key |-> 0]

Init ==
    /\ now = 0
    /\ current = Nothing
    /\ previous = Nothing
    /\ closed = FALSE
    /\ inWindow = NoneAdmitted
    /\ inLast = NoneAdmitted

-----------------------------------------------------------------------------
\* time.Unix(int64(floor(unix / windowSec) * windowSec), 0): the clock is read
\* in whole seconds, and the start is cut to whole seconds as well.
WindowStart(t) ==
    LET unix    == (t \div Second) * Second
        aligned == (unix \div window) * window
    IN  (aligned \div Second) * Second

Count(e) == IF e = NoEntry THEN 0 ELSE e.count

\* float64(prevCount) * weight + float64(currentCount) + 1, times window.
Estimate(prev, curr, elapsed) ==
    LET weight == IF elapsed < window THEN window - elapsed ELSE 0
    IN  prev * weight + (curr + 1) * window

\* The entries of a key after CheckKey's rotation.
Rotated(k) ==
    IF current[k] # NoEntry /\ current[k].start < WindowStart(now)
    THEN [prev |-> current[k], curr |-> [count |-> 0, start |-> WindowStart(now)]]
    ELSE [prev |-> previous[k], curr |-> current[k]]

CheckKey(k) ==
    LET start == WindowStart(now)
        r     == Rotated(k)
        ok    == Estimate(Count(r.prev), Count(r.curr), now - start) <= max * window
    IN  /\ previous' = [previous EXCEPT ![k] = r.prev]
        /\ current' = [current EXCEPT ![k] =
               IF ok THEN [count |-> Count(r.curr) + 1,
                           start |-> IF r.curr = NoEntry THEN start ELSE r.curr.start]
               ELSE r.curr]
        /\ inWindow' = [inWindow EXCEPT ![k] = IF ok THEN @ + 1 ELSE @]
        /\ UNCHANGED <<now, closed, inLast>>

\* entry.start.Before(windowStart.Add(-sw.window))
StaleEarly(e) == e # NoEntry /\ e.start < WindowStart(now)
Stale(e) == e # NoEntry /\ e.start < WindowStart(now) - window

\* The ticker goroutine's body: previous entries older than the window before
\* go, current entries of an earlier window become previous ones.
cleanup ==
    LET Over(e) == e # NoEntry /\ e.start < WindowStart(now)
    IN  /\ ~closed
        /\ previous' = [k \in Key |-> IF Over(current[k]) THEN current[k]
                                      ELSE IF Stale(previous[k]) THEN NoEntry
                                      ELSE previous[k]]
        /\ current' = [k \in Key |-> IF Over(current[k]) THEN NoEntry ELSE current[k]]
        /\ UNCHANGED <<now, closed, inWindow, inLast>>

Close == closed' = TRUE /\ UNCHANGED <<now, current, previous, inWindow, inLast>>

Tick ==
    /\ now < MaxTime
    /\ now' = now + 1
    /\ IF WindowStart(now + 1) = WindowStart(now)
       THEN UNCHANGED <<inWindow, inLast>>
       ELSE inLast' = inWindow /\ inWindow' = NoneAdmitted
    /\ UNCHANGED <<current, previous, closed>>

Next == (\E k \in Key : CheckKey(k)) \/ cleanup \/ Close \/ Tick

Spec == Init /\ [][Next]_vars

-----------------------------------------------------------------------------
(* Properties *)

\* However its counts are rotated by requests and promoted by the cleanup, the
\* limiter never forgets an admitted request the sliding window still covers:
\* the requests really admitted in this window, and those of the window before
\* weighted by the part still covered, stay within max.  (For windows of whole
\* seconds; a start that is cut lets cleanup take the window before for older.)
WeightedQuota ==
    LET covered == window - (now - WindowStart(now))
    IN  \A k \in Key : inLast[k] * covered + inWindow[k] * window <= max * window

\* What a client may expect of the weighting and the code does not keep: one
\* that was admitted nowhere in this window and the one before is admitted.  An
\* entry of an older window is still taken for the previous one.
IdleIsAdmitted ==
    [][\A k \in Key :
         inLast[k] = 0 /\ inWindow[k] = 0 /\ CheckKey(k) => inWindow'[k] = 1]_vars
=============================================================================
