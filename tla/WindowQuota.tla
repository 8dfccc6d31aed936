---------------------------- MODULE WindowQuota ----------------------------
(***************************************************************************)
(* What a fixed-window limiter promises, with no counters, maps or locks:  *)
(* a key has at most one window; a window admits at most Max units; a      *)
(* request is refused only when its window is exhausted; and a window ends *)
(* only after Window ticks.  RateLimiter (middleware/rate_limit.go)        *)
(* implements it.                                                          *)
(***************************************************************************)
EXTENDS Integers

CONSTANTS Key,      \* client keys (IP addresses)
          Max,      \* units one window admits
          Window    \* length of a window, in ticks

NoWindow == -1      \* end[k] of a key without a window

VARIABLES now,      \* the clock
          end,      \* end[k]: last tick of the window of k, or NoWindow
          used,     \* used[k]: units admitted in that window
          reply     \* the last answer: [key, allowed], or any other value

vars == <<now, end, used, reply>>

Init ==
    /\ now = 0
    /\ end = [k \in Key |-> NoWindow]
    /\ used = [k \in Key |-> 0]

Answer(k, ok) == reply' = [key |-> k, allowed |-> ok]

\* A request of a key with no current window opens one and is its first unit.
Open(k) ==
    /\ end[k] < now
    /\ end' = [end EXCEPT ![k] = now + Window]
    /\ used' = [used EXCEPT ![k] = 1]
    /\ Answer(k, TRUE)
    /\ UNCHANGED now

Admit(k) ==
    /\ now <= end[k]
    /\ used[k] + 1 <= Max
    /\ used' = [used EXCEPT ![k] = @ + 1]
    /\ Answer(k, TRUE)
    /\ UNCHANGED <<now, end>>

Refuse(k) ==
    /\ now <= end[k]
    /\ used[k] >= Max
    /\ Answer(k, FALSE)
    /\ UNCHANGED <<now, end, used>>

\* Windows that are over may be forgotten, no other.
Forget(S) ==
    /\ \A k \in S : end[k] < now
    /\ end' = [k \in Key |-> IF k \in S THEN NoWindow ELSE end[k]]
    /\ used' = [k \in Key |-> IF k \in S THEN 0 ELSE used[k]]
    /\ UNCHANGED <<now, reply>>

Tick == now' = now + 1 /\ UNCHANGED <<end, used, reply>>

Next ==
    \/ \E k \in Key : Open(k) \/ Admit(k) \/ Refuse(k)
    \/ \E S \in SUBSET Key : Forget(S)
    \/ Tick

Spec == Init /\ [][Next]_vars
=============================================================================
