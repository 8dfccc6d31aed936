---------------------------- MODULE TokenBudget ----------------------------
(***************************************************************************)
(* The per-key LLM token budget of middleware/token_budget.go.             *)
(* One request runs in steps: it estimates its cost and reads the clock    *)
(* (Arrive), reads or opens its window under the mutex (Lookup), writes    *)
(* headers and decides outside the mutex (Decide), and takes the mutex     *)
(* again to store what it computed in Lookup (Charge).  Entries are        *)
(* pointers: a request keeps its own after sweep or Reset dropped it from  *)
(* the map, so entries have identities here.                               *)
(***************************************************************************)
EXTENDS Integers

CONSTANTS Key,              \* budget keys
          Proc,             \* goroutines that serve requests
          Closer,           \* goroutines that call Close
          EntryId,          \* identities of heap entries
          Nil,              \* Go's nil: no map entry, no request, no reply yet
          Cost,             \* token estimates of the requests
          MaxTokens,
          MaxRequestTokens, \* 0: no per-request cap
          Window,           \* in ticks
          MaxTime,          \* bound: the clock stops here
          MaxSpent          \* bound: the history counter saturates here

Request == [key : Key, at : Nat, cost : Nat,
            entry : EntryId \cup {Nil}, projected : Nat]

ASSUME BudgetAssumption ==
    /\ MaxTokens \in Nat \ {0}
    /\ MaxRequestTokens \in Nat
    /\ Window \in Nat \ {0}
    /\ MaxTime \in Nat
    /\ MaxSpent \in Nat /\ MaxSpent > MaxTokens
    /\ Nil \notin EntryId \cup Request
    /\ Cost \subseteq Nat

VARIABLES now,      \* time.Now()
          store,    \* TokenBudget.store: key -> entry pointer
          heap,     \* the entries: used, resetTime, and the history variable
                    \* spent, the tokens of the requests let through on it
          pc,       \* where each goroutine is
          req,      \* its locals: key, at (its clock reading), cost, entry, projected
          stopped,  \* the stop channel is closed
          panicked  \* a goroutine closed the closed channel

vars == <<now, store, heap, pc, req, stopped, panicked>>

\* Between its two critical sections a request holds an entry pointer.
Holds(p) == pc[p] \in {"decide", "charge"}

TypeOK ==
    /\ now \in Nat
    /\ store \in [Key -> EntryId \cup {Nil}]
    /\ heap \in [EntryId -> [used : Nat, resetTime : Nat, spent : Nat]]
    /\ pc \in [Proc \cup Closer -> {"idle", "lookup", "decide", "charge", "closing"}]
    /\ req \in [Proc -> Request \cup {Nil}]
    /\ \A p \in Proc : pc[p] \in {"lookup", "decide", "charge"} => req[p] \in Request
    /\ \A p \in Proc : Holds(p) => req[p].entry \in EntryId
    /\ stopped \in BOOLEAN
    /\ panicked \in BOOLEAN

Blank == [used |-> 0, resetTime |-> 0, spent |-> 0]

Init ==
    /\ now = 0
    /\ store = [k \in Key |-> Nil]
    /\ heap = [e \in EntryId |-> Blank]
    /\ pc = [p \in Proc \cup Closer |-> "idle"]
    /\ req = [p \in Proc |-> Nil]
    /\ stopped = FALSE
    /\ panicked = FALSE

-----------------------------------------------------------------------------
Saturated(n) == IF n <= MaxSpent THEN n ELSE MaxSpent

\* now.After(entry.resetTime)
Over(e, t) == t > heap[e].resetTime

\* The entries the map or a running request points to; the garbage
\* collector takes the others, and the allocator may return them.
Reachable(e, st, rq) ==
    \/ \E k \in Key : st[k] = e
    \/ \E p \in Proc : rq[p] # Nil /\ rq[p].entry = e

Collected(h, st, rq) ==
    [e \in EntryId |-> IF Reachable(e, st, rq) THEN h[e] ELSE Blank]

Done(p) == /\ pc' = [pc EXCEPT ![p] = "idle"]
           /\ req' = [req EXCEPT ![p] = Nil]

\* estimated > MaxRequestTokens: answered 413 before anything is charged.
Oversize(c) == MaxRequestTokens > 0 /\ c > MaxRequestTokens

\* Skip and an oversize request change no state; any other reads the clock.
Arrive(p, k, c) ==
    /\ pc[p] = "idle"
    /\ ~Oversize(c)
    /\ pc' = [pc EXCEPT ![p] = "lookup"]
    /\ req' = [req EXCEPT ![p] =
                 [key |-> k, at |-> now, cost |-> c, entry |-> Nil, projected |-> 0]]
    /\ UNCHANGED <<now, store, heap, stopped, panicked>>

\* projected := entry.used + estimated
DoubleProjection(e, c) == heap[e].used + 2 * c
Projection(e, c) == heap[e].used + c

\* First critical section, key with a current window.
LookupCurrent(p) ==
    LET e == store[req[p].key] IN
    /\ pc[p] = "lookup"
    /\ e # Nil
    /\ ~Over(e, req[p].at)
    /\ pc' = [pc EXCEPT ![p] = "decide"]
    /\ req' = [req EXCEPT ![p].entry = e,
                          ![p].projected = Projection(e, req[p].cost)]
    /\ UNCHANGED <<now, store, heap, stopped, panicked>>

EndBackwards(t) == t - Window
EndOf(t) == t + Window

\* First critical section, no window or one that is over: a fresh entry.
LookupFresh(p, e) ==
    /\ pc[p] = "lookup"
    /\ store[req[p].key] # Nil => Over(store[req[p].key], req[p].at)
    /\ ~Reachable(e, store, req)
    /\ store' = [store EXCEPT ![req[p].key] = e]
    /\ pc' = [pc EXCEPT ![p] = "decide"]
    /\ req' = [req EXCEPT ![p].entry = e, ![p].projected = req[p].cost]
    /\ heap' = Collected([heap EXCEPT ![e] = [used |-> 0, spent |-> 0,
                                              resetTime |-> EndOf(req[p].at)]],
                         store', req')
    /\ UNCHANGED <<now, stopped, panicked>>

\* projected > MaxTokens
Exceeds(n) == n > MaxTokens

\* Outside the mutex: a request over budget gets a 429 whose body reads
\* entry.used again; another goes on to be charged.
Refuse(p) ==
    /\ pc[p] = "decide"
    /\ Exceeds(req[p].projected)
    /\ Done(p)
    /\ heap' = Collected(heap, store, req')
    /\ UNCHANGED <<now, store, stopped, panicked>>

LetThrough(p) ==
    /\ pc[p] = "decide"
    /\ ~Exceeds(req[p].projected)
    /\ pc' = [pc EXCEPT ![p] = "charge"]
    /\ UNCHANGED <<now, store, heap, req, stopped, panicked>>

\* Second critical section, then next.ServeHTTP.
Charge(p) ==
    LET e == req[p].entry IN
    /\ pc[p] = "charge"
    /\ Done(p)
    /\ heap' = Collected([heap EXCEPT ![e].used = req[p].projected,
                                      ![e].spent = Saturated(@ + req[p].cost)],
                         store, req')
    /\ UNCHANGED <<now, store, stopped, panicked>>

\* One pass of the sweep goroutine, with the time its ticker fired at: a
\* multiple of Window that may lie in the past.
sweep ==
    /\ ~stopped
    /\ \E t \in 1 .. now :
          /\ t % Window = 0
          /\ store' = [k \in Key |->
                         IF store[k] # Nil /\ Over(store[k], t)
                         THEN Nil ELSE store[k]]
    /\ heap' = Collected(heap, store', req)
    /\ UNCHANGED <<now, pc, req, stopped, panicked>>

\* Reset(key), and Reset("") for S = Key.
Reset(S) ==
    /\ store' = [k \in Key |-> IF k \in S THEN Nil ELSE store[k]]
    /\ heap' = Collected(heap, store', req)
    /\ UNCHANGED <<now, pc, req, stopped, panicked>>

\* case <-tb.stop
AlreadyClosed == stopped

\* Close looks at the stop channel, then closes it: nothing in between
\* keeps a second caller out.
CloseTest(p) ==
    /\ pc[p] = "idle"
    /\ ~AlreadyClosed
    /\ pc' = [pc EXCEPT ![p] = "closing"]
    /\ UNCHANGED <<now, store, heap, req, stopped, panicked>>

CloseStop(p) ==
    /\ pc[p] = "closing"
    /\ panicked' = (panicked \/ stopped)
    /\ stopped' = TRUE
    /\ pc' = [pc EXCEPT ![p] = "idle"]
    /\ UNCHANGED <<now, store, heap, req>>

Tick ==
    /\ now < MaxTime
    /\ now' = now + 1
    /\ UNCHANGED <<store, heap, pc, req, stopped, panicked>>

Step(p) ==
    \/ \E k \in Key, c \in Cost : Arrive(p, k, c)
    \/ LookupCurrent(p)
    \/ \E e \in EntryId : LookupFresh(p, e)
    \/ Refuse(p) \/ LetThrough(p) \/ Charge(p)

Next ==
    \/ \E p \in Proc : Step(p)
    \/ \E p \in Closer : CloseTest(p) \/ CloseStop(p)
    \/ \E k \in Key : Reset({k})
    \/ Reset(Key) \/ sweep \/ Tick

Spec == Init /\ [][Next]_vars

-----------------------------------------------------------------------------
(* What holds however many requests run at once *)

\* No window ever records more than MaxTokens: each Charge stores a projection
\* that passed the test, even one computed long ago.
RecordedWithinMax == \A e \in EntryId : heap[e].used <= MaxTokens

\* The budget errs in one direction only: a window records at most what its
\* requests were let through for, so interleaved charges never make a client
\* pay for tokens it did not spend.
NeverOvercharged ==
    \A e \in EntryId : heap[e].spent < MaxSpent => heap[e].used <= heap[e].spent

\* The projection a request carries between its two critical sections is
\* covered by what its window has admitted plus its own cost.
PendingCovered ==
    \A p \in Proc : Holds(p) =>
        LET e == req[p].entry IN
        heap[e].spent < MaxSpent => req[p].projected <= heap[e].spent + req[p].cost

(* What the documentation says *)

\* token_budget.go:22: "MaxTokens caps how many tokens one key can spend per
\* window", of a value that is "safe for concurrent use".
SpendingCapped == \A e \in EntryId : heap[e].spent <= MaxTokens

\* Inspect(key): nil without an entry; otherwise the entry, over or not.
InspectsEntry(k) == store[k] # Nil

\* token_budget.go:151: "Returns nil when the key has never been charged or
\* its window has expired."
InspectHidesExpired ==
    \A k \in Key : InspectsEntry(k) => ~Over(store[k], now)

\* token_budget.go:141: "Safe to call multiple times."
CloseIsSafe == ~panicked
=============================================================================
