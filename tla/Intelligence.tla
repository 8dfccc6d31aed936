--------------------------- MODULE Intelligence ---------------------------
(***************************************************************************)
(* The IP-reputation client of intelligence/client.go: a cache-first Check *)
(* that schedules a background refresh on a miss, the refresh goroutines,  *)
(* the LRU cache with its TTL, and Close.  Each use of c.mu, of inFlightMu *)
(* and of the cache's mutex is a step; scheduleRefresh holds inFlightMu    *)
(* over two of them.  A verdict is the version of the server's answer.     *)
(***************************************************************************)
EXTENDS Integers, Sequences, FiniteSets, SequencesExt

CONSTANTS IP, Checker, Closer,
          Job,          \* bound: refresh goroutines alive at a time
          cacheMax, ttl,
          Nil,
          MaxTime,      \* bound: the clock stops here
          MaxVersion    \* bound: changes of the server's verdicts

Options ==
    /\ cacheMax \in Nat \ {0} /\ ttl \in Nat \ {0}
    /\ MaxTime \in Nat /\ MaxVersion \in Nat
    /\ Nil \notin Checker

VARIABLES now,
          version,    \* how often the server's verdicts have changed
          closed,     \* Client.closed
          inFlight,   \* Client.inFlight
          inFlightMu, \* the caller of scheduleRefresh that holds the mutex, or Nil
          cache,      \* lruCache.ll, the most recent entry first
          asks,       \* where each caller of Check is, and for which IP
          refresh,    \* where each refresh goroutine is, for which IP, with which answer
          closing     \* where each caller of Close is

vars == <<now, version, closed, inFlight, inFlightMu, cache, asks, refresh, closing>>

NoRefresh == [at |-> "none", ip |-> Nil, answer |-> 0]
NotAsking == [at |-> "idle", ip |-> Nil]

\* The goroutines the WaitGroup counts.
wg == {j \in Job : refresh[j].at # "none"}

\* Those that have not reached their deferred delete yet.
Active == {j \in wg : refresh[j].at # "leaving"}

TypeOK ==
    /\ now \in 0 .. MaxTime
    /\ version \in 0 .. MaxVersion
    /\ closed \in BOOLEAN
    /\ inFlight \subseteq IP
    /\ inFlightMu \in Checker \cup {Nil}
    /\ cache \in Seq([ip : IP, answer : 0 .. MaxVersion, expires : 0 .. MaxTime + ttl])
    /\ Len(cache) <= cacheMax
    /\ \A i, j \in DOMAIN cache : cache[i].ip = cache[j].ip => i = j
    /\ asks \in [Checker -> [at : {"idle", "get", "schedule", "add"}, ip : IP \cup {Nil}]]
    /\ refresh \in [Job -> [at : {"none", "fetch", "answered", "store", "delete", "leaving"},
                            ip : IP \cup {Nil}, answer : 0 .. MaxVersion]]
    /\ closing \in [Closer -> {"idle", "wait", "clear", "returned", "again"}]

Init ==
    /\ now = 0 /\ version = 0
    /\ closed = FALSE
    /\ inFlight = {} /\ inFlightMu = Nil
    /\ cache = <<>>
    /\ asks = [p \in Checker |-> NotAsking]
    /\ refresh = [j \in Job |-> NoRefresh]
    /\ closing = [c \in Closer |-> "idle"]

-----------------------------------------------------------------------------
(* lruCache *)

\* ll.Remove(items[ip]), if there is such an element.
Without(ip) ==
    LET at == {i \in DOMAIN cache : cache[i].ip = ip}
    IN  IF at = {} THEN cache ELSE RemoveAt(cache, CHOOSE i \in at : TRUE)

EntryOf(ip) == {e \in ToSet(cache) : e.ip = ip}

Expired(e) == now > e.expires

\* set: a new entry in front, the last ones leave a full cache.
Evict(es) == SubSeq(es, 1, IF Len(es) > cacheMax THEN cacheMax ELSE Len(es))

Stored(ip, answer) ==
    Evict(<<[ip |-> ip, answer |-> answer, expires |-> now + ttl]>> \o Without(ip))

-----------------------------------------------------------------------------
(* Check *)

Goto(p, place) == asks' = [asks EXCEPT ![p].at = place]
Return(p) == asks' = [asks EXCEPT ![p] = NotAsking]

\* isClosed: a closed client answers "not found".
CheckOpen(p, ip) ==
    /\ asks[p].at = "idle"
    /\ ~closed
    /\ asks' = [asks EXCEPT ![p] = [at |-> "get", ip |-> ip]]
    /\ UNCHANGED <<now, version, closed, inFlight, inFlightMu, cache, refresh, closing>>

\* cache.get: a live entry moves to the front and is the answer.
CheckHit(p) ==
    /\ asks[p].at = "get"
    /\ \E e \in EntryOf(asks[p].ip) : ~Expired(e) /\ cache' = <<e>> \o Without(e.ip)
    /\ Return(p)
    /\ UNCHANGED <<now, version, closed, inFlight, inFlightMu, refresh, closing>>

\* A missing or expired one is a miss, and the expired one is gone.
CheckMiss(p) ==
    /\ asks[p].at = "get"
    /\ \A e \in EntryOf(asks[p].ip) : Expired(e)
    /\ cache' = Without(asks[p].ip)
    /\ Goto(p, "schedule")
    /\ UNCHANGED <<now, version, closed, inFlight, inFlightMu, refresh, closing>>

-----------------------------------------------------------------------------
(* scheduleRefresh *)

BusyNever(ip) == FALSE
Busy(ip) == ip \in inFlight

\* Under inFlightMu: a refresh in flight or a closed client ends the call.
ScheduleNothing(p) ==
    /\ asks[p].at = "schedule" /\ inFlightMu = Nil
    /\ Busy(asks[p].ip) \/ closed
    /\ Return(p)
    /\ UNCHANGED <<now, version, closed, inFlight, inFlightMu, cache, refresh, closing>>

ScheduleTest(p) ==
    /\ asks[p].at = "schedule" /\ inFlightMu = Nil
    /\ ~Busy(asks[p].ip) /\ ~closed
    /\ inFlightMu' = p
    /\ Goto(p, "add")
    /\ UNCHANGED <<now, version, closed, inFlight, cache, refresh, closing>>

\* Nothing keeps Close away between isClosed and wg.Add.
ScheduleAdd(p) ==
    LET ip == asks[p].ip IN
    /\ asks[p].at = "add"
    /\ inFlight' = inFlight \cup {ip}
    /\ wg # Job
    /\ LET j == CHOOSE k \in Job \ wg : TRUE
       IN  refresh' = [refresh EXCEPT ![j] = [at |-> "fetch", ip |-> ip, answer |-> 0]]
    /\ inFlightMu' = Nil
    /\ Return(p)
    /\ UNCHANGED <<now, version, closed, cache, closing>>

-----------------------------------------------------------------------------
(* The refresh goroutine *)

At(j, place) == refresh[j].at = place
Move(j, place) == refresh' = [refresh EXCEPT ![j].at = place]
Leave(j) == refresh' = [refresh EXCEPT ![j].at = "delete", ![j].answer = 0]

FetchAnswers(j) ==
    /\ At(j, "fetch")
    /\ refresh' = [refresh EXCEPT ![j].at = "answered", ![j].answer = version]
    /\ UNCHANGED <<now, version, closed, inFlight, inFlightMu, cache, asks, closing>>

\* A transport error, a timeout or a bad status is not cached.
FetchFails(j) ==
    /\ At(j, "fetch")
    /\ Leave(j)
    /\ UNCHANGED <<now, version, closed, inFlight, inFlightMu, cache, asks, closing>>

\* isClosed, before cache.set.
Stores == ~closed

StoreTest(j) ==
    /\ At(j, "answered")
    /\ IF Stores THEN Move(j, "store") ELSE Leave(j)
    /\ UNCHANGED <<now, version, closed, inFlight, inFlightMu, cache, asks, closing>>

\* cache.set
Store(j) ==
    /\ At(j, "store")
    /\ cache' = Stored(refresh[j].ip, refresh[j].answer)
    /\ Leave(j)
    /\ UNCHANGED <<now, version, closed, inFlight, inFlightMu, asks, closing>>

\* The deferred delete, then the deferred wg.Done.
ForgetsNothing(ip) == inFlight
Released(ip) == inFlight \ {ip}

Delete(j) ==
    /\ At(j, "delete") /\ inFlightMu = Nil
    /\ inFlight' = Released(refresh[j].ip)
    /\ Move(j, "leaving")
    /\ UNCHANGED <<now, version, closed, inFlightMu, cache, asks, closing>>

Done(j) ==
    /\ At(j, "leaving")
    /\ refresh' = [refresh EXCEPT ![j] = NoRefresh]
    /\ UNCHANGED <<now, version, closed, inFlight, inFlightMu, cache, asks, closing>>

-----------------------------------------------------------------------------
(* Close *)

CloseBegins(c) ==
    /\ closing[c] = "idle"
    /\ closed' = TRUE
    /\ closing' = [closing EXCEPT ![c] = IF closed THEN "again" ELSE "wait"]
    /\ UNCHANGED <<now, version, inFlight, inFlightMu, cache, asks, refresh>>

\* wg.Wait()
WaitsForQuiet == wg = {} /\ \A p \in Checker : asks[p].at = "idle"
Waited == wg = {}

CloseWaits(c) ==
    /\ closing[c] = "wait"
    /\ Waited
    /\ closing' = [closing EXCEPT ![c] = "clear"]
    /\ UNCHANGED <<now, version, closed, inFlight, inFlightMu, cache, asks, refresh>>

CloseClears(c) ==
    /\ closing[c] = "clear"
    /\ cache' = <<>>
    /\ closing' = [closing EXCEPT ![c] = "returned"]
    /\ UNCHANGED <<now, version, closed, inFlight, inFlightMu, asks, refresh>>

-----------------------------------------------------------------------------
(* The server and the clock *)

VerdictsChange ==
    /\ version < MaxVersion
    /\ version' = version + 1
    /\ UNCHANGED <<now, closed, inFlight, inFlightMu, cache, asks, refresh, closing>>

Tick ==
    /\ now < MaxTime
    /\ now' = now + 1
    /\ UNCHANGED <<version, closed, inFlight, inFlightMu, cache, asks, refresh, closing>>

Schedule(p) == ScheduleNothing(p) \/ ScheduleTest(p) \/ ScheduleAdd(p)
Fetch(j) == FetchAnswers(j) \/ FetchFails(j)
Refresh(j) == Fetch(j) \/ StoreTest(j) \/ Store(j) \/ Delete(j) \/ Done(j)
Close(c) == CloseWaits(c) \/ CloseClears(c)

Next ==
    \/ \E p \in Checker : \/ \E ip \in IP : CheckOpen(p, ip)
                          \/ CheckHit(p) \/ CheckMiss(p) \/ Schedule(p)
    \/ \E j \in Job : Refresh(j)
    \/ VerdictsChange
    \/ \E c \in Closer : CloseBegins(c) \/ Close(c)
    \/ Tick

\* A goroutine that can run does; a fetch ends, by its answer or by the client's
\* timeout; inFlightMu does not starve the refresh that waits for it.
Fairness ==
    /\ \A p \in Checker : WF_vars(ScheduleAdd(p))
    /\ \A j \in Job : /\ WF_vars(Fetch(j) \/ StoreTest(j) \/ Store(j) \/ Done(j))
                      /\ SF_vars(Delete(j))
    /\ \A c \in Closer : WF_vars(Close(c))

Spec == Init /\ [][Next]_vars
FairSpec == Spec /\ Fairness

-----------------------------------------------------------------------------
(* Properties *)

\* inFlight names exactly the IPs with a refresh goroutine: none is fetched
\* twice at a time, none is shut out of refreshes by a goroutine that is gone.
InFlightExact ==
    /\ inFlight = {refresh[j].ip : j \in Active}
    /\ Cardinality(inFlight) = Cardinality(Active)

\* Nothing a fetch brings late undoes what happened meanwhile: no verdict is
\* replaced by an older answer of the server, and once Close has dropped the
\* cache neither a fetch that was in flight nor a refresh that slipped past the
\* closed flag brings an entry back.
VerdictsAdvance ==
    [][/\ \A e \in ToSet(cache), f \in ToSet(cache') : e.ip = f.ip => e.answer <= f.answer
       /\ (\E c \in Closer : closing[c] = "returned") => cache' = <<>>]_vars

\* Close returns although Checks go on.
CloseReturns == \A c \in Closer : closing[c] = "wait" ~> closing[c] = "returned"

\* client.go:188: Close "stops scheduling refreshes, waits for in-flight
\* refreshes to finish, and drops the cache".
ClosedIsQuiet == (\E c \in Closer : closing[c] = "returned") => wg = {}
=============================================================================
