---------------------------- MODULE Correlation ----------------------------
(***************************************************************************)
(* The per-IP correlation window of middleware/correlation.go: an LRU of   *)
(* IPs, each with a bounded queue of stamped events.  A goroutine reads    *)
(* the clock before it takes the mutex and shares nothing until it has it, *)
(* so a call is its critical section with a stamp that may lie up to       *)
(* MaxSkew ticks back: calls enter in another order than that of their     *)
(* stamps.                                                                 *)
(***************************************************************************)
EXTENDS Integers, Sequences, FiniteSets, SequencesExt

CONSTANTS IP,
          Kind,          \* what is recorded: a route, a vector and a value, or NoValue
          NoValue,
          RacePair,      \* the normalized pairs <<a, b>> of CorrelationWindow.racePairs
          windowSeconds, raceWindow,
          maxIps, maxEventsPerIp,
          scannerDistinct, scannerMinRequests, credStuffDistinct,
          MaxTime,       \* bound: the clock stops here
          MaxSkew,       \* bound: ticks between a call's stamp and its critical section
          MaxRecords     \* bound: events recorded in a behaviour

Options ==
    /\ \A k \in Kind : {"route", "vector", "value"} \subseteq DOMAIN k
    /\ {windowSeconds, raceWindow, maxIps, maxEventsPerIp, scannerDistinct,
        scannerMinRequests, credStuffDistinct} \subseteq Nat \ {0}
    /\ {MaxTime, MaxSkew, MaxRecords} \subseteq Nat

VARIABLES now,
          order,      \* CorrelationWindow.order, the most recent IP first
          buckets,    \* CorrelationWindow.buckets: the events of each IP it holds
          log,        \* history: the events recorded in an IP's current bucket
          recency,    \* history: the IPs by their last Record, evicted ones too,
                      \* which the next Reset of an IP forgets
          records     \* history: how many events were recorded

vars == <<now, order, buckets, log, recency, records>>

Event == [time : 0 .. MaxTime, what : Kind]

TypeOK ==
    /\ now \in 0 .. MaxTime /\ records \in 0 .. MaxRecords
    /\ order \in Seq(IP) /\ IsInjective(order) /\ Len(order) <= maxIps
    /\ DOMAIN buckets = ToSet(order)
    /\ \A ip \in DOMAIN buckets : /\ buckets[ip] \in Seq(Event)
                                  /\ Len(buckets[ip]) <= maxEventsPerIp

Empty == [ip \in {} |-> <<>>]

Init ==
    /\ now = 0 /\ records = 0
    /\ order = <<>> /\ buckets = Empty
    /\ log = Empty /\ recency = <<>>

-----------------------------------------------------------------------------
(* evictStale *)

StaleAtCutoff(e, t) == e.time <= t - windowSeconds
Stale(e, t) == e.time < t - windowSeconds

\* Only leading stale events go, up to the first fresh one.
Fresh(es, t) ==
    LET Keeps(i) == i > Len(es) \/ ~Stale(es[i], t)
        first == CHOOSE i \in 1 .. Len(es) + 1 : Keeps(i) /\ \A j \in 1 .. i - 1 : ~Keeps(j)
    IN  SubSeq(es, first, Len(es))

Cap(es) == SubSeq(es, IF Len(es) > maxEventsPerIp THEN Len(es) - maxEventsPerIp + 1 ELSE 1, Len(es))

evictStale(es, t) == Cap(Fresh(es, t))

-----------------------------------------------------------------------------
(* touchOrCreate *)

\* s without ip, which it holds at most once.
Without(s, ip) ==
    LET at == {i \in DOMAIN s : s[i] = ip}
    IN  IF at = {} THEN s ELSE RemoveAt(s, CHOOSE i \in at : TRUE)

Pushed(ip) == <<ip>> \o Without(order, ip)

\* Mutant: an IP goes before the LRU is over its limit.
KeptFewer(ip) == SubSeq(Pushed(ip), 1, IF Len(Pushed(ip)) >= maxIps THEN maxIps - 1 ELSE Len(Pushed(ip)))

\* The least recent IPs go until maxIps are left.
Kept(ip) == SubSeq(Pushed(ip), 1, IF Len(Pushed(ip)) > maxIps THEN maxIps ELSE Len(Pushed(ip)))

\* Of s, the IPs by their last Record: as many as there are, but no more than
\* maxIps.
Latest(s) == SubSeq(s, 1, IF Len(s) > maxIps THEN maxIps ELSE Len(s))

\* The events of an IP's bucket, a new one's are empty.
EventsOf(f, ip) == IF ip \in DOMAIN f THEN f[ip] ELSE <<>>

-----------------------------------------------------------------------------
(* The calls *)

\* When a call that is in its critical section now read the clock.
Stamps == {t \in 0 .. now : t + MaxSkew >= now}

Record(ip, k, t) ==
    LET e == [time |-> t, what |-> k]
        Updated(f, es) == [i \in ToSet(order') |-> IF i = ip THEN es ELSE f[i]]
    IN
    /\ records < MaxRecords
    /\ order' = Kept(ip)
    /\ buckets' = Updated(buckets, evictStale(Append(EventsOf(buckets, ip), e), t))
    /\ log' = Updated(log, Append(EventsOf(log, ip), e))
    /\ recency' = <<ip>> \o Without(recency, ip)
    /\ records' = records + 1
    /\ UNCHANGED now

\* DetectScanner, DetectCredentialStuffing, DetectRaceWindow: they evict, too.
Detect(ip, t) ==
    /\ ip \in DOMAIN buckets
    /\ buckets' = [buckets EXCEPT ![ip] = evictStale(@, t)]
    /\ UNCHANGED <<now, order, log, recency, records>>

Reset(ip) ==
    LET without(f) == [i \in DOMAIN f \ {ip} |-> f[i]] IN
    /\ order' = Without(order, ip)
    /\ buckets' = without(buckets)
    /\ log' = without(log)
    /\ recency' = Without(Latest(recency), ip)
    /\ UNCHANGED <<now, records>>

\* Reset("")
ResetAll ==
    /\ order' = <<>> /\ buckets' = Empty
    /\ log' = Empty /\ recency' = <<>>
    /\ UNCHANGED <<now, records>>

Tick ==
    /\ now < MaxTime
    /\ now' = now + 1
    /\ UNCHANGED <<order, buckets, log, recency, records>>

Next ==
    \/ \E ip \in IP, t \in Stamps : Detect(ip, t) \/ \E k \in Kind : Record(ip, k, t)
    \/ \E ip \in IP : Reset(ip)
    \/ ResetAll
    \/ Tick

Spec == Init /\ [][Next]_vars

-----------------------------------------------------------------------------
(* What the bucket of an IP is taken for *)

\* isScanner
IsScanner(es) ==
    /\ Len(es) >= scannerMinRequests
    /\ Cardinality({es[i].what.vector : i \in DOMAIN es}) >= scannerDistinct

\* isCredentialStuffing
ValuesAt(es, route) ==
    {es[i].what.value : i \in {j \in DOMAIN es : es[j].what.route = route}} \ {NoValue}

IsCredentialStuffing(es, route) == Cardinality(ValuesAt(es, route)) >= credStuffDistinct

\* The stamps of a route, in the order of the queue.
TimesAt(es, route) ==
    LET hits[n \in 0 .. Len(es)] ==
            IF n = 0 THEN <<>>
            ELSE IF es[n].what.route = route THEN Append(hits[n - 1], es[n].time) ELSE hits[n - 1]
    IN  hits[Len(es)]

Close(s, t) == s - t \in -raceWindow .. raceWindow

\* racePairInBucket: two pointers over the stamps of the two routes.
AdvanceLater(s, t) == s > t
Advance(s, t) == s < t      \* whether the first pointer moves on

\* An iteration of its loop; a race, or the end of a slice, ends the loop.
Moved(as, bs, p) ==
    IF p.a > Len(as) \/ p.b > Len(bs) \/ Close(as[p.a], bs[p.b]) THEN p
    ELSE IF Advance(as[p.a], bs[p.b]) THEN [p EXCEPT !.a = @ + 1] ELSE [p EXCEPT !.b = @ + 1]

\* Its pointers after n iterations.
Pointers(as, bs) ==
    LET at[n \in 0 .. Len(as) + Len(bs)] ==
            IF n = 0 THEN [a |-> 1, b |-> 1] ELSE Moved(as, bs, at[n - 1])
    IN  at

\* It found a race when it stopped before the end of both slices.
TwoPointers(as, bs) ==
    LET last == Pointers(as, bs)[Len(as) + Len(bs)] IN last.a <= Len(as) /\ last.b <= Len(bs)

\* Its switch gives the second route of a pair the stamps the first does not take.
RacePairInBucket(es, pair) ==
    pair[1] # pair[2] /\ TwoPointers(TimesAt(es, pair[1]), TimesAt(es, pair[2]))

\* What evaluate reports; ResolveProtect blocks on any of it.
Alarms(es) ==
    (IF IsScanner(es) THEN {<<"scanner">>} ELSE {})
        \cup {<<"stuffing", k.route>> : k \in {l \in Kind : IsCredentialStuffing(es, l.route)}}
        \cup {<<"race", p[1], p[2]>> : p \in {q \in RacePair : RacePairInBucket(es, q)}}

-----------------------------------------------------------------------------
(* Properties *)

\* Evidence is lost with its IP only to maxIps IPs recorded after it: of the IPs
\* recorded since they were last reset the latest are tracked, all of them or
\* exactly maxIps.  And else it is lost from the head of its queue only, when it
\* is older than the window at the latest stamp or maxEventsPerIp newer events
\* follow it, whatever calls with late stamps and detections come in between.
EvidenceKept ==
    /\ order = Latest(recency)
    /\ \A ip \in DOMAIN buckets :
        LET all == log[ip]
            kept == buckets[ip]
            lost == Len(all) - Len(kept)
        IN  /\ kept = SubSeq(all, lost + 1, Len(all))
            /\ \A i \in 1 .. lost : \/ now - windowSeconds > all[i].time
                                    \/ Len(all) - i >= maxEventsPerIp

\* An alarm lasts: while an IP stays tracked, it goes out only because one of
\* the events behind it has left the window or a full bucket has turned over.
AlarmLasts ==
    [][\A ip \in DOMAIN buckets \cap DOMAIN buckets' :
          \/ buckets'[ip] = buckets[ip]
          \/ Len(buckets[ip]) = maxEventsPerIp
          \/ Alarms(buckets[ip]) \subseteq Alarms(buckets'[ip])
          \/ \E i \in DOMAIN buckets[ip] : buckets[ip][i].time < now - windowSeconds]_buckets

\* The two routes of a pair were hit within the race window.
InRace(es, pair) ==
    /\ pair[1] # pair[2]
    /\ \E i, j \in DOMAIN es : /\ es[i].what.route = pair[1]
                               /\ es[j].what.route = pair[2]
                               /\ Close(es[i].time, es[j].time)

Sorted(es) == \A i, j \in DOMAIN es : i < j => es[i].time <= es[j].time

\* The scan never invents a race, and finds every one in a bucket whose stamps
\* are in order.
RaceScanExact ==
    \A ip \in DOMAIN buckets, pair \in RacePair :
        /\ RacePairInBucket(buckets[ip], pair) => InRace(buckets[ip], pair)
        /\ Sorted(buckets[ip]) /\ InRace(buckets[ip], pair) => RacePairInBucket(buckets[ip], pair)

\* correlation.go:356: the scan "reports whether any timestamp from route a is
\* within the race window of any timestamp from route b".
EveryRaceFound ==
    \A ip \in DOMAIN buckets, pair \in RacePair :
        InRace(buckets[ip], pair) => RacePairInBucket(buckets[ip], pair)
=============================================================================
