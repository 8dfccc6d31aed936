----------------------------- MODULE BotCorpus -----------------------------
(***************************************************************************)
(* middleware/bot_detection.go: the process-wide corpus of bots, replaced  *)
(* by the goroutines the adapters start to fetch a newer one while         *)
(* requests are classified against it without a lock.                      *)
(*                                                                         *)
(* A slice is an address in arrays, as the code shares slices by address.  *)
(* A pattern is the set of user agents it matches; an entry is live with   *)
(* the patterns it names, or with none.                                    *)
(***************************************************************************)
EXTENDS Sequences, Integers, SequencesExt, FiniteSets

CONSTANTS Agent,                \* classes of requests, by user agent and headers
          Suspicious,           \* those with three or more behavioural signals
          Bundled,              \* the corpus of the release
          Feeds,                \* what the endpoint may answer
          Fetcher, Request,
          Allow, Deny,          \* categories, Allow first
          DefaultAction,        \* "allow" or "deny" for other bots
          MaxArrays             \* bound: how many slices are ever made

Pattern == [compiles : BOOLEAN, hits : SUBSET Agent]
IsEntry(e) == /\ DOMAIN e = {"id", "category", "patterns", "forbidden"}
              /\ e.patterns \subseteq Pattern /\ e.forbidden \subseteq Pattern

Compiles(e) == \A p \in e.patterns : p.compiles

\* What compileBotEntry makes of an entry: a forbidden pattern that does not
\* compile is dropped.
Compiled(e) == [e EXCEPT !.forbidden = { p \in @ : p.compiles }]

\* Entries as they are served, and those as they are compiled.
Served == UNION { Range(feed) : feed \in Feeds \cup {Bundled} }
Entry == Served \cup { Compiled(e) : e \in Served }

Category == { e.category : e \in Entry } \cup {"HUMAN", "UNKNOWN"}

\* The ids of data/bot_patterns.json are distinct.
Options ==
    /\ Agent # {} /\ Suspicious \subseteq Agent /\ DefaultAction \in {"allow", "deny"}
    /\ Feeds \cup {Bundled} \subseteq Seq(Served)
    /\ \A e \in Entry : IsEntry(e)
    /\ \A i \in DOMAIN Bundled : Compiles(Bundled[i])
    /\ \A i, j \in DOMAIN Bundled : Bundled[i].id = Bundled[j].id => i = j

VARIABLES arrays, live,    \* the slices made so far, the one botPatternsAtomic holds
          mergeMu,         \* who holds it, or {}
          fetch,           \* a fetching goroutine: its phase, feed, place in it, slice
          call,            \* a request: its phase, agent, slice, place in it, verdict
          seen             \* history: the corpora live since a request loaded one

vars == <<arrays, live, mergeMu, fetch, call, seen>>

Corpus == arrays[live]

NewFetch == [at |-> "start", feed |-> <<>>, i |-> 1, next |-> 1]
NoCall == [at |-> "idle", agent |-> CHOOSE a \in Agent : TRUE, slice |-> 1, i |-> 1,
           category |-> "HUMAN", answer |-> "none"]

TypeOK ==
    /\ arrays \in Seq(Seq(Entry)) /\ live \in DOMAIN arrays /\ mergeMu \subseteq Fetcher
    /\ fetch \in [Fetcher -> [at : {"start", "fetched", "merging", "done"}, feed : Feeds \cup {<<>>},
                              i : Nat, next : DOMAIN arrays]]
    /\ call \in [Request -> [at : {"idle", "matching", "judged", "done"}, agent : Agent,
                             slice : DOMAIN arrays, i : Nat, category : Category,
                             answer : {"none", "403", "next"}]]
    /\ seen \in [Request -> SUBSET Seq(Entry)]

Init ==
    /\ arrays = <<Bundled>> /\ live = 1 /\ mergeMu = {}
    /\ fetch = [f \in Fetcher |-> NewFetch]
    /\ call = [r \in Request |-> NoCall]
    /\ seen = [r \in Request |-> {}]

\* What is live is added to what the requests that are under way may report.
Watch == seen' = [r \in Request |-> IF call[r].at = "matching" THEN seen[r] \cup {Corpus'} ELSE seen[r]]

\* The middleware's goroutine fetches; an error or an empty answer ends it.
Fetch(f) ==
    /\ fetch[f].at = "start"
    /\ \E feed \in Feeds :
          fetch' = [fetch EXCEPT ![f].feed = feed, ![f].at = IF feed = <<>> THEN "done" ELSE "fetched"]
    /\ UNCHANGED <<arrays, live, mergeMu, call, seen>>

\* Wrong: the mutex is not taken.
LockFree(f) ==
    /\ fetch[f].at = "fetched" /\ Len(arrays) < MaxArrays
    /\ arrays' = Append(arrays, Corpus)
    /\ fetch' = [fetch EXCEPT ![f].at = "merging", ![f].next = Len(arrays')]
    /\ UNCHANGED <<live, mergeMu, call>> /\ Watch

\* Wrong: the live slice is not copied.
Alias(f) ==
    /\ fetch[f].at = "fetched" /\ mergeMu = {} /\ Len(arrays) < MaxArrays
    /\ mergeMu' = {f}
    /\ fetch' = [fetch EXCEPT ![f].at = "merging", ![f].next = live]
    /\ UNCHANGED <<arrays, live, call>> /\ Watch

\* MergeBotPatterns takes the mutex and copies the live slice.
Lock(f) ==
    /\ fetch[f].at = "fetched" /\ mergeMu = {} /\ Len(arrays) < MaxArrays
    /\ mergeMu' = {f}
    /\ arrays' = Append(arrays, Corpus)
    /\ fetch' = [fetch EXCEPT ![f].at = "merging", ![f].next = Len(arrays')]
    /\ UNCHANGED <<live, call>> /\ Watch

\* The first entry of the same id is replaced where it stands; a new id goes to
\* the end; an entry with a pattern that does not compile is skipped.
Placed(corpus, e) ==
    IF ~Compiles(e) THEN corpus
    ELSE IF \E i \in DOMAIN corpus : corpus[i].id = e.id
         THEN ReplaceAt(corpus, SelectInSeq(corpus, LAMBDA x : x.id = e.id), Compiled(e))
         ELSE Append(corpus, Compiled(e))

MergeEntry(f) ==
    /\ fetch[f].at = "merging" /\ fetch[f].i <= Len(fetch[f].feed)
    /\ arrays' = [arrays EXCEPT ![fetch[f].next] = Placed(@, fetch[f].feed[fetch[f].i])]
    /\ fetch' = [fetch EXCEPT ![f].i = @ + 1]
    /\ UNCHANGED <<live, mergeMu, call>> /\ Watch

\* The slice is swapped in and the mutex released.
Store(f) ==
    /\ fetch[f].at = "merging" /\ fetch[f].i > Len(fetch[f].feed)
    /\ live' = fetch[f].next /\ mergeMu' = mergeMu \ {f}
    /\ fetch' = [fetch EXCEPT ![f].at = "done"]
    /\ UNCHANGED <<arrays, call>> /\ Watch

ResetBotPatternsForTest ==
    /\ mergeMu = {} /\ Len(arrays) < MaxArrays
    /\ arrays' = Append(arrays, Bundled) /\ live' = Len(arrays')
    /\ UNCHANGED <<mergeMu, fetch, call>> /\ Watch

\* DetectBot loads the slice once.
Load(r) ==
    /\ call[r].at = "idle"
    /\ \E a \in Agent :
          call' = [call EXCEPT ![r] = [NoCall EXCEPT !.at = "matching", !.agent = a, !.slice = live]]
    /\ seen' = [seen EXCEPT ![r] = {Corpus}]
    /\ UNCHANGED <<arrays, live, mergeMu, fetch>>

Matches(e, a) ==
    /\ e.patterns # {} /\ \A p \in e.patterns : a \in p.hits
    /\ \A p \in e.forbidden : a \notin p.hits

Behaviour(a) == IF a \in Suspicious THEN "UNKNOWN" ELSE "HUMAN"

Match(r) ==
    LET c == call[r]
        slice == arrays[c.slice] IN
    /\ c.at = "matching"
    /\ call' = [call EXCEPT ![r] =
          IF c.i > Len(slice) THEN [c EXCEPT !.at = "judged", !.category = Behaviour(c.agent)]
          ELSE IF Matches(slice[c.i], c.agent)
               THEN [c EXCEPT !.at = "judged", !.category = slice[c.i].category]
               ELSE [c EXCEPT !.i = @ + 1]]
    /\ UNCHANGED <<arrays, live, mergeMu, fetch, seen>>

\* BotProtection: humans and allowed categories first.
Denied(category) ==
    /\ category \notin {"HUMAN"} \cup Allow
    /\ category \in Deny \/ DefaultAction = "deny"

BotProtection(r) ==
    /\ call[r].at = "judged"
    /\ call' = [call EXCEPT ![r].at = "done", ![r].answer = IF Denied(call[r].category) THEN "403" ELSE "next"]
    /\ UNCHANGED <<arrays, live, mergeMu, fetch, seen>>

Next ==
    \/ \E f \in Fetcher : Fetch(f) \/ Lock(f) \/ MergeEntry(f) \/ Store(f)
    \/ \E r \in Request : Load(r) \/ Match(r) \/ BotProtection(r)
    \/ ResetBotPatternsForTest

Spec == Init /\ [][Next]_vars

\* The category of an agent by a whole corpus, without a loop.
CategoryBy(corpus, a) ==
    LET firsts == { i \in DOMAIN corpus : Matches(corpus[i], a) } IN
    IF firsts = {} THEN Behaviour(a)
    ELSE corpus[CHOOSE i \in firsts : \A j \in firsts : i <= j].category

\* DetectBot: the category is that of one corpus that was live as a whole while
\* the request was classified, whatever was merged meanwhile.
OneCorpusDecides ==
    \A r \in Request :
        call[r].at \in {"judged", "done"} => \E c \in seen[r] : call[r].category = CategoryBy(c, call[r].agent)

\* What a merge leaves: of each id the last entry that compiles, else what was
\* there; no id twice.
LastOf(feed, id) ==
    { i \in DOMAIN feed : /\ feed[i].id = id /\ Compiles(feed[i])
                          /\ \A j \in DOMAIN feed : feed[j].id = id /\ Compiles(feed[j]) => j <= i }

MergeOf(old, feed, new) ==
    /\ \A i \in DOMAIN old :
          new[i] = IF LastOf(feed, old[i].id) = {} THEN old[i]
                   ELSE Compiled(feed[CHOOSE j \in LastOf(feed, old[i].id) : TRUE])
    /\ \A i \in DOMAIN feed : Compiles(feed[i]) => \E j \in DOMAIN new : new[j].id = feed[i].id
    /\ \A j \in DOMAIN new : j > Len(old) => \E i \in LastOf(feed, new[j].id) : new[j] = Compiled(feed[i])
    /\ \A i, j \in DOMAIN new : new[i].id = new[j].id => i = j

\* MergeBotPatterns: the corpus changes by whole feeds, each applied to the
\* corpus that was live until then: no merge loses another's entries.
WholeMerges ==
    [][\/ Corpus' \in {Corpus, Bundled}
       \/ \E feed \in Feeds : Len(Corpus') >= Len(Corpus) /\ MergeOf(Corpus, feed, Corpus')]_<<arrays, live>>
=============================================================================
