------------------------------ MODULE MCShared ------------------------------
(***************************************************************************)
(* The state that requests and goroutines of a process share: token        *)
(* budgets, the correlation window, the corpus of bots.  They share        *)
(* nothing with each other, so a behaviour exercises the one that part     *)
(* names.  Shared.cfg gives the constants small values, for TLC; what is   *)
(* interchangeable is declared so.                                         *)
(***************************************************************************)
EXTENDS TokenBudget, Sequences, TLC

CONSTANTS IP, Kind, NoValue, RacePair, windowSeconds, raceWindow, maxIps, maxEventsPerIp,
          scannerDistinct, scannerMinRequests, credStuffDistinct,
          MaxWindowTime, MaxSkew, MaxRecords,                   \* Correlation
          Agent, Suspicious, Bundled, Feeds, Fetcher, Visitor,
          Allow, Deny, DefaultAction, MaxArrays                 \* BotCorpus

VARIABLES part,
          clock, order, buckets, log, recency, records,   \* Correlation
          arrays, live, mergeMu, fetch, call, seen        \* BotCorpus

C == INSTANCE Correlation WITH now <- clock, MaxTime <- MaxWindowTime
B == INSTANCE BotCorpus WITH Request <- Visitor

ASSUME SharedOptions == C!Options /\ B!Options

windowVars == <<clock, order, buckets, log, recency, records>>
corpusVars == <<arrays, live, mergeMu, fetch, call, seen>>

allVars == <<part, vars, windowVars, corpusVars>>

SharedInit ==
    /\ part \in {"TokenBudget", "Correlation", "BotCorpus"}
    /\ Init /\ C!Init /\ B!Init

SharedNext ==
    \/ part = "TokenBudget" /\ Next /\ UNCHANGED <<part, windowVars, corpusVars>>
    \/ part = "Correlation" /\ C!Next /\ UNCHANGED <<part, vars, corpusVars>>
    \/ part = "BotCorpus" /\ B!Next /\ UNCHANGED <<part, vars, windowVars>>

SharedSpec == SharedInit /\ [][SharedNext]_allVars

Symmetry == Permutations(EntryId) \cup Permutations(Proc) \cup Permutations(IP)

\* The properties of the parts; TokenBudget's own is NeverOvercharged.
EvidenceKept == C!EvidenceKept
RaceScanExact == C!RaceScanExact
AlarmLasts == C!AlarmLasts
OneCorpusDecides == B!OneCorpusDecides
WholeMerges == B!WholeMerges

-----------------------------------------------------------------------------
(* The values of the constants. *)

\* A login route with two user names and a second route.
LoginAndTransfer ==
    {[route |-> "login", vector |-> "request", value |-> "alice"],
     [route |-> "transfer", vector |-> "sql", value |-> NoValue]}
LoginTransferRace == {<<"login", "transfer">>}

Matches(agents) == [compiles |-> TRUE, hits |-> agents]
Broken == [compiles |-> FALSE, hits |-> {}]
Bot(id, category, patterns, forbidden) ==
    [id |-> id, category |-> category, patterns |-> patterns, forbidden |-> forbidden]

\* Three kinds of agents, x, y and z, of which entries match some by conjunctions
\* and exceptions; two feeds that overlap, name an id twice, and hold patterns
\* that do not compile.
TwoBots ==
    <<Bot("a", "AUTOMATED", {Matches({"x", "y"}), Matches({"x", "z"})}, {}),
      Bot("b", "SOCIAL", {Matches({"x", "y"})}, {Matches({"z"})})>>
ThreeFeeds ==
    {<<>>,
     <<Bot("a", "SOCIAL", {Matches({"x", "z"})}, {Broken, Matches({"y"})}),
       Bot("c", "AUTOMATED", {Matches({"y", "z"})}, {})>>,
     <<Bot("c", "SOCIAL", {Matches({"z"})}, {}), Bot("c", "SOCIAL", {Broken}, {}),
       Bot("b", "AUTOMATED", {}, {})>>}
=============================================================================
