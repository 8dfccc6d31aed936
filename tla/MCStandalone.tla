---------------------------- MODULE MCStandalone ----------------------------
(***************************************************************************)
(* The protections an application mounts by themselves.  They share no     *)
(* state, so a behaviour exercises the one that part names.                *)
(* Standalone.cfg gives the constants small values, for TLC.               *)
(***************************************************************************)
EXTENDS RateLimiter, Sequences, TLC

CONSTANTS slidingMax, slidingWindow, SlidingSecond, SlidingMaxTime,        \* SlidingWindow
          BucketParts, Capacity, Cost, Refill, BucketSecond, BucketMaxTime,  \* TokenBucket
          GuardKey, Job, Tokens, GuardMax, GuardWindow, MaxTokens, TokenWindow,
          MaxRequestTokens, GuardMaxTime, GuardMaxCount,                   \* Guards
          Fragment, Braces, MaxDepth, MaxBatch,                            \* Graphql
          Tab, Setups, NoToken, MaxIssued,                                 \* Csrf
          Origin, Policies, MaxOps,                                        \* Outgoing
          Param, Listed, Attack,                                           \* Incoming
          Client, Proxies, Written, Blank, MaxWritten, sanitizeIP, extractIP,  \* ClientIp
          Bot, Human, Domain, disposableDomains, Missing, Malformed, ApiOrigin, NoOrigin,
          Protections, LoginMax, LoginWindow, LoginMaxTime, LoginMaxCount,  \* Protections
          Length, Overlapping,                                             \* MCPii
          Character, MaxLength,                                            \* MCFiles
          Absent                               \* in place of the state of the other parts

VARIABLES part,
          current, previous, inWindow, inLast,           \* SlidingWindow
          buckets, debt, retryAt,                        \* TokenBucket
          rlStore, tbStore, call, told, spent,           \* Guards
          at, left, query, color, stack, roots, reason, clean,  \* Graphql
          setup, issued, jar, page, settled, request, answer,   \* Csrf
          chain, mode, policy, exchange, ops, writer, cache, received,  \* Outgoing
          inner, filter, sent, incoming, turn, refusal,         \* Incoming
          text, labels, matches, redacted, outcome,      \* Pii
          deployment, client, honest, hop, xff, header, realIp, ip, simple,  \* ClientIp
          file, options, result,                         \* Files
          opts, counters, limit, turnedAway, attempt, verdict, screened  \* Protections

S == INSTANCE SlidingWindow WITH
        max <- slidingMax, window <- slidingWindow, Second <- SlidingSecond, MaxTime <- SlidingMaxTime

B == INSTANCE TokenBucket WITH
        Parts <- BucketParts, Second <- BucketSecond, MaxTime <- BucketMaxTime

G == INSTANCE Guards WITH
        Key <- GuardKey, Max <- GuardMax, Window <- GuardWindow,
        MaxTime <- GuardMaxTime, MaxCount <- GuardMaxCount, refused <- told

Q == INSTANCE Graphql WITH told <- reason

C == INSTANCE Csrf WITH reply <- answer

O == INSTANCE Outgoing WITH request <- exchange, answer <- received

I == INSTANCE Incoming WITH
        chain <- inner, mode <- filter, request <- incoming, at <- turn, refused <- refusal

\* With texts and uploads of their own.
PII == INSTANCE MCPii
FILE == INSTANCE MCFiles

IPS == INSTANCE ClientIp

P == INSTANCE Protections WITH
        IP <- Key, Origin <- ApiOrigin, Max <- LoginMax, Window <- LoginWindow,
        MaxTime <- LoginMaxTime, MaxCount <- LoginMaxCount,
        store <- counters, reply <- limit, refused <- turnedAway

ASSUME StandaloneOptions ==
    /\ S!Options /\ B!Options /\ G!Options /\ Q!Options /\ O!Options /\ I!Options
    /\ PII!P!Options /\ IPS!Options /\ P!Options /\ P!L!LimiterAssumption

limiterVars == <<store, reply, refused>>
slidingVars == <<current, previous, inWindow, inLast>>
bucketVars == <<buckets, debt, retryAt>>
guardVars == <<rlStore, tbStore, call, told, spent>>
graphqlVars == <<at, left, query, color, stack, roots, reason, clean>>
csrfVars == <<setup, issued, jar, page, settled, request, answer>>
outgoingVars == <<chain, mode, policy, exchange, ops, writer, cache, received>>
incomingVars == <<inner, filter, sent, incoming, turn, refusal>>
piiVars == <<text, labels, matches, redacted, outcome>>
ipVars == <<deployment, client, honest, hop, xff, header, realIp, ip, simple>>
fileVars == <<file, options, result>>
protectionVars == <<opts, counters, limit, turnedAway, attempt, verdict, screened>>
clockVars == <<now, closed>>

\* The state of the first eight parts, and of the others.
firstVars == <<slidingVars, bucketVars, guardVars, graphqlVars, csrfVars, outgoingVars, incomingVars>>
otherVars == <<piiVars, ipVars, fileVars, protectionVars>>

Is(name) == part = name
Without(v) == v = Absent

StandaloneInit ==
    /\ part \in {"RateLimiter", "SlidingWindow", "TokenBucket", "Guards", "Graphql", "Csrf", "Outgoing",
                "Incoming", "Pii", "ClientIp", "Files", "Protections"}
    /\ part # "Csrf" => setup = CHOOSE s \in Setups : TRUE
    /\ part # "Outgoing" => chain = <<>> /\ mode = "strip"
    /\ part # "Incoming" => inner = <<>> /\ sent = I!Nothing
    /\ Init /\ S!Init /\ B!Init /\ G!Init /\ Q!Init /\ C!Init /\ O!Init /\ I!Init
    /\ IF Is("Pii") THEN PII!P!Init
       ELSE Without(text) /\ Without(labels) /\ Without(matches) /\ Without(redacted) /\ Without(outcome)
    /\ IF Is("ClientIp") THEN IPS!Init
       ELSE /\ Without(deployment) /\ Without(client) /\ Without(honest) /\ Without(hop) /\ Without(xff)
            /\ Without(header) /\ Without(realIp) /\ Without(ip) /\ Without(simple)
    /\ IF Is("Files") THEN FILE!F!Init
       ELSE Without(file) /\ Without(options) /\ Without(result)
    /\ IF Is("Protections") THEN P!Init
       ELSE /\ Without(opts) /\ Without(counters) /\ Without(limit) /\ Without(turnedAway)
            /\ Without(attempt) /\ Without(verdict) /\ Without(screened)

StandaloneNext ==
    \/ /\ Is("RateLimiter") /\ Next
       /\ UNCHANGED <<part, firstVars, otherVars>>
    \/ /\ Is("SlidingWindow") /\ S!Next
       /\ UNCHANGED <<part, limiterVars, bucketVars, guardVars, graphqlVars, csrfVars, outgoingVars, incomingVars, otherVars>>
    \/ /\ Is("TokenBucket") /\ B!Next
       /\ UNCHANGED <<part, limiterVars, slidingVars, guardVars, graphqlVars, csrfVars, outgoingVars, incomingVars, otherVars>>
    \/ /\ Is("Guards") /\ G!Next
       /\ UNCHANGED <<part, limiterVars, slidingVars, bucketVars, graphqlVars, csrfVars, outgoingVars, incomingVars, otherVars>>
    \/ /\ Is("Graphql") /\ Q!Next
       /\ UNCHANGED <<part, clockVars, limiterVars, slidingVars, bucketVars, guardVars, csrfVars, outgoingVars, incomingVars, otherVars>>
    \/ /\ Is("Csrf") /\ C!Next
       /\ UNCHANGED <<part, clockVars, limiterVars, slidingVars, bucketVars, guardVars, graphqlVars, outgoingVars, incomingVars, otherVars>>
    \/ /\ Is("Outgoing") /\ O!Next
       /\ UNCHANGED <<part, clockVars, limiterVars, slidingVars, bucketVars, guardVars, graphqlVars, csrfVars, incomingVars, otherVars>>
    \/ /\ Is("Incoming") /\ I!Next
       /\ UNCHANGED <<part, clockVars, limiterVars, slidingVars, bucketVars, guardVars, graphqlVars, csrfVars, outgoingVars, otherVars>>
    \/ /\ Is("Pii") /\ PII!P!Next
       /\ UNCHANGED <<part, clockVars, limiterVars, firstVars, ipVars, fileVars, protectionVars>>
    \/ /\ Is("ClientIp") /\ IPS!Next
       /\ UNCHANGED <<part, clockVars, limiterVars, firstVars, piiVars, fileVars, protectionVars>>
    \/ /\ Is("Files") /\ FILE!F!Next
       /\ UNCHANGED <<part, clockVars, limiterVars, firstVars, piiVars, ipVars, protectionVars>>
    \/ /\ Is("Protections") /\ P!Next
       /\ UNCHANGED <<part, limiterVars, firstVars, piiVars, ipVars, fileVars>>

StandaloneSpec == StandaloneInit /\ [][StandaloneNext]_<<part, vars, firstVars, otherVars>>

\* The properties of the parts; RateLimiter's own is IsQuota.
WeightedQuota == S!WeightedQuota
BurstBounded == B!BurstBounded
RetryHonoured == B!RetryHonoured
RefusedStaysOut == G!RefusedStaysOut
DenialsAreFree == G!DenialsAreFree
VerdictExact == Q!VerdictExact
OnlyVerifiedHandled == C!OnlyVerifiedHandled
SettledPageAccepted == C!SettledPageAccepted
AnswersKept == O!AnswersKept
InputJudged == I!InputJudged
Redacted == Is("Pii") => PII!Redacted
ClientIsPeer == Is("ClientIp") => IPS!ClientIsPeer
StoredSafely == Is("Files") => FILE!StoredSafely
OnlyScreenedCharged == P!OnlyScreenedCharged

-----------------------------------------------------------------------------
(* The values of the constants.                                            *)
(*   Sliding windows of two seconds of two ticks, two requests each.       *)
(*   Buckets of three tokens, two parts each, one part a tick, requests of *)
(* two tokens, seconds of three ticks.                                     *)
(*   Guards with one key: a call per tick, a token per two ticks.          *)
(*   Login and signup: a request per tick of an IP.                        *)

OneOrNegative == {-1, 1}

\* All texts of up to four braces.
FourBraces == UNION { [1 .. n -> {1, -1}] : n \in 0 .. 4 }

\* The option matches "a", and "null", which the code refuses all the same.
OneAndNull == {{"a", "null"}}

Setup(adapter, renamed, onError) ==
    [adapter |-> adapter, renamed |-> renamed, onError |-> onError]

\* Without the two deployments of MCCsrf.
SoundSetups == { Setup("http", r, o) : r, o \in BOOLEAN }
               \cup { Setup("gin", r, FALSE) : r \in BOOLEAN }
               \cup { Setup("echo", FALSE, o) : o \in BOOLEAN }

\* Two proxies, an IPv4 and an IPv6 client, which writes up to three addresses:
\* nothing, some word, or one that is cut.
TwoProxies == <<"p1", "p2">>
Addresses == {"c4", "c6", "[c6]", "p1", "p2", "", "word", "long", "cut"}
CutLong == [a \in Addresses |-> IF a = "long" THEN "cut" ELSE a]
Bracketed == [a \in Addresses |-> IF a = "c6" THEN "[c6]" ELSE a]

\* Domains that are allowed and blocked at a time, or allowed and disposable.
Options(kind, limited, bot) ==
    [kind |-> kind, limited |-> limited, CheckBot |-> bot, AllowedBotCategories |-> {"monitor"}]
Login(limited, credentials) ==
    Options("login", limited, TRUE) @@ [RequireCredentialsCheck |-> credentials]
Signup(bot, email, disposable) ==
    Options("signup", TRUE, bot)
        @@ [CheckEmail |-> email, BlockDisposable |-> disposable,
            AllowedEmailDomains |-> {"partner"}, BlockedEmailDomains |-> {"partner", "rival"}]
Api(origin, scan) ==
    Options("api", FALSE, TRUE)
        @@ [CheckOrigin |-> origin, ScanBody |-> scan, ExpectedOrigins |-> {"ours"}]
EightProtections ==
    {Login(TRUE, TRUE), Login(TRUE, FALSE), Login(FALSE, TRUE),
     Signup(TRUE, TRUE, TRUE), Signup(FALSE, TRUE, FALSE), Signup(TRUE, FALSE, TRUE),
     Api(TRUE, TRUE), Api(FALSE, TRUE)}
=============================================================================
