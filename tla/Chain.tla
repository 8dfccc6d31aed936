------------------------------- MODULE Chain --------------------------------
(***************************************************************************)
(* Requests running through the middleware chain of an application.  A     *)
(* request enters the middlewares one after another; each admits it to the *)
(* next or refuses it; what a middleware does after its inner part has     *)
(* returned runs in the opposite order, also when the handler fails or     *)
(* panics.  The adapter modules (GinAdapter, EchoAdapter, ChiAdapter,      *)
(* FiberAdapter) hold the middlewares, Adapters puts them together.        *)
(* Requests share the rate limiters, the reputation cache and the bot      *)
(* corpus, which modules of their own describe: here each is reduced to    *)
(* what the chain can tell apart.                                          *)
(***************************************************************************)
EXTENDS Response, FiniteSets

CONSTANTS Requests,     \* requests in flight
          Shapes,       \* what a request can look like
          Deployments,  \* applications: adapter, chain and options
          Max           \* requests a limiter admits in a window

Kinds == {"cookies", "errors", "bundle", "limit", "brute", "shed", "protect",
          "validate", "handler"}

\* What the checks would find in a request, the kind of its body ("none": it is
\* empty) and whether it can be read to its end, and what the handler does.
RequestShape == [hits : SUBSET STRING, kind : STRING, readable : BOOLEAN,
                 outcome : {"write", "silent", "error", "panic"}]

ASSUME ChainAssumption ==
    /\ Max \in Nat \ {0}
    /\ Shapes \subseteq RequestShape
    /\ \A dep \in Deployments :
        /\ dep.fw \in {"gin", "echo", "chi", "fiber"}
        /\ dep.dryRun \in BOOLEAN /\ dep.block \in BOOLEAN
        /\ dep.chain \in Seq(Kinds) /\ dep.chain # <<>>
        /\ \A i \in DOMAIN dep.chain : (dep.chain[i] = "handler") = (i = Len(dep.chain))

VARIABLES d,          \* the deployment
          req,        \* req[r]: the request, see Arrived
          count,      \* count[i]: admitted in the current window by the limiter at i
          merged,     \* the fetched bot corpus has been merged into the bundled one
          reputation  \* cached verdict on the bad address: "unknown", "looking", "known"

vars == <<d, req, count, merged, reputation>>

\* A request: its shape, where it is in the chain and what it does there next,
\* the failure on its way out, the response, whether the body can still be
\* read, the decision of MiddlewareWithConfig and the telemetry events so far.
\* refusedAt, ran, by and charged record what happened to it.
Arrived(s) ==
    [shape |-> s, at |-> 1, phase |-> "enter", exc |-> "none", resp |-> Fresh,
     body |-> "full", validated |-> FALSE,
     decision |-> [verdict |-> "allow", vector |-> "none"], events |-> <<>>,
     refusedAt |-> 0, ran |-> 0, charged |-> {}]

Verdicts == {"allow", "deny", "wouldDeny"}
Vectors == {"none", "forwarded", "reputation", "scanner", "bot", "quota", "graphql", "massAssign",
            "ssrf", "prompt", "threat"}

Event == [by : {"bundle", "limit"}, verdict : Verdicts, vector : Vectors, status : Codes]

Request ==
    [shape : Shapes, at : Nat, phase : {"enter", "quota", "inspect", "leave", "end", "done"},
     exc : {"none", "error", "panic"}, resp : Responses,
     body : {"full", "drained"}, validated : BOOLEAN,
     decision : [verdict : Verdicts, vector : Vectors], events : Seq(Event),
     refusedAt : Nat, ran : Nat, charged : SUBSET Nat]

Limiters == {"bundle", "limit"}

Init ==
    /\ d \in Deployments
    /\ req \in [Requests -> {Arrived(s) : s \in {t \in Shapes : t.outcome \in d.outcomes}}]
    /\ count = [i \in DOMAIN d.chain |-> 0]
    /\ merged = FALSE
    /\ reputation = "unknown"
-----------------------------------------------------------------------------
(* Moves along the chain.                                                  *)

Kind(r) == d.chain[req[r].at]
Enters(r, fw, kind) == d.fw = fw /\ req[r].phase = "enter" /\ Kind(r) = kind
Leaves(r, fw, kind) == d.fw = fw /\ req[r].phase = "leave" /\ Kind(r) = kind

Hit(r, c) == c \in req[r].shape.hits
RefusedHere(r) == req[r].refusedAt = req[r].at

Inward(q) == [q EXCEPT !.at = @ + 1, !.phase = "enter"]
Outward(q) == IF q.at = 1 THEN [q EXCEPT !.phase = "end"] ELSE [q EXCEPT !.at = @ - 1]

\* Writing an answer.  Only fasthttp buffers; under chi's SecureCookies a
\* secureCookieWriter secures the cookies before the header map leaves.
Put(p, status) ==
    CASE d.fw = "fiber" -> Buffer(p, status)
      [] d.fw = "chi" /\ p.guarded -> Stream(Secured(p), status)
      [] OTHER -> Stream(p, status)

Refused(q, status) ==
    [q EXCEPT !.resp = Put(q.resp, status), !.refusedAt = q.at, !.phase = "leave"]

Denied(q, vector, status) ==
    [Refused(q, status) EXCEPT !.decision = [verdict |-> "deny", vector |-> vector]]

Send(q, by, verdict, vector, status) ==
    [q EXCEPT !.events =
        Append(@, [by |-> by, verdict |-> verdict, vector |-> vector, status |-> status])]

Moves(r, q) ==
    /\ req' = [req EXCEPT ![r] = q]
    /\ UNCHANGED <<d, count, merged, reputation>>

\* A standalone middleware that refuses with status or admits.
Gate(r, refuse, status) ==
    Moves(r, IF refuse THEN Refused(req[r], status) ELSE Inward(req[r]))

\* The limiter at the request's place, one atomic call: full, or one more.
Full(r) == count[req[r].at] >= Max
Charge(r, admitted, refused) ==
    LET i == req[r].at IN
    /\ req' = [req EXCEPT ![r] =
                 IF Full(r) THEN refused ELSE [admitted EXCEPT !.charged = @ \cup {i}]]
    /\ count' = IF Full(r) THEN count ELSE [count EXCEPT ![i] = @ + 1]
    /\ UNCHANGED <<d, merged, reputation>>
-----------------------------------------------------------------------------
(* The checks of MiddlewareWithConfig.                                     *)

Trips(r, c) ==
    CASE c = "reputation" -> Hit(r, "badAddress") /\ reputation = "known"
      [] c = "bot" -> Hit(r, "bot") \/ (Hit(r, "freshBot") /\ merged)
      [] OTHER -> Hit(r, c)

\* The index of the first of the checks that trips, 0 if none does.
First(r, checks) ==
    LET T == {i \in DOMAIN checks : Trips(r, checks[i])}
    IN  IF T = {} THEN 0 ELSE CHOOSE i \in T : \A j \in T : i <= j

Reaches(r, checks, c) ==
    \E i \in DOMAIN checks : checks[i] = c /\ (First(r, checks) = 0 \/ i <= First(r, checks))

\* The checks before the limiter.  A reputation that is not cached is looked
\* up in the background, and the request goes on.
Screening(r, checks) ==
    LET n == First(r, checks) IN
    /\ req' = [req EXCEPT ![r] =
                 IF n = 0 THEN [@ EXCEPT !.phase = "quota"] ELSE Denied(@, checks[n], 403)]
    /\ reputation' = IF Reaches(r, checks, "reputation") /\ Hit(r, "badAddress")
                        /\ reputation = "unknown"
                     THEN "looking" ELSE reputation
    /\ UNCHANGED <<d, count, merged>>

ScannedBodiesDrift == {"json", "form"}  \* mutant: XML forgotten
\* The kinds of body that ScanRequestForThreats reads and scans.
ScannedBodies == {"json", "form", "xml"}

RestoredNever(q) == "drained"  \* mutant: the body is not put back
\* What reading a stream leaves behind: the code puts back what it could read.
Restored(q) == IF q.shape.readable THEN q.body ELSE "drained"

\* The checks after the limiter, on a request q whose body has been read: the
\* body checks see a JSON body that could be read; the scan of block mode sees
\* the query too, and the bodies of the kinds in scanned.  In dry-run a threat
\* is recorded and the request goes on, under the security headers.
Inspecting(r, q, checks, scanned) ==
    LET seen == q.body = "full" /\ q.shape.readable
        n == IF seen /\ q.shape.kind = "json" THEN First(r, checks) ELSE 0
        threat == d.block /\ ( \/ Hit(r, "queryThreat")
                               \/ Hit(r, "bodyThreat") /\ seen /\ q.shape.kind \in scanned )
        admitted == Inward([q EXCEPT !.resp = Hardened(@)])
        flagged == [admitted EXCEPT !.decision = [verdict |-> "wouldDeny", vector |-> "threat"]]
    IN  Moves(r, CASE n # 0 -> Denied(q, checks[n], 403)
                   [] n = 0 /\ threat -> IF d.dryRun THEN flagged ELSE Denied(q, "threat", 403)
                   [] OTHER -> admitted)
-----------------------------------------------------------------------------
(* Around the chain.                                                       *)

\* The application's handler sets a cookie and a Server header, and writes,
\* returns without writing, returns an error or panics.
Handler(r) ==
    /\ req[r].phase = "enter" /\ Kind(r) = "handler"
    /\ LET q == req[r]
           set == [q.resp EXCEPT !.header.cookie = "raw", !.header.server = TRUE]
           done == Outward([q EXCEPT !.ran = @ + 1, !.phase = "leave"])
       IN  Moves(r, CASE q.shape.outcome = "write" -> [done EXCEPT !.resp = Put(set, 200)]
                      [] q.shape.outcome = "silent" -> [done EXCEPT !.resp = set]
                      [] OTHER -> [done EXCEPT !.resp = set, !.exc = q.shape.outcome])

\* The framework when the chain has returned.  gin drops an error nobody
\* handled; a panic nobody recovered ends the connection without an answer.
Finish(r) ==
    /\ req[r].phase = "end"
    /\ LET q == req[r]
           out == CASE q.exc = "panic" -> q.resp
                    [] q.exc = "error" /\ d.fw # "gin" -> Commit(q.resp, 500)
                    [] OTHER -> Commit(q.resp, q.resp.status)
       IN  Moves(r, [q EXCEPT !.resp = out, !.phase = "done"])

\* A middleware with nothing to do on the way out.
Return(r) ==
    /\ req[r].phase = "leave"
    /\ Kind(r) \in {"brute", "shed", "protect", "validate"}
    /\ Moves(r, Outward(req[r]))

\* The background fetch of the bot corpus, the background lookup of an
\* address, which may fail, and the end of a limiter's window.
MergeBotCorpus ==
    /\ ~merged
    /\ merged' = TRUE
    /\ UNCHANGED <<d, req, count, reputation>>

Lookup(found) ==
    /\ reputation = "looking"
    /\ reputation' = IF found THEN "known" ELSE "unknown"
    /\ UNCHANGED <<d, req, count, merged>>

WindowEnds(i) ==
    /\ count[i] > 0
    /\ count' = [count EXCEPT ![i] = 0]
    /\ UNCHANGED <<d, req, merged, reputation>>
=============================================================================
