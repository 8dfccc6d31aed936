--------------------------- MODULE AdaptersProofs ---------------------------
(* Theorems about Adapters, for every chain of middlewares an application   *)
(* mounts, every number of requests and every shape they have.              *)
EXTENDS Adapters, FiniteSetTheorems, TLAPS

\* How far a request has come: not yet handled or refused; let in by the checks of
\* the middleware at i that precede the limiter, by all of its checks.
Going(q) == q.phase \in {"enter", "quota", "inspect"}
LetIn(q, i) == q.ran > 0 \/ (Going(q) /\ (i < q.at \/ (i = q.at /\ q.phase # "enter")))
LetThrough(q, i) == q.ran > 0 \/ (Going(q) /\ i < q.at)

\* Where a request can be.
Placed(dep, q) ==
    /\ q.at \in DOMAIN dep.chain
    /\ q.phase \in {"quota", "inspect"} => dep.chain[q.at] = "bundle"
    /\ Going(q) => q.refusedAt = 0 /\ q.ran = 0
    /\ q.refusedAt # 0 => q.ran = 0
    /\ q.ran <= 1
    /\ q.charged \subseteq {i \in DOMAIN dep.chain : dep.chain[i] \in Limiters}

\* The checks before the limiter.
ScreenedOut(dep, q) ==
    /\ \A i \in DOMAIN dep.chain :
        dep.chain[i] = "bundle" /\ LetIn(q, i) => q.shape.hits \cap ScreenHits = {}
    /\ \A i \in q.charged :
        dep.chain[i] = "bundle" => q.shape.hits \cap (ScreenHits \cup {"skip"}) = {}

\* The input of the checks and of the handler.
Fed(dep, q) ==
    q.shape.readable =>
        /\ Going(q) \/ q.ran > 0 => q.body = "full" \/ q.validated
        /\ /\ Going(q)
           /\ dep.fw = "chi" \/ \A i \in DOMAIN dep.chain : i < q.at => dep.chain[i] # "validate"
           => q.body = "full"

\* What the scan of block mode sees.
ThreatIn(dep, s) ==
    \/ "queryThreat" \in s.hits
    \/ /\ "bodyThreat" \in s.hits /\ s.readable
       /\ s.kind \in {"json", "form"} \cup IF dep.fw = "fiber" THEN {} ELSE {"xml"}

\* The checks after the limiter.
Inspected(dep, q) ==
    \A i \in DOMAIN dep.chain :
        dep.chain[i] = "bundle" /\ LetThrough(q, i) /\ ~dep.dryRun =>
            /\ q.shape.readable /\ q.shape.kind = "json" => q.shape.hits \cap BodyHits = {}
            /\ dep.block => ~ThreatIn(dep, q.shape)

\* Behind a request on its way out: i has had its turn after its inner part.
Left(q, i) == q.phase \in {"end", "done"} \/ (q.phase = "leave" /\ i > q.at)
Sends(q, by) == {k \in DOMAIN q.events : q.events[k].by = by}

\* The decision of the one MiddlewareWithConfig, and what has been sent.
Reported(dep, q) ==
    /\ Going(q) => q.events = <<>>
    /\ (q.decision.verdict = "deny") = (q.refusedAt # 0 /\ dep.chain[q.refusedAt] = "bundle")
    /\ q.phase = "leave" /\ q.refusedAt # 0 => q.at <= q.refusedAt
    /\ q.refusedAt # 0 => q.refusedAt \in DOMAIN dep.chain
    /\ \A k \in DOMAIN q.events : \E i \in DOMAIN dep.chain : dep.chain[i] = q.events[k].by
    /\ \A i \in DOMAIN dep.chain : dep.chain[i] = "bundle" =>
        IF Left(q, i) /\ (q.refusedAt = 0 \/ q.refusedAt >= i)
        THEN \E k \in DOMAIN q.events : /\ Sends(q, "bundle") = {k}
                                        /\ q.events[k].verdict = q.decision.verdict
        ELSE Sends(q, "bundle") = {}
    /\ \A i \in DOMAIN dep.chain : dep.chain[i] = "limit" =>
        IF q.refusedAt = i /\ (Left(q, i) \/ dep.fw = "fiber")
        THEN \E k \in DOMAIN q.events : Sends(q, "limit") = {k}
        ELSE Sends(q, "limit") = {}

BrokeIn(q) == q.ran > 0 /\ q.shape.outcome \in {"error", "panic"}

\* The status in the events is the one the client gets.
StatusKept(dep, q) ==
    /\ Going(q) => ~Sent(q.resp) /\ q.resp.status = 200
    /\ q.exc # "none" => BrokeIn(q)
    /\ dep.fw = "fiber" => (Sent(q.resp) => q.phase = "done")
    /\ ~BrokeIn(q) =>
        /\ Sent(q.resp) => q.resp.wire[1].status = q.resp.status
        /\ \A k \in DOMAIN q.events : q.events[k].status = q.resp.status
        /\ q.phase = "done" => Sent(q.resp)
        /\ q.phase = "leave" /\ q.refusedAt # 0 /\ dep.chain[q.refusedAt] = "limit" => q.resp.status = 429

DryShape(s) == s.hits \subseteq BodyHits \cup ThreatHits \cup {"badAddress", "skip"}

\* What dry-run does to requests that it only observes.
Observed(dep, q) ==
    dep.dryRun /\ DryShape(q.shape) =>
        /\ ~Going(q) => q.ran = 1 \/ q.decision.vector = "quota"
        /\ q.refusedAt # 0 => q.decision.vector = "quota"
        /\ q.decision.verdict = "wouldDeny" <=>
              /\ dep.block /\ ThreatIn(dep, q.shape) /\ q.refusedAt = 0
              /\ \E i \in DOMAIN dep.chain : dep.chain[i] = "bundle" /\ LetThrough(q, i)

\* One MiddlewareWithConfig and one standalone limiter at most.
Once(dep) ==
    \A i, j \in DOMAIN dep.chain :
        dep.chain[i] = dep.chain[j] /\ dep.chain[i] \in Limiters => i = j

\* Validate, where it consumes the body, is mounted inside of MiddlewareWithConfig.
ValidatedInside(dep) ==
    \A i, j \in DOMAIN dep.chain :
        dep.fw # "chi" /\ dep.chain[i] = "bundle" /\ dep.chain[j] = "validate" => i < j

Observable(dep) ==
    dep.dryRun => /\ \A i \in DOMAIN dep.chain : dep.chain[i] \notin {"limit", "validate"}
                  /\ \E i \in DOMAIN dep.chain : dep.chain[i] = "bundle"

-----------------------------------------------------------------------------
(* What the operators of Response and Chain return. *)

\* Answers: the status that is remembered and the status on the wire.
LEMMA Answers ==
    ASSUME NEW p \in Responses, NEW st \in Codes
    PROVE  /\ Commit(p, st) \in Responses /\ Stream(p, st) \in Responses /\ Buffer(p, st) \in Responses
           /\ Sent(Commit(p, st)) /\ Commit(p, st).status = p.status
           /\ Sent(Stream(p, st))
           /\ Sent(p) => Commit(p, st) = p /\ Stream(p, st) = p
           /\ ~Sent(p) => /\ Commit(p, st).wire[1].status = st
                          /\ Stream(p, st).status = st /\ Stream(p, st).wire[1].status = st
           /\ Buffer(p, st).status = st /\ Buffer(p, st).wire = p.wire
<1>1. p.header \in HeaderMap /\ [status |-> st, header |-> p.header] \in Wire
  BY DEF Responses, Wire
<1>2. <<[status |-> st, header |-> p.header]>> # <<>>
  OBVIOUS
<1>3. ASSUME ~Sent(p) PROVE /\ Commit(p, st) \in Responses /\ Sent(Commit(p, st))
                             /\ Commit(p, st).status = p.status
                             /\ Commit(p, st).wire[1].status = st
  BY <1>1, <1>2, <1>3 DEF Commit, Responses, Sent
<1>4. ASSUME ~Sent(p) PROVE /\ Stream(p, st) \in Responses /\ Sent(Stream(p, st))
                             /\ Stream(p, st).status = st
                             /\ Stream(p, st).wire[1].status = st
  BY <1>1, <1>2, <1>4 DEF Stream, Commit, Responses, Sent
<1>5. ASSUME Sent(p) PROVE Commit(p, st) = p /\ Stream(p, st) = p
  BY <1>5 DEF Commit, Stream
<1>6. Buffer(p, st) \in Responses /\ Buffer(p, st).status = st /\ Buffer(p, st).wire = p.wire
  BY DEF Buffer, Responses
<1> QED BY <1>3, <1>4, <1>5, <1>6

\* Headers: neither status changes.
LEMMA Cosmetics ==
    ASSUME NEW p \in Responses, NEW b \in BOOLEAN,
           NEW x, x \in {Secured(p), Stripped(p), Hardened(p), [p EXCEPT !.guarded = b]}
    PROVE  x \in Responses /\ x.status = p.status /\ x.wire = p.wire
<1>1. p.header \in HeaderMap
  BY DEF Responses
<1>2. /\ [p.header EXCEPT !.cookie = "secure"] \in HeaderMap
      /\ [p.header EXCEPT !.server = FALSE] \in HeaderMap
      /\ [p.header EXCEPT !.hardened = TRUE] \in HeaderMap
  BY <1>1 DEF HeaderMap
<1>3. CASE x = Secured(p)
  BY <1>2, <1>3 DEF Secured, Responses
<1>4. CASE x = Stripped(p)
  BY <1>2, <1>4 DEF Stripped, Responses
<1>5. CASE x = Hardened(p)
  BY <1>2, <1>5 DEF Hardened, Responses
<1>6. CASE x = [p EXCEPT !.guarded = b]
  BY <1>6 DEF Responses
<1> QED BY <1>3, <1>4, <1>5, <1>6

\* Put streams except under fiber, where the answer waits for the chain.
LEMMA Written ==
    ASSUME NEW p \in Responses, NEW st \in Codes
    PROVE  /\ Put(p, st) \in Responses
           /\ ~Sent(p) => /\ Put(p, st).status = st
                          /\ Sent(Put(p, st)) => Put(p, st).wire[1].status = st
           /\ d.fw # "fiber" => Sent(Put(p, st))
           /\ d.fw = "fiber" => Put(p, st).wire = p.wire
           /\ Sent(p) => Put(p, st).wire = p.wire
<1>1. CASE d.fw = "fiber"
  BY <1>1, Answers DEF Put, Sent
<1>2. CASE d.fw = "chi" /\ p.guarded
  <2>1. Secured(p) \in Responses /\ Secured(p).wire = p.wire
    BY Cosmetics
  <2>2. Put(p, st) = Stream(Secured(p), st)
    BY <1>2 DEF Put
  <2> QED BY <1>2, <2>1, <2>2, Answers DEF Sent
<1>3. CASE d.fw # "fiber" /\ ~(d.fw = "chi" /\ p.guarded)
  <2>1. Put(p, st) = Stream(p, st)
    BY <1>3 DEF Put
  <2> QED BY <1>3, <2>1, Answers DEF Sent
<1> QED BY <1>1, <1>2, <1>3

Phases == {"enter", "quota", "inspect", "leave", "end", "done"}

\* p is q somewhere else, or on its way somewhere else.
Moved(p, q) ==
    /\ p \in Request
    /\ p.shape = q.shape /\ p.validated = q.validated /\ p.ran = q.ran /\ p.exc = q.exc
    /\ p.resp = q.resp /\ p.body = q.body /\ p.decision = q.decision /\ p.events = q.events
    /\ p.refusedAt = q.refusedAt /\ p.charged = q.charged

\* The place, the direction, and nothing else.
LEMMA Moving ==
    ASSUME NEW q \in Request, q.at >= 1
    PROVE  /\ Moved(Inward(q), q) /\ Inward(q).at = q.at + 1 /\ Inward(q).phase = "enter"
           /\ Moved(Outward(q), q)
           /\ Outward(q).at = (IF q.at = 1 THEN 1 ELSE q.at - 1)
           /\ Outward(q).phase = (IF q.at = 1 THEN "end" ELSE q.phase)
           /\ \A there \in Phases :
                /\ Moved([q EXCEPT !.phase = there], q)
                /\ [q EXCEPT !.phase = there].at = q.at /\ [q EXCEPT !.phase = there].phase = there
<1>1. q.at \in Nat /\ q.phase \in Phases
  BY DEF Request, Phases
<1>3. Moved(Inward(q), q) /\ Inward(q).at = q.at + 1 /\ Inward(q).phase = "enter"
  <2> DEFINE n == q.at + 1
             there == "enter"
             p == Inward(q)
  <2>1. p = [q EXCEPT !.at = n, !.phase = there] /\ n \in Nat /\ there \in Phases
    BY <1>1 DEF Inward, Phases
  <2>2. Moved(p, q) /\ p.at = n /\ p.phase = there
    <3> HIDE DEF n, there, p
    <3> QED BY <2>1 DEF Request, Moved, Phases
  <2> QED BY <2>2
<1>4. ASSUME NEW n \in Nat, NEW p, p = [q EXCEPT !.at = n]
      PROVE  Moved(p, q) /\ p.at = n /\ p.phase = q.phase
  BY <1>4 DEF Request, Moved
<1>5. ASSUME NEW there \in Phases, NEW p, p = [q EXCEPT !.phase = there]
      PROVE  Moved(p, q) /\ p.at = q.at /\ p.phase = there
  BY <1>5 DEF Request, Moved, Phases
<1>6. CASE q.at = 1
  <2>1. Outward(q) = [q EXCEPT !.phase = "end"] /\ "end" \in Phases
    BY <1>6 DEF Outward, Phases
  <2>2. /\ Moved(Outward(q), q) /\ Outward(q).at = q.at /\ Outward(q).phase = "end"
    BY <1>5, <2>1
  <2> QED BY <1>3, <1>5, <1>6, <2>2
<1>7. CASE q.at # 1
  <2> DEFINE n == q.at - 1
  <2>1. Outward(q) = [q EXCEPT !.at = n] /\ n \in Nat
    BY <1>1, <1>7 DEF Outward
  <2>2. Moved(Outward(q), q) /\ Outward(q).at = n /\ Outward(q).phase = q.phase
    <3> HIDE DEF n
    <3> QED BY <1>4, <2>1
  <2> QED BY <1>3, <1>5, <1>7, <2>2
<1> QED BY <1>6, <1>7

\* A refusal: an answer, and the way out from here.
RefusedFrom(p, q, status) ==
    /\ p \in Request
    /\ p.shape = q.shape /\ p.validated = q.validated /\ p.ran = q.ran /\ p.exc = q.exc
    /\ p.body = q.body /\ p.events = q.events /\ p.charged = q.charged
    /\ p.at = q.at /\ p.phase = "leave" /\ p.refusedAt = q.at
    /\ p.resp = Put(q.resp, status)

LEMMA Refusing ==
    ASSUME NEW q \in Request, NEW status \in Codes
    PROVE  /\ RefusedFrom(Refused(q, status), q, status)
           /\ Refused(q, status).decision = q.decision
           /\ \A vector \in Vectors :
                /\ RefusedFrom(Denied(q, vector, status), q, status)
                /\ Denied(q, vector, status).decision = [verdict |-> "deny", vector |-> vector]
<1>1. q.at \in Nat /\ Put(q.resp, status) \in Responses
  BY Written DEF Request
<1>2. RefusedFrom(Refused(q, status), q, status) /\ Refused(q, status).decision = q.decision
  <2> DEFINE answer == Put(q.resp, status)
  <2>1. Refused(q, status) = [q EXCEPT !.resp = answer, !.refusedAt = q.at, !.phase = "leave"]
    BY DEF Refused
  <2> HIDE DEF answer
  <2>2. answer \in Responses
    BY <1>1 DEF answer
  <2> QED BY <1>1, <2>1, <2>2, ZenonT(60) DEF Request, RefusedFrom, answer
<1>3. ASSUME NEW vector \in Vectors
      PROVE  /\ RefusedFrom(Denied(q, vector, status), q, status)
             /\ Denied(q, vector, status).decision = [verdict |-> "deny", vector |-> vector]
  <2> DEFINE decision == [verdict |-> "deny", vector |-> vector]
             p == Refused(q, status)
  <2>1. decision \in [verdict : Verdicts, vector : Vectors]
    BY DEF Verdicts
  <2>2. Denied(q, vector, status) = [p EXCEPT !.decision = decision]
    BY DEF Denied
  <2>3. p \in Request
    BY <1>2 DEF RefusedFrom
  <2> HIDE DEF decision, p
  <2>4. /\ Denied(q, vector, status) \in Request /\ Denied(q, vector, status).decision = decision
        /\ \A f \in {"shape", "validated", "ran", "exc", "body", "events", "charged", "at", "phase",
                     "refusedAt", "resp"} : Denied(q, vector, status)[f] = p[f]
    BY <2>1, <2>2, <2>3, ZenonT(60) DEF Request
  <2> QED BY <1>2, <2>4 DEF RefusedFrom, p, decision
<1> QED BY <1>2, <1>3

\* An event is appended.
LEMMA Sending ==
    ASSUME NEW q \in Request, NEW by \in {"bundle", "limit"}, NEW verdict \in Verdicts,
           NEW vector \in Vectors, NEW status \in Codes
    PROVE  LET p == Send(q, by, verdict, vector, status)
               e == [by |-> by, verdict |-> verdict, vector |-> vector, status |-> status]
           IN  /\ p \in Request
               /\ p.shape = q.shape /\ p.validated = q.validated /\ p.ran = q.ran /\ p.exc = q.exc
               /\ p.resp = q.resp /\ p.body = q.body /\ p.decision = q.decision
               /\ p.refusedAt = q.refusedAt /\ p.charged = q.charged
               /\ p.at = q.at /\ p.phase = q.phase
               /\ p.events = Append(q.events, e)
               /\ DOMAIN p.events = DOMAIN q.events \cup {Len(q.events) + 1}
               /\ Len(q.events) + 1 \notin DOMAIN q.events
               /\ \A k \in DOMAIN q.events : p.events[k] = q.events[k]
               /\ p.events[Len(q.events) + 1] = e
<1> DEFINE p == Send(q, by, verdict, vector, status)
           e == [by |-> by, verdict |-> verdict, vector |-> vector, status |-> status]
           s == Append(q.events, e)
<1>1. e \in Event /\ q.events \in Seq(Event)
  BY DEF Event, Request
<1>2. /\ s \in Seq(Event) /\ Len(s) = Len(q.events) + 1 /\ Len(q.events) \in Nat
      /\ DOMAIN s = 1 .. Len(s) /\ DOMAIN q.events = 1 .. Len(q.events)
      /\ \A k \in 1 .. Len(q.events) : s[k] = q.events[k]
      /\ s[Len(q.events) + 1] = e
  <2> HIDE DEF e
  <2> QED BY <1>1
<1>3. p = [q EXCEPT !.events = s]
  BY DEF Send
<1>4. /\ p \in Request /\ p.events = s
      /\ p.shape = q.shape /\ p.validated = q.validated /\ p.ran = q.ran /\ p.exc = q.exc
      /\ p.resp = q.resp /\ p.body = q.body /\ p.decision = q.decision
      /\ p.refusedAt = q.refusedAt /\ p.charged = q.charged
      /\ p.at = q.at /\ p.phase = q.phase
  <2> HIDE DEF s, p
  <2> QED BY <1>2, <1>3 DEF Request
<1>5. DOMAIN s = DOMAIN q.events \cup {Len(q.events) + 1} /\ Len(q.events) + 1 \notin DOMAIN q.events
  <2> HIDE DEF s
  <2> QED BY <1>2
<1> HIDE DEF p, e, s
<1>6. /\ p \in Request /\ p.events = s
      /\ DOMAIN p.events = DOMAIN q.events \cup {Len(q.events) + 1}
      /\ Len(q.events) + 1 \notin DOMAIN q.events
      /\ \A k \in DOMAIN q.events : p.events[k] = q.events[k]
      /\ p.events[Len(q.events) + 1] = e
  BY <1>2, <1>4, <1>5
<1> QED BY <1>4, <1>6 DEF p, e, s
-----------------------------------------------------------------------------
(* The steps of the four adapters, by what they do. *)

Checks == <<"forwarded">> \o (IF d.dryRun THEN <<>> ELSE <<"reputation">>) \o <<"scanner", "bot">>
BodyChecks == IF d.dryRun THEN <<>> ELSE <<"graphql", "massAssign", "ssrf", "prompt">>
Scanned == IF d.fw = "fiber" THEN FiberScannedBodies ELSE ScannedBodies

WithBody(q, b) == [q EXCEPT !.body = b]
WithAnswer(q, p) == [q EXCEPT !.resp = p]
Reread(q) == {q.body, Restored(q)}

ScreenStep(r) ==
    /\ req[r].phase = "enter" /\ Kind(r) = "bundle"
    /\ Screening(r, Checks)

QuotaStep(r) ==
    /\ req[r].phase = "quota"
    /\ LET q == [req[r] EXCEPT !.phase = "inspect"]
       IN  IF Hit(r, "skip") THEN Moves(r, q) ELSE Charge(r, q, Denied(req[r], "quota", 429))

InspectStep(r) ==
    /\ req[r].phase = "inspect"
    /\ \E b \in Reread(req[r]) : Inspecting(r, WithBody(req[r], b), BodyChecks, Scanned)

LeaveStep(r) ==
    /\ req[r].phase = "leave" /\ Kind(r) = "bundle"
    /\ \E p \in {req[r].resp, Stripped(req[r].resp)} :
          Moves(r, Outward(Send(WithAnswer(req[r], p), "bundle", req[r].decision.verdict,
                                req[r].decision.vector, p.status)))

LimitStep(r) ==
    /\ req[r].phase = "enter" /\ Kind(r) = "limit"
    /\ \/ Moves(r, Inward(req[r]))
       \/ Charge(r, Inward(req[r]),
                 Refused(IF d.fw = "fiber" THEN Send(req[r], "limit", "deny", "quota", 429) ELSE req[r], 429))

LimitLeaveStep(r) ==
    /\ req[r].phase = "leave" /\ Kind(r) = "limit"
    /\ Moves(r, Outward(IF RefusedHere(r) /\ d.fw # "fiber"
                        THEN Send(req[r], "limit", "deny", "quota", 429) ELSE req[r]))

GateStep(r) ==
    /\ req[r].phase = "enter" /\ Kind(r) \in {"brute", "shed", "protect"}
    /\ \E b \in Reread(req[r]), c \in {"brute", "shed", "suspect"}, status \in Codes :
          Moves(r, IF Hit(r, c) THEN Refused(WithBody(req[r], b), status)
                   ELSE Inward(WithBody(req[r], b)))

ValidateStep(r) ==
    /\ d.fw # "fiber"
    /\ req[r].phase = "enter" /\ Kind(r) = "validate"
    /\ \E b \in IF d.fw = "chi" THEN {Restored(req[r])} ELSE {"drained", Restored(req[r])} :
        \/ Moves(r, Inward([WithBody(req[r], b) EXCEPT !.validated = TRUE]))
        \/ Moves(r, Refused(WithBody(req[r], b), 400))

WrapStep(r) ==
    /\ req[r].phase = "enter" /\ Kind(r) \in {"cookies", "errors"}
    /\ \E p \in {req[r].resp, [req[r].resp EXCEPT !.guarded = TRUE]} :
          Moves(r, Inward(WithAnswer(req[r], p)))

UnwrapStep(r) ==
    /\ req[r].phase = "leave" /\ Kind(r) \in {"cookies", "errors"}
    /\ \E p \in {req[r].resp, Secured(req[r].resp)} :
        \/ Moves(r, Outward(WithAnswer(req[r], p)))
        \/ Moves(r, Outward(WithAnswer(req[r], [p EXCEPT !.guarded = FALSE])))

RecoverStep(r) ==
    /\ d.fw # "fiber" /\ req[r].exc # "none"
    /\ req[r].phase = "leave" /\ Kind(r) = "errors"
    /\ \E p \in {Put(req[r].resp, 500), Commit(req[r].resp, 500)} :
          Moves(r, Outward([req[r] EXCEPT !.exc = "none", !.resp = p]))

Step(r) ==
    \/ ScreenStep(r) \/ QuotaStep(r) \/ InspectStep(r) \/ LeaveStep(r)
    \/ LimitStep(r) \/ LimitLeaveStep(r) \/ GateStep(r) \/ ValidateStep(r)
    \/ WrapStep(r) \/ UnwrapStep(r) \/ RecoverStep(r)
    \/ Handler(r) \/ Return(r) \/ Finish(r)

\* WithBody and WithAnswer of what is there change nothing.
LEMMA Unchanged ==
    ASSUME NEW q \in Request
    PROVE  WithBody(q, q.body) = q /\ WithAnswer(q, q.resp) = q
BY DEF Request, WithBody, WithAnswer

\* The body or the answer, and nothing else.
LEMMA Replacing ==
    ASSUME NEW q \in Request
    PROVE  /\ \A b \in {"full", "drained"} :
                /\ WithBody(q, b) \in Request /\ WithBody(q, b).body = b
                /\ \A f \in DOMAIN q \ {"body"} : WithBody(q, b)[f] = q[f]
           /\ \A p \in Responses :
                /\ WithAnswer(q, p) \in Request /\ WithAnswer(q, p).resp = p
                /\ \A f \in DOMAIN q \ {"resp"} : WithAnswer(q, p)[f] = q[f]
           /\ DOMAIN q = {"shape", "at", "phase", "exc", "resp", "body", "validated", "decision",
                          "events", "refusedAt", "ran", "charged"}
           /\ Restored(q) \in {"full", "drained"} /\ q.body \in {"full", "drained"}
BY DEF Request, WithBody, WithAnswer, Restored

LEMMA GinSteps ==
    ASSUME TypeOK, NEW r \in Requests, GinStep(r)
    PROVE  Step(r)
<1> DEFINE q == req[r]
<1>1. q \in Request /\ q.resp \in Responses
  BY DEF TypeOK, Request
<1>2. WithBody(q, q.body) = q /\ WithAnswer(q, q.resp) = q
  BY <1>1, Unchanged
<1>3. CASE GinScreen(r)
  BY <1>3 DEF GinScreen, Enters, Step, ScreenStep, Checks
<1>4. CASE GinQuota(r)
  BY <1>4 DEF GinQuota, Step, QuotaStep
<1>5. CASE GinInspect(r)
  <2> DEFINE read == (q.shape.kind = "json" /\ ~d.dryRun) \/ (d.block /\ q.shape.kind \in ScannedBodies)
             b == IF read THEN Restored(q) ELSE q.body
  <2>1. b \in Reread(q) /\ WithBody(q, b) = IF read THEN [q EXCEPT !.body = Restored(q)] ELSE q
    BY <1>2 DEF Reread, WithBody
  <2>2. Scanned = ScannedBodies
    BY <1>5 DEF Scanned, GinInspect
  <2>3. Inspecting(r, WithBody(q, b), BodyChecks, Scanned)
    BY <1>5, <2>1, <2>2 DEF GinInspect, BodyChecks
  <2> QED BY <1>5, <2>1, <2>3 DEF GinInspect, Step, InspectStep
<1>6. CASE GinLeave(r)
  <2> DEFINE p == IF RefusedHere(r) \/ q.exc = "panic" THEN q.resp ELSE Stripped(q.resp)
             v == WithAnswer(q, p)
  <2>1. Moves(r, Outward(GinEmit(v)))
    BY <1>2, <1>6 DEF GinLeave, WithAnswer
  <2>2. p \in Responses
    BY <1>1, Cosmetics
  <2>3. v.decision = q.decision /\ v.resp = p
    <3> HIDE DEF p
    <3> QED BY <1>1, <2>2, Replacing
  <2>4. GinEmit(v) = Send(v, "bundle", q.decision.verdict, q.decision.vector, p.status)
    BY <2>3 DEF GinEmit
  <2> QED BY <1>6, <2>1, <2>4 DEF GinLeave, Leaves, Step, LeaveStep
<1>7. CASE GinRateLimit(r)
  BY <1>7 DEF GinRateLimit, Enters, Step, LimitStep
<1>8. CASE GinRateLimitLeave(r)
  BY <1>8 DEF GinRateLimitLeave, Leaves, Step, LimitLeaveStep
<1>9. CASE GinBruteForce(r) \/ GinOverload(r)
  BY <1>2, <1>9 DEF GinBruteForce, GinOverload, Gate, Enters, Step, GateStep, Reread, Codes
<1>10. CASE GinProtect(r)
  <2> DEFINE b == IF q.shape.kind = "json" THEN Restored(q) ELSE q.body
  <2>1. Moves(r, IF Hit(r, "suspect") THEN Refused(WithBody(q, b), 429) ELSE Inward(WithBody(q, b)))
    BY <1>2, <1>10 DEF GinProtect, WithBody
  <2> QED BY <1>10, <2>1 DEF GinProtect, Enters, Step, GateStep, Reread, Codes
<1>11. CASE GinValidate(r)
  BY <1>11 DEF GinValidate, Enters, Step, ValidateStep, WithBody
<1>12. CASE GinCookies(r)
  <2>1. CASE Enters(r, "gin", "cookies") /\ Moves(r, Inward(q))
    BY <1>2, <2>1 DEF Enters, Step, WrapStep
  <2>2. CASE Leaves(r, "gin", "cookies") /\ Moves(r, Outward(IF q.exc = "panic" THEN q ELSE [q EXCEPT !.resp = Secured(@)]))
    <3> DEFINE p == IF q.exc = "panic" THEN q.resp ELSE Secured(q.resp)
    <3>1. Moves(r, Outward(WithAnswer(q, p)))
      BY <1>2, <2>2 DEF WithAnswer
    <3> QED BY <2>2, <3>1 DEF Leaves, Step, UnwrapStep
  <2> QED BY <1>12, <2>1, <2>2 DEF GinCookies
<1>13. CASE GinErrors(r)
  <2>1. CASE Enters(r, "gin", "errors") /\ Moves(r, Inward(q))
    BY <1>2, <2>1 DEF Enters, Step, WrapStep
  <2>2. CASE Leaves(r, "gin", "errors") /\ q.exc = "error"
             /\ Moves(r, Outward([q EXCEPT !.exc = "none", !.resp = Put(@, 500)]))
    BY <2>2 DEF Leaves, Step, RecoverStep
  <2>3. CASE Leaves(r, "gin", "errors") /\ Moves(r, Outward(q))
    BY <1>2, <2>3 DEF Leaves, Step, UnwrapStep
  <2> QED BY <1>13, <2>1, <2>2, <2>3 DEF GinErrors
<1> QED BY <1>3, <1>4, <1>5, <1>6, <1>7, <1>8, <1>9, <1>10, <1>11, <1>12, <1>13 DEF GinStep

LEMMA EchoSteps ==
    ASSUME TypeOK, NEW r \in Requests, EchoStep(r)
    PROVE  Step(r)
<1> DEFINE q == req[r]
<1>1. q \in Request /\ q.resp \in Responses
  BY DEF TypeOK, Request
<1>2. WithBody(q, q.body) = q /\ WithAnswer(q, q.resp) = q
  BY <1>1, Unchanged
<1>3. CASE EchoScreen(r)
  BY <1>3 DEF EchoScreen, Enters, Step, ScreenStep, Checks
<1>4. CASE EchoQuota(r)
  BY <1>4 DEF EchoQuota, Step, QuotaStep
<1>5. CASE EchoInspect(r)
  <2> DEFINE read == (q.shape.kind = "json" /\ ~d.dryRun) \/ (d.block /\ q.shape.kind \in ScannedBodies)
             b == IF read THEN Restored(q) ELSE q.body
  <2>1. b \in Reread(q) /\ WithBody(q, b) = IF read THEN [q EXCEPT !.body = Restored(q)] ELSE q
    BY <1>2 DEF Reread, WithBody
  <2>2. Scanned = ScannedBodies
    BY <1>5 DEF Scanned, EchoInspect
  <2>3. Inspecting(r, WithBody(q, b), BodyChecks, Scanned)
    BY <1>5, <2>1, <2>2 DEF EchoInspect, BodyChecks
  <2> QED BY <1>5, <2>1, <2>3 DEF EchoInspect, Step, InspectStep
<1>6. CASE EchoLeave(r)
  <2> DEFINE p == IF RefusedHere(r) \/ q.exc = "panic" THEN q.resp ELSE Stripped(q.resp)
             v == WithAnswer(q, p)
  <2>1. Moves(r, Outward(EchoEmit(v)))
    BY <1>2, <1>6 DEF EchoLeave, WithAnswer
  <2>2. p \in Responses
    BY <1>1, Cosmetics
  <2>3. v.decision = q.decision /\ v.resp = p
    <3> HIDE DEF p
    <3> QED BY <1>1, <2>2, Replacing
  <2>4. EchoEmit(v) = Send(v, "bundle", q.decision.verdict, q.decision.vector, p.status)
    BY <2>3 DEF EchoEmit
  <2> QED BY <1>6, <2>1, <2>4 DEF EchoLeave, Leaves, Step, LeaveStep
<1>7. CASE EchoRateLimit(r)
  BY <1>7 DEF EchoRateLimit, Enters, Step, LimitStep
<1>8. CASE EchoRateLimitLeave(r)
  BY <1>8 DEF EchoRateLimitLeave, Leaves, Step, LimitLeaveStep
<1>9. CASE EchoBruteForce(r) \/ EchoOverload(r)
  BY <1>2, <1>9 DEF EchoBruteForce, EchoOverload, Gate, Enters, Step, GateStep, Reread, Codes
<1>10. CASE EchoProtect(r)
  <2> DEFINE b == IF q.shape.kind = "json" THEN Restored(q) ELSE q.body
  <2>1. Moves(r, IF Hit(r, "suspect") THEN Refused(WithBody(q, b), 429) ELSE Inward(WithBody(q, b)))
    BY <1>2, <1>10 DEF EchoProtect, WithBody
  <2> QED BY <1>10, <2>1 DEF EchoProtect, Enters, Step, GateStep, Reread, Codes
<1>11. CASE EchoValidate(r)
  BY <1>11 DEF EchoValidate, Enters, Step, ValidateStep, WithBody
<1>12. CASE EchoCookies(r)
  <2>1. CASE Enters(r, "echo", "cookies") /\ Moves(r, Inward(q))
    BY <1>2, <2>1 DEF Enters, Step, WrapStep
  <2>2. CASE Leaves(r, "echo", "cookies") /\ Moves(r, Outward(IF q.exc = "panic" THEN q ELSE [q EXCEPT !.resp = Secured(@)]))
    <3> DEFINE p == IF q.exc = "panic" THEN q.resp ELSE Secured(q.resp)
    <3>1. Moves(r, Outward(WithAnswer(q, p)))
      BY <1>2, <2>2 DEF WithAnswer
    <3> QED BY <2>2, <3>1 DEF Leaves, Step, UnwrapStep
  <2> QED BY <1>12, <2>1, <2>2 DEF EchoCookies
<1>13. CASE EchoErrors(r)
  <2>1. CASE Enters(r, "echo", "errors") /\ Moves(r, Inward(q))
    BY <1>2, <2>1 DEF Enters, Step, WrapStep
  <2>2. CASE Leaves(r, "echo", "errors") /\ q.exc = "error"
             /\ Moves(r, Outward([q EXCEPT !.exc = "none", !.resp = Commit(@, 500)]))
    BY <2>2 DEF Leaves, Step, RecoverStep
  <2>3. CASE Leaves(r, "echo", "errors") /\ Moves(r, Outward(q))
    BY <1>2, <2>3 DEF Leaves, Step, UnwrapStep
  <2> QED BY <1>13, <2>1, <2>2, <2>3 DEF EchoErrors
<1> QED BY <1>3, <1>4, <1>5, <1>6, <1>7, <1>8, <1>9, <1>10, <1>11, <1>12, <1>13 DEF EchoStep

LEMMA ChiSteps ==
    ASSUME TypeOK, NEW r \in Requests, ChiStep(r)
    PROVE  Step(r)
<1> DEFINE q == req[r]
<1>1. q \in Request /\ q.resp \in Responses
  BY DEF TypeOK, Request
<1>2. WithBody(q, q.body) = q /\ WithAnswer(q, q.resp) = q
  BY <1>1, Unchanged
<1>3. CASE ChiScreen(r)
  BY <1>3 DEF ChiScreen, Enters, Step, ScreenStep, Checks
<1>4. CASE ChiQuota(r)
  BY <1>4 DEF ChiQuota, Step, QuotaStep
<1>5. CASE ChiInspect(r)
  <2> DEFINE read == (q.shape.kind = "json" /\ ~d.dryRun) \/ (d.block /\ q.shape.kind \in ScannedBodies)
             b == IF read THEN Restored(q) ELSE q.body
  <2>1. b \in Reread(q) /\ WithBody(q, b) = IF read THEN [q EXCEPT !.body = Restored(q)] ELSE q
    BY <1>2 DEF Reread, WithBody
  <2>2. Scanned = ScannedBodies
    BY <1>5 DEF Scanned, ChiInspect
  <2>3. Inspecting(r, WithBody(q, b), BodyChecks, Scanned)
    BY <1>5, <2>1, <2>2 DEF ChiInspect, BodyChecks
  <2> QED BY <1>5, <2>1, <2>3 DEF ChiInspect, Step, InspectStep
<1>6. CASE ChiLeave(r)
  <2> DEFINE p == IF RefusedHere(r) \/ q.exc = "panic" THEN q.resp ELSE Stripped(q.resp)
             v == WithAnswer(q, p)
  <2>1. Moves(r, Outward(ChiEmit(v)))
    BY <1>2, <1>6 DEF ChiLeave, WithAnswer
  <2>2. p \in Responses
    BY <1>1, Cosmetics
  <2>3. v.decision = q.decision /\ v.resp = p
    <3> HIDE DEF p
    <3> QED BY <1>1, <2>2, Replacing
  <2>4. ChiEmit(v) = Send(v, "bundle", q.decision.verdict, q.decision.vector, p.status)
    BY <2>3 DEF ChiEmit
  <2> QED BY <1>6, <2>1, <2>4 DEF ChiLeave, Leaves, Step, LeaveStep
<1>7. CASE ChiRateLimit(r)
  BY <1>7 DEF ChiRateLimit, Enters, Step, LimitStep
<1>8. CASE ChiRateLimitLeave(r)
  BY <1>8 DEF ChiRateLimitLeave, Leaves, Step, LimitLeaveStep
<1>9. CASE ChiProtect(r)
  <2> DEFINE b == IF q.shape.kind = "json" THEN Restored(q) ELSE q.body
  <2>1. Moves(r, IF Hit(r, "suspect") THEN Refused(WithBody(q, b), 429) ELSE Inward(WithBody(q, b)))
    BY <1>2, <1>9 DEF ChiProtect, WithBody
  <2> QED BY <1>9, <2>1 DEF ChiProtect, Enters, Step, GateStep, Reread, Codes
<1>10. CASE ChiValidate(r)
  BY <1>10 DEF ChiValidate, Enters, Step, ValidateStep, WithBody
<1>11. CASE ChiCookies(r)
  <2>1. CASE Enters(r, "chi", "cookies") /\ Moves(r, Inward([q EXCEPT !.resp.guarded = TRUE]))
    <3>1. [q EXCEPT !.resp.guarded = TRUE] = WithAnswer(q, [q.resp EXCEPT !.guarded = TRUE])
      BY DEF WithAnswer
    <3> QED BY <2>1, <3>1 DEF Enters, Step, WrapStep
  <2>2. CASE /\ Leaves(r, "chi", "cookies")
             /\ LET p == IF q.exc = "panic" \/ Sent(q.resp) THEN q.resp ELSE Secured(q.resp)
                IN  Moves(r, Outward([q EXCEPT !.resp = [p EXCEPT !.guarded = FALSE]]))
    BY <2>2 DEF Leaves, Step, UnwrapStep, WithAnswer
  <2> QED BY <1>11, <2>1, <2>2 DEF ChiCookies
<1>12. CASE ChiErrors(r)
  <2>1. CASE Enters(r, "chi", "errors") /\ Moves(r, Inward(q))
    BY <1>2, <2>1 DEF Enters, Step, WrapStep
  <2>2. CASE Leaves(r, "chi", "errors") /\ q.exc = "panic"
             /\ Moves(r, Outward([q EXCEPT !.exc = "none", !.resp = Put(@, 500)]))
    BY <2>2 DEF Leaves, Step, RecoverStep
  <2>3. CASE Leaves(r, "chi", "errors") /\ Moves(r, Outward(q))
    BY <1>2, <2>3 DEF Leaves, Step, UnwrapStep
  <2> QED BY <1>12, <2>1, <2>2, <2>3 DEF ChiErrors
<1> QED BY <1>3, <1>4, <1>5, <1>6, <1>7, <1>8, <1>9, <1>10, <1>11, <1>12 DEF ChiStep

LEMMA FiberSteps ==
    ASSUME TypeOK, NEW r \in Requests, FiberStep(r)
    PROVE  Step(r)
<1> DEFINE q == req[r]
<1>1. q \in Request /\ q.resp \in Responses
  BY DEF TypeOK, Request
<1>2. WithBody(q, q.body) = q /\ WithAnswer(q, q.resp) = q
  BY <1>1, Unchanged
<1>3. CASE FiberScreen(r)
  BY <1>3 DEF FiberScreen, Enters, Step, ScreenStep, Checks
<1>4. CASE FiberQuota(r)
  BY <1>4 DEF FiberQuota, Step, QuotaStep
<1>5. CASE FiberInspect(r)
  <2>1. Scanned = FiberScannedBodies
    BY <1>5 DEF Scanned, FiberInspect
  <2>2. Inspecting(r, WithBody(q, q.body), BodyChecks, Scanned)
    BY <1>2, <1>5, <2>1 DEF FiberInspect, BodyChecks
  <2> QED BY <1>5, <2>2 DEF FiberInspect, Step, InspectStep, Reread
<1>6. CASE FiberLeave(r)
  <2> DEFINE p == IF RefusedHere(r) \/ q.exc # "none" THEN q.resp ELSE Stripped(q.resp)
             v == WithAnswer(q, p)
  <2>1. Moves(r, Outward(FiberEmit(v)))
    BY <1>2, <1>6 DEF FiberLeave, WithAnswer
  <2>2. p \in Responses
    BY <1>1, Cosmetics
  <2>3. v.decision = q.decision /\ v.resp = p
    <3> HIDE DEF p
    <3> QED BY <1>1, <2>2, Replacing
  <2>4. FiberEmit(v) = Send(v, "bundle", q.decision.verdict, q.decision.vector, p.status)
    BY <2>3 DEF FiberEmit
  <2> QED BY <1>6, <2>1, <2>4 DEF FiberLeave, Leaves, Step, LeaveStep
<1>7. CASE FiberRateLimit(r)
  BY <1>7 DEF FiberRateLimit, Enters, Step, LimitStep
<1>8. CASE FiberRateLimitLeave(r)
  BY <1>8 DEF FiberRateLimitLeave, Leaves, Step, LimitLeaveStep
<1>9. CASE FiberBruteForce(r) \/ FiberOverload(r) \/ FiberProtect(r)
  BY <1>2, <1>9 DEF FiberBruteForce, FiberOverload, FiberProtect, Gate, Enters, Step, GateStep, Reread, Codes
<1> QED BY <1>3, <1>4, <1>5, <1>6, <1>7, <1>8, <1>9 DEF FiberStep

\* Every step is one of these, of some request, or leaves the requests alone.
LEMMA Steps ==
    ASSUME TypeOK, [Next]_vars
    PROVE  (\E r \in Requests : Step(r)) \/ UNCHANGED <<d, req>>
<1>1. CASE \E r \in Requests : GinStep(r) \/ EchoStep(r) \/ ChiStep(r) \/ FiberStep(r)
  BY <1>1, GinSteps, EchoSteps, ChiSteps, FiberSteps
<1>2. CASE \E r \in Requests : Handler(r) \/ Return(r) \/ Finish(r)
  BY <1>2 DEF Step
<1>3. CASE MergeBotCorpus \/ (\E found \in BOOLEAN : Lookup(found))
           \/ (\E i \in DOMAIN d.chain : WindowEnds(i)) \/ UNCHANGED vars
  BY <1>3 DEF MergeBotCorpus, Lookup, WindowEnds, vars
<1> QED BY <1>1, <1>2, <1>3 DEF Next
-----------------------------------------------------------------------------
(* What a step makes of a request q of the deployment dep: the request p.   *)

Writes(dep, q, p, status) ==
    /\ ~Sent(q.resp) => /\ p.resp.status = status
                        /\ Sent(p.resp) => p.resp.wire[1].status = status
    /\ dep.fw = "fiber" => p.resp.wire = q.resp.wire

Unanswered(q, p) == p.resp.status = q.resp.status /\ p.resp.wire = q.resp.wire

Outwards(q, p) ==
    IF q.at = 1 THEN p.at = 1 /\ p.phase = "end" ELSE p.at = q.at - 1 /\ p.phase = "leave"

LimitEvent == [by |-> "limit", verdict |-> "deny", vector |-> "quota", status |-> 429]
BundleEvent(q, status) ==
    [by |-> "bundle", verdict |-> q.decision.verdict, vector |-> q.decision.vector, status |-> status]

\* Nothing that the checks after the limiter see.
Clean(dep, s) ==
    /\ s.readable /\ s.kind = "json" => s.hits \cap BodyHits = {}
    /\ dep.block => ~ThreatIn(dep, s)

\* Through the checks before the limiter, or past the limiter.
Admitted(dep, q, p) ==
    /\ dep.chain[q.at] = "bundle" /\ p.at = q.at
    /\ p.refusedAt = q.refusedAt /\ p.ran = q.ran /\ p.exc = q.exc /\ p.events = q.events
    /\ p.body = q.body /\ p.validated = q.validated /\ p.decision = q.decision /\ p.resp = q.resp
    /\ \/ /\ q.phase = "enter" /\ p.phase = "quota" /\ p.charged = q.charged
          /\ q.shape.hits \cap ScreenHits = {}
       \/ /\ q.phase = "quota" /\ p.phase = "inspect"
          /\ p.charged = q.charged \/ ("skip" \notin q.shape.hits /\ p.charged = q.charged \cup {q.at})

\* On to the next middleware.
Advanced(dep, q, p) ==
    /\ Going(q) /\ dep.chain[q.at] # "handler"
    /\ p.at = q.at + 1 /\ p.phase = "enter"
    /\ p.refusedAt = q.refusedAt /\ p.ran = q.ran /\ p.exc = q.exc /\ p.events = q.events
    /\ Unanswered(q, p)
    /\ p.charged = q.charged \/ (dep.chain[q.at] = "limit" /\ p.charged = q.charged \cup {q.at})
    /\ \/ p.validated = q.validated /\ (q.shape.readable => p.body = q.body)
       \/ /\ dep.chain[q.at] = "validate" /\ p.validated
          /\ q.shape.readable /\ dep.fw = "chi" => p.body = q.body
    /\ IF dep.chain[q.at] = "bundle"
       THEN /\ q.phase = "inspect"
            /\ p.decision = q.decision \/ p.decision.verdict = "wouldDeny"
            /\ (q.shape.readable => q.body = "full") =>
                 IF dep.dryRun /\ dep.block /\ ThreatIn(dep, q.shape)
                 THEN p.decision.verdict = "wouldDeny"
                 ELSE p.decision = q.decision /\ (dep.dryRun \/ Clean(dep, q.shape))
       ELSE q.phase = "enter" /\ p.decision = q.decision

\* Refused.
TurnedAway(dep, q, p) ==
    /\ Going(q) /\ dep.chain[q.at] # "handler"
    /\ p.at = q.at /\ p.phase = "leave" /\ p.refusedAt = q.at
    /\ p.ran = q.ran /\ p.exc = q.exc /\ p.charged = q.charged
    /\ \E status \in Codes : /\ Writes(dep, q, p, status)
                             /\ dep.chain[q.at] = "limit" => status = 429
    /\ p.events = IF dep.chain[q.at] = "limit" /\ dep.fw = "fiber"
                  THEN Append(q.events, LimitEvent) ELSE q.events
    /\ IF dep.chain[q.at] = "bundle"
       THEN /\ p.decision.verdict = "deny"
            /\ dep.dryRun /\ DryShape(q.shape) => p.decision.vector = "quota"
       ELSE p.decision = q.decision /\ (dep.chain[q.at] \in {"limit", "validate"} \/ ~DryShape(q.shape))

\* Handled.
Answered(dep, q, p) ==
    /\ q.phase = "enter" /\ dep.chain[q.at] = "handler"
    /\ Outwards(q, p) /\ p.ran = q.ran + 1
    /\ p.refusedAt = q.refusedAt /\ p.charged = q.charged /\ p.events = q.events
    /\ p.body = q.body /\ p.validated = q.validated /\ p.decision = q.decision
    /\ p.exc = q.exc \/ q.shape.outcome \in {"error", "panic"}
    /\ q.resp.status = 200 => Writes(dep, q, p, 200)

\* Back from the middleware's inner part.
Returned(dep, q, p) ==
    /\ q.phase = "leave" /\ Outwards(q, p)
    /\ p.ran = q.ran /\ p.refusedAt = q.refusedAt /\ p.charged = q.charged
    /\ p.body = q.body /\ p.validated = q.validated /\ p.decision = q.decision
    /\ p.events =
         IF dep.chain[q.at] = "bundle" THEN Append(q.events, BundleEvent(q, q.resp.status))
         ELSE IF dep.chain[q.at] = "limit" /\ q.refusedAt = q.at /\ dep.fw # "fiber"
              THEN Append(q.events, LimitEvent) ELSE q.events
    /\ \/ p.exc = q.exc /\ Unanswered(q, p)
       \/ q.exc # "none" /\ p.exc = "none" /\ dep.fw # "fiber"

\* Back from the chain.
Ended(dep, q, p) ==
    /\ q.phase = "end" /\ p.phase = "done" /\ p.at = q.at
    /\ p.ran = q.ran /\ p.refusedAt = q.refusedAt /\ p.charged = q.charged /\ p.exc = q.exc
    /\ p.body = q.body /\ p.validated = q.validated /\ p.decision = q.decision
    /\ p.events = q.events
    /\ q.exc = "none" =>
        /\ Sent(p.resp) /\ p.resp.status = q.resp.status
        /\ p.resp.wire[1].status = IF Sent(q.resp) THEN q.resp.wire[1].status ELSE q.resp.status

Effect(dep, q, p) ==
    /\ p \in Request /\ p.shape = q.shape
    /\ \/ Admitted(dep, q, p) \/ Advanced(dep, q, p) \/ TurnedAway(dep, q, p)
       \/ Answered(dep, q, p) \/ Returned(dep, q, p) \/ Ended(dep, q, p)

Becomes(r, p) == d' = d /\ req' = [req EXCEPT ![r] = p]

\* The place of a request is one of its chain, which the handler ends.
LEMMA InChain ==
    ASSUME TypeOK, NEW r \in Requests
    PROVE  /\ req[r] \in Request /\ req[r].at \in 1 .. Len(d.chain) /\ Len(d.chain) \in Nat
           /\ DOMAIN d.chain = 1 .. Len(d.chain)
           /\ Kind(r) = "handler" <=> req[r].at = Len(d.chain)
           /\ req[r].resp \in Responses /\ req[r].shape \in Shapes /\ req[r].ran \in Nat
           /\ d.fw \in {"gin", "echo", "chi", "fiber"} /\ d.dryRun \in BOOLEAN /\ d.block \in BOOLEAN
           /\ req[r].shape \in RequestShape
<1>1. d.chain \in Seq(Kinds) /\ req[r].at \in DOMAIN d.chain /\ d \in Deployments
  BY ChainAssumption DEF TypeOK
<1>2. req[r] \in Request
  BY DEF TypeOK
<1> QED BY <1>1, <1>2, ChainAssumption DEF Request, Kind

\* Of a few checks one is the first that trips.
LEMMA FirstTrips ==
    ASSUME NEW r, NEW checks, DOMAIN checks \subseteq 1 .. 4
    PROVE  \/ First(r, checks) = 0 /\ \A i \in DOMAIN checks : ~Trips(r, checks[i])
           \/ /\ First(r, checks) \in DOMAIN checks /\ First(r, checks) # 0
              /\ Trips(r, checks[First(r, checks)])
<1> DEFINE T == {i \in DOMAIN checks : Trips(r, checks[i])}
<1>1. CASE T = {}
  BY <1>1 DEF First
<1>2. CASE T # {}
  <2>1. \E i \in T : \A j \in T : i <= j
    <3>1. T \subseteq 1 .. 4
      OBVIOUS
    <3> HIDE DEF T
    <3>2. CASE 1 \in T
      BY <3>1, <3>2
    <3>3. CASE 1 \notin T /\ 2 \in T
      BY <3>1, <3>3
    <3>4. CASE 1 \notin T /\ 2 \notin T /\ 3 \in T
      BY <3>1, <3>4
    <3>5. CASE 1 \notin T /\ 2 \notin T /\ 3 \notin T
      <4>1. PICK x : x \in T
        BY <1>2
      <4> QED BY <3>1, <3>5, <4>1
    <3> QED BY <3>2, <3>3, <3>4, <3>5
  <2>2. First(r, checks) \in T
    BY <1>2, <2>1 DEF First
  <2> QED BY <2>2
<1> QED BY <1>1, <1>2

\* The checks of MiddlewareWithConfig: those before the limiter that always
\* apply are among the first.
LEMMA ChecksAre ==
    /\ DOMAIN Checks \subseteq 1 .. 4 /\ DOMAIN BodyChecks \subseteq 1 .. 4
    /\ \A c \in ScreenHits : \E i \in DOMAIN Checks : Checks[i] = c
    /\ \A i \in DOMAIN Checks : Checks[i] \in ScreenHits \cup (IF d.dryRun THEN {} ELSE {"reputation"})
    /\ IF d.dryRun THEN DOMAIN BodyChecks = {}
       ELSE \A c \in BodyHits : \E i \in DOMAIN BodyChecks : BodyChecks[i] = c
    /\ \A i \in DOMAIN BodyChecks : BodyChecks[i] \in BodyHits
<1>1. CASE d.dryRun
  <2>1. Checks = <<"forwarded">> \o <<>> \o <<"scanner", "bot">> /\ BodyChecks = <<>>
    BY <1>1 DEF Checks, BodyChecks
  <2>2. /\ DOMAIN Checks = 1 .. 3 /\ Checks[1] = "forwarded" /\ Checks[2] = "scanner" /\ Checks[3] = "bot"
        /\ DOMAIN BodyChecks = {}
    BY <2>1
  <2>3. 1 .. 3 = {1, 2, 3} /\ 1 .. 3 \subseteq 1 .. 4
    OBVIOUS
  <2> QED BY <1>1, <2>2, <2>3 DEF ScreenHits
<1>2. CASE ~d.dryRun
  <2>1. /\ Checks = <<"forwarded">> \o <<"reputation">> \o <<"scanner", "bot">>
        /\ BodyChecks = <<"graphql", "massAssign", "ssrf", "prompt">>
    BY <1>2 DEF Checks, BodyChecks
  <2>2. /\ DOMAIN Checks = 1 .. 4 /\ Checks[1] = "forwarded" /\ Checks[2] = "reputation"
        /\ Checks[3] = "scanner" /\ Checks[4] = "bot"
        /\ DOMAIN BodyChecks = 1 .. 4 /\ BodyChecks[1] = "graphql" /\ BodyChecks[2] = "massAssign"
        /\ BodyChecks[3] = "ssrf" /\ BodyChecks[4] = "prompt"
    BY <2>1
  <2>3. 1 .. 4 = {1, 2, 3, 4}
    OBVIOUS
  <2> QED BY <1>2, <2>2, <2>3 DEF ScreenHits, BodyHits
<1> QED BY <1>1, <1>2

\* A refusal answers with its status.
LEMMA Refusals ==
    ASSUME NEW q \in Request, NEW p, NEW status \in Codes, RefusedFrom(p, q, status)
    PROVE  Writes(d, q, p, status) /\ p \in Request
BY Written DEF Writes, RefusedFrom, Request, Sent

\* A charge.
LEMMA Charging ==
    ASSUME NEW q \in Request, NEW i \in Nat
    PROVE  LET p == [q EXCEPT !.charged = @ \cup {i}]
           IN  /\ p \in Request /\ p.charged = q.charged \cup {i}
               /\ \A f \in DOMAIN q \ {"charged"} : p[f] = q[f]
<1> DEFINE s == q.charged \cup {i}
<1>1. s \in SUBSET Nat
  BY DEF Request
<1> HIDE DEF s
<1>2. ASSUME NEW p, p = [q EXCEPT !.charged = s]
      PROVE  /\ p \in Request /\ p.charged = s
             /\ \A f \in DOMAIN q \ {"charged"} : p[f] = q[f]
  BY <1>1, <1>2 DEF Request
<1> QED BY <1>2 DEF s

LEMMA ScreenEffect ==
    ASSUME TypeOK, NEW r \in Requests, Placed(d, req[r]), ScreenStep(r)
    PROVE  \E p : Becomes(r, p) /\ Effect(d, req[r], p)
<1> DEFINE q == req[r]
           n == First(r, Checks)
<1>1. /\ q \in Request /\ q.at >= 1 /\ q.phase = "enter" /\ d.chain[q.at] = "bundle"
  BY InChain DEF ScreenStep, Kind
<1>2. CASE n = 0
  <2> DEFINE p == [q EXCEPT !.phase = "quota"]
  <2>1. Becomes(r, p)
    BY <1>2 DEF ScreenStep, Screening, Becomes
  <2>2. Moved(p, q) /\ p.at = q.at /\ p.phase = "quota"
    BY <1>1, Moving DEF Phases
  <2>3. ASSUME NEW c \in ScreenHits PROVE c \notin q.shape.hits
    BY <1>2, FirstTrips, ChecksAre DEF Trips, Hit, ScreenHits
  <2> HIDE DEF p
  <2>4. Admitted(d, q, p)
    BY <1>1, <2>2, <2>3 DEF Admitted, Moved
  <2> QED BY <2>1, <2>2, <2>4 DEF Effect, Moved
<1>3. CASE n # 0
  <2> DEFINE c == Checks[n]
             p == Denied(q, c, 403)
  <2>1. Becomes(r, p)
    BY <1>3 DEF ScreenStep, Screening, Becomes
  <2>2. Trips(r, c) /\ c \in ScreenHits \cup (IF d.dryRun THEN {} ELSE {"reputation"})
    BY <1>3, FirstTrips, ChecksAre
  <2> HIDE DEF c
  <2>3. c \in Vectors /\ 403 \in Codes
    <3>1. c \in {"forwarded", "scanner", "bot", "reputation"}
      BY <2>2 DEF ScreenHits
    <3> QED BY <3>1 DEF Codes, Vectors
  <2>4. RefusedFrom(p, q, 403) /\ p.decision = [verdict |-> "deny", vector |-> c]
    BY <1>1, <2>3, Refusing
  <2>5. ~(d.dryRun /\ DryShape(q.shape))
    BY <2>2 DEF DryShape, Trips, Hit, ScreenHits, BodyHits, ThreatHits
  <2> HIDE DEF p
  <2>6. TurnedAway(d, q, p)
    BY <1>1, <2>3, <2>4, <2>5, Refusals DEF TurnedAway, RefusedFrom, Going
  <2> QED BY <1>1, <2>1, <2>3, <2>4, <2>6, Refusals DEF Effect, RefusedFrom
<1> QED BY <1>2, <1>3

LEMMA QuotaEffect ==
    ASSUME TypeOK, NEW r \in Requests, Placed(d, req[r]), QuotaStep(r)
    PROVE  \E p : Becomes(r, p) /\ Effect(d, req[r], p)
<1> DEFINE q == req[r]
           v == [q EXCEPT !.phase = "inspect"]
           c == [v EXCEPT !.charged = @ \cup {q.at}]
           p == Denied(q, "quota", 429)
<1>1. q \in Request /\ q.at >= 1 /\ q.at \in Nat /\ q.phase = "quota" /\ d.chain[q.at] = "bundle"
  BY InChain DEF QuotaStep, Placed
<1>2. Moved(v, q) /\ v.at = q.at /\ v.phase = "inspect"
  BY <1>1, Moving DEF Phases
<1>3. \/ Becomes(r, v)
      \/ ~Hit(r, "skip") /\ Becomes(r, c)
      \/ Becomes(r, p)
  BY DEF QuotaStep, Moves, Charge, Becomes
<1>4. Effect(d, q, v)
  <2> HIDE DEF v
  <2> QED BY <1>1, <1>2 DEF Effect, Admitted, Moved
<1>5. ASSUME ~Hit(r, "skip") PROVE Effect(d, q, c)
  <2>1. v \in Request
    BY <1>2 DEF Moved
  <2> HIDE DEF v
  <2>2. /\ c \in Request /\ c.charged = v.charged \cup {q.at}
        /\ \A f \in DOMAIN v \ {"charged"} : c[f] = v[f]
    BY <1>1, <2>1, Charging
  <2>3. DOMAIN v = {"shape", "at", "phase", "exc", "resp", "body", "validated", "decision",
                    "events", "refusedAt", "ran", "charged"}
    BY <2>1, Replacing
  <2> HIDE DEF c
  <2> QED BY <1>1, <1>2, <1>5, <2>2, <2>3 DEF Effect, Admitted, Moved, Hit
<1>6. Effect(d, q, p)
  <2>3. "quota" \in Vectors /\ 429 \in Codes
    BY DEF Codes, Vectors
  <2>1. RefusedFrom(p, q, 429) /\ p.decision = [verdict |-> "deny", vector |-> "quota"]
    BY <1>1, <2>3, Refusing
  <2> HIDE DEF p
  <2>2. TurnedAway(d, q, p)
    BY <1>1, <2>1, <2>3, Refusals DEF TurnedAway, RefusedFrom, Going
  <2> QED BY <1>1, <2>1, <2>2, <2>3, Refusals DEF Effect, RefusedFrom
<1> QED BY <1>3, <1>4, <1>5, <1>6

\* Reading or answering on the way.
LEMMA Replaced ==
    ASSUME NEW q \in Request
    PROVE  /\ \A b \in {"full", "drained"} :
                LET v == WithBody(q, b)
                IN  /\ v \in Request /\ v.body = b
                    /\ v.shape = q.shape /\ v.at = q.at /\ v.phase = q.phase /\ v.exc = q.exc
                    /\ v.resp = q.resp /\ v.validated = q.validated /\ v.decision = q.decision
                    /\ v.events = q.events /\ v.refusedAt = q.refusedAt /\ v.ran = q.ran
                    /\ v.charged = q.charged
           /\ \A a \in Responses :
                LET v == WithAnswer(q, a)
                IN  /\ v \in Request /\ v.resp = a
                    /\ v.shape = q.shape /\ v.at = q.at /\ v.phase = q.phase /\ v.exc = q.exc
                    /\ v.body = q.body /\ v.validated = q.validated /\ v.decision = q.decision
                    /\ v.events = q.events /\ v.refusedAt = q.refusedAt /\ v.ran = q.ran
                    /\ v.charged = q.charged
BY Replacing

LEMMA InspectEffect ==
    ASSUME TypeOK, NEW r \in Requests, Placed(d, req[r]), InspectStep(r)
    PROVE  \E p : Becomes(r, p) /\ Effect(d, req[r], p)
<1> DEFINE q == req[r]
<1>1. /\ q \in Request /\ q.at >= 1 /\ q.phase = "inspect" /\ d.chain[q.at] = "bundle"
      /\ q.shape \in RequestShape /\ d.dryRun \in BOOLEAN
  BY InChain DEF InspectStep, Placed
<1>2. PICK b \in Reread(q) : Inspecting(r, WithBody(q, b), BodyChecks, Scanned)
  BY DEF InspectStep
<1>3. b \in {"full", "drained"} /\ (q.shape.readable => b = q.body)
  BY <1>1, Replacing, ZenonT(60) DEF Reread, Restored
<1> DEFINE v == WithBody(q, b)
           seen == v.body = "full" /\ v.shape.readable
           n == IF seen /\ v.shape.kind = "json" THEN First(r, BodyChecks) ELSE 0
           threat == d.block /\ ( \/ Hit(r, "queryThreat")
                                  \/ Hit(r, "bodyThreat") /\ seen /\ v.shape.kind \in Scanned )
           admitted == Inward([v EXCEPT !.resp = Hardened(@)])
           flag == [verdict |-> "wouldDeny", vector |-> "threat"]
           flagged == [admitted EXCEPT !.decision = flag]
           p == CASE n # 0 -> Denied(v, BodyChecks[n], 403)
                  [] n = 0 /\ threat -> IF d.dryRun THEN flagged ELSE Denied(v, "threat", 403)
                  [] OTHER -> admitted
<1>4. Becomes(r, p)
  BY <1>2 DEF Inspecting, Moves, Becomes
<1>5. /\ v \in Request /\ v.body = b /\ v.shape = q.shape /\ v.at = q.at /\ v.phase = q.phase
      /\ v.exc = q.exc /\ v.resp = q.resp /\ v.validated = q.validated /\ v.decision = q.decision
      /\ v.events = q.events /\ v.refusedAt = q.refusedAt /\ v.ran = q.ran /\ v.charged = q.charged
      /\ v.resp \in Responses
  BY <1>1, <1>3, Replaced DEF Request
<1>6. /\ n # 0 => ~d.dryRun /\ BodyChecks[n] \in BodyHits
      /\ n = 0 /\ seen /\ v.shape.kind = "json" /\ ~d.dryRun => q.shape.hits \cap BodyHits = {}
  <2>1. ASSUME n # 0 PROVE ~d.dryRun /\ BodyChecks[n] \in BodyHits
    BY <2>1, FirstTrips, ChecksAre
  <2>2. ASSUME n = 0, seen, v.shape.kind = "json", ~d.dryRun, NEW c \in BodyHits
        PROVE  c \notin q.shape.hits
    BY <2>2, FirstTrips, ChecksAre DEF Trips, Hit, BodyHits
  <2> QED BY <2>1, <2>2
<1>7. threat => d.block
  OBVIOUS
<1>8. (q.shape.readable => q.body = "full") => (threat <=> d.block /\ ThreatIn(d, q.shape))
  <2>1. q.shape.readable \in BOOLEAN
    BY <1>1 DEF RequestShape
  <2>2. ASSUME q.shape.readable => q.body = "full" PROVE seen <=> q.shape.readable
    BY <1>3, <1>5, <2>1, <2>2
  <2>3. Scanned = {"json", "form"} \cup IF d.fw = "fiber" THEN {} ELSE {"xml"}
    BY DEF Scanned, ScannedBodies, FiberScannedBodies
  <2> HIDE DEF seen, v
  <2> QED BY <1>5, <2>2, <2>3 DEF Hit, ThreatIn
<1>9. ASSUME NEW c \in Vectors, p = Denied(v, c, 403), ~d.dryRun PROVE Effect(d, q, p)
  <2>1. 403 \in Codes
    BY DEF Codes
  <2> HIDE DEF p, v
  <2>2. RefusedFrom(p, v, 403) /\ p.decision = [verdict |-> "deny", vector |-> c]
    BY <1>5, <1>9, <2>1, Refusing
  <2>3. Writes(d, v, p, 403) /\ p \in Request
    BY <1>5, <2>1, <2>2, Refusals
  <2>4. TurnedAway(d, q, p)
    BY <1>1, <1>5, <1>9, <2>1, <2>2, <2>3 DEF TurnedAway, RefusedFrom, Going, Writes
  <2> QED BY <1>5, <2>2, <2>3, <2>4 DEF Effect, RefusedFrom
<1>10. /\ Moved(admitted, WithAnswer(v, Hardened(v.resp)))
       /\ admitted.at = q.at + 1 /\ admitted.phase = "enter"
       /\ Unanswered(q, admitted)
       /\ admitted.shape = q.shape /\ admitted.body = b /\ admitted.decision = q.decision
  <2>1. /\ Hardened(v.resp) \in Responses /\ Hardened(v.resp).status = v.resp.status
        /\ Hardened(v.resp).wire = v.resp.wire
    BY <1>5, Cosmetics
  <2>2. admitted = Inward(WithAnswer(v, Hardened(v.resp)))
    BY DEF WithAnswer
  <2> DEFINE h == Hardened(v.resp)
  <2> HIDE DEF v, h, admitted
  <2>3. WithAnswer(v, h).at >= 1
    BY <1>1, <1>5, <2>1, Replaced DEF h
  <2> QED BY <1>1, <1>5, <2>1, <2>2, <2>3, Replaced, Moving, SMTT(60) DEF h, Moved, Unanswered
<1>11. /\ admitted.refusedAt = q.refusedAt /\ admitted.ran = q.ran /\ admitted.exc = q.exc
       /\ admitted.events = q.events /\ admitted.charged = q.charged
       /\ admitted.validated = q.validated /\ admitted \in Request
  <2>1. Hardened(v.resp) \in Responses
    BY <1>5, Cosmetics
  <2> DEFINE h == Hardened(v.resp)
  <2> HIDE DEF v, h, admitted
  <2> QED BY <1>5, <1>10, <2>1, Replaced DEF h, Moved
<1>12. CASE n = 0 /\ threat /\ d.dryRun
  <2>1. p = flagged /\ flag \in [verdict : Verdicts, vector : Vectors]
    BY <1>12 DEF Verdicts, Vectors
  <2>2. flag.verdict = "wouldDeny"
    OBVIOUS
  <2> HIDE DEF p, admitted, flag, v, threat, n
  <2>3. /\ p \in Request /\ p.decision = flag
        /\ p.shape = admitted.shape /\ p.at = admitted.at /\ p.phase = admitted.phase
        /\ p.exc = admitted.exc /\ p.resp = admitted.resp /\ p.body = admitted.body
        /\ p.validated = admitted.validated /\ p.events = admitted.events
        /\ p.refusedAt = admitted.refusedAt /\ p.ran = admitted.ran /\ p.charged = admitted.charged
    BY <1>11, <2>1 DEF Request
  <2>4. Advanced(d, q, p)
    BY <1>1, <1>3, <1>8, <1>10, <1>11, <1>12, <2>2, <2>3 DEF Advanced, Going, Unanswered
  <2> QED BY <1>4, <1>10, <2>3, <2>4 DEF Effect
<1>13. CASE n = 0 /\ ~threat
  <2>1. p = admitted
    BY <1>13
  <2>2. (q.shape.readable => q.body = "full") => d.dryRun \/ Clean(d, q.shape)
    BY <1>1, <1>3, <1>5, <1>6, <1>8, <1>13 DEF Clean
  <2> HIDE DEF p, admitted, v, threat, n
  <2>4. Advanced(d, q, p)
    BY <1>1, <1>3, <1>8, <1>10, <1>11, <1>13, <2>1, <2>2 DEF Advanced, Going, Unanswered
  <2> QED BY <1>4, <1>10, <1>11, <2>1, <2>4 DEF Effect
<1>14. CASE n # 0
  <2>1. p = Denied(v, BodyChecks[n], 403) /\ BodyChecks[n] \in Vectors /\ ~d.dryRun
    BY <1>6, <1>14 DEF Vectors, BodyHits
  <2> HIDE DEF p, v, n, threat, admitted
  <2>2. Effect(d, q, p)
    BY <1>9, <2>1
  <2> QED BY <1>4, <2>2
<1>15. CASE n = 0 /\ threat /\ ~d.dryRun
  <2>1. p = Denied(v, "threat", 403) /\ "threat" \in Vectors
    BY <1>15 DEF Vectors
  <2> QED BY <1>4, <1>9, <1>15, <2>1, ZenonT(60)
<1> QED BY <1>12, <1>13, <1>14, <1>15

LEMMA LeaveEffect ==
    ASSUME TypeOK, NEW r \in Requests, Placed(d, req[r]), LeaveStep(r)
    PROVE  \E p : Becomes(r, p) /\ Effect(d, req[r], p)
<1> DEFINE q == req[r]
<1>1. /\ q \in Request /\ q.at >= 1 /\ q.phase = "leave" /\ d.chain[q.at] = "bundle"
      /\ q.resp \in Responses /\ q.resp.status \in Codes
      /\ q.decision.verdict \in Verdicts /\ q.decision.vector \in Vectors
  BY InChain DEF LeaveStep, Kind, Request, Responses
<1>2. PICK a \in {q.resp, Stripped(q.resp)} :
        Moves(r, Outward(Send(WithAnswer(q, a), "bundle", q.decision.verdict, q.decision.vector, a.status)))
  BY DEF LeaveStep
<1>3. a \in Responses /\ a.status = q.resp.status /\ a.wire = q.resp.wire /\ a.status \in Codes
  BY <1>1, Cosmetics, ZenonT(60)
<1> DEFINE v == WithAnswer(q, a)
           s == Send(v, "bundle", q.decision.verdict, q.decision.vector, a.status)
           p == Outward(s)
<1>4. Becomes(r, p)
  BY <1>2 DEF Moves, Becomes
<1>5. /\ v \in Request /\ v.resp = a
      /\ v.shape = q.shape /\ v.at = q.at /\ v.phase = q.phase /\ v.exc = q.exc
      /\ v.body = q.body /\ v.validated = q.validated /\ v.decision = q.decision
      /\ v.events = q.events /\ v.refusedAt = q.refusedAt /\ v.ran = q.ran /\ v.charged = q.charged
  BY <1>1, <1>3, Replaced
<1>6. /\ s \in Request /\ s.resp = a
      /\ s.shape = q.shape /\ s.at = q.at /\ s.phase = q.phase /\ s.exc = q.exc
      /\ s.body = q.body /\ s.validated = q.validated /\ s.decision = q.decision
      /\ s.refusedAt = q.refusedAt /\ s.ran = q.ran /\ s.charged = q.charged
      /\ s.events = Append(q.events, BundleEvent(q, a.status))
  <2> HIDE DEF v
  <2>1. "bundle" \in {"bundle", "limit"}
    OBVIOUS
  <2> DEFINE verdict == q.decision.verdict
             vector == q.decision.vector
             status == a.status
  <2>2. BundleEvent(q, status) = [by |-> "bundle", verdict |-> verdict, vector |-> vector, status |-> status]
    BY DEF BundleEvent
  <2>3. verdict \in Verdicts /\ vector \in Vectors /\ status \in Codes
    BY <1>1, <1>3
  <2>4. s = Send(v, "bundle", verdict, vector, status)
    OBVIOUS
  <2> HIDE DEF verdict, vector, status, s
  <2>5. /\ s \in Request /\ s.resp = v.resp
        /\ s.shape = v.shape /\ s.at = v.at /\ s.phase = v.phase /\ s.exc = v.exc
        /\ s.body = v.body /\ s.validated = v.validated /\ s.decision = v.decision
        /\ s.refusedAt = v.refusedAt /\ s.ran = v.ran /\ s.charged = v.charged
        /\ s.events = Append(v.events, BundleEvent(q, status))
    BY <1>5, <2>1, <2>2, <2>3, <2>4, Sending, SMTT(60)
  <2> QED BY <1>5, <2>5 DEF status
<1> HIDE DEF s, v
<1>7. Moved(p, s) /\ Outwards(q, p)
  BY <1>1, <1>6, Moving DEF Outwards
<1> HIDE DEF p
<1>8. Returned(d, q, p)
  BY <1>1, <1>3, <1>6, <1>7 DEF Returned, Moved, Unanswered
<1> QED BY <1>4, <1>6, <1>7, <1>8 DEF Effect, Moved

LEMMA LimitEffect ==
    ASSUME TypeOK, NEW r \in Requests, Placed(d, req[r]), LimitStep(r)
    PROVE  \E p : Becomes(r, p) /\ Effect(d, req[r], p)
<1> DEFINE q == req[r]
           s == IF d.fw = "fiber" THEN Send(q, "limit", "deny", "quota", 429) ELSE q
           p == Refused(s, 429)
           a == Inward(q)
           c == [a EXCEPT !.charged = @ \cup {q.at}]
<1>1. /\ q \in Request /\ q.at >= 1 /\ q.at \in Nat /\ q.phase = "enter" /\ d.chain[q.at] = "limit"
      /\ 429 \in Codes /\ "quota" \in Vectors /\ "deny" \in Verdicts
  BY InChain DEF LimitStep, Kind, Codes, Vectors, Verdicts
<1>2. Becomes(r, p) \/ Becomes(r, a) \/ Becomes(r, c)
  BY DEF LimitStep, Charge, Moves, Becomes
<1>3. Effect(d, q, p)
  <2>1. /\ s \in Request /\ s.resp = q.resp
        /\ s.shape = q.shape /\ s.at = q.at /\ s.phase = q.phase /\ s.exc = q.exc
        /\ s.body = q.body /\ s.validated = q.validated /\ s.decision = q.decision
        /\ s.refusedAt = q.refusedAt /\ s.ran = q.ran /\ s.charged = q.charged
        /\ s.events = IF d.fw = "fiber" THEN Append(q.events, LimitEvent) ELSE q.events
    <3>1. CASE d.fw = "fiber"
      <4>1. "limit" \in {"bundle", "limit"}
        OBVIOUS
      <4> QED BY <1>1, <3>1, <4>1, Sending, SMTT(60) DEF LimitEvent
    <3> QED BY <1>1, <3>1
  <2> HIDE DEF s, p
  <2>2. RefusedFrom(p, s, 429) /\ p.decision = s.decision
    BY <1>1, <2>1, Refusing DEF p
  <2>3. Writes(d, s, p, 429) /\ p \in Request
    BY <1>1, <2>1, <2>2, Refusals
  <2>4. TurnedAway(d, q, p)
    BY <1>1, <2>1, <2>2, <2>3 DEF TurnedAway, RefusedFrom, Going, Writes
  <2> QED BY <2>1, <2>2, <2>3, <2>4 DEF Effect, RefusedFrom
<1>4. Moved(a, q) /\ a.at = q.at + 1 /\ a.phase = "enter"
  BY <1>1, Moving
<1> HIDE DEF a
<1>5. Effect(d, q, a)
  <2>1. Advanced(d, q, a)
    BY <1>1, <1>4 DEF Advanced, Moved, Going, Unanswered
  <2> QED BY <1>4, <2>1 DEF Effect, Moved
<1>6. Effect(d, q, c)
  <2>1. /\ c \in Request /\ c.charged = a.charged \cup {q.at}
        /\ \A f \in DOMAIN a \ {"charged"} : c[f] = a[f]
    BY <1>1, <1>4, Charging DEF Moved
  <2>2. DOMAIN a = {"shape", "at", "phase", "exc", "resp", "body", "validated", "decision",
                    "events", "refusedAt", "ran", "charged"}
    BY <1>4, Replacing DEF Moved
  <2> HIDE DEF c
  <2>3. Advanced(d, q, c)
    BY <1>1, <1>4, <2>1, <2>2 DEF Advanced, Moved, Going, Unanswered
  <2> QED BY <1>4, <2>1, <2>2, <2>3 DEF Effect, Moved
<1> QED BY <1>2, <1>3, <1>5, <1>6

LEMMA LimitLeaveEffect ==
    ASSUME TypeOK, NEW r \in Requests, Placed(d, req[r]), LimitLeaveStep(r)
    PROVE  \E p : Becomes(r, p) /\ Effect(d, req[r], p)
<1> DEFINE q == req[r]
           s == IF RefusedHere(r) /\ d.fw # "fiber" THEN Send(q, "limit", "deny", "quota", 429) ELSE q
           p == Outward(s)
<1>1. /\ q \in Request /\ q.at >= 1 /\ q.at \in Nat /\ q.phase = "leave" /\ d.chain[q.at] = "limit"
      /\ 429 \in Codes /\ "quota" \in Vectors /\ "deny" \in Verdicts
  BY InChain DEF LimitLeaveStep, Kind, Codes, Vectors, Verdicts
<1>2. Becomes(r, p)
  BY DEF LimitLeaveStep, Moves, Becomes
<1>3. /\ s \in Request /\ s.resp = q.resp
      /\ s.shape = q.shape /\ s.at = q.at /\ s.phase = q.phase /\ s.exc = q.exc
      /\ s.body = q.body /\ s.validated = q.validated /\ s.decision = q.decision
      /\ s.refusedAt = q.refusedAt /\ s.ran = q.ran /\ s.charged = q.charged
      /\ s.events = IF q.refusedAt = q.at /\ d.fw # "fiber" THEN Append(q.events, LimitEvent) ELSE q.events
  <2>1. CASE RefusedHere(r) /\ d.fw # "fiber"
    <3>1. "limit" \in {"bundle", "limit"}
      OBVIOUS
    <3> QED BY <1>1, <2>1, <3>1, Sending, SMTT(60) DEF LimitEvent, RefusedHere
  <2> QED BY <1>1, <2>1 DEF RefusedHere
<1> HIDE DEF s
<1>4. Moved(p, s) /\ Outwards(q, p)
  BY <1>1, <1>3, Moving DEF Outwards
<1> HIDE DEF p
<1>5. Returned(d, q, p)
  BY <1>1, <1>3, <1>4 DEF Returned, Moved, Unanswered
<1> QED BY <1>2, <1>3, <1>4, <1>5 DEF Effect, Moved

LEMMA GateEffect ==
    ASSUME TypeOK, NEW r \in Requests, Placed(d, req[r]), GateStep(r)
    PROVE  \E p : Becomes(r, p) /\ Effect(d, req[r], p)
<1> DEFINE q == req[r]
<1>1. q \in Request /\ q.at >= 1 /\ q.phase = "enter" /\ d.chain[q.at] \in {"brute", "shed", "protect"}
  BY InChain DEF GateStep, Kind
<1>2. PICK b \in Reread(q), status \in Codes :
        \/ Moves(r, Refused(WithBody(q, b), status)) /\ ~DryShape(q.shape)
        \/ Moves(r, Inward(WithBody(q, b)))
  BY DEF GateStep, Hit, DryShape, BodyHits, ThreatHits
<1>3. b \in {"full", "drained"} /\ (q.shape.readable => b = q.body)
  BY <1>1, Replacing, ZenonT(60) DEF Reread, Restored
<1> DEFINE v == WithBody(q, b)
           a == Inward(v)
           p == Refused(v, status)
<1>4. (Becomes(r, p) /\ ~DryShape(q.shape)) \/ Becomes(r, a)
  BY <1>2 DEF Moves, Becomes
<1>5. /\ v \in Request /\ v.body = b
      /\ v.shape = q.shape /\ v.at = q.at /\ v.phase = q.phase /\ v.exc = q.exc
      /\ v.resp = q.resp /\ v.validated = q.validated /\ v.decision = q.decision
      /\ v.events = q.events /\ v.refusedAt = q.refusedAt /\ v.ran = q.ran /\ v.charged = q.charged
  BY <1>1, <1>3, Replaced
<1> HIDE DEF v
<1>6. Effect(d, q, a)
  <2>1. Moved(a, v) /\ a.at = q.at + 1 /\ a.phase = "enter"
    BY <1>1, <1>5, Moving
  <2> HIDE DEF a
  <2>2. Advanced(d, q, a)
    BY <1>1, <1>3, <1>5, <2>1 DEF Advanced, Moved, Going, Unanswered
  <2> QED BY <1>5, <2>1, <2>2 DEF Effect, Moved
<1>7. ASSUME ~DryShape(q.shape) PROVE Effect(d, q, p)
  <2>1. RefusedFrom(p, v, status) /\ p.decision = q.decision
    BY <1>5, Refusing
  <2> HIDE DEF p
  <2>2. Writes(d, v, p, status) /\ p \in Request
    BY <1>5, <2>1, Refusals
  <2>3. TurnedAway(d, q, p)
    BY <1>1, <1>5, <1>7, <2>1, <2>2 DEF TurnedAway, RefusedFrom, Going, Writes
  <2> QED BY <1>5, <2>1, <2>2, <2>3 DEF Effect, RefusedFrom
<1> QED BY <1>4, <1>6, <1>7

LEMMA ValidateEffect ==
    ASSUME TypeOK, NEW r \in Requests, Placed(d, req[r]), ValidateStep(r)
    PROVE  \E p : Becomes(r, p) /\ Effect(d, req[r], p)
<1> DEFINE q == req[r]
<1>1. q \in Request /\ q.at >= 1 /\ q.phase = "enter" /\ d.chain[q.at] = "validate" /\ 400 \in Codes
  BY InChain DEF ValidateStep, Kind, Codes
<1>2. PICK b \in IF d.fw = "chi" THEN {Restored(q)} ELSE {"drained", Restored(q)} :
        \/ Moves(r, Inward([WithBody(q, b) EXCEPT !.validated = TRUE]))
        \/ Moves(r, Refused(WithBody(q, b), 400))
  BY DEF ValidateStep
<1>3. b \in {"full", "drained"} /\ (q.shape.readable /\ d.fw = "chi" => b = q.body)
  BY <1>1, Replacing, ZenonT(60) DEF Restored
<1> DEFINE v == WithBody(q, b)
           t == [v EXCEPT !.validated = TRUE]
           a == Inward(t)
           p == Refused(v, 400)
<1>4. Becomes(r, p) \/ Becomes(r, a)
  BY <1>2 DEF Moves, Becomes
<1>5. /\ v \in Request /\ v.body = b
      /\ v.shape = q.shape /\ v.at = q.at /\ v.phase = q.phase /\ v.exc = q.exc
      /\ v.resp = q.resp /\ v.validated = q.validated /\ v.decision = q.decision
      /\ v.events = q.events /\ v.refusedAt = q.refusedAt /\ v.ran = q.ran /\ v.charged = q.charged
  BY <1>1, <1>3, Replaced
<1> HIDE DEF v
<1>6. Effect(d, q, a)
  <2>1. /\ t \in Request /\ t.validated
        /\ t.shape = v.shape /\ t.at = v.at /\ t.phase = v.phase /\ t.exc = v.exc
        /\ t.resp = v.resp /\ t.body = v.body /\ t.decision = v.decision
        /\ t.events = v.events /\ t.refusedAt = v.refusedAt /\ t.ran = v.ran /\ t.charged = v.charged
    BY <1>5 DEF Request
  <2> HIDE DEF t
  <2>2. Moved(a, t) /\ a.at = q.at + 1 /\ a.phase = "enter"
    BY <1>1, <1>5, <2>1, Moving
  <2> HIDE DEF a
  <2>3. Advanced(d, q, a)
    BY <1>1, <1>3, <1>5, <2>1, <2>2, ZenonT(60) DEF Advanced, Moved, Going, Unanswered
  <2> QED BY <1>5, <2>1, <2>2, <2>3 DEF Effect, Moved
<1>7. Effect(d, q, p)
  <2>1. RefusedFrom(p, v, 400) /\ p.decision = q.decision
    BY <1>1, <1>5, Refusing
  <2> HIDE DEF p
  <2>2. Writes(d, v, p, 400) /\ p \in Request
    BY <1>1, <1>5, <2>1, Refusals
  <2>3. TurnedAway(d, q, p)
    BY <1>1, <1>5, <2>1, <2>2 DEF TurnedAway, RefusedFrom, Going, Writes
  <2> QED BY <1>5, <2>1, <2>2, <2>3 DEF Effect, RefusedFrom
<1> QED BY <1>4, <1>6, <1>7

LEMMA WrapEffect ==
    ASSUME TypeOK, NEW r \in Requests, Placed(d, req[r]), WrapStep(r)
    PROVE  \E p : Becomes(r, p) /\ Effect(d, req[r], p)
<1> DEFINE q == req[r]
<1>1. /\ q \in Request /\ q.at >= 1 /\ q.phase = "enter" /\ d.chain[q.at] \in {"cookies", "errors"}
      /\ q.resp \in Responses
  BY InChain DEF WrapStep, Kind
<1>2. PICK a \in {q.resp, [q.resp EXCEPT !.guarded = TRUE]} : Moves(r, Inward(WithAnswer(q, a)))
  BY DEF WrapStep
<1>3. a \in Responses /\ a.status = q.resp.status /\ a.wire = q.resp.wire
  BY <1>1, Cosmetics, ZenonT(60)
<1> DEFINE v == WithAnswer(q, a)
           p == Inward(v)
<1>4. Becomes(r, p)
  BY <1>2 DEF Moves, Becomes
<1>5. /\ v \in Request /\ v.resp = a
      /\ v.shape = q.shape /\ v.at = q.at /\ v.phase = q.phase /\ v.exc = q.exc
      /\ v.body = q.body /\ v.validated = q.validated /\ v.decision = q.decision
      /\ v.events = q.events /\ v.refusedAt = q.refusedAt /\ v.ran = q.ran /\ v.charged = q.charged
  BY <1>1, <1>3, Replaced
<1> HIDE DEF v
<1>6. Moved(p, v) /\ p.at = q.at + 1 /\ p.phase = "enter"
  BY <1>1, <1>5, Moving
<1> HIDE DEF p
<1>7. Advanced(d, q, p)
  BY <1>1, <1>3, <1>5, <1>6 DEF Advanced, Moved, Going, Unanswered
<1> QED BY <1>4, <1>5, <1>6, <1>7 DEF Effect, Moved

LEMMA UnwrapEffect ==
    ASSUME TypeOK, NEW r \in Requests, Placed(d, req[r]), UnwrapStep(r)
    PROVE  \E p : Becomes(r, p) /\ Effect(d, req[r], p)
<1> DEFINE q == req[r]
<1>1. /\ q \in Request /\ q.at >= 1 /\ q.phase = "leave" /\ d.chain[q.at] \in {"cookies", "errors"}
      /\ q.resp \in Responses
  BY InChain DEF UnwrapStep, Kind
<1>2. PICK a \in Responses : /\ a.status = q.resp.status /\ a.wire = q.resp.wire
                             /\ Moves(r, Outward(WithAnswer(q, a)))
  <2>1. PICK c \in {q.resp, Secured(q.resp)} :
           \/ Moves(r, Outward(WithAnswer(q, c)))
           \/ Moves(r, Outward(WithAnswer(q, [c EXCEPT !.guarded = FALSE])))
    BY DEF UnwrapStep
  <2>2. c \in Responses /\ c.status = q.resp.status /\ c.wire = q.resp.wire
    BY <1>1, Cosmetics, ZenonT(60)
  <2>3. LET g == [c EXCEPT !.guarded = FALSE]
        IN  g \in Responses /\ g.status = q.resp.status /\ g.wire = q.resp.wire
    BY <2>2, Cosmetics
  <2> QED BY <2>1, <2>2, <2>3
<1> DEFINE v == WithAnswer(q, a)
           p == Outward(v)
<1>4. Becomes(r, p)
  BY <1>2 DEF Moves, Becomes
<1>5. /\ v \in Request /\ v.resp = a
      /\ v.shape = q.shape /\ v.at = q.at /\ v.phase = q.phase /\ v.exc = q.exc
      /\ v.body = q.body /\ v.validated = q.validated /\ v.decision = q.decision
      /\ v.events = q.events /\ v.refusedAt = q.refusedAt /\ v.ran = q.ran /\ v.charged = q.charged
  BY <1>1, Replaced
<1> HIDE DEF v
<1>6. Moved(p, v) /\ Outwards(q, p)
  BY <1>1, <1>5, Moving DEF Outwards
<1> HIDE DEF p
<1>7. Returned(d, q, p)
  BY <1>1, <1>2, <1>5, <1>6 DEF Returned, Moved, Unanswered
<1> QED BY <1>4, <1>5, <1>6, <1>7 DEF Effect, Moved

LEMMA RecoverEffect ==
    ASSUME TypeOK, NEW r \in Requests, Placed(d, req[r]), RecoverStep(r)
    PROVE  \E p : Becomes(r, p) /\ Effect(d, req[r], p)
<1> DEFINE q == req[r]
<1>1. /\ q \in Request /\ q.at >= 1 /\ q.phase = "leave" /\ d.chain[q.at] = "errors"
      /\ q.resp \in Responses /\ q.exc # "none" /\ d.fw # "fiber" /\ 500 \in Codes
  BY InChain DEF RecoverStep, Kind, Codes
<1>2. PICK a \in {Put(q.resp, 500), Commit(q.resp, 500)} :
        Moves(r, Outward([q EXCEPT !.exc = "none", !.resp = a]))
  BY ZenonT(60) DEF RecoverStep
<1>3. a \in Responses
  BY <1>1, Written, Answers
<1> DEFINE v == [q EXCEPT !.exc = "none", !.resp = a]
           p == Outward(v)
<1>4. Becomes(r, p)
  BY <1>2 DEF Moves, Becomes
<1>5. /\ v \in Request /\ v.exc = "none"
      /\ v.shape = q.shape /\ v.at = q.at /\ v.phase = q.phase
      /\ v.body = q.body /\ v.validated = q.validated /\ v.decision = q.decision
      /\ v.events = q.events /\ v.refusedAt = q.refusedAt /\ v.ran = q.ran /\ v.charged = q.charged
  <2>1. v = [q EXCEPT !.exc = "none", !.resp = a]
    OBVIOUS
  <2> HIDE DEF q, v
  <2> QED BY <1>1, <1>3, <2>1, ZenonT(60) DEF Request
<1> HIDE DEF v
<1>6. Moved(p, v) /\ Outwards(q, p)
  BY <1>1, <1>5, Moving DEF Outwards
<1> HIDE DEF p
<1>7. Returned(d, q, p)
  BY <1>1, <1>5, <1>6 DEF Returned, Moved
<1> QED BY <1>4, <1>5, <1>6, <1>7 DEF Effect, Moved

LEMMA HandlerEffect ==
    ASSUME TypeOK, NEW r \in Requests, Placed(d, req[r]), Handler(r)
    PROVE  \E p : Becomes(r, p) /\ Effect(d, req[r], p)
<1> DEFINE q == req[r]
           set == [q.resp EXCEPT !.header.cookie = "raw", !.header.server = TRUE]
           v == [q EXCEPT !.ran = @ + 1, !.phase = "leave"]
           done == Outward(v)
           wrote == [done EXCEPT !.resp = Put(set, 200)]
           silent == [done EXCEPT !.resp = set]
           broke == [done EXCEPT !.resp = set, !.exc = q.shape.outcome]
<1>1. /\ q \in Request /\ q.at >= 1 /\ q.phase = "enter" /\ d.chain[q.at] = "handler"
      /\ q.resp \in Responses /\ q.ran \in Nat /\ 200 \in Codes
      /\ q.shape.outcome \in {"write", "silent", "error", "panic"}
  BY InChain DEF Handler, Kind, Codes, RequestShape
<1>2. \/ Becomes(r, wrote) \/ Becomes(r, silent)
      \/ q.shape.outcome \in {"error", "panic"} /\ Becomes(r, broke)
  BY <1>1 DEF Handler, Moves, Becomes
<1>3. set \in Responses /\ set.status = q.resp.status /\ set.wire = q.resp.wire
  <2> DEFINE h == [q.resp.header EXCEPT !.cookie = "raw", !.server = TRUE]
  <2>1. set = [q.resp EXCEPT !.header = h]
    BY <1>1 DEF Responses
  <2>2. h \in HeaderMap
    <3>1. q.resp.header \in HeaderMap
      BY <1>1 DEF Responses
    <3>2. [q.resp.header EXCEPT !.cookie = "raw"] \in HeaderMap
      BY <3>1 DEF HeaderMap
    <3> QED BY <3>1, <3>2 DEF HeaderMap
  <2> HIDE DEF h, set
  <2> QED BY <1>1, <2>1, <2>2 DEF Responses
<1>4. /\ v \in Request /\ v.ran = q.ran + 1 /\ v.phase = "leave"
      /\ v.shape = q.shape /\ v.at = q.at /\ v.exc = q.exc /\ v.resp = q.resp
      /\ v.body = q.body /\ v.validated = q.validated /\ v.decision = q.decision
      /\ v.events = q.events /\ v.refusedAt = q.refusedAt /\ v.charged = q.charged
  <2> DEFINE n == q.ran + 1
  <2>1. v = [q EXCEPT !.ran = n, !.phase = "leave"] /\ n \in Nat
    BY <1>1
  <2> HIDE DEF v, n, q
  <2> QED BY <1>1, <2>1 DEF Request, n
<1> HIDE DEF v, set
<1>5. Moved(done, v) /\ Outwards(q, done)
  BY <1>1, <1>4, Moving DEF Outwards
<1>6. done \in Request
  BY <1>5 DEF Moved
<1> HIDE DEF done
<1>7. ASSUME NEW a \in Responses, NEW p, p = [done EXCEPT !.resp = a],
             q.resp.status = 200 => /\ ~Sent(q.resp) => a.status = 200 /\ (Sent(a) => a.wire[1].status = 200)
                                    /\ d.fw = "fiber" => a.wire = q.resp.wire
      PROVE  Effect(d, q, p)
  <2>1. /\ p \in Request /\ p.resp = a
        /\ p.shape = done.shape /\ p.at = done.at /\ p.phase = done.phase /\ p.exc = done.exc
        /\ p.body = done.body /\ p.validated = done.validated /\ p.decision = done.decision
        /\ p.events = done.events /\ p.refusedAt = done.refusedAt /\ p.ran = done.ran
        /\ p.charged = done.charged
    BY <1>6, <1>7 DEF Request
  <2>2. Answered(d, q, p)
    BY <1>1, <1>4, <1>5, <1>7, <2>1 DEF Answered, Moved, Outwards, Writes
  <2> QED BY <1>4, <1>5, <2>1, <2>2 DEF Effect, Moved
<1>8. Effect(d, q, wrote)
  <2>1. /\ Put(set, 200) \in Responses
        /\ ~Sent(q.resp) => /\ Put(set, 200).status = 200
                            /\ Sent(Put(set, 200)) => Put(set, 200).wire[1].status = 200
        /\ d.fw = "fiber" => Put(set, 200).wire = q.resp.wire
    BY <1>1, <1>3, Written DEF Sent
  <2> QED BY <1>7, <2>1
<1>9. Effect(d, q, silent)
  <2>1. ~Sent(q.resp) => ~Sent(set)
    BY <1>3 DEF Sent
  <2> QED BY <1>3, <1>7, <2>1
<1>10. ASSUME q.shape.outcome \in {"error", "panic"} PROVE Effect(d, q, broke)
  <2> DEFINE out == q.shape.outcome
  <2>1. broke = [done EXCEPT !.resp = set, !.exc = out] /\ out \in {"error", "panic"}
    BY <1>10
  <2> HIDE DEF broke, out
  <2>2. /\ broke \in Request /\ broke.resp = set
        /\ broke.shape = done.shape /\ broke.at = done.at /\ broke.phase = done.phase
        /\ broke.body = done.body /\ broke.validated = done.validated /\ broke.decision = done.decision
        /\ broke.events = done.events /\ broke.refusedAt = done.refusedAt /\ broke.ran = done.ran
        /\ broke.charged = done.charged
    BY <1>3, <1>6, <2>1 DEF Request
  <2>3. Answered(d, q, broke)
    BY <1>1, <1>3, <1>4, <1>5, <1>10, <2>2 DEF Answered, Moved, Outwards, Writes, Sent
  <2> QED BY <1>4, <1>5, <2>2, <2>3 DEF Effect, Moved
<1> QED BY <1>2, <1>8, <1>9, <1>10

LEMMA ReturnEffect ==
    ASSUME TypeOK, NEW r \in Requests, Placed(d, req[r]), Return(r)
    PROVE  \E p : Becomes(r, p) /\ Effect(d, req[r], p)
<1> DEFINE q == req[r]
           p == Outward(q)
<1>1. /\ q \in Request /\ q.at >= 1 /\ q.phase = "leave"
      /\ d.chain[q.at] \in {"brute", "shed", "protect", "validate"}
  BY InChain DEF Return, Kind
<1>2. Becomes(r, p)
  BY DEF Return, Moves, Becomes
<1>3. Moved(p, q) /\ Outwards(q, p)
  BY <1>1, Moving DEF Outwards
<1> HIDE DEF p
<1>4. Returned(d, q, p)
  BY <1>1, <1>3 DEF Returned, Moved, Unanswered
<1> QED BY <1>2, <1>3, <1>4 DEF Effect, Moved

LEMMA FinishEffect ==
    ASSUME TypeOK, NEW r \in Requests, Placed(d, req[r]), Finish(r)
    PROVE  \E p : Becomes(r, p) /\ Effect(d, req[r], p)
<1> DEFINE q == req[r]
           out == CASE q.exc = "panic" -> q.resp
                    [] q.exc = "error" /\ d.fw # "gin" -> Commit(q.resp, 500)
                    [] OTHER -> Commit(q.resp, q.resp.status)
           p == [q EXCEPT !.resp = out, !.phase = "done"]
<1>1. /\ q \in Request /\ q.phase = "end" /\ q.resp \in Responses
      /\ q.resp.status \in Codes /\ 500 \in Codes
  BY InChain DEF Finish, Codes, Responses
<1>2. Becomes(r, p)
  BY DEF Finish, Moves, Becomes
<1>3. /\ out \in Responses
      /\ q.exc = "none" =>
            /\ Sent(out) /\ out.status = q.resp.status
            /\ out.wire[1].status = IF Sent(q.resp) THEN q.resp.wire[1].status ELSE q.resp.status
  <2>1. CASE q.exc = "panic"
    BY <1>1, <2>1
  <2>2. CASE q.exc = "error" /\ d.fw # "gin"
    <3>1. out = Commit(q.resp, 500)
      BY <2>2
    <3> QED BY <1>1, <2>2, <3>1, Answers
  <2>3. CASE q.exc # "panic" /\ ~(q.exc = "error" /\ d.fw # "gin")
    <3>1. out = Commit(q.resp, q.resp.status)
      BY <2>3
    <3> DEFINE a == q.resp
               st == q.resp.status
    <3>2. a \in Responses /\ st \in Codes /\ st = a.status
      BY <1>1
    <3> HIDE DEF a, st
    <3>3. Commit(a, st) \in Responses /\ Sent(Commit(a, st)) /\ Commit(a, st).status = st
      BY <3>2, Answers
    <3>4. Commit(a, st).wire[1].status = IF Sent(a) THEN a.wire[1].status ELSE st
      BY <3>2, Answers
    <3> HIDE DEF out
    <3> QED BY <3>1, <3>3, <3>4 DEF a, st
  <2> QED BY <2>1, <2>2, <2>3
<1>4. p = [q EXCEPT !.resp = out, !.phase = "done"]
  OBVIOUS
<1> HIDE DEF out, p
<1>5. /\ p \in Request /\ p.resp = out /\ p.phase = "done"
      /\ p.shape = q.shape /\ p.at = q.at /\ p.exc = q.exc
      /\ p.body = q.body /\ p.validated = q.validated /\ p.decision = q.decision
      /\ p.events = q.events /\ p.refusedAt = q.refusedAt /\ p.ran = q.ran /\ p.charged = q.charged
  <2> HIDE DEF q
  <2> QED BY <1>1, <1>3, <1>4 DEF Request
<1>6. Ended(d, q, p)
  BY <1>1, <1>3, <1>5 DEF Ended
<1> QED BY <1>2, <1>5, <1>6 DEF Effect

\* Every step of a request is one of the six.
LEMMA Effects ==
    ASSUME TypeOK, NEW r \in Requests, Placed(d, req[r]), Step(r)
    PROVE  \E p : Becomes(r, p) /\ Effect(d, req[r], p)
BY ScreenEffect, QuotaEffect, InspectEffect, LeaveEffect, LimitEffect, LimitLeaveEffect, GateEffect,
   ValidateEffect, WrapEffect, UnwrapEffect, RecoverEffect, HandlerEffect, ReturnEffect, FinishEffect
   DEF Step
-----------------------------------------------------------------------------
(* The inductive invariant, for one request. *)

\* A deployment's chain: its places are numbers, and the handler is its end.
LEMMA ChainOf ==
    ASSUME NEW dep \in Deployments
    PROVE  /\ Len(dep.chain) \in Nat /\ Len(dep.chain) >= 1 /\ DOMAIN dep.chain = 1 .. Len(dep.chain)
           /\ \A i \in 1 .. Len(dep.chain) : dep.chain[i] = "handler" <=> i = Len(dep.chain)
           /\ dep.fw \in {"gin", "echo", "chi", "fiber"} /\ dep.dryRun \in BOOLEAN
BY ChainAssumption

LEMMA PlacedKept ==
    ASSUME NEW dep \in Deployments, NEW q \in Request, NEW p, Effect(dep, q, p), Placed(dep, q)
    PROVE  Placed(dep, p)
<1>1. /\ q.at \in 1 .. Len(dep.chain) /\ Len(dep.chain) \in Nat /\ q.ran \in Nat /\ q.refusedAt \in Nat
      /\ p.at \in Nat
      /\ DOMAIN dep.chain = 1 .. Len(dep.chain)
      /\ \A i \in 1 .. Len(dep.chain) : dep.chain[i] = "handler" <=> i = Len(dep.chain)
  BY ChainOf DEF Placed, Request, Effect
<1>2. CASE Admitted(dep, q, p)
  BY <1>1, <1>2 DEF Admitted, Placed, Going, Limiters
<1>3. CASE Advanced(dep, q, p)
  BY <1>1, <1>3 DEF Advanced, Placed, Going, Limiters
<1>4. CASE TurnedAway(dep, q, p)
  BY <1>1, <1>4 DEF TurnedAway, Placed, Going
<1>5. CASE Answered(dep, q, p)
  BY <1>1, <1>5 DEF Answered, Outwards, Placed, Going
<1>6. CASE Returned(dep, q, p)
  BY <1>1, <1>6 DEF Returned, Outwards, Placed, Going
<1>7. CASE Ended(dep, q, p)
  BY <1>1, <1>7 DEF Ended, Placed, Going
<1> QED BY <1>2, <1>3, <1>4, <1>5, <1>6, <1>7 DEF Effect

LEMMA ScreenedKept ==
    ASSUME NEW dep \in Deployments, NEW q \in Request, NEW p, Effect(dep, q, p), Placed(dep, q),
           ScreenedOut(dep, q)
    PROVE  ScreenedOut(dep, p)
<1>1. /\ q.at \in 1 .. Len(dep.chain) /\ Len(dep.chain) \in Nat /\ q.ran \in Nat
      /\ DOMAIN dep.chain = 1 .. Len(dep.chain) /\ p.shape = q.shape
      /\ \A i \in 1 .. Len(dep.chain) : dep.chain[i] = "handler" <=> i = Len(dep.chain)
  BY ChainOf DEF Placed, Request, Effect
<1>2. ASSUME Admitted(dep, q, p) PROVE ScreenedOut(dep, p)
  BY <1>1, <1>2 DEF Admitted, ScreenedOut, Placed, LetIn, Going
<1>3. CASE Advanced(dep, q, p)
  BY <1>1, <1>3 DEF Advanced, ScreenedOut, Placed, LetIn, Going
<1>4. CASE TurnedAway(dep, q, p)
  BY <1>1, <1>4 DEF TurnedAway, ScreenedOut, Placed, LetIn, Going
<1>5. CASE Answered(dep, q, p)
  BY <1>1, <1>5 DEF Answered, Outwards, ScreenedOut, Placed, LetIn, Going
<1>6. CASE Returned(dep, q, p)
  BY <1>1, <1>6 DEF Returned, Outwards, ScreenedOut, Placed, LetIn, Going
<1>7. CASE Ended(dep, q, p)
  BY <1>1, <1>7 DEF Ended, ScreenedOut, Placed, LetIn, Going
<1> QED BY <1>2, <1>3, <1>4, <1>5, <1>6, <1>7 DEF Effect

LEMMA FedKept ==
    ASSUME NEW dep \in Deployments, NEW q \in Request, NEW p, Effect(dep, q, p), Placed(dep, q),
           Fed(dep, q)
    PROVE  Fed(dep, p)
<1>1. /\ q.at \in 1 .. Len(dep.chain) /\ Len(dep.chain) \in Nat /\ q.ran \in Nat
      /\ DOMAIN dep.chain = 1 .. Len(dep.chain) /\ p.shape = q.shape
  BY ChainOf DEF Placed, Request, Effect
<1>2. CASE Admitted(dep, q, p)
  BY <1>1, <1>2 DEF Admitted, Fed, Going
<1>3. CASE Advanced(dep, q, p)
  BY <1>1, <1>3 DEF Advanced, Fed, Going
<1>4. CASE TurnedAway(dep, q, p)
  BY <1>1, <1>4 DEF TurnedAway, Fed, Placed, Going
<1>5. CASE Answered(dep, q, p)
  BY <1>1, <1>5 DEF Answered, Outwards, Fed, Going
<1>6. CASE Returned(dep, q, p)
  BY <1>1, <1>6 DEF Returned, Outwards, Fed, Going
<1>7. CASE Ended(dep, q, p)
  BY <1>1, <1>7 DEF Ended, Fed, Going
<1> QED BY <1>2, <1>3, <1>4, <1>5, <1>6, <1>7 DEF Effect

LEMMA InspectedKept ==
    ASSUME NEW dep \in Deployments, ValidatedInside(dep), NEW q \in Request, NEW p,
           Effect(dep, q, p), Placed(dep, q), Fed(dep, q), Inspected(dep, q)
    PROVE  Inspected(dep, p)
<1>1. /\ q.at \in 1 .. Len(dep.chain) /\ Len(dep.chain) \in Nat /\ q.ran \in Nat
      /\ DOMAIN dep.chain = 1 .. Len(dep.chain) /\ p.shape = q.shape
      /\ \A i \in 1 .. Len(dep.chain) : dep.chain[i] = "handler" <=> i = Len(dep.chain)
  BY ChainOf DEF Placed, Request, Effect
<1>2. CASE Admitted(dep, q, p)
  BY <1>1, <1>2 DEF Admitted, Inspected, Placed, LetThrough, Going
<1>3. CASE Advanced(dep, q, p)
  <2>1. dep.chain[q.at] = "bundle" /\ ~dep.dryRun => Clean(dep, q.shape)
    <3>1. dep.chain[q.at] = "bundle" => (q.shape.readable => q.body = "full")
      BY <1>1, <1>3 DEF Advanced, Fed, ValidatedInside
    <3> QED BY <1>3, <3>1 DEF Advanced
  <2> SUFFICES ASSUME NEW i \in DOMAIN dep.chain, dep.chain[i] = "bundle", LetThrough(p, i), ~dep.dryRun
               PROVE  Clean(dep, q.shape)
    BY <1>1 DEF Inspected, Clean
  <2>2. LetThrough(q, i) \/ i = q.at
    BY <1>1, <1>3 DEF Advanced, LetThrough, Going
  <2> QED BY <2>1, <2>2 DEF Inspected, Clean
<1>4. CASE TurnedAway(dep, q, p)
  BY <1>1, <1>4 DEF TurnedAway, Inspected, Placed, LetThrough, Going
<1>5. CASE Answered(dep, q, p)
  BY <1>1, <1>5 DEF Answered, Outwards, Inspected, Placed, LetThrough, Going
<1>6. CASE Returned(dep, q, p)
  BY <1>1, <1>6 DEF Returned, Outwards, Inspected, Placed, LetThrough, Going
<1>7. CASE Ended(dep, q, p)
  BY <1>1, <1>7 DEF Ended, Inspected, Placed, LetThrough, Going
<1> QED BY <1>2, <1>3, <1>4, <1>5, <1>6, <1>7 DEF Effect

\* What an appended event adds.
LEMMA Appended ==
    ASSUME NEW q \in Request, NEW p, NEW e \in Event, p.events = Append(q.events, e)
    PROVE  \E n : /\ n \notin DOMAIN q.events /\ DOMAIN p.events = DOMAIN q.events \cup {n}
                  /\ p.events[n] = e /\ \A k \in DOMAIN q.events : p.events[k] = q.events[k]
                  /\ \A by : Sends(p, by) = Sends(q, by) \cup (IF e.by = by THEN {n} ELSE {})
<1> DEFINE s == q.events
           n == Len(s) + 1
<1>1. s \in Seq(Event) /\ p.events = Append(s, e)
  BY DEF Request
<1>2. /\ DOMAIN s = 1 .. Len(s) /\ Len(s) \in Nat
      /\ DOMAIN p.events = 1 .. n /\ p.events[n] = e
      /\ \A k \in 1 .. Len(s) : p.events[k] = s[k]
  <2> HIDE DEF s
  <2> QED BY <1>1
<1>3. n \notin DOMAIN s /\ DOMAIN p.events = DOMAIN s \cup {n}
  <2> HIDE DEF s
  <2> QED BY <1>2
<1>4. ASSUME NEW by PROVE Sends(p, by) = Sends(q, by) \cup (IF e.by = by THEN {n} ELSE {})
  <2> HIDE DEF n
  <2> QED BY <1>2, <1>3 DEF Sends
<1> QED BY <1>2, <1>3, <1>4

\* The two kinds of event.
LEMMA EventsAre ==
    ASSUME NEW q \in Request, NEW st \in Codes
    PROVE  /\ LimitEvent \in Event /\ LimitEvent.by = "limit" /\ LimitEvent.status = 429
           /\ BundleEvent(q, st) \in Event /\ BundleEvent(q, st).by = "bundle"
           /\ BundleEvent(q, st).verdict = q.decision.verdict /\ BundleEvent(q, st).status = st
<1>1. q.decision.verdict \in Verdicts /\ q.decision.vector \in Vectors
  BY DEF Request
<1> QED BY <1>1 DEF LimitEvent, BundleEvent, Event, Codes, Verdicts, Vectors

LEMMA ReportedKept ==
    ASSUME NEW dep \in Deployments, Once(dep), NEW q \in Request, NEW p, Effect(dep, q, p),
           Placed(dep, q), Reported(dep, q)
    PROVE  Reported(dep, p)
<1>1. /\ q.at \in 1 .. Len(dep.chain) /\ Len(dep.chain) \in Nat /\ q.ran \in Nat /\ q.refusedAt \in Nat
      /\ DOMAIN dep.chain = 1 .. Len(dep.chain)
      /\ \A i \in 1 .. Len(dep.chain) : dep.chain[i] = "handler" <=> i = Len(dep.chain)
      /\ q.resp.status \in Codes
  BY ChainOf DEF Placed, Request, Effect, Responses
<1>2. \A x \in Request : x.events = <<>> => DOMAIN x.events = {} /\ \A by : Sends(x, by) = {}
  BY DEF Sends
<1>3. p \in Request
  BY DEF Effect
<1>4. CASE Admitted(dep, q, p) \/ Advanced(dep, q, p)
  <2>1. /\ Going(q) /\ Going(p) /\ p.refusedAt = q.refusedAt /\ p.events = q.events
        /\ q.refusedAt = 0 /\ q.events = <<>>
        /\ p.decision = q.decision \/ p.decision.verdict = "wouldDeny"
    BY <1>4 DEF Admitted, Advanced, Going, Placed, Reported
  <2>2. \A i : ~Left(p, i)
    BY <2>1 DEF Going, Left
  <2>3. p.decision.verdict # "deny"
    BY <2>1 DEF Reported
  <2> QED BY <1>1, <1>2, <1>3, <2>1, <2>2, <2>3 DEF Reported
<1>5. CASE TurnedAway(dep, q, p)
  <2>1. /\ q.refusedAt = 0 /\ q.events = <<>> /\ q.decision.verdict # "deny" /\ ~Going(p)
        /\ p.phase = "leave" /\ p.at = q.at /\ p.refusedAt = q.at
    BY <1>5 DEF TurnedAway, Going, Placed, Reported
  <2>2. (p.decision.verdict = "deny") = (dep.chain[q.at] = "bundle")
    BY <1>5, <2>1 DEF TurnedAway
  <2>3. \A i \in 1 .. Len(dep.chain) : Left(p, i) <=> i > q.at
    BY <2>1 DEF Left
  <2>4. CASE dep.chain[q.at] = "limit" /\ dep.fw = "fiber"
    <3>1. PICK n : /\ DOMAIN p.events = DOMAIN q.events \cup {n} /\ p.events[n] = LimitEvent
                   /\ \A by : Sends(p, by) = Sends(q, by) \cup (IF "limit" = by THEN {n} ELSE {})
      <4>1. LimitEvent \in Event /\ LimitEvent.by = "limit" /\ p.events = Append(q.events, LimitEvent)
        BY <1>1, <1>5, <2>4, EventsAre DEF TurnedAway
      <4> QED BY <4>1, Appended
    <3>2. Sends(p, "bundle") = {} /\ Sends(p, "limit") = {n} /\ DOMAIN p.events = {n}
          /\ p.events[n].by = "limit"
      BY <1>1, <1>2, <2>1, <3>1, EventsAre
    <3> QED BY <1>1, <2>1, <2>2, <2>3, <2>4, <3>2 DEF Reported, Once, Limiters
  <2>5. CASE ~(dep.chain[q.at] = "limit" /\ dep.fw = "fiber")
    <3>1. p.events = <<>>
      BY <1>5, <2>1, <2>5 DEF TurnedAway
    <3>2. DOMAIN p.events = {} /\ Sends(p, "bundle") = {} /\ Sends(p, "limit") = {}
      BY <1>2, <1>3, <3>1
    <3> QED BY <1>1, <2>1, <2>2, <2>3, <2>5, <3>1, <3>2 DEF Reported
  <2> QED BY <2>4, <2>5
<1>6. CASE Answered(dep, q, p)
  <2>1. /\ q.refusedAt = 0 /\ q.events = <<>> /\ q.decision.verdict # "deny" /\ ~Going(p)
        /\ p.refusedAt = 0 /\ p.events = <<>> /\ p.decision = q.decision
        /\ q.at = Len(dep.chain) /\ dep.chain[q.at] = "handler"
    BY <1>1, <1>6 DEF Answered, Outwards, Going, Placed, Reported
  <2>2. \A i \in 1 .. Len(dep.chain) : Left(p, i) => i = q.at
    BY <1>1, <1>6, <2>1 DEF Left, Answered, Outwards
  <2> QED BY <1>1, <1>2, <1>3, <2>1, <2>2 DEF Reported
<1>7. CASE Ended(dep, q, p)
  <2>1. \A i : Left(p, i) /\ Left(q, i)
    BY <1>7 DEF Ended, Left
  <2>2. \A by : Sends(p, by) = Sends(q, by)
    BY <1>7 DEF Ended, Sends
  <2> QED BY <1>1, <1>7, <2>1, <2>2 DEF Ended, Reported, Going
<1>8. CASE Returned(dep, q, p)
  <2>1. /\ ~Going(p) /\ p.refusedAt = q.refusedAt /\ p.decision = q.decision
        /\ p.phase = "leave" => p.at <= q.at
        /\ q.refusedAt # 0 => q.at <= q.refusedAt
    BY <1>1, <1>8 DEF Returned, Outwards, Going, Reported
  <2>6. /\ (p.decision.verdict = "deny") = (p.refusedAt # 0 /\ dep.chain[p.refusedAt] = "bundle")
        /\ p.phase = "leave" /\ p.refusedAt # 0 => p.at <= p.refusedAt
        /\ p.refusedAt # 0 => p.refusedAt \in DOMAIN dep.chain
    <3>1. p.at \in Nat
      BY <1>3 DEF Request
    <3> QED BY <1>1, <2>1, <3>1 DEF Reported
  <2>2. \A i \in 1 .. Len(dep.chain) : /\ Left(p, i) <=> Left(q, i) \/ i = q.at
                                       /\ ~Left(q, q.at)
    BY <1>1, <1>8 DEF Returned, Outwards, Left
  <2>3. CASE dep.chain[q.at] = "bundle"
    <3> DEFINE e == BundleEvent(q, q.resp.status)
    <3>1. e \in Event /\ e.by = "bundle" /\ e.verdict = q.decision.verdict
      BY <1>1, EventsAre
    <3>2. p.events = Append(q.events, e)
      BY <1>8, <2>3 DEF Returned
    <3> HIDE DEF e
    <3>3. PICK n : /\ n \notin DOMAIN q.events /\ DOMAIN p.events = DOMAIN q.events \cup {n}
                   /\ p.events[n] = e /\ \A k \in DOMAIN q.events : p.events[k] = q.events[k]
                   /\ \A by : Sends(p, by) = Sends(q, by) \cup (IF "bundle" = by THEN {n} ELSE {})
      BY <3>1, <3>2, Appended
    <3>4. Sends(q, "bundle") = {}
      BY <1>1, <2>2, <2>3 DEF Reported
    <3>5. Sends(p, "bundle") = {n} /\ Sends(p, "limit") = Sends(q, "limit")
      BY <3>3, <3>4
    <3>6. \A i \in DOMAIN dep.chain : dep.chain[i] = "bundle" => i = q.at
      BY <1>1, <2>3 DEF Once, Limiters
    <3>7. \A k \in DOMAIN p.events : \E i \in DOMAIN dep.chain : dep.chain[i] = p.events[k].by
      BY <1>1, <2>3, <3>1, <3>3 DEF Reported
    <3>8. \A i \in DOMAIN dep.chain : dep.chain[i] = "limit" =>
            IF p.refusedAt = i /\ (Left(p, i) \/ dep.fw = "fiber")
            THEN \E k \in DOMAIN p.events : Sends(p, "limit") = {k}
            ELSE Sends(p, "limit") = {}
      BY <1>1, <2>1, <2>2, <2>3, <3>3, <3>5 DEF Reported
    <3>9. \A i \in DOMAIN dep.chain : dep.chain[i] = "bundle" =>
            IF Left(p, i) /\ (p.refusedAt = 0 \/ p.refusedAt >= i)
            THEN \E k \in DOMAIN p.events : /\ Sends(p, "bundle") = {k}
                                            /\ p.events[k].verdict = p.decision.verdict
            ELSE Sends(p, "bundle") = {}
      BY <1>1, <2>1, <2>2, <3>1, <3>3, <3>5, <3>6
    <3> QED BY <2>1, <2>6, <3>7, <3>8, <3>9 DEF Reported
  <2>4. CASE dep.chain[q.at] = "limit" /\ q.refusedAt = q.at /\ dep.fw # "fiber"
    <3>1. LimitEvent \in Event /\ LimitEvent.by = "limit" /\ p.events = Append(q.events, LimitEvent)
      BY <1>1, <1>8, <2>4, EventsAre DEF Returned
    <3>3. PICK n : /\ n \notin DOMAIN q.events /\ DOMAIN p.events = DOMAIN q.events \cup {n}
                   /\ p.events[n] = LimitEvent /\ \A k \in DOMAIN q.events : p.events[k] = q.events[k]
                   /\ \A by : Sends(p, by) = Sends(q, by) \cup (IF "limit" = by THEN {n} ELSE {})
      BY <3>1, Appended, SMTT(60)
    <3>4. Sends(q, "limit") = {}
      BY <1>1, <2>2, <2>4 DEF Reported
    <3>5. Sends(p, "limit") = {n} /\ Sends(p, "bundle") = Sends(q, "bundle")
      BY <3>3, <3>4
    <3>6. \A i \in DOMAIN dep.chain : dep.chain[i] = "limit" => i = q.at
      BY <1>1, <2>4 DEF Once, Limiters
    <3>7. \A k \in DOMAIN p.events : \E i \in DOMAIN dep.chain : dep.chain[i] = p.events[k].by
      BY <1>1, <2>4, <3>1, <3>3 DEF Reported
    <3>8. \A i \in DOMAIN dep.chain : dep.chain[i] = "limit" =>
            IF p.refusedAt = i /\ (Left(p, i) \/ dep.fw = "fiber")
            THEN \E k \in DOMAIN p.events : Sends(p, "limit") = {k}
            ELSE Sends(p, "limit") = {}
      BY <1>1, <2>1, <2>2, <2>4, <3>3, <3>5, <3>6
    <3>9. \A i \in DOMAIN dep.chain : dep.chain[i] = "bundle" =>
            IF Left(p, i) /\ (p.refusedAt = 0 \/ p.refusedAt >= i)
            THEN \E k \in DOMAIN p.events : /\ Sends(p, "bundle") = {k}
                                            /\ p.events[k].verdict = p.decision.verdict
            ELSE Sends(p, "bundle") = {}
      BY <1>1, <2>1, <2>2, <2>4, <3>3, <3>5 DEF Reported
    <3> QED BY <2>1, <2>6, <3>7, <3>8, <3>9 DEF Reported
  <2>5. CASE /\ dep.chain[q.at] # "bundle"
             /\ ~(dep.chain[q.at] = "limit" /\ q.refusedAt = q.at /\ dep.fw # "fiber")
    <3>1. p.events = q.events
      BY <1>8, <2>5 DEF Returned
    <3>2. \A by : Sends(p, by) = Sends(q, by)
      BY <3>1 DEF Sends
    <3>8. \A i \in DOMAIN dep.chain : dep.chain[i] = "limit" =>
            IF p.refusedAt = i /\ (Left(p, i) \/ dep.fw = "fiber")
            THEN \E k \in DOMAIN p.events : Sends(p, "limit") = {k}
            ELSE Sends(p, "limit") = {}
      BY <1>1, <2>1, <2>2, <2>5, <3>1, <3>2 DEF Reported
    <3>9. \A i \in DOMAIN dep.chain : dep.chain[i] = "bundle" =>
            IF Left(p, i) /\ (p.refusedAt = 0 \/ p.refusedAt >= i)
            THEN \E k \in DOMAIN p.events : /\ Sends(p, "bundle") = {k}
                                            /\ p.events[k].verdict = p.decision.verdict
            ELSE Sends(p, "bundle") = {}
      BY <1>1, <2>1, <2>2, <2>5, <3>1, <3>2, SMTT(60) DEF Reported
    <3>7. \A k \in DOMAIN p.events : \E i \in DOMAIN dep.chain : dep.chain[i] = p.events[k].by
      BY <3>1 DEF Reported
    <3> QED BY <2>1, <2>6, <3>7, <3>8, <3>9 DEF Reported
  <2> QED BY <2>3, <2>4, <2>5
<1> QED BY <1>4, <1>5, <1>6, <1>7, <1>8 DEF Effect

LEMMA StatusKeptKept ==
    ASSUME NEW dep \in Deployments, NEW q \in Request, NEW p, Effect(dep, q, p),
           Placed(dep, q), Reported(dep, q), StatusKept(dep, q)
    PROVE  StatusKept(dep, p)
<1>1. /\ q.at \in 1 .. Len(dep.chain) /\ Len(dep.chain) \in Nat /\ q.ran \in Nat /\ q.refusedAt \in Nat
      /\ DOMAIN dep.chain = 1 .. Len(dep.chain) /\ p.shape = q.shape
      /\ q.resp.status \in Codes /\ p \in Request
  BY ChainOf DEF Placed, Request, Effect, Responses
<1>2. Going(q) => DOMAIN q.events = {} /\ ~Sent(q.resp) /\ q.resp.status = 200 /\ q.exc = "none"
                  /\ q.refusedAt = 0 /\ q.ran = 0 /\ ~BrokeIn(q)
  BY <1>1 DEF Reported, StatusKept, Placed, BrokeIn
<1>3. CASE Admitted(dep, q, p)
  BY <1>1, <1>2, <1>3 DEF Admitted, StatusKept, Going, BrokeIn
<1>4. CASE Advanced(dep, q, p)
  BY <1>1, <1>2, <1>4 DEF Advanced, Unanswered, StatusKept, Going, BrokeIn, Sent
<1>5. CASE TurnedAway(dep, q, p)
  <2>1. /\ ~Going(p) /\ ~BrokeIn(p) /\ p.phase = "leave" /\ p.exc = "none"
        /\ p.refusedAt = q.at /\ ~Sent(q.resp)
    BY <1>1, <1>2, <1>5 DEF TurnedAway, Going, BrokeIn
  <2>2. /\ dep.fw = "fiber" => ~Sent(p.resp)
        /\ Sent(p.resp) => p.resp.wire[1].status = p.resp.status
        /\ dep.chain[q.at] = "limit" => p.resp.status = 429
    BY <1>5, <2>1 DEF TurnedAway, Writes, Sent
  <2>3. \A k \in DOMAIN p.events : p.events[k].status = p.resp.status
    <3>1. CASE dep.chain[q.at] = "limit" /\ dep.fw = "fiber"
      <4>1. LimitEvent \in Event /\ LimitEvent.status = 429 /\ p.events = Append(q.events, LimitEvent)
        BY <1>1, <1>5, <3>1, EventsAre DEF TurnedAway
      <4>2. PICK n : DOMAIN p.events = DOMAIN q.events \cup {n} /\ p.events[n] = LimitEvent
        BY <4>1, Appended
      <4> QED BY <1>2, <1>5, <2>2, <3>1, <4>1, <4>2 DEF TurnedAway
    <3>2. CASE ~(dep.chain[q.at] = "limit" /\ dep.fw = "fiber")
      BY <1>2, <1>5, <3>2 DEF TurnedAway
    <3> QED BY <3>1, <3>2
  <2> QED BY <2>1, <2>2, <2>3 DEF StatusKept
<1>6. CASE Answered(dep, q, p)
  <2>1. /\ Going(q) /\ ~Going(p) /\ p.phase \in {"leave", "end"} /\ p.ran > 0 /\ p.refusedAt = 0
        /\ p.exc # "none" => BrokeIn(p)
        /\ DOMAIN p.events = {}
    BY <1>1, <1>2, <1>6 DEF Answered, Outwards, Going, BrokeIn
  <2>2. Writes(dep, q, p, 200)
    BY <1>2, <1>6, <2>1 DEF Answered
  <2> QED BY <1>2, <2>1, <2>2 DEF StatusKept, Writes, Sent
<1>7. CASE Returned(dep, q, p)
  <2>1. /\ ~Going(p) /\ p.phase \in {"leave", "end"} /\ BrokeIn(p) = BrokeIn(q)
        /\ p.exc # "none" => BrokeIn(p)
        /\ p.refusedAt = q.refusedAt
    BY <1>1, <1>7 DEF Returned, Outwards, Going, BrokeIn, StatusKept
  <2>2. dep.fw = "fiber" => ~Sent(p.resp)
    BY <1>7 DEF Returned, Unanswered, StatusKept, Sent
  <2>3. ASSUME ~BrokeIn(q)
        PROVE  /\ Unanswered(q, p)
               /\ Sent(p.resp) => p.resp.wire[1].status = p.resp.status
               /\ p.refusedAt # 0 /\ dep.chain[p.refusedAt] = "limit" => p.resp.status = 429
               /\ \A k \in DOMAIN p.events : p.events[k].status = p.resp.status
    <3>1. Unanswered(q, p)
      BY <1>7, <2>3 DEF Returned, StatusKept
    <3>2. /\ Sent(p.resp) => p.resp.wire[1].status = p.resp.status
          /\ p.refusedAt # 0 /\ dep.chain[p.refusedAt] = "limit" => p.resp.status = 429
      BY <1>7, <2>3, <3>1 DEF Returned, StatusKept, Unanswered, Sent
    <3>3. \A k \in DOMAIN q.events : q.events[k].status = p.resp.status
      BY <2>3, <3>1 DEF StatusKept, Unanswered
    <3>4. CASE dep.chain[q.at] = "bundle"
      <4> DEFINE e == BundleEvent(q, q.resp.status)
      <4>1. e \in Event /\ e.status = q.resp.status /\ p.events = Append(q.events, e)
        BY <1>1, <1>7, <3>4, EventsAre DEF Returned
      <4> HIDE DEF e
      <4>2. PICK n : /\ DOMAIN p.events = DOMAIN q.events \cup {n} /\ p.events[n] = e
                     /\ \A k \in DOMAIN q.events : p.events[k] = q.events[k]
        BY <4>1, Appended
      <4> QED BY <3>1, <3>2, <3>3, <4>1, <4>2 DEF Unanswered
    <3>5. CASE dep.chain[q.at] = "limit" /\ q.refusedAt = q.at /\ dep.fw # "fiber"
      <4>1. LimitEvent \in Event /\ LimitEvent.status = 429 /\ p.events = Append(q.events, LimitEvent)
        BY <1>1, <1>7, <3>5, EventsAre DEF Returned
      <4>2. PICK n : /\ DOMAIN p.events = DOMAIN q.events \cup {n} /\ p.events[n] = LimitEvent
                     /\ \A k \in DOMAIN q.events : p.events[k] = q.events[k]
        BY <4>1, Appended
      <4>3. p.resp.status = 429
        BY <1>1, <2>1, <3>2, <3>5
      <4> QED BY <3>1, <3>2, <3>3, <4>1, <4>2, <4>3
    <3>6. CASE /\ dep.chain[q.at] # "bundle"
               /\ ~(dep.chain[q.at] = "limit" /\ q.refusedAt = q.at /\ dep.fw # "fiber")
      <4>1. p.events = q.events
        BY <1>7, <3>6 DEF Returned
      <4> QED BY <3>1, <3>2, <3>3, <4>1
    <3> QED BY <3>4, <3>5, <3>6
  <2> QED BY <2>1, <2>2, <2>3 DEF StatusKept
<1>8. CASE Ended(dep, q, p)
  <2>1. ~Going(p) /\ BrokeIn(p) = BrokeIn(q) /\ p.phase = "done" /\ p.exc = q.exc /\ p.events = q.events
    BY <1>1, <1>8 DEF Ended, Going, BrokeIn
  <2>2. ~BrokeIn(q) => /\ Sent(p.resp) /\ p.resp.status = q.resp.status
                       /\ p.resp.wire[1].status = q.resp.status
    BY <1>8 DEF Ended, StatusKept
  <2> QED BY <2>1, <2>2 DEF StatusKept
<1> QED BY <1>3, <1>4, <1>5, <1>6, <1>7, <1>8 DEF Effect

LEMMA ObservedKept ==
    ASSUME NEW dep \in Deployments, Once(dep), Observable(dep), NEW q \in Request, NEW p,
           Effect(dep, q, p), Placed(dep, q), Fed(dep, q), Reported(dep, q), Observed(dep, q)
    PROVE  Observed(dep, p)
<1> SUFFICES ASSUME dep.dryRun, DryShape(q.shape)
             PROVE  Observed(dep, p)
  BY DEF Observed, Effect
<1>1. /\ q.at \in 1 .. Len(dep.chain) /\ Len(dep.chain) \in Nat /\ q.ran \in Nat /\ q.refusedAt \in Nat
      /\ DOMAIN dep.chain = 1 .. Len(dep.chain) /\ p.shape = q.shape
      /\ \A i \in 1 .. Len(dep.chain) : dep.chain[i] = "handler" <=> i = Len(dep.chain)
  BY ChainOf DEF Placed, Request, Effect
<1>2. CASE Admitted(dep, q, p)
  <2>1. \A i \in DOMAIN dep.chain : LetThrough(p, i) = LetThrough(q, i)
    BY <1>2 DEF Admitted, LetThrough, Going
  <2>2. Going(q) /\ Going(p) /\ p.decision = q.decision /\ p.refusedAt = q.refusedAt /\ q.refusedAt = 0
    BY <1>2 DEF Admitted, Going, Placed
  <2> QED BY <1>1, <2>1, <2>2 DEF Observed
<1>3. CASE Advanced(dep, q, p)
  <2>1. Going(q) /\ Going(p) /\ p.refusedAt = 0 /\ q.refusedAt = 0 /\ q.ran = 0 /\ p.ran = 0
    BY <1>3 DEF Advanced, Going, Placed
  <2>2. \A i \in DOMAIN dep.chain : LetThrough(p, i) = (LetThrough(q, i) \/ i = q.at)
    BY <1>1, <1>3, <2>1 DEF Advanced, LetThrough
  <2>3. CASE dep.chain[q.at] # "bundle"
    <3>1. p.decision = q.decision
      BY <1>3, <2>3 DEF Advanced
    <3> QED BY <1>1, <2>1, <2>2, <2>3, <3>1 DEF Observed
  <2>4. CASE dep.chain[q.at] = "bundle"
    <3>1. q.shape.readable => q.body = "full"
      BY <2>1 DEF Fed, Observable
    <3>2. IF dep.block /\ ThreatIn(dep, q.shape)
          THEN p.decision.verdict = "wouldDeny" ELSE p.decision = q.decision
      BY <1>3, <2>4, <3>1 DEF Advanced
    <3>3. \A i \in DOMAIN dep.chain : dep.chain[i] = "bundle" => i = q.at
      BY <1>1, <2>4 DEF Once, Limiters
    <3>4. ~LetThrough(q, q.at) /\ LetThrough(p, q.at)
      BY <1>1, <2>1, <2>2 DEF LetThrough
    <3>5. q.decision.verdict # "wouldDeny"
      BY <3>3, <3>4 DEF Observed
    <3> QED BY <1>1, <2>1, <2>4, <3>2, <3>4, <3>5 DEF Observed
  <2> QED BY <2>3, <2>4
<1>4. CASE TurnedAway(dep, q, p)
  <2>1. dep.chain[q.at] = "bundle"
    BY <1>1, <1>4 DEF TurnedAway, Observable
  <2>2. p.decision.verdict = "deny" /\ p.decision.vector = "quota" /\ p.refusedAt # 0
    BY <1>1, <1>4, <2>1 DEF TurnedAway
  <2> QED BY <2>2 DEF Observed
<1>5. CASE Answered(dep, q, p)
  <2>1. Going(q) /\ q.ran = 0 /\ p.ran = 1 /\ ~Going(p) /\ p.decision = q.decision
        /\ p.refusedAt = q.refusedAt /\ q.refusedAt = 0
    BY <1>1, <1>5 DEF Answered, Outwards, Going, Placed
  <2>2. \A i \in DOMAIN dep.chain : dep.chain[i] = "bundle" => LetThrough(p, i) /\ LetThrough(q, i)
    BY <1>1, <1>5, <2>1 DEF Answered, LetThrough
  <2> QED BY <1>1, <2>1, <2>2 DEF Observed
<1>6. CASE Returned(dep, q, p) \/ Ended(dep, q, p)
  <2>1. /\ ~Going(q) /\ ~Going(p) /\ p.ran = q.ran /\ p.decision = q.decision
        /\ p.refusedAt = q.refusedAt
    BY <1>6 DEF Returned, Ended, Outwards, Going
  <2>2. \A i \in DOMAIN dep.chain : LetThrough(p, i) = LetThrough(q, i)
    BY <2>1 DEF LetThrough
  <2> QED BY <1>1, <2>1, <2>2 DEF Observed
<1> QED BY <1>2, <1>3, <1>4, <1>5, <1>6 DEF Effect

\* All of it, each part where it holds.
Sound(dep, q) ==
    /\ Placed(dep, q) /\ ScreenedOut(dep, q) /\ Fed(dep, q)
    /\ ValidatedInside(dep) => Inspected(dep, q)
    /\ Once(dep) => Reported(dep, q) /\ StatusKept(dep, q)
    /\ Once(dep) /\ Observable(dep) => Observed(dep, q)

LEMMA SoundKept ==
    ASSUME NEW dep \in Deployments, NEW q \in Request, NEW p, Effect(dep, q, p), Sound(dep, q)
    PROVE  Sound(dep, p)
BY PlacedKept, ScreenedKept, FedKept, InspectedKept, ReportedKept, StatusKeptKept, ObservedKept
   DEF Sound

LEMMA SoundAtFirst ==
    ASSUME NEW dep \in Deployments, NEW s \in Shapes
    PROVE  Arrived(s) \in Request /\ Sound(dep, Arrived(s))
<1> DEFINE q == Arrived(s)
           empty == [cookie |-> "none", server |-> FALSE, hardened |-> FALSE]
<1>1. Fresh \in Responses /\ ~Sent(Fresh) /\ Fresh.status = 200
  BY DEF Fresh, Responses, HeaderMap, Codes, Sent
<1> DEFINE first == [verdict |-> "allow", vector |-> "none"]
<1>2. first \in [verdict : Verdicts, vector : Vectors] /\ first.verdict = "allow"
  BY DEF Verdicts, Vectors
<1>3. <<>> \in Seq(Event) /\ {} \in SUBSET Nat
  OBVIOUS
<1>4. q = [shape |-> s, at |-> 1, phase |-> "enter", exc |-> "none", resp |-> Fresh,
           body |-> "full", validated |-> FALSE, decision |-> first, events |-> <<>>,
           refusedAt |-> 0, ran |-> 0, charged |-> {}]
  BY DEF Arrived
<1> HIDE DEF q, first
<1>5. q \in Request
  BY <1>1, <1>2, <1>3, <1>4 DEF Request
<1>6. /\ q.shape = s /\ q.at = 1 /\ q.phase = "enter" /\ q.exc = "none" /\ q.resp = Fresh
      /\ q.body = "full" /\ q.decision = first /\ q.events = <<>> /\ q.refusedAt = 0 /\ q.ran = 0
      /\ q.charged = {}
  BY <1>4
<1>7. /\ Going(q) /\ \A i : ~Left(q, i) /\ ~BrokeIn(q) /\ DOMAIN q.events = {}
      /\ \A by : Sends(q, by) = {}
      /\ \A i \in DOMAIN dep.chain : ~LetIn(q, i) /\ ~LetThrough(q, i)
      /\ q.at \in DOMAIN dep.chain
  BY <1>6, ChainOf DEF Going, Left, BrokeIn, Sends, LetIn, LetThrough
<1>8. Placed(dep, q)
  BY <1>6, <1>7 DEF Placed
<1>9. ScreenedOut(dep, q) /\ Inspected(dep, q)
  BY <1>6, <1>7 DEF ScreenedOut, Inspected
<1>10. Fed(dep, q)
  BY <1>6 DEF Fed
<1>11. Reported(dep, q)
  BY <1>2, <1>6, <1>7, ChainOf DEF Reported
<1>12. StatusKept(dep, q)
  BY <1>1, <1>6, <1>7 DEF StatusKept
<1>13. Observed(dep, q)
  BY <1>2, <1>6, <1>7 DEF Observed
<1> QED BY <1>5, <1>8, <1>9, <1>10, <1>11, <1>12, <1>13 DEF Sound, q

\* The counters, the corpus and the reputation keep their types.
LEMMA SharedKept ==
    ASSUME TypeOK, [Next]_vars
    PROVE  /\ d' = d
           /\ count' \in [DOMAIN d.chain -> 0..Max] /\ merged' \in BOOLEAN
           /\ reputation' \in {"unknown", "looking", "known"}
<1>1. Max \in Nat
  BY ChainAssumption
<1>2. \A r, q : Moves(r, q) => UNCHANGED <<d, count, merged, reputation>>
  BY DEF Moves
<1>3. ASSUME NEW r \in Requests, NEW a, NEW p, Charge(r, a, p)
      PROVE  /\ UNCHANGED <<d, merged, reputation>>
             /\ count' \in [DOMAIN d.chain -> 0..Max]
  <2>1. req[r].at \in DOMAIN d.chain /\ count[req[r].at] \in 0..Max
    BY DEF TypeOK
  <2> QED BY <1>1, <1>3, <2>1 DEF Charge, Full, TypeOK
<1>4. \A r, c : Screening(r, c) => /\ UNCHANGED <<d, count, merged>>
                                   /\ reputation' \in {"unknown", "looking", "known"}
  BY DEF Screening, TypeOK
<1>5. ASSUME NEW r \in Requests, Step(r)
      PROVE  /\ UNCHANGED <<d, merged>> /\ count' \in [DOMAIN d.chain -> 0..Max]
             /\ reputation' \in {"unknown", "looking", "known"}
  <2>1. CASE ScreenStep(r)
    BY <1>4, <2>1 DEF ScreenStep, TypeOK
  <2>2. CASE QuotaStep(r) \/ LimitStep(r)
    BY <1>2, <1>3, <2>2 DEF QuotaStep, LimitStep, TypeOK
  <2>3. CASE InspectStep(r)
    <3>1. \A q, c, b : Inspecting(r, q, c, b) => \E p : Moves(r, p)
      BY DEF Inspecting
    <3>2. \E p : Moves(r, p)
      BY <2>3, <3>1 DEF InspectStep
    <3> QED BY <1>2, <3>2 DEF TypeOK
  <2>4. CASE \/ LeaveStep(r) \/ LimitLeaveStep(r) \/ GateStep(r) \/ ValidateStep(r)
             \/ WrapStep(r) \/ UnwrapStep(r) \/ RecoverStep(r)
             \/ Handler(r) \/ Return(r) \/ Finish(r)
    <3>1. \E p : Moves(r, p)
      BY <2>4, ZenonT(60) DEF LeaveStep, LimitLeaveStep, GateStep, ValidateStep, WrapStep, UnwrapStep, RecoverStep,
                  Handler, Return, Finish
    <3> QED BY <1>2, <3>1 DEF TypeOK
  <2> QED BY <1>5, <2>1, <2>2, <2>3, <2>4 DEF Step
<1>6. CASE \E r \in Requests : GinStep(r) \/ EchoStep(r) \/ ChiStep(r) \/ FiberStep(r)
  BY <1>5, <1>6, GinSteps, EchoSteps, ChiSteps, FiberSteps DEF TypeOK
<1>7. CASE \E r \in Requests : Handler(r) \/ Return(r) \/ Finish(r)
  BY <1>5, <1>7 DEF Step, TypeOK
<1>8. CASE MergeBotCorpus \/ (\E found \in BOOLEAN : Lookup(found)) \/ UNCHANGED vars
  BY <1>8 DEF MergeBotCorpus, Lookup, vars, TypeOK
<1>9. ASSUME NEW i \in DOMAIN d.chain, WindowEnds(i)
      PROVE  /\ UNCHANGED <<d, merged, reputation>> /\ count' \in [DOMAIN d.chain -> 0..Max]
  BY <1>1, <1>9 DEF WindowEnds, TypeOK
<1> QED BY <1>6, <1>7, <1>8, <1>9 DEF Next, TypeOK

-----------------------------------------------------------------------------
(* The inductive invariant. *)

IInv == TypeOK /\ \A r \in Requests : Sound(d, req[r])

LEMMA IInvAtFirst == Init => IInv
<1> SUFFICES ASSUME Init PROVE IInv
  OBVIOUS
<1>1. d \in Deployments
  BY DEF Init
<1>2. ASSUME NEW r \in Requests PROVE req[r] \in Request /\ Sound(d, req[r])
  <2>1. PICK s \in Shapes : req[r] = Arrived(s)
    BY DEF Init
  <2> QED BY <1>1, <2>1, SoundAtFirst
<1>3. req \in [Requests -> Request]
  BY <1>2 DEF Init
<1>4. \A r \in Requests : /\ req[r].at \in DOMAIN d.chain
                          /\ req[r].charged \subseteq {i \in DOMAIN d.chain : d.chain[i] \in Limiters}
  BY <1>2 DEF Sound, Placed
<1>5. 0 \in 0..Max
  BY ChainAssumption
<1>6. count \in [DOMAIN d.chain -> 0..Max] /\ merged \in BOOLEAN /\ reputation = "unknown"
  BY <1>5 DEF Init
<1> QED BY <1>1, <1>2, <1>3, <1>4, <1>6 DEF IInv, TypeOK

LEMMA IInvKept == IInv /\ [Next]_vars => IInv'
<1> SUFFICES ASSUME IInv, [Next]_vars PROVE IInv'
  OBVIOUS
<1>1. TypeOK /\ d \in Deployments /\ req \in [Requests -> Request]
  BY DEF IInv, TypeOK
<1>2. req' \in [Requests -> Request] /\ \A r \in Requests : Sound(d, req'[r])
  <2>1. CASE UNCHANGED <<d, req>>
    BY <1>1, <2>1 DEF IInv
  <2>2. CASE \E r \in Requests : Step(r)
    <3>1. PICK r \in Requests : Step(r)
      BY <2>2
    <3>2. PICK p : Becomes(r, p) /\ Effect(d, req[r], p)
      BY <1>1, <3>1, Effects DEF IInv, Sound
    <3>3. p \in Request /\ Sound(d, p)
      BY <1>1, <3>2, SoundKept DEF IInv, Effect
    <3> QED BY <1>1, <3>2, <3>3 DEF Becomes, IInv
  <2> QED BY <1>1, <2>1, <2>2, Steps
<1>3. \A r \in Requests :
        /\ req'[r].at \in DOMAIN d.chain
        /\ req'[r].charged \subseteq {i \in DOMAIN d.chain : d.chain[i] \in Limiters}
  BY <1>2 DEF Sound, Placed
<1>4. /\ d' = d
      /\ count' \in [DOMAIN d.chain -> 0..Max] /\ merged' \in BOOLEAN
      /\ reputation' \in {"unknown", "looking", "known"}
  BY <1>1, SharedKept
<1>5. TypeOK'
  BY <1>1, <1>2, <1>3, <1>4 DEF TypeOK
<1>6. \A r \in Requests : Sound(d', req'[r])
  BY <1>2, <1>4
<1> QED BY <1>5, <1>6 DEF IInv

LEMMA Sounds == Spec => []IInv
<1> QED BY IInvAtFirst, IInvKept, PTL DEF Spec
-----------------------------------------------------------------------------
(* The theorems. *)

\* Every variable stays in its type: a request has a place in the chain of its
\* deployment, is charged by limiters only, and no limiter admits more than Max
\* requests in a window.
THEOREM TypeCorrect == Spec => []TypeOK
<1>1. IInv => TypeOK
  BY DEF IInv
<1> QED BY <1>1, Sounds, PTL

\* In every chain, a request that the checks before the limiter stop, or that
\* RateLimitSkip exempts, has taken nothing from the quota of
\* MiddlewareWithConfig (gin.go:538-539 and its like), whatever the other
\* requests, the fetch of the bot corpus and the lookups do meanwhile.
THEOREM ScreenedPayNothing == Spec => []QuotaForScreened
<1>1. IInv => QuotaForScreened
  BY DEF IInv, Sound, ScreenedOut, QuotaForScreened, Places
<1> QED BY <1>1, Sounds, PTL

\* In every chain, also with several bundles and readers of the body, the
\* handler finds the body as it arrived or the validated one
\* (ScanRequestForThreats and ProtectLogin put back what they read).
THEOREM InputReachesHandler == Spec => []HandlerHasInput
<1>1. IInv => HandlerHasInput
  BY DEF IInv, Sound, Fed, HandlerHasInput, Handled
<1> QED BY <1>1, Sounds, PTL

\* In every chain that mounts a consuming Validate inside of
\* MiddlewareWithConfig only, the handler sees no request that the checks of
\* MiddlewareWithConfig must stop (its early returns, in every adapter).
THEOREM OnlyCleanHandled ==
    ASSUME \A dep \in Deployments : ValidatedInside(dep)
    PROVE  Spec => []HandledIsClean
<1>1. IInv => HandledIsClean
  <2> SUFFICES ASSUME IInv, NEW r \in Requests, Handled(r), NEW i \in DOMAIN d.chain,
                      d.chain[i] = "bundle"
               PROVE  /\ req[r].shape.hits \cap ScreenHits = {}
                      /\ ~d.dryRun => /\ Read(r) => req[r].shape.hits \cap BodyHits = {}
                                      /\ d.block => ~Threat(r)
    BY DEF HandledIsClean, Places
  <2>1. ScreenedOut(d, req[r]) /\ Inspected(d, req[r])
    BY DEF IInv, TypeOK, Sound
  <2>2. LetIn(req[r], i) /\ LetThrough(req[r], i)
    BY DEF Handled, LetIn, LetThrough
  <2>3. Threat(r) <=> ThreatIn(d, req[r].shape)
    BY DEF Threat, ThreatIn, Hit
  <2> QED BY <2>1, <2>2, <2>3 DEF ScreenedOut, Inspected, Read
<1> QED BY <1>1, Sounds, PTL

\* In every chain with one MiddlewareWithConfig and one standalone limiter at
\* most, telemetry hears of every request once from the first and of every
\* refusal once from the second, with the verdict and the status that were
\* given, whoever refuses and however the handler ends (the deferred emits).
THEOREM EachReportedOnce ==
    ASSUME \A dep \in Deployments : Once(dep)
    PROVE  Spec => []OneEventPerRequest
<1>1. IInv => OneEventPerRequest
  <2> SUFFICES ASSUME IInv, NEW r \in Requests, Done(r)
               PROVE  /\ \A i \in Places("bundle") :
                           IF req[r].refusedAt = 0 \/ req[r].refusedAt >= i
                           THEN \E k \in DOMAIN req[r].events :
                                   /\ EventsBy(r, "bundle") = {k}
                                   /\ (req[r].events[k].verdict = "deny") = (req[r].refusedAt = i)
                           ELSE EventsBy(r, "bundle") = {}
                      /\ \A i \in Places("limit") :
                           IF req[r].refusedAt = i
                           THEN \E k \in DOMAIN req[r].events : EventsBy(r, "limit") = {k}
                           ELSE EventsBy(r, "limit") = {}
                      /\ ~Broke(r) =>
                           \A i \in DOMAIN req[r].events :
                              req[r].events[i].status = req[r].resp.wire[1].status
    BY DEF OneEventPerRequest
  <2> DEFINE q == req[r]
  <2>1. d \in Deployments /\ Reported(d, q) /\ StatusKept(d, q) /\ Once(d)
    BY DEF IInv, TypeOK, Sound
  <2>2. \A by : EventsBy(r, by) = Sends(q, by)
    BY DEF EventsBy, Sends
  <2>3. \A i : Left(q, i)
    BY DEF Done, Left
  <2>4. \A i \in DOMAIN d.chain : d.chain[i] = "bundle" =>
            ((q.decision.verdict = "deny") = (q.refusedAt = i))
    BY <2>1, ChainOf DEF Reported, Once, Limiters
  <2>5. ~Broke(r) => \A i \in DOMAIN q.events : q.events[i].status = q.resp.wire[1].status
    BY <2>1 DEF StatusKept, Broke, BrokeIn, Handled, Done
  <2>6. ASSUME NEW i \in Places("bundle")
        PROVE  IF q.refusedAt = 0 \/ q.refusedAt >= i
               THEN \E k \in DOMAIN q.events :
                       /\ Sends(q, "bundle") = {k}
                       /\ (q.events[k].verdict = "deny") = (q.refusedAt = i)
               ELSE Sends(q, "bundle") = {}
    BY <2>1, <2>3, <2>4 DEF Reported, Places
  <2>7. ASSUME NEW i \in Places("limit")
        PROVE  IF q.refusedAt = i THEN \E k \in DOMAIN q.events : Sends(q, "limit") = {k}
               ELSE Sends(q, "limit") = {}
    BY <2>1, <2>3 DEF Reported, Places
  <2> QED BY <2>2, <2>5, <2>6, <2>7
<1> QED BY <1>1, Sounds, PTL

\* In every chain of a dry-run with one MiddlewareWithConfig, and no limiter or
\* Validate of its own, no request is stopped for what a body check, the scan
\* or the reputation of its address says, and what the scan sees is recorded as
\* would_deny (gin.go:100-108).
THEOREM DryRunOnlyObserves ==
    ASSUME \A dep \in Deployments : Once(dep) /\ Observable(dep)
    PROVE  Spec => []DryRunObserves
<1>1. IInv => DryRunObserves
  <2> SUFFICES ASSUME IInv, NEW r \in Requests, d.dryRun, Done(r),
                      req[r].shape.hits \subseteq BodyHits \cup ThreatHits \cup {"badAddress", "skip"}
               PROVE  /\ req[r].ran = 1 \/ req[r].decision.vector = "quota"
                      /\ (d.block /\ Threat(r) /\ Handled(r)) =
                            (\E i \in DOMAIN req[r].events : req[r].events[i].verdict = "wouldDeny")
    BY DEF DryRunObserves
  <2> DEFINE q == req[r]
  <2>1. /\ d \in Deployments /\ Reported(d, q) /\ Observed(d, q) /\ Placed(d, q) /\ Once(d)
        /\ Observable(d) /\ q \in Request /\ DryShape(q.shape) /\ q.ran \in Nat
    BY DEF IInv, TypeOK, Sound, DryShape, Request
  <2>2. PICK i \in DOMAIN d.chain : d.chain[i] = "bundle"
    BY <2>1 DEF Observable
  <2>3. ~Going(q) /\ Left(q, i)
    BY DEF Done, Going, Left
  <2>4. q.ran = 1 \/ q.decision.vector = "quota"
    BY <2>1, <2>3 DEF Observed
  <2>5. \A k \in DOMAIN q.events : k \in Sends(q, "bundle")
    <3>1. ASSUME NEW k \in DOMAIN q.events PROVE q.events[k].by = "bundle"
      <4>1. q.events[k].by \in {"bundle", "limit"}
        <5>1. q.events \in Seq(Event)
          BY <2>1 DEF Request
        <5>2. q.events[k] \in Event
          <6> HIDE DEF q
          <6> QED BY <5>1
        <5> QED BY <5>2 DEF Event
      <4> QED BY <2>1, <4>1 DEF Reported, Observable
    <3> QED BY <3>1 DEF Sends
  <2>6. q.refusedAt = 0 \/ (q.refusedAt # 0 /\ q.decision.vector = "quota")
    BY <2>1 DEF Observed
  <2>7. (q.decision.verdict = "wouldDeny") <=> (d.block /\ ThreatIn(d, q.shape) /\ q.refusedAt = 0 /\ q.ran > 0)
    BY <2>1, <2>2, <2>3 DEF Observed, LetThrough
  <2>8. q.ran > 0 => q.refusedAt = 0
    BY <2>1 DEF Placed
  <2>9. (\E k \in DOMAIN q.events : q.events[k].verdict = "wouldDeny") <=> q.decision.verdict = "wouldDeny"
    <3>1. CASE q.refusedAt = 0 \/ q.refusedAt >= i
      <4>1. PICK k \in DOMAIN q.events : Sends(q, "bundle") = {k} /\ q.events[k].verdict = q.decision.verdict
        BY <2>1, <2>2, <2>3, <3>1 DEF Reported
      <4> QED BY <2>5, <4>1
    <3>2. CASE ~(q.refusedAt = 0 \/ q.refusedAt >= i)
      <4>1. Sends(q, "bundle") = {}
        BY <2>1, <2>2, <2>3, <3>2 DEF Reported
      <4> QED BY <2>5, <2>7, <3>2, <4>1
    <3> QED BY <3>1, <3>2
  <2>10. Threat(r) <=> ThreatIn(d, q.shape)
    BY DEF Threat, ThreatIn, Hit
  <2> QED BY <2>4, <2>7, <2>8, <2>9, <2>10 DEF Handled
<1> QED BY <1>1, Sounds, PTL
=============================================================================
