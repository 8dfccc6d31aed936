----------------------------- MODULE FiberAdapter ---------------------------
(***************************************************************************)
(* The middlewares of fiber/fiber.go and fiber/protect.go.  The body is a  *)
(* buffer that reading leaves intact, and the response leaves after the    *)
(* chain.  There is no Validate, SecureCookies or ErrorHandler.            *)
(***************************************************************************)
EXTENDS Chain

\* Mutant: the reputation is asked in dry-run too.
FiberScreenAlways(r) ==
    Enters(r, "fiber", "bundle") /\ Screening(r, <<"forwarded", "reputation", "scanner", "bot">>)

\* MiddlewareWithConfig, before the limiter.
FiberScreen(r) ==
    /\ Enters(r, "fiber", "bundle")
    /\ Screening(r, <<"forwarded">> \o (IF d.dryRun THEN <<>> ELSE <<"reputation">>)
                    \o <<"scanner", "bot">>)

\* RateLimitSkip, then the limiter.
FiberQuota(r) ==
    /\ d.fw = "fiber" /\ req[r].phase = "quota"
    /\ LET q == [req[r] EXCEPT !.phase = "inspect"]
       IN  IF Hit(r, "skip") THEN Moves(r, q) ELSE Charge(r, q, Denied(req[r], "quota", 429))

\* The kinds of body that scanFiberCtxForThreats scans.
FiberScannedBodies == {"json", "form"}

FiberInspect(r) ==
    /\ d.fw = "fiber" /\ req[r].phase = "inspect"
    /\ Inspecting(r, req[r],
                  IF d.dryRun THEN <<>> ELSE <<"graphql", "massAssign", "ssrf", "prompt">>,
                  FiberScannedBodies)

\* The deferred emit: the decision, and the status the response has so far.
FiberEmit(q) == Send(q, "bundle", q.decision.verdict, q.decision.vector, q.resp.status)

\* The error of a handler is returned before the headers are removed.
FiberLeave(r) ==
    /\ Leaves(r, "fiber", "bundle")
    /\ LET q == req[r]
           stripped == IF RefusedHere(r) \/ q.exc # "none" THEN q ELSE [q EXCEPT !.resp = Stripped(@)]
       IN  Moves(r, Outward(FiberEmit(stripped)))

\* RateLimit, RateLimitWithStore, and RateLimitWithSkip, whose skip function lets
\* a request pass uncounted: the event of a refusal is sent before the answer is
\* written.
FiberRateLimit(r) ==
    /\ Enters(r, "fiber", "limit")
    /\ \/ Hit(r, "skip") /\ Moves(r, Inward(req[r]))
       \/ Charge(r, Inward(req[r]), Refused(Send(req[r], "limit", "deny", "quota", 429), 429))

FiberRateLimitLeave(r) ==
    /\ Leaves(r, "fiber", "limit")
    /\ Moves(r, Outward(req[r]))

FiberBruteForce(r) == Enters(r, "fiber", "brute") /\ Gate(r, Hit(r, "brute"), 429)
FiberOverload(r) == Enters(r, "fiber", "shed") /\ Gate(r, Hit(r, "shed"), 503)

FiberProtect(r) == Enters(r, "fiber", "protect") /\ Gate(r, Hit(r, "suspect"), 429)

FiberStep(r) ==
    \/ FiberScreen(r) \/ FiberQuota(r) \/ FiberInspect(r) \/ FiberLeave(r)
    \/ FiberRateLimit(r) \/ FiberRateLimitLeave(r) \/ FiberBruteForce(r) \/ FiberOverload(r)
    \/ FiberProtect(r)
=============================================================================
