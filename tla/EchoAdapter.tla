----------------------------- MODULE EchoAdapter ----------------------------
(***************************************************************************)
(* The middlewares of echo/echo.go and echo/protect.go.  A handler returns *)
(* its error to the middlewares around it and at last to the framework.    *)
(***************************************************************************)
EXTENDS Chain

\* MiddlewareWithConfig, before the limiter.
EchoScreen(r) ==
    /\ Enters(r, "echo", "bundle")
    /\ Screening(r, <<"forwarded">> \o (IF d.dryRun THEN <<>> ELSE <<"reputation">>)
                    \o <<"scanner", "bot">>)

\* RateLimitSkip, then the limiter.
EchoQuota(r) ==
    /\ d.fw = "echo" /\ req[r].phase = "quota"
    /\ LET q == [req[r] EXCEPT !.phase = "inspect"]
       IN  IF Hit(r, "skip") THEN Moves(r, q) ELSE Charge(r, q, Denied(req[r], "quota", 429))

\* The body checks read the body unless in dry-run; the scan reads it in block mode.
EchoInspect(r) ==
    /\ d.fw = "echo" /\ req[r].phase = "inspect"
    /\ LET q == req[r]
           read == (q.shape.kind = "json" /\ ~d.dryRun) \/ (d.block /\ q.shape.kind \in ScannedBodies)
       IN  Inspecting(r, IF read THEN [q EXCEPT !.body = Restored(q)] ELSE q,
                      IF d.dryRun THEN <<>> ELSE <<"graphql", "massAssign", "ssrf", "prompt">>,
                      ScannedBodies)

\* The deferred emit: the decision, and the Status of echo's Response.
EchoEmit(q) == Send(q, "bundle", q.decision.verdict, q.decision.vector, q.resp.status)

\* Mutant: the emit is not deferred, so a panic skips it.
EchoLeaveNotDeferred(r) ==
    /\ Leaves(r, "echo", "bundle")
    /\ Moves(r, Outward(IF req[r].exc = "panic" THEN req[r] ELSE EchoEmit(req[r])))

EchoLeave(r) ==
    /\ Leaves(r, "echo", "bundle")
    /\ LET q == req[r]
           stripped == IF RefusedHere(r) \/ q.exc = "panic" THEN q ELSE [q EXCEPT !.resp = Stripped(@)]
       IN  Moves(r, Outward(EchoEmit(stripped)))

\* RateLimitWithStore, and RateLimitWithSkip, whose skip function lets a request
\* pass uncounted: an event on refusal only.
EchoRateLimit(r) ==
    /\ Enters(r, "echo", "limit")
    /\ \/ Hit(r, "skip") /\ Moves(r, Inward(req[r]))
       \/ Charge(r, Inward(req[r]), Refused(req[r], 429))

EchoRateLimitLeave(r) ==
    /\ Leaves(r, "echo", "limit")
    /\ Moves(r, Outward(IF RefusedHere(r) THEN Send(req[r], "limit", "deny", "quota", 429) ELSE req[r]))

EchoBruteForce(r) == Enters(r, "echo", "brute") /\ Gate(r, Hit(r, "brute"), 429)
EchoOverload(r) == Enters(r, "echo", "shed") /\ Gate(r, Hit(r, "shed"), 503)

\* ProtectLogin and its like read the user name from a JSON body.
EchoProtect(r) ==
    /\ Enters(r, "echo", "protect")
    /\ LET q == IF req[r].shape.kind = "json" THEN [req[r] EXCEPT !.body = Restored(req[r])] ELSE req[r]
       IN  Moves(r, IF Hit(r, "suspect") THEN Refused(q, 429) ELSE Inward(q))

\* c.Bind: nothing to read in an empty body, the values of a form, which stay
\* parsed for a later reader, or JSON; no XML, which does not fit a map.
Bound(q) ==
    \/ q.shape.kind = "none"
    \/ q.shape.kind = "form" /\ q.shape.readable
    \/ q.shape.kind = "json" /\ q.shape.readable /\ q.body = "full"

\* c.Bind consumes the body; the handler uses the validated body.
EchoValidate(r) ==
    /\ Enters(r, "echo", "validate")
    /\ LET q == [req[r] EXCEPT !.body = "drained"]
           valid == Bound(req[r]) /\ ~Hit(r, "invalid")
       IN  Moves(r, IF valid THEN Inward([q EXCEPT !.validated = TRUE]) ELSE Refused(q, 400))

\* SecureCookies rewrites the header map once the inner part has returned.
EchoCookies(r) ==
    \/ Enters(r, "echo", "cookies") /\ Moves(r, Inward(req[r]))
    \/ /\ Leaves(r, "echo", "cookies")
       /\ LET q == req[r]
          IN  Moves(r, Outward(IF q.exc = "panic" THEN q ELSE [q EXCEPT !.resp = Secured(@)]))

\* ErrorMiddleware answers on the writer beneath echo's Response, whose Status
\* does not change.
EchoErrors(r) ==
    \/ Enters(r, "echo", "errors") /\ Moves(r, Inward(req[r]))
    \/ /\ Leaves(r, "echo", "errors")
       /\ LET q == req[r]
          IN  Moves(r, Outward(IF q.exc = "error"
                               THEN [q EXCEPT !.exc = "none", !.resp = Commit(@, 500)] ELSE q))

EchoStep(r) ==
    \/ EchoScreen(r) \/ EchoQuota(r) \/ EchoInspect(r) \/ EchoLeave(r)
    \/ EchoRateLimit(r) \/ EchoRateLimitLeave(r) \/ EchoBruteForce(r) \/ EchoOverload(r)
    \/ EchoProtect(r) \/ EchoValidate(r) \/ EchoCookies(r) \/ EchoErrors(r)
=============================================================================
