----------------------------- MODULE GinAdapter -----------------------------
(***************************************************************************)
(* The middlewares of gin/gin.go and gin/protect.go.  A handler leaves its *)
(* error in the context, where ErrorHandler finds it.                      *)
(***************************************************************************)
EXTENDS Chain

\* MiddlewareWithConfig, before the limiter.
GinScreen(r) ==
    /\ Enters(r, "gin", "bundle")
    /\ Screening(r, <<"forwarded">> \o (IF d.dryRun THEN <<>> ELSE <<"reputation">>)
                    \o <<"scanner", "bot">>)

\* RateLimitSkip, then the limiter.
GinQuota(r) ==
    /\ d.fw = "gin" /\ req[r].phase = "quota"
    /\ LET q == [req[r] EXCEPT !.phase = "inspect"]
       IN  IF Hit(r, "skip") THEN Moves(r, q) ELSE Charge(r, q, Denied(req[r], "quota", 429))

\* The body checks read the body unless in dry-run; the scan reads it in block mode.
GinInspect(r) ==
    /\ d.fw = "gin" /\ req[r].phase = "inspect"
    /\ LET q == req[r]
           read == (q.shape.kind = "json" /\ ~d.dryRun) \/ (d.block /\ q.shape.kind \in ScannedBodies)
       IN  Inspecting(r, IF read THEN [q EXCEPT !.body = Restored(q)] ELSE q,
                      IF d.dryRun THEN <<>> ELSE <<"graphql", "massAssign", "ssrf", "prompt">>,
                      ScannedBodies)

\* The deferred emit: the decision, and the status of gin's writer.
GinEmit(q) == Send(q, "bundle", q.decision.verdict, q.decision.vector, q.resp.status)

GinLeave(r) ==
    /\ Leaves(r, "gin", "bundle")
    /\ LET q == req[r]
           stripped == IF RefusedHere(r) \/ q.exc = "panic" THEN q ELSE [q EXCEPT !.resp = Stripped(@)]
       IN  Moves(r, Outward(GinEmit(stripped)))

\* RateLimitWithStore, and RateLimitWithSkip, whose skip function lets a request
\* pass uncounted: an event on refusal only.
GinRateLimit(r) ==
    /\ Enters(r, "gin", "limit")
    /\ \/ Hit(r, "skip") /\ Moves(r, Inward(req[r]))
       \/ Charge(r, Inward(req[r]), Refused(req[r], 429))

GinRateLimitLeave(r) ==
    /\ Leaves(r, "gin", "limit")
    /\ Moves(r, Outward(IF RefusedHere(r) THEN Send(req[r], "limit", "deny", "quota", 429) ELSE req[r]))

GinBruteForce(r) == Enters(r, "gin", "brute") /\ Gate(r, Hit(r, "brute"), 429)
GinOverload(r) == Enters(r, "gin", "shed") /\ Gate(r, Hit(r, "shed"), 503)

\* ProtectLogin and its like read the user name from a JSON body.
GinProtect(r) ==
    /\ Enters(r, "gin", "protect")
    /\ LET q == IF req[r].shape.kind = "json" THEN [req[r] EXCEPT !.body = Restored(req[r])] ELSE req[r]
       IN  Moves(r, IF Hit(r, "suspect") THEN Refused(q, 429) ELSE Inward(q))

\* ShouldBindJSON consumes the body; the handler uses validated_body.
GinValidate(r) ==
    /\ Enters(r, "gin", "validate")
    /\ LET q == [req[r] EXCEPT !.body = "drained"]
           valid == req[r].body = "full" /\ q.shape.readable /\ q.shape.kind = "json" /\ ~Hit(r, "invalid")
       IN  Moves(r, IF valid THEN Inward([q EXCEPT !.validated = TRUE]) ELSE Refused(q, 400))

\* SecureCookies rewrites the header map once the inner part has returned.
GinCookies(r) ==
    \/ Enters(r, "gin", "cookies") /\ Moves(r, Inward(req[r]))
    \/ /\ Leaves(r, "gin", "cookies")
       /\ LET q == req[r]
          IN  Moves(r, Outward(IF q.exc = "panic" THEN q ELSE [q EXCEPT !.resp = Secured(@)]))

\* ErrorHandler answers the last error of the context.
GinErrors(r) ==
    \/ Enters(r, "gin", "errors") /\ Moves(r, Inward(req[r]))
    \/ /\ Leaves(r, "gin", "errors")
       /\ LET q == req[r]
          IN  Moves(r, Outward(IF q.exc = "error"
                               THEN [q EXCEPT !.exc = "none", !.resp = Put(@, 500)] ELSE q))

GinStep(r) ==
    \/ GinScreen(r) \/ GinQuota(r) \/ GinInspect(r) \/ GinLeave(r)
    \/ GinRateLimit(r) \/ GinRateLimitLeave(r) \/ GinBruteForce(r) \/ GinOverload(r)
    \/ GinProtect(r) \/ GinValidate(r) \/ GinCookies(r) \/ GinErrors(r)
=============================================================================
