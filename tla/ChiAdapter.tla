----------------------------- MODULE ChiAdapter -----------------------------
(***************************************************************************)
(* The middlewares of chi/chi.go and chi/protect.go, which nethttp         *)
(* re-exports.  Handlers return no error, but may panic.                   *)
(***************************************************************************)
EXTENDS Chain

\* Mutant: the bot check runs after the limiter.
ChiScreenBotLater(r) ==
    Enters(r, "chi", "bundle") /\ Screening(r, <<"forwarded", "reputation", "scanner">>)

\* MiddlewareWithConfig, before the limiter.
ChiScreen(r) ==
    /\ Enters(r, "chi", "bundle")
    /\ Screening(r, <<"forwarded">> \o (IF d.dryRun THEN <<>> ELSE <<"reputation">>)
                    \o <<"scanner", "bot">>)

\* RateLimitSkip, then the limiter.
ChiQuota(r) ==
    /\ d.fw = "chi" /\ req[r].phase = "quota"
    /\ LET q == [req[r] EXCEPT !.phase = "inspect"]
       IN  IF Hit(r, "skip") THEN Moves(r, q) ELSE Charge(r, q, Denied(req[r], "quota", 429))

\* The body checks read the body unless in dry-run; the scan reads it in block mode.
ChiInspect(r) ==
    /\ d.fw = "chi" /\ req[r].phase = "inspect"
    /\ LET q == req[r]
           read == (q.shape.kind = "json" /\ ~d.dryRun) \/ (d.block /\ q.shape.kind \in ScannedBodies)
       IN  Inspecting(r, IF read THEN [q EXCEPT !.body = Restored(q)] ELSE q,
                      IF d.dryRun THEN <<>> ELSE <<"graphql", "massAssign", "ssrf", "prompt">>,
                      ScannedBodies)

\* The deferred emit: the decision, and the status its statusWriter has seen.
ChiEmit(q) == Send(q, "bundle", q.decision.verdict, q.decision.vector, q.resp.status)

ChiLeave(r) ==
    /\ Leaves(r, "chi", "bundle")
    /\ LET q == req[r]
           stripped == IF RefusedHere(r) \/ q.exc = "panic" THEN q ELSE [q EXCEPT !.resp = Stripped(@)]
       IN  Moves(r, Outward(ChiEmit(stripped)))

\* RateLimitWithStore, and RateLimitWithSkip, whose skip function lets a request
\* pass uncounted: an event on refusal only.
ChiRateLimit(r) ==
    /\ Enters(r, "chi", "limit")
    /\ \/ Hit(r, "skip") /\ Moves(r, Inward(req[r]))
       \/ Charge(r, Inward(req[r]), Refused(req[r], 429))

ChiRateLimitLeave(r) ==
    /\ Leaves(r, "chi", "limit")
    /\ Moves(r, Outward(IF RefusedHere(r) THEN Send(req[r], "limit", "deny", "quota", 429) ELSE req[r]))

\* ProtectLogin and its like read the user name from a JSON body.
ChiProtect(r) ==
    /\ Enters(r, "chi", "protect")
    /\ LET q == IF req[r].shape.kind = "json" THEN [req[r] EXCEPT !.body = Restored(req[r])] ELSE req[r]
       IN  Moves(r, IF Hit(r, "suspect") THEN Refused(q, 429) ELSE Inward(q))

\* Validate puts back the body it has read, whatever the verdict; an empty one
\* is left to the validator.
ChiValidate(r) ==
    /\ Enters(r, "chi", "validate")
    /\ LET q == [req[r] EXCEPT !.body = Restored(req[r])]
           valid == q.body = "full" /\ q.shape.kind \in {"json", "none"} /\ ~Hit(r, "invalid")
       IN  Moves(r, IF valid THEN Inward([q EXCEPT !.validated = TRUE]) ELSE Refused(q, 400))

\* SecureCookies wraps the writer; cookies of a response nothing has written
\* when the inner part returns are secured then, but not on a panic.
ChiCookies(r) ==
    \/ /\ Enters(r, "chi", "cookies")
       /\ Moves(r, Inward([req[r] EXCEPT !.resp.guarded = TRUE]))
    \/ /\ Leaves(r, "chi", "cookies")
       /\ LET q == req[r]
              p == IF q.exc = "panic" \/ Sent(q.resp) THEN q.resp ELSE Secured(q.resp)
          IN  Moves(r, Outward([q EXCEPT !.resp = [p EXCEPT !.guarded = FALSE]]))

\* ErrorHandler recovers a panic and answers it.
ChiErrors(r) ==
    \/ Enters(r, "chi", "errors") /\ Moves(r, Inward(req[r]))
    \/ /\ Leaves(r, "chi", "errors")
       /\ LET q == req[r]
          IN  Moves(r, Outward(IF q.exc = "panic"
                               THEN [q EXCEPT !.exc = "none", !.resp = Put(@, 500)] ELSE q))

ChiStep(r) ==
    \/ ChiScreen(r) \/ ChiQuota(r) \/ ChiInspect(r) \/ ChiLeave(r)
    \/ ChiRateLimit(r) \/ ChiRateLimitLeave(r) \/ ChiProtect(r)
    \/ ChiValidate(r) \/ ChiCookies(r) \/ ChiErrors(r)
=============================================================================
