------------------------------ MODULE Adapters ------------------------------
(***************************************************************************)
(* Any one adapter under requests that run at once, and what a deployment  *)
(* may count on: which requests reach the handler, which of them consume   *)
(* quota, what telemetry says, and what the client receives.               *)
(***************************************************************************)
EXTENDS GinAdapter, EchoAdapter, ChiAdapter, FiberAdapter

Next ==
    \/ \E r \in Requests :
        \/ GinStep(r) \/ EchoStep(r) \/ ChiStep(r) \/ FiberStep(r)
        \/ Handler(r) \/ Return(r) \/ Finish(r)
    \/ MergeBotCorpus
    \/ \E found \in BOOLEAN : Lookup(found)
    \/ \E i \in DOMAIN d.chain : WindowEnds(i)

Spec == Init /\ [][Next]_vars
-----------------------------------------------------------------------------
(* What a request carries, and where the deployment would notice it.       *)

ScreenHits == {"forwarded", "scanner", "bot"}
BodyHits == {"graphql", "massAssign", "ssrf", "prompt"}
ThreatHits == {"queryThreat", "bodyThreat"}

Places(kind) == {i \in DOMAIN d.chain : d.chain[i] = kind}
Handled(r) == req[r].ran > 0
Done(r) == req[r].phase = "done"
Broke(r) == Handled(r) /\ req[r].shape.outcome \in {"error", "panic"}
Read(r) == req[r].shape.readable /\ req[r].shape.kind = "json"
Threat(r) == \/ Hit(r, "queryThreat")
             \/ /\ Hit(r, "bodyThreat") /\ req[r].shape.readable
                /\ req[r].shape.kind \in {"json", "form"} \cup IF d.fw = "fiber" THEN {} ELSE {"xml"}
EventsBy(r, by) == {i \in DOMAIN req[r].events : req[r].events[i].by = by}

TypeOK ==
    /\ d \in Deployments
    /\ req \in [Requests -> Request]
    /\ \A r \in Requests :
        /\ req[r].at \in DOMAIN d.chain
        /\ req[r].charged \subseteq {i \in DOMAIN d.chain : d.chain[i] \in Limiters}
    /\ count \in [DOMAIN d.chain -> 0..Max]
    /\ merged \in BOOLEAN
    /\ reputation \in {"unknown", "looking", "known"}
-----------------------------------------------------------------------------
(* Safety.                                                                 *)

\* The handler sees no request that MiddlewareWithConfig must stop: outside
\* dry-run none that a body check or the scan of block mode can see, and never
\* one that the checks before the limiter stop, whatever the other requests do
\* meanwhile (the early returns of MiddlewareWithConfig in every adapter).
HandledIsClean ==
    \A r \in Requests : Handled(r) /\ Places("bundle") # {} =>
        /\ req[r].shape.hits \cap ScreenHits = {}
        /\ ~d.dryRun => /\ Read(r) => req[r].shape.hits \cap BodyHits = {}
                        /\ d.block => ~Threat(r)

\* Dry-run stops no request for what a body check, the scan of block mode or
\* the reputation of its address says, and the threats that the scan sees are
\* recorded as would_deny (gin.go:100-108, and the tests of dry-run).
DryRunObserves ==
    \A r \in Requests :
        d.dryRun /\ Done(r)
        /\ req[r].shape.hits \subseteq BodyHits \cup ThreatHits \cup {"badAddress", "skip"}
        => /\ req[r].ran = 1 \/ req[r].decision.vector = "quota"
           /\ (d.block /\ Threat(r) /\ Handled(r)) =
                 (\E i \in DOMAIN req[r].events : req[r].events[i].verdict = "wouldDeny")

\* One event per request from MiddlewareWithConfig, saying deny exactly when
\* it was this middleware that refused, also when the handler fails or panics
\* or an inner middleware refuses, and the status the client gets unless the
\* handler broke; a standalone limiter sends one exactly when it refuses (the
\* deferred emits).
OneEventPerRequest ==
    \A r \in Requests : Done(r) =>
        /\ \A i \in Places("bundle") :
            IF req[r].refusedAt = 0 \/ req[r].refusedAt >= i
            THEN \E k \in DOMAIN req[r].events :
                    /\ EventsBy(r, "bundle") = {k}
                    /\ (req[r].events[k].verdict = "deny") = (req[r].refusedAt = i)
            ELSE EventsBy(r, "bundle") = {}
        /\ \A i \in Places("limit") :
            IF req[r].refusedAt = i THEN \E k \in DOMAIN req[r].events : EventsBy(r, "limit") = {k}
            ELSE EventsBy(r, "limit") = {}
        /\ ~Broke(r) =>
            \A i \in DOMAIN req[r].events : req[r].events[i].status = req[r].resp.wire[1].status

\* A request stopped before the limiter has taken nothing from the quota of
\* the others ("Runs BEFORE rate-limit so bots don't consume
\* legitimate-traffic quota", gin.go:538-539).
QuotaForScreened ==
    \A r \in Requests : req[r].charged \cap Places("bundle") # {} =>
        req[r].shape.hits \cap (ScreenHits \cup {"skip"}) = {}

\* The handler finds its input: the body as it arrived, or the validated body,
\* however many checks and middlewares have read it before, unless it could
\* not be read in the first place.
HandlerHasInput ==
    \A r \in Requests : Handled(r) /\ req[r].shape.readable =>
        req[r].body = "full" \/ req[r].validated

\* Whatever a handler under MiddlewareWithConfig answers leaves with the
\* security headers, errors answered further out included.
AnswersAreHardened ==
    \A r \in Requests :
        Handled(r) /\ Places("bundle") # {} /\ Sent(req[r].resp)
        => req[r].resp.wire[1].header.hardened

RawCookieSent(r) == Sent(req[r].resp) /\ req[r].resp.wire[1].header.cookie = "raw"
-----------------------------------------------------------------------------
(* Claims of the repository that the code does not keep.                   *)

\* "SecureCookies returns a Gin middleware that enforces secure cookie
\* defaults" (gin.go:1072), with "Enforce on all Set-Cookie headers after
\* handler runs".
CookiesSecured ==
    \A r \in Requests : Places("cookies") # {} /\ ~Broke(r) => ~RawCookieSent(r)

\* DryRun is "Ignored when Block=false" (gin.go:108).
DryRunNeedsBlock ==
    \A r \in Requests :
        Handled(r) /\ ~d.block /\ Read(r) => req[r].shape.hits \cap BodyHits = {}
=============================================================================
