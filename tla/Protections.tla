---------------------------- MODULE Protections ----------------------------
(***************************************************************************)
(* The composed checks of login, signup and API endpoints:                 *)
(* middleware/protect_login.go, signup_protection.go, protect_api.go, with *)
(* ValidateEmail of validation/email.go.                                   *)
(*                                                                         *)
(* Bot detection, the syntax of an address and the threat scan are         *)
(* verdicts; the rate limit is the limiter of RateLimiter, which Check     *)
(* calls under its mutex after everything else.                            *)
(***************************************************************************)
EXTENDS Integers, Sequences

CONSTANTS IP,
          Bot,             \* categories of bots
          Human,           \* a request that DetectBot takes for no bot
          Domain,          \* of e-mail addresses
          disposableDomains,
          Missing, Malformed,  \* an empty address, one of wrong syntax
          Origin, NoOrigin,
          Protections,     \* the options an application may choose
          Max, Window, NoEntry, MaxTime, MaxCount   \* as in RateLimiter

\* NewLoginProtection, NewSignupProtection, NewApiProtection: Max is
\* RateLimitMax, 5 when that is 0; a negative one leaves limited FALSE.
Options == \A p \in Protections :
    /\ p.kind \in {"login", "signup", "api"} /\ p.limited \in BOOLEAN
    /\ p.CheckBot \in BOOLEAN /\ p.AllowedBotCategories \subseteq Bot
    /\ p.kind = "login" => p.RequireCredentialsCheck \in BOOLEAN
    /\ p.kind = "signup" => /\ p.CheckEmail \in BOOLEAN /\ p.BlockDisposable \in BOOLEAN
                            /\ p.AllowedEmailDomains \cup p.BlockedEmailDomains \subseteq Domain
    /\ p.kind = "api" => /\ p.CheckOrigin \in BOOLEAN /\ p.ScanBody \in BOOLEAN
                         /\ p.ExpectedOrigins \subseteq Origin /\ ~p.limited

VARIABLES opts,
          now, store, closed, reply, refused,  \* the limiter
          attempt,    \* the IP of the last request, or NoEntry
          verdict,    \* its result's Reason
          screened    \* history: when the requests of an IP that no check but the
                      \* limit objects to were counted, over the last window

limiterVars == <<now, store, closed, reply, refused>>
vars == <<opts, limiterVars, attempt, verdict, screened>>

L == INSTANCE RateLimiter WITH Key <- IP, max <- Max, window <- Window

TypeOK ==
    /\ opts \in Protections /\ L!TypeOK
    /\ verdict \in {"ok", "bot", "missing_credentials", "missing_email", "invalid_email",
                    "disposable_email", "bad_origin", "threat", "rate_limited"}
    /\ \A ip \in IP : screened[ip] \in Seq(0 .. MaxTime)

Init ==
    /\ opts \in Protections /\ L!Init
    /\ attempt = NoEntry /\ verdict = "ok" /\ screened = [ip \in IP |-> <<>>]

\* DetectBot and containsCategory.
BlockedBot(bot) == opts.CheckBot /\ bot \notin {Human} \cup opts.AllowedBotCategories

\* ValidateEmail as NewSignupProtection calls it, without typo suggestions: the
\* allowed domains come first.
ValidateEmail(email) ==
    IF email = Malformed THEN "invalid_syntax"
    ELSE IF email \in opts.AllowedEmailDomains THEN "valid"
    ELSE IF email \in opts.BlockedEmailDomains THEN "blocked"
    ELSE IF opts.BlockDisposable /\ email \in disposableDomains THEN "disposable"
    ELSE "valid"

EmailRefusal(email) ==
    IF ~opts.CheckEmail THEN "ok"
    ELSE IF email = Missing THEN "missing_email"
    ELSE CASE ValidateEmail(email) = "valid" -> "ok"
           [] ValidateEmail(email) = "disposable" -> "disposable_email"
           [] OTHER -> "invalid_email"

\* The stamps of s that still count; they are in order, so the others lead.
Counting(s) ==
    LET first == CHOOSE i \in 1 .. Len(s) + 1 :
                    /\ \A j \in 1 .. i - 1 : s[j] + Window < now
                    /\ i <= Len(s) => s[i] + Window >= now
    IN  SubSeq(s, first, Len(s))

\* The attempts of every IP that still count, with this one.
CountedAfter(a, reason) ==
    [ip \in IP |-> IF ip = a.ip /\ reason = "ok" /\ opts.limited
                   THEN Append(Counting(screened[ip]), now) ELSE Counting(screened[ip])]

Block(a, reason) ==
    /\ verdict' = reason /\ attempt' = a.ip /\ screened' = CountedAfter(a, reason)
    /\ UNCHANGED <<opts, limiterVars>>

\* The limiter, when there is one.
Limit(a) ==
    /\ IF opts.limited
       THEN L!CheckKey(a.ip) /\ verdict' = IF reply'.allowed THEN "ok" ELSE "rate_limited"
       ELSE verdict' = "ok" /\ UNCHANGED limiterVars
    /\ attempt' = a.ip /\ screened' = CountedAfter(a, "ok")
    /\ UNCHANGED opts

\* Wrong: the limiter is asked before the screens, which only hide its answer.
LimitEverything(a, reason) ==
    /\ IF opts.limited
       THEN L!CheckKey(a.ip) /\ verdict' = IF ~reply'.allowed THEN "rate_limited" ELSE reason
       ELSE verdict' = reason /\ UNCHANGED limiterVars
    /\ attempt' = a.ip /\ screened' = CountedAfter(a, reason)
    /\ UNCHANGED opts

\* Check: the first objection ends it, and only a request without one is counted.
Conclude(a, reason) == IF reason # "ok" THEN Block(a, reason) ELSE Limit(a)

CheckLogin(a) ==
    /\ opts.kind = "login"
    /\ Conclude(a, IF BlockedBot(a.bot) THEN "bot"
                   ELSE IF opts.RequireCredentialsCheck /\ ~a.credentials THEN "missing_credentials"
                   ELSE "ok")

CheckSignup(a) ==
    /\ opts.kind = "signup"
    /\ Conclude(a, IF BlockedBot(a.bot) THEN "bot" ELSE EmailRefusal(a.email))

\* The Origin header, compared without case and trailing slashes; a request
\* without one matches nothing.
CheckApi(a) ==
    /\ opts.kind = "api"
    /\ Conclude(a, IF opts.CheckOrigin /\ a.origin \notin opts.ExpectedOrigins THEN "bad_origin"
                   ELSE IF BlockedBot(a.bot) THEN "bot"
                   ELSE IF opts.ScanBody /\ a.threat THEN "threat"
                   ELSE "ok")

\* The limiter's goroutine and the clock; Close stops the former.
Sweep ==
    /\ opts.limited /\ (L!cleanup \/ L!Close)
    /\ UNCHANGED <<opts, attempt, verdict, screened>>

Tick == L!Tick /\ UNCHANGED <<opts, attempt, verdict, screened>>

Next ==
    \/ \E ip \in IP, bot \in Bot \cup {Human} :
          \/ \E c \in BOOLEAN : CheckLogin([ip |-> ip, bot |-> bot, credentials |-> c])
          \/ \E e \in Domain \cup {Missing, Malformed} : CheckSignup([ip |-> ip, bot |-> bot, email |-> e])
          \/ \E o \in Origin \cup {NoOrigin}, t \in BOOLEAN :
                CheckApi([ip |-> ip, bot |-> bot, origin |-> o, threat |-> t])
    \/ Sweep \/ Tick

Spec == Init /\ [][Next]_vars

-----------------------------------------------------------------------------
\* Check: an IP is refused for its rate only when more than Max requests that
\* nothing else objects to were made in the last window: bots, empty forms and
\* bad addresses, however many, cost the people behind the same IP nothing.
\* And a request that passes was counted.
OnlyScreenedCharged ==
    [][ \/ attempt' = attempt /\ screened' = screened
        \/ /\ verdict' = "rate_limited" => Len(screened'[attempt']) > Max
           /\ verdict' = "ok" /\ opts.limited =>
                 /\ store'[attempt'].count <= Max
                 /\ store'[attempt'].count <= Len(screened'[attempt']) ]_vars
=============================================================================
