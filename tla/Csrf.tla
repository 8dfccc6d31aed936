-------------------------------- MODULE Csrf --------------------------------
(***************************************************************************)
(* Double-submit CSRF protection (middleware/csrf.go) behind net/http and  *)
(* chi, and as gin and echo wrap it, serving one browser with several      *)
(* tabs.  The server keeps no tokens: what it knows of a browser is the    *)
(* cookie jar at the time of the request, and answers may reach the jar in *)
(* any order.  How gin and echo go on after a middleware returns is        *)
(* modelled as those frameworks do it.                                     *)
(***************************************************************************)
EXTENDS Integers

CONSTANTS Tab,       \* tabs of the browser, each with at most one request under way
          Setups,    \* deployments: [adapter, renamed, onError]
          NoToken,   \* "": no cookie, no token
          MaxIssued  \* bound: tokens the server generates

\* A deployment: CookieName is changed from "_csrf", OnError answers with
\* another status than 403.
Deployment == [adapter : {"http", "gin", "echo"}, renamed : BOOLEAN, onError : BOOLEAN]

VARIABLES setup,     \* the deployment
          issued,    \* tokens generated so far: token n is the n-th
          jar,       \* the browser's cookie
          page,      \* page[t]: the token the page in t has read from the jar
          settled,   \* history: page[t] was read when nothing could change the jar
          request,   \* request[t], or Idle
          reply      \* reply[t], or Idle: the cookie it sets, how often the
                     \* handler has run, whether the check rejected the request

vars == <<setup, issued, jar, page, settled, request, reply>>

Token == 1 .. MaxIssued

\* A request: its method is safe or in ProtectedMethods; a token travels in the
\* header, in a form, or in a form that earlier code has parsed; SkipCsrf
\* exempts it, or its path does.
Shape == { s \in [kind : {"safe", "protected"}, carrier : {"header", "form", "parsedForm"},
                   exempt : {"no", "skip", "path"}] :
             s.kind = "safe" \/ s.exempt # "no" => s.carrier = "header" }
Idle == [kind |-> "none"]

TypeOK ==
    /\ setup \in Setups /\ Setups \subseteq Deployment
    /\ issued \in 0 .. MaxIssued
    /\ jar \in Token \cup {NoToken}
    /\ page \in [Tab -> Token \cup {NoToken}]
    /\ settled \in [Tab -> BOOLEAN]
    /\ \A t \in Tab : reply[t] # Idle =>
          reply[t] \in [cookie : Token \cup {NoToken}, runs : 0 .. 2, rejected : BOOLEAN]

Init ==
    /\ setup \in Setups
    /\ issued = 0
    /\ jar = NoToken
    /\ page = [t \in Tab |-> NoToken]
    /\ settled = [t \in Tab |-> FALSE]
    /\ request = [t \in Tab |-> Idle]
    /\ reply = [t \in Tab |-> Idle]

-----------------------------------------------------------------------------
AcceptsMissing(cookie, token) == cookie = NoToken \/ token = cookie
ValidateCsrfToken(cookie, token) == cookie # NoToken /\ token # NoToken /\ cookie = token

\* getRequestToken: the header, then a form some earlier code has parsed.
getRequestToken(r) ==
    IF r.carrier \in {"header", "parsedForm"} THEN r.token ELSE NoToken

Safe(r) == r.kind = "safe"

\* GenerateCsrfToken: a new token, or none when the random source fails.
Generated == { NoToken } \cup (IF issued < MaxIssued THEN {issued + 1} ELSE {})

Answer(cookie, runs, rejected) == [cookie |-> cookie, runs |-> runs, rejected |-> rejected]

\* The safe requests Handler gives a cookie.
LacksAny(r) == TRUE
LacksCookie(r) == r.cookie = NoToken

\* The answers of CsrfProtection.Handler.
HandlerAnswers(r) ==
    IF r.exempt # "no" THEN { Answer(NoToken, 1, FALSE) }
    ELSE IF Safe(r)
         THEN { Answer(c, 1, FALSE) : c \in IF LacksCookie(r) THEN Generated ELSE {NoToken} }
    ELSE IF ValidateCsrfToken(r.cookie, getRequestToken(r))
         THEN { Answer(NoToken, 1, FALSE) }
         ELSE { Answer(NoToken, 0, TRUE) }

\* gin runs Handler on a recorder.  A recorded 403 aborts the chain; otherwise
\* the middleware returns, and the engine goes on with the handlers that have
\* not run yet: those of a request that OnError answered with another status.
GinAnswers(r) ==
    { IF a.rejected /\ setup.onError THEN [a EXCEPT !.runs = 1] ELSE a : a \in HandlerAnswers(r) }

\* echo calls Check: a safe request, excluded or not, is given a cookie unless
\* it has one named "_csrf"; the token is read from the header only, and
\* neither SkipCsrf nor OnError is called.
EchoAnswers(r) ==
    IF Safe(r)
    THEN { Answer(c, 1, FALSE) :
             c \in IF setup.renamed \/ r.cookie = NoToken THEN Generated ELSE {NoToken} }
    ELSE LET token == IF r.carrier = "header" THEN r.token ELSE NoToken
         IN  IF r.exempt = "path" \/ ValidateCsrfToken(r.cookie, token)
             THEN { Answer(NoToken, 1, FALSE) }
             ELSE { Answer(NoToken, 0, TRUE) }

Answers(r) == CASE setup.adapter = "http" -> HandlerAnswers(r)
                [] setup.adapter = "gin"  -> GinAnswers(r)
                [] setup.adapter = "echo" -> EchoAnswers(r)

Serve(t) ==
    /\ request[t] # Idle /\ reply[t] = Idle
    /\ \E a \in Answers(request[t]) :
          /\ reply' = [reply EXCEPT ![t] = a]
          /\ issued' = IF a.cookie = NoToken THEN issued ELSE a.cookie
    /\ UNCHANGED <<setup, jar, page, settled, request>>

-----------------------------------------------------------------------------
(* The browser. *)

\* Nothing under way can change the jar: it holds a cookie and so does every
\* request.
Settled == /\ jar # NoToken
           /\ \A t \in Tab : request[t] # Idle => request[t].cookie # NoToken

\* The page's script reads the cookie.
Load(t) ==
    /\ request[t] = Idle
    /\ page' = [page EXCEPT ![t] = jar]
    /\ settled' = [settled EXCEPT ![t] = Settled]
    /\ UNCHANGED <<setup, issued, jar, request, reply>>

\* The browser adds the cookie it holds now; the page the token it read then.
Send(t) ==
    /\ request[t] = Idle
    /\ \E s \in Shape :
          request' = [request EXCEPT ![t] =
              [kind |-> s.kind, carrier |-> s.carrier, exempt |-> s.exempt,
               cookie |-> jar, token |-> page[t]]]
    /\ UNCHANGED <<setup, issued, jar, page, settled, reply>>

Receive(t) ==
    /\ reply[t] # Idle
    /\ jar' = IF reply[t].cookie = NoToken THEN jar ELSE reply[t].cookie
    /\ request' = [request EXCEPT ![t] = Idle]
    /\ reply' = [reply EXCEPT ![t] = Idle]
    /\ UNCHANGED <<setup, issued, page, settled>>

Next == \E t \in Tab : Serve(t) \/ Load(t) \/ Send(t) \/ Receive(t)

Spec == Init /\ [][Next]_vars

-----------------------------------------------------------------------------
(* Properties *)

\* The handler runs once, and only for requests that need no token or proved
\* to have read the cookie they came with.
OnlyVerifiedHandled ==
    \A t \in Tab : reply[t] # Idle =>
        LET r == request[t]
        IN  /\ reply[t].runs <= 1
            /\ reply[t].runs = 1 => ~reply[t].rejected
            /\ reply[t].runs = 1 =>
                  Safe(r) \/ r.exempt # "no" \/ (r.token = r.cookie /\ r.cookie # NoToken)

\* A page that reads its token once nothing under way can change the cookie
\* keeps working, whatever its other tabs load meanwhile: the token it sends in
\* the header is never refused.
SettledPageAccepted ==
    \A t \in Tab :
        (reply[t] # Idle /\ settled[t] /\ request[t].carrier = "header") => ~reply[t].rejected
=============================================================================
