------------------------------ MODULE Incoming ------------------------------
(***************************************************************************)
(* What reaches a handler through the middlewares that read or rewrite the *)
(* request, mounted in any order: HppMiddleware (hpp.go), MassAssign       *)
(* (mass_assignment.go) and the threat scan of the bundle                  *)
(* (pipeline.go).  They share one *http.Request, whose body can be read    *)
(* once, whose query is parsed anew at each use, and whose form is parsed  *)
(* once, by whoever asks first, and kept.                                  *)
(***************************************************************************)
EXTENDS Integers, Sequences, SequencesExt

CONSTANTS Param,       \* names of parameters, fields and JSON keys
          Listed,      \* HppOptions.Whitelist, and MassAssignOptions.Allow
          Attack       \* the value the scan recognises; the harmless one is "ok"

Options == Listed \subseteq Param

VARIABLES chain,     \* the mounted middlewares, outermost first
          mode,      \* MassAssignOptions.Mode
          sent,      \* the request as the client sent it
          request,   \* the *http.Request
          at,        \* the middleware whose turn it is
          refused    \* a middleware has answered

vars == <<chain, mode, sent, request, at, refused>>

\* Parameters with their values, in the order they came.
Values == {<<>>, <<"ok">>, <<"ok", Attack>>, <<Attack, "ok">>}
Params == [Param -> Values]
NoParams == [p \in Param |-> <<>>]

ContentType == {"form", "multipart", "json"}

\* A POST.  Of its body the reader may fail; a JSON body is an object or not.
Sent == [query : Params, type : ContentType, body : Params, fails : BOOLEAN, object : BOOLEAN]

Nothing == [query |-> NoParams, type |-> "form", body |-> NoParams, fails |-> FALSE, object |-> FALSE]

\* The body is there until it is read, <<>> afterwards; PostForm and Form are
\* <<>> until they are parsed.
Fresh(s) == [query |-> s.query, body |-> <<s.body>>, PostForm |-> <<>>, Form |-> <<>>]

Mounted(m) == \E i \in 1 .. Len(chain) : chain[i] = m
Outside(m, n) == \E i, j \in 1 .. Len(chain) : i < j /\ chain[i] = m /\ chain[j] = n

Init ==
    /\ chain \in { c \in SeqOf({"hpp", "mass", "scan"}, 3) : IsInjective(c) }
    /\ mode \in IF Mounted("mass") THEN {"strip", "reject"} ELSE {"strip"}
    /\ sent \in { s \in Sent : s.object => s.type = "json" }
    /\ request = Fresh(sent)
    /\ at = 1 /\ refused = FALSE

\* Every state is well formed.
TypeOK ==
    LET Parsed == [Param -> Seq({"ok", Attack})]
    IN  /\ IsInjective(chain) /\ Range(chain) \subseteq {"hpp", "mass", "scan"}
        /\ mode \in {"strip", "reject"} /\ sent \in Sent /\ refused \in BOOLEAN
        /\ at \in 1 .. Len(chain) + 2
        /\ request.query \in Parsed
        /\ sent.type # "json" => request.body \in {<<>>, <<sent.body>>}
        /\ request.PostForm # <<>> => request.PostForm[1] \in Parsed
        /\ (request.Form = <<>>) = (request.PostForm = <<>>)
        /\ request.Form # <<>> => request.Form[1] \in Parsed

-----------------------------------------------------------------------------
(* net/http *)

Joined(f, g) == [p \in Param |-> f[p] \o g[p]]

\* ParseForm reads an urlencoded body, if it is still there, and keeps the form.
ParseForm(r) ==
    IF r.Form # <<>> THEN r
    ELSE LET form == IF sent.type = "form" /\ r.body # <<>> THEN r.body[1] ELSE NoParams
         IN  [r EXCEPT !.PostForm = <<form>>,
                       !.Form = <<Joined(form, r.query)>>,
                       !.body = IF sent.type = "form" THEN <<>> ELSE @]

\* ParseMultipartForm, for FormValue, adds the fields of a multipart body.
ParseMultipartForm(r) ==
    LET p == ParseForm(r)
    IN  IF sent.type # "multipart" \/ r.body = <<>> THEN p
        ELSE [p EXCEPT !.PostForm = <<Joined(@[1], r.body[1])>>,
                       !.Form = <<Joined(@[1], r.body[1])>>,
                       !.body = <<>>]

-----------------------------------------------------------------------------
(* The middlewares. *)

Turn(m) == at <= Len(chain) /\ chain[at] = m /\ ~refused
Pass(r) == request' = r /\ at' = at + 1 /\ UNCHANGED <<chain, mode, sent, refused>>
Refuse  == refused' = TRUE /\ UNCHANGED <<chain, mode, sent, request, at>>

FirstWins(p, values) == IF Len(values) > 1 /\ p \notin Listed THEN <<Head(values)>> ELSE values

\* The last of several values wins, unless the parameter is whitelisted.
LastWins(p, values) == IF Len(values) > 1 /\ p \notin Listed THEN <<Last(values)>> ELSE values

\* HppMiddleware: the query, then the form.  Form changes only where PostForm
\* had several values.
Normalized(r) ==
    [r EXCEPT !.PostForm = <<[p \in Param |-> LastWins(p, @[1][p])]>>,
              !.Form = <<[p \in Param |->
                            IF Len(r.PostForm[1][p]) > 1 /\ p \notin Listed
                            THEN LastWins(p, r.PostForm[1][p]) ELSE @[1][p]]>>]

Hpp ==
    LET q == [request EXCEPT !.query = [p \in Param |-> LastWins(p, @[p])]]
        f == ParseForm(q)
    IN  /\ Turn("hpp")
        /\ Pass(IF sent.type = "json" THEN q
                ELSE IF sent.type = "form" /\ sent.fails THEN f  \* OnParseError
                ELSE Normalized(f))

\* MassAssign: a JSON object keeps its allowed keys, in a body put back; what
\* cannot be read goes on without its body.
Disallowed(b) == { p \in Param : b[p] # <<>> } \ Listed
Filtered(b) == [p \in Param |-> IF p \in Disallowed(b) THEN <<>> ELSE b[p]]

Mass ==
    /\ Turn("mass")
    /\ IF sent.type # "json" \/ request.body = <<>> THEN Pass(request)
       ELSE IF sent.fails THEN Pass([request EXCEPT !.body = <<>>])
       ELSE IF ~sent.object THEN Pass(request)
       ELSE IF mode = "reject" /\ Disallowed(request.body[1]) # {} THEN Refuse
       ELSE Pass([request EXCEPT !.body = <<Filtered(@[1])>>])

\* ScanRequestForThreats: the body of a JSON or urlencoded request, read and
\* put back, and the query.
Attacked(f) == \E p \in Param : \E i \in DOMAIN f[p] : f[p][i] = Attack

Scanned(r) ==
    \/ Attacked(r.query)
    \/ sent.type \in {"json", "form"} /\ r.body # <<>> /\ ~sent.fails /\ Attacked(r.body[1])

Scan ==
    /\ Turn("scan")
    /\ IF Scanned(request) THEN Refuse
       ELSE Pass(IF sent.type \in {"json", "form"} /\ sent.fails
                 THEN [request EXCEPT !.body = <<>>] ELSE request)

\* The handler asks for a form value, or reads the JSON itself, and returns.
Handled == at = Len(chain) + 1 /\ ~refused

Handle ==
    /\ Handled
    /\ at' = at + 1
    /\ request' = IF sent.type = "json" THEN request ELSE ParseMultipartForm(request)
    /\ UNCHANGED <<chain, mode, sent, refused>>

\* The answer is out; the server goes on to requests that share nothing with
\* this one.
Over ==
    /\ refused \/ at = Len(chain) + 2
    /\ UNCHANGED <<chain, mode, sent, request, at, refused>>

Next == Hpp \/ Mass \/ Scan \/ Handle \/ Over

Spec == Init /\ [][Next]_vars

-----------------------------------------------------------------------------
(* Property *)

Done == at = Len(chain) + 2

\* FormValue
FormValue(p) == IF request.Form[1][p] = <<>> THEN <<>> ELSE <<Head(request.Form[1][p])>>

LastSent(p) ==
    IF sent.body[p] # <<>> THEN <<Last(sent.body[p])>>
    ELSE IF sent.query[p] # <<>> THEN <<Last(sent.query[p])>> ELSE <<>>

\* Behind the scan the handler reads no attack it covers.
NothingUnscanned ==
    /\ ~Attacked(request.query)
    /\ sent.type = "form" /\ ~Outside("hpp", "scan") => ~Attacked(request.PostForm[1])
    /\ sent.type = "json" /\ request.body # <<>> => ~Attacked(request.body[1])

\* Behind HppMiddleware it reads one value of a parameter, the last one sent,
\* and of the whitelisted parameters all of them.
OneValueEach ==
    /\ \A p \in Param \ Listed :
          /\ Len(request.query[p]) <= 1
          /\ sent.type = "form" => Len(request.PostForm[1][p]) <= 1 /\ FormValue(p) = LastSent(p)
    /\ sent.type = "form" => \A p \in Listed : request.PostForm[1][p] = sent.body[p]

\* Behind MassAssign a JSON object has its allowed keys, all of them, no others.
AllowedOnly == sent.object => request.body = <<Filtered(sent.body)>>

\* Whatever is mounted in whatever order, a handler reads what the middlewares
\* in front of it promise, not what one of them has read away, parsed too
\* early, or judged in another form: as long as the body can be read, except
\* that the scan must be outside HPP to see a form, and that a multipart form
\* is neither scanned nor normalised.
InputJudged ==
    Done /\ ~sent.fails =>
        /\ Mounted("scan") => NothingUnscanned
        /\ Mounted("hpp") => OneValueEach
        /\ Mounted("mass") => AllowedOnly

\* The same for multipart forms and for either order, as the comments of
\* HppMiddleware ("normalizes duplicate query and form parameters to their
\* last value") and of ScanRequestForThreats ("walks an HTTP request (body,
\* query, URL path)") have it.
InputJudgedAlways ==
    Done /\ ~sent.fails /\ sent.type # "json" =>
        /\ Mounted("scan") /\ sent.type = "form" => ~Attacked(request.PostForm[1])
        /\ Mounted("hpp") => \A p \in Param \ Listed : FormValue(p) = LastSent(p)
=============================================================================
