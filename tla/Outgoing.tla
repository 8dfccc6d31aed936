------------------------------ MODULE Outgoing ------------------------------
(***************************************************************************)
(* What leaves through the net/http middlewares an application mounts by   *)
(* themselves, in any order: SafeCors (cors.go), which sets headers on the *)
(* way in and answers preflights, SecureCookieDefaults (cookies.go) and    *)
(* ResponseSplittingGuard (response_splitting.go), which wrap the writer   *)
(* and work on the header map when the handler writes.  The handler is any *)
(* sequence of header changes and writes; a cache may stand in front.      *)
(***************************************************************************)
EXTENDS Integers, Sequences, SequencesExt

CONSTANTS Origin,      \* Origin headers that are not "" or "null"
          Policies,    \* CorsOptions.Origin of the deployments: what each matches
          MaxOps       \* bound: steps of a handler

Options == MaxOps \in Nat

None == "none"
Info == 103

VARIABLES chain,     \* the mounted middlewares, outermost first
          mode,      \* ResponseSplittingOptions.Mode
          policy,    \* the member of Policies this deployment has
          request,   \* the request in progress
          ops,       \* steps its handler has taken
          writer,    \* the response writer, with the state of its wrappers
          cache,     \* what the cache holds for the URL
          answer     \* what the client received, when no request is in progress

vars == <<chain, mode, policy, request, ops, writer, cache, answer>>

\* A header value is a record: a cookie has its attributes (secure) or not, and
\* any value may hold the line breaks DetectHeaderInjection looks for (dirty).
NoHeader == [cookie |-> <<>>, plain |-> <<>>, allow |-> None, vary |-> FALSE]
Fresh == [header |-> NoHeader, status |-> 0, headerWritten |-> FALSE, rejected |-> FALSE,
          wire |-> <<>>, body |-> <<>>, hinted |-> FALSE, silent |-> FALSE]
NoRequest == [origin |-> None, preflight |-> FALSE]
NoAnswer == [origin |-> None, allow |-> None, status |-> 0]

Mounted(m) == \E i \in 1 .. Len(chain) : chain[i] = m
Sent(w) == w.wire # <<>>

Init ==
    /\ chain \in { c \in SeqOf({"cors", "cookies", "splitting"}, 3) : IsInjective(c) }
    /\ mode \in IF Mounted("splitting") THEN {"strip", "reject"} ELSE {"strip"}
    /\ policy \in Policies
    /\ request = NoRequest /\ ops = 0 /\ writer = Fresh /\ cache = <<>>
    /\ answer = NoAnswer

\* Every state is well formed.
TypeOK ==
    LET Value == [secure : BOOLEAN, dirty : BOOLEAN]
        Header == [cookie : Seq(Value), plain : Seq(Value), allow : Origin \cup {None}, vary : BOOLEAN]
        Status == {0, Info, 200, 204, 500}
    IN  /\ IsInjective(chain) /\ Range(chain) \subseteq {"cors", "cookies", "splitting"}
        /\ mode \in {"strip", "reject"} /\ policy \in Policies /\ ops \in 0 .. MaxOps
        /\ writer.header \in Header /\ writer.status \in Status
        /\ Sent(writer) => writer.wire[1] \in [status : Status \ {0, Info}, header : Header]
        /\ cache # <<>> => cache[1].allow \in Origin \cup {None}
        /\ answer.status \in Status \ {Info}

-----------------------------------------------------------------------------
(* The middlewares. *)

\* The "null" origin is refused whatever the option matches.
isOriginAllowed(o) == o # "null" /\ o \in policy

VaryIfAllowed(h, o) ==
    IF o # "" /\ isOriginAllowed(o) THEN [h EXCEPT !.vary = TRUE, !.allow = o] ELSE h

\* GetHeaders, set on the header map.  Vary is set for every request.
GetHeaders(h, o) ==
    [h EXCEPT !.vary = TRUE,
              !.allow = IF o # "" /\ isOriginAllowed(o) THEN o ELSE @]

\* secureCookieWriter: every cookie gets the attributes it lacks.
Enforce(w) ==
    [w EXCEPT !.header.cookie = [i \in DOMAIN @ |-> [@[i] EXCEPT !.secure = TRUE]]]

SanitizeHeaderValue(v) == [v EXCEPT !.dirty = FALSE]
StrippedFirst(values) ==
    [i \in DOMAIN values |-> IF i = 1 THEN SanitizeHeaderValue(values[i]) ELSE values[i]]
Stripped(values) == [i \in DOMAIN values |-> SanitizeHeaderValue(values[i])]

Dirty(h) == \E v \in Range(h.cookie) \cup Range(h.plain) : v.dirty

\* responseSplittingWriter.WriteHeader: only the first call looks at the
\* headers; "reject" replaces them and the status.
Guard(w) ==
    IF w.headerWritten THEN w
    ELSE IF mode = "reject" /\ Dirty(w.header)
    THEN [w EXCEPT !.headerWritten = TRUE, !.rejected = TRUE, !.header = NoHeader,
                   !.status = 500, !.body = <<"refusal">>]
    ELSE [w EXCEPT !.headerWritten = TRUE,
                   !.header.cookie = Stripped(@), !.header.plain = Stripped(@)]

\* A call passes the wrapper m mounted around the caller.
Through(m, w) ==
    CASE m = "cookies" -> Enforce(w)
      [] m = "splitting" -> Guard(w)
      [] OTHER -> w

\* net/http: the first status that is not informational goes out with a copy
\* of the header map.
Commit(w) ==
    IF Sent(w) \/ w.status = Info THEN w
    ELSE [w EXCEPT !.wire = <<[status |-> w.status, header |-> w.header]>>]

\* WriteHeader(st), called inside the middlewares of c, three at most: from the
\* innermost wrapper to the outermost.
WriteHeader(w, st, c) ==
    LET Pass(i, v) == IF i <= Len(c) THEN Through(c[i], v) ELSE v
    IN  Commit(Pass(1, Pass(2, Pass(3, [w EXCEPT !.status = st]))))

\* Write: it implies WriteHeader(200); after a refusal the body is swallowed.
Write(w, c) ==
    LET v == WriteHeader(w, 200, c)
    IN  IF v.rejected THEN v ELSE [v EXCEPT !.body = Append(@, "content")]

-----------------------------------------------------------------------------
(* Requests. *)

\* The way in.  A preflight of an allowed origin is answered by SafeCors
\* itself, through what is mounted around it.
Preflight(w, r) == r.preflight /\ r.origin # "" /\ w.header.allow # None

Receive ==
    /\ request = NoRequest
    /\ \E o \in Origin \cup {"", "null"}, p \in BOOLEAN :
          LET r == [origin |-> o, preflight |-> p]
              w == IF Mounted("cors") THEN [Fresh EXCEPT !.header = GetHeaders(@, o)] ELSE Fresh
              outside == SubSeq(chain, 1, SelectInSeq(chain, LAMBDA m : m = "cors") - 1)
          IN  /\ request' = r
              /\ IF Preflight(w, r)
                 THEN writer' = WriteHeader(w, 204, outside) /\ ops' = MaxOps
                 ELSE writer' = w /\ ops' = 0
    /\ answer' = NoAnswer
    /\ UNCHANGED <<chain, mode, policy, cache>>

Handler(w) ==
    /\ request # NoRequest /\ ops < MaxOps
    /\ ops' = ops + 1
    /\ writer' = w
    /\ UNCHANGED <<chain, mode, policy, request, cache, answer>>

\* The handler adds a cookie, or another header.  What it changes after the
\* headers have been sent goes nowhere and is left out.
SetHeader ==
    /\ ~Sent(writer)
    /\ \E d \in BOOLEAN :
          LET v == [secure |-> FALSE, dirty |-> d]
          IN  \/ Handler([writer EXCEPT !.header.cookie = Append(@, v)])
              \/ Handler([writer EXCEPT !.header.plain = Append(@, v)])

\* The handler sends a status, early hints ahead of it, or a part of the body.
Writes ==
    \/ Handler(WriteHeader(writer, 200, chain))
    \/ /\ ~Sent(writer)
       /\ Handler([WriteHeader(writer, Info, chain) EXCEPT !.hinted = TRUE])
    \/ Handler(Write(writer, chain))

\* The handler returns.  If nothing was written the server sends 200 with the
\* header map, past the wrappers.  Successful answers may be cached.
Finish ==
    LET silent == [writer EXCEPT !.status = 200, !.silent = TRUE]
        w == IF Sent(writer) THEN writer ELSE Commit(silent)
        sent == w.wire[1]
    IN  /\ request # NoRequest
        /\ writer' = w
        /\ answer' = [origin |-> request.origin, allow |-> sent.header.allow, status |-> sent.status]
        /\ cache' \in {cache} \cup
              (IF sent.status = 200 /\ ~request.preflight
               THEN {<<[vary |-> sent.header.vary, origin |-> request.origin,
                        allow |-> sent.header.allow]>>}
               ELSE {})
        /\ request' = NoRequest /\ ops' = 0
        /\ UNCHANGED <<chain, mode, policy>>

\* The cache answers: any client, unless what it holds varies with the origin.
Cached ==
    /\ request = NoRequest /\ cache # <<>>
    /\ \E o \in Origin \cup {"", "null"} :
          /\ cache[1].vary => o = cache[1].origin
          /\ answer' = [origin |-> o, allow |-> cache[1].allow, status |-> 200]
    /\ writer' = Fresh
    /\ UNCHANGED <<chain, mode, policy, request, ops, cache>>

Next == Receive \/ SetHeader \/ Writes \/ Finish \/ Cached

Spec == Init /\ [][Next]_vars

-----------------------------------------------------------------------------
(* Properties *)

CookiesSecured(sent) == \A v \in Range(sent.header.cookie) : v.secure
RefusedWhole == writer.wire[1] = [status |-> 500, header |-> NoHeader] /\ writer.body = <<"refusal">>

\* In whatever order they are mounted and whatever the handler writes when, the
\* wrappers keep their promises for what is on the wire: the cookies have
\* their attributes, no value can split the response, and a refusal is whole,
\* with nothing of the handler's.  Two handlers are exempt, those that return
\* without writing and, for the splitting guard, those that sent hints first:
\* the code answers them past the wrappers.
WireKept ==
    Sent(writer) =>
        /\ Mounted("cookies") /\ ~writer.silent => CookiesSecured(writer.wire[1])
        /\ Mounted("splitting") /\ ~writer.silent /\ ~writer.hinted =>
              ~Dirty(writer.wire[1].header)
        /\ writer.rejected => RefusedWhole

\* The same without the exemptions, as the comments of the two wrappers have it
\* for every cookie and every header.
WireKeptAlways ==
    Sent(writer) =>
        /\ Mounted("cookies") => CookiesSecured(writer.wire[1])
        /\ Mounted("splitting") => ~Dirty(writer.wire[1].header)

\* Behind SafeCors, the answer a client receives, from the server or from a
\* cache it shares with others, allows its own origin exactly if the policy
\* does, never another's; the 500 of the splitting guard allows none.
EachOriginItsOwn ==
    Mounted("cors") /\ answer.status \in {200, 204} =>
        answer.allow = IF answer.origin # "" /\ isOriginAllowed(answer.origin)
                       THEN answer.origin ELSE None

\* The wrappers keep their promises for what leaves, and together: neither undoes
\* what the other has added, on the wire or in a cache.
AnswersKept == WireKept /\ EachOriginItsOwn
=============================================================================
