------------------------------ MODULE Response ------------------------------
(***************************************************************************)
(* An HTTP response as the middleware sees it: a header map that can be    *)
(* changed at any time, the status the framework remembers, and what has   *)
(* gone to the wire, which is a copy of the header map taken when the      *)
(* first byte of the body is written and never changes again.  net/http,   *)
(* and gin and echo on top of it, stream; fasthttp, under fiber, buffers.  *)
(***************************************************************************)
EXTENDS Integers, Sequences

\* The header map, reduced to the session cookie a handler sets ("raw" until
\* secure attributes are added), a Server header, and the security headers.
HeaderMap == [cookie : {"none", "raw", "secure"}, server : BOOLEAN, hardened : BOOLEAN]

Codes == {200, 400, 403, 429, 500, 503}

Wire == [status : Codes, header : HeaderMap]

Responses == [status : Codes, header : HeaderMap,
              guarded : BOOLEAN,        \* chi: inside a secureCookieWriter
              wire : {<<>>} \cup {<<w>> : w \in Wire}]

Fresh == [status |-> 200,
          header |-> [cookie |-> "none", server |-> FALSE, hardened |-> FALSE],
          guarded |-> FALSE,
          wire |-> <<>>]

Sent(p) == p.wire # <<>>

\* The header map goes out under the status st, unless it already has.
Commit(p, st) ==
    IF Sent(p) THEN p ELSE [p EXCEPT !.wire = <<[status |-> st, header |-> p.header]>>]

\* A streaming writer: the status is remembered and sent at once.
Stream(p, st) == IF Sent(p) THEN p ELSE Commit([p EXCEPT !.status = st], st)

\* A buffering writer: nothing leaves before the handler chain has returned.
Buffer(p, st) == [p EXCEPT !.status = st]

Secured(p) == IF p.header.cookie = "none" THEN p ELSE [p EXCEPT !.header.cookie = "secure"]
Stripped(p) == [p EXCEPT !.header.server = FALSE]
Hardened(p) == [p EXCEPT !.header.hardened = TRUE]
=============================================================================
