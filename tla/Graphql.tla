------------------------------ MODULE Graphql ------------------------------
(***************************************************************************)
(* The GraphQL guard: GraphqlGuard (middleware/graphql.go) inspects every  *)
(* query of a POST with InspectGraphqlQuery (sanitizers/graphql.go), which *)
(* measures brace nesting and searches the fragment definitions for a      *)
(* cycle of spreads.  A query is what they look at: its braces, whether it *)
(* asks for the schema, whether it exceeds the alias and length limits,    *)
(* and deps, the spreads of the fragments it defines.  The search ranges   *)
(* over Go maps, so it goes in any order.                                  *)
(***************************************************************************)
EXTENDS Integers, Sequences, FiniteSets

CONSTANTS Fragment,    \* fragment names
          Braces,      \* the brace sequences of the queries: 1 opens, -1 closes
          MaxDepth,    \* GraphqlGuardOptions.MaxDepth
          MaxBatch     \* bound: queries in one body

Options ==
    /\ Braces \subseteq Seq({1, -1})
    /\ MaxDepth \in Nat
    /\ MaxBatch \in Nat

\* deps of hasGraphqlFragmentCycle; a spread may name a fragment not defined.
Graphs == UNION { [D -> SUBSET Fragment] : D \in SUBSET Fragment }

VARIABLES at,      \* "idle", "inspect", "walk", "handler" or "blocked"
          left,    \* queries of the body that are not cleared yet
          query,   \* what the query being inspected is, measured independently
          color,   \* color of visit
          stack,   \* open calls of visit: the fragment, the children to come
          roots,   \* names the last loop of hasGraphqlFragmentCycle has to come
          told,    \* the reason of the answer, "" when none is given
          clean    \* history: every query cleared so far exceeded no limit

vars == <<at, left, query, color, stack, roots, told, clean>>

Queries == [deep : BOOLEAN, introspects : BOOLEAN, many : BOOLEAN, long : BOOLEAN,
            deps : Graphs]
NoQuery == [deep |-> FALSE, introspects |-> FALSE, many |-> FALSE, long |-> FALSE,
            deps |-> [f \in {} |-> {}]]
deps == query.deps

TypeOK ==
    /\ at \in {"idle", "inspect", "walk", "handler", "blocked"}
    /\ left \in 0 .. MaxBatch
    /\ query \in Queries
    /\ \A f \in DOMAIN color : color[f] \in {"white", "gray", "black"}
    /\ \A i \in 1 .. Len(stack) :
          stack[i] \in [name : DOMAIN deps, children : SUBSET Fragment]
    /\ roots \subseteq DOMAIN deps
    /\ told \in {"", "depth", "introspection", "aliases", "fragment_cycle", "length"}

NoWalk == color' = [f \in {} |-> ""] /\ stack' = <<>> /\ roots' = {}

Init ==
    /\ at = "idle" /\ left = 0 /\ query = NoQuery /\ told = "" /\ clean = TRUE
    /\ color = [f \in {} |-> ""] /\ stack = <<>> /\ roots = {}

-----------------------------------------------------------------------------
(* The reference: what the limits are about. *)

\* The braces each prefix of the text leaves open.
Open(q) ==
    LET open[i \in 0 .. Len(q)] == IF i = 0 THEN 0 ELSE open[i - 1] + q[i] IN open

\* The deepest nesting: the most braces any part of the text leaves open.
Nesting(q) ==
    LET open == Open(q)
        Net == { open[p[2]] - open[p[1]] : p \in {r \in (0 .. Len(q)) \X (0 .. Len(q)) : r[1] <= r[2]} }
    IN  CHOOSE m \in Net : \A n \in Net : n <= m

\* A fragment that reaches itself along the spreads of defined fragments.
Cyclic(g) ==
    \E C \in SUBSET DOMAIN g : C # {} /\ \A f \in C : g[f] \cap C # {}

\* The first limit a query exceeds, in the order the code's comments give.
FirstReason ==
    IF query.deep THEN "depth"
    ELSE IF query.introspects THEN "introspection"
    ELSE IF query.many THEN "aliases"
    ELSE IF Cyclic(deps) THEN "fragment_cycle"
    ELSE IF query.long THEN "length"
    ELSE ""

-----------------------------------------------------------------------------
(* The guard. *)

\* computeGraphqlDepth: depth does not go below zero.
Lower(depth) == IF depth > 0 THEN depth - 1 ELSE 0

\* depth of its loop, after each brace.
Depth(q) ==
    LET depth[i \in 0 .. Len(q)] ==
            IF i = 0 THEN 0
            ELSE IF q[i] = 1 THEN depth[i - 1] + 1 ELSE Lower(depth[i - 1])
    IN  depth

\* maxDepth of its loop.
computeGraphqlDepth(q) ==
    LET depth == Depth(q)
    IN  CHOOSE m \in 0 .. Len(q) :
            /\ \E i \in 0 .. Len(q) : depth[i] = m
            /\ \A i \in 0 .. Len(q) : depth[i] <= m

\* The requests GraphqlGuard looks into have queries; the others, of another
\* method, path or content type, unreadable or without queries, pass.
Receive ==
    /\ at = "idle"
    /\ left' \in 0 .. MaxBatch
    /\ at' = IF left' = 0 THEN "handler" ELSE "inspect"
    /\ told' = "" /\ clean' = TRUE
    /\ UNCHANGED query
    /\ NoWalk

Block(reason) == at' = "blocked" /\ told' = reason /\ NoWalk /\ UNCHANGED left

\* InspectGraphqlQuery up to the search, in the order of its limits.
Inspect ==
    /\ at = "inspect"
    /\ UNCHANGED clean
    /\ \E b \in Braces, introspects, many, long \in BOOLEAN, g \in Graphs :
          /\ query' = [deep |-> Nesting(b) > MaxDepth, introspects |-> introspects,
                       many |-> many, long |-> long, deps |-> g]
          /\ IF computeGraphqlDepth(b) > MaxDepth THEN Block("depth")
             ELSE IF introspects THEN Block("introspection")
             ELSE IF many THEN Block("aliases")
             ELSE /\ at' = "walk"
                  /\ color' = [f \in DOMAIN g |-> "white"]
                  /\ stack' = <<>>
                  /\ roots' = DOMAIN g
                  /\ UNCHANGED <<left, told>>

\* The names visit is called with next, in any order: the children of the
\* innermost open call, or the roots.
Callees == IF stack = <<>> THEN roots ELSE stack[Len(stack)].children

Remaining(f) ==
    IF stack = <<>> THEN stack
    ELSE [stack EXCEPT ![Len(stack)].children = @ \ {f}]

KnownOrOpen(f) == f \in DOMAIN deps => color[f] # "white"

\* visit(f) returns at once: f is black or not defined.
Known(f) == f \in DOMAIN deps => color[f] = "black"

Skip(f) ==
    /\ Known(f)
    /\ stack' = Remaining(f)
    /\ UNCHANGED <<at, left, query, color, told, clean>>

\* visit(f) goes into a white f.
Enter(f) ==
    /\ f \in DOMAIN deps /\ color[f] = "white"
    /\ color' = [color EXCEPT ![f] = "gray"]
    /\ stack' = Append(Remaining(f), [name |-> f, children |-> deps[f]])
    /\ UNCHANGED <<at, left, query, told, clean>>

\* visit(f) finds a gray f: a back-edge ends every open call with true.
BackEdge(f) ==
    /\ f \in DOMAIN deps /\ color[f] = "gray"
    /\ Block("fragment_cycle")
    /\ UNCHANGED <<query, clean>>

Visit ==
    /\ at = "walk"
    /\ \E f \in Callees :
          \/ BackEdge(f)
          \/ /\ Skip(f) \/ Enter(f)
             /\ roots' = IF stack = <<>> THEN roots \ {f} ELSE roots

\* The loop over the children is done: the fragment is black.
Leave ==
    /\ at = "walk"
    /\ stack # <<>> /\ stack[Len(stack)].children = {}
    /\ color' = [color EXCEPT ![stack[Len(stack)].name] = "black"]
    /\ stack' = SubSeq(stack, 1, Len(stack) - 1)
    /\ UNCHANGED <<at, left, query, roots, told, clean>>

\* No cycle: the length limit, then the next query or the handler.
Clear ==
    /\ at = "walk"
    /\ stack = <<>> /\ roots = {}
    /\ IF query.long THEN Block("length") /\ UNCHANGED <<query, clean>>
       ELSE /\ left' = left - 1
            /\ at' = IF left = 1 THEN "handler" ELSE "inspect"
            /\ clean' = (clean /\ FirstReason = "")
            /\ query' = NoQuery
            /\ NoWalk /\ UNCHANGED told

\* The answer leaves, and the next request may come.
Done ==
    /\ at \in {"handler", "blocked"}
    /\ at' = "idle" /\ left' = 0 /\ query' = NoQuery
    /\ UNCHANGED <<color, stack, roots, told, clean>>

Next == Receive \/ Inspect \/ Visit \/ Leave \/ Clear \/ Done

Spec == Init /\ [][Next]_vars

-----------------------------------------------------------------------------
(* Property *)

\* Whatever order the search takes and whatever the text's braces do, a query
\* is blocked exactly when it exceeds a limit, with the first of them in the
\* order the code's comments give as the reason; a request reaches its handler
\* only when no query of its body exceeds one.
VerdictExact ==
    /\ at = "blocked" => told # "" /\ told = FirstReason
    /\ at = "handler" => clean /\ left = 0
=============================================================================
