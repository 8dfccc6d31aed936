----------------------------- MODULE MCAdapters -----------------------------
(***************************************************************************)
(* The adapters for TLC, in deployments in which every middleware of each  *)
(* occurs, and the walks over JSON they apply to bodies.  The walks share  *)
(* no state with the chains, so a behaviour exercises the one that part    *)
(* names.                                                                  *)
(***************************************************************************)
EXTENDS Adapters, TLC

CONSTANTS r1, r2,
          InnerKey, OuterKey, Leaf,      \* MCBodies
          Absent                         \* in place of the state of the walks

VARIABLES part,
          body, function, found    \* Bodies

MCRequests == {r1, r2}
Symmetry == Permutations(MCRequests)

All == {"write", "silent", "error", "panic"}
Safe == [gin |-> All, echo |-> All, chi |-> All \ {"error"}, fiber |-> All \ {"panic"}]

Deployment(fw, chain, dry, block) ==
    [fw |-> fw, chain |-> chain, dryRun |-> dry, block |-> block, outcomes |-> Safe[fw]]

\* Every middleware of every adapter occurs in some chain, MiddlewareWithConfig
\* outside or inside of the others.
MCDeployments ==
    UNION {
        { Deployment(fw, <<"cookies", "bundle", "validate", "handler">>, FALSE, TRUE),
          Deployment(fw, <<"errors", "bundle", "cookies", "handler">>, FALSE, FALSE),
          Deployment(fw, <<"bundle", "errors", "protect", "handler">>, FALSE, TRUE) } :
        fw \in {"gin", "echo", "chi"} }
    \cup UNION {
        { Deployment(fw, <<"bundle", "handler">>, TRUE, TRUE),
          Deployment(fw, <<"bundle", "limit", "handler">>, FALSE, FALSE) } :
        fw \in {"gin", "echo", "chi", "fiber"} }
    \cup { Deployment(fw, <<"brute", "shed", "bundle", "handler">>, FALSE, FALSE) :
        fw \in {"gin", "echo", "fiber"} }
    \cup { Deployment("fiber", <<"protect", "bundle", "handler">>, FALSE, TRUE) }

Shape(hits, kind, readable, outcome) ==
    [hits |-> hits, kind |-> kind, readable |-> readable, outcome |-> outcome]

MCShapes ==
    { Shape({}, "json", TRUE, o) : o \in All }
    \cup { Shape({}, k, TRUE, "write") : k \in {"form", "none"} }
    \cup { Shape({h}, "json", TRUE, "write") :
             h \in {"scanner", "freshBot", "badAddress", "skip", "suspect", "invalid", "brute", "shed"} }
    \cup { Shape({"bot", "ssrf"}, "json", TRUE, "write"),
           Shape({"forwarded", "badAddress"}, "json", TRUE, "write"),
           Shape({"graphql", "prompt"}, "json", TRUE, "write"),
           Shape({"massAssign", "bodyThreat"}, "json", TRUE, "silent"),
           Shape({"ssrf"}, "json", FALSE, "write"),
           Shape({"bodyThreat"}, "xml", TRUE, "write"),
           Shape({"queryThreat"}, "form", FALSE, "silent") }

-----------------------------------------------------------------------------
JSON == INSTANCE MCBodies WITH result <- found

bodyVars == <<body, function, found>>

\* The walks run beside a chain that does not move.
AdaptersInit ==
    /\ part \in {"Adapters", "Bodies"}
    /\ IF part = "Adapters" THEN Init /\ body = Absent /\ function = Absent /\ found = Absent
       ELSE /\ d = CHOOSE e \in Deployments : TRUE
            /\ req = [r \in Requests |-> Arrived(CHOOSE s \in Shapes : s.outcome \in d.outcomes)]
            /\ count = [i \in DOMAIN d.chain |-> 0]
            /\ merged = FALSE /\ reputation = "unknown"
            /\ JSON!B!Init

AdaptersNext ==
    \/ part = "Adapters" /\ Next /\ UNCHANGED <<part, bodyVars>>
    \/ part = "Bodies" /\ JSON!B!Next /\ UNCHANGED <<part, vars>>

AdaptersSpec == AdaptersInit /\ [][AdaptersNext]_<<part, vars, bodyVars>>

=============================================================================
