------------------------------- MODULE Bodies -------------------------------
(***************************************************************************)
(* The walks over parsed JSON: sanitizers/standalone.go, sanitize.go,      *)
(* pii.go, prompt_injection_scan.go, utils/ssrf_scan.go,                   *)
(* middleware/mass_assignment_detect.go and logging/safe_logger.go.        *)
(*                                                                         *)
(* Each has its own rules for keys, arrays and depth.  What the detectors  *)
(* make of one string is a constant: the vector they report, its form      *)
(* after SanitizeString, its prompt-injection rank.                        *)
(***************************************************************************)
EXTENDS Integers, Sequences, SequencesExt

CONSTANTS Bodies,            \* the values that are walked
          MaxDepth,          \* 10: threat scan and core.MaxRecursionDepth
          WalkDepth,         \* 8: the other scans
          Lower, Folded,     \* a key in lower case, and without separators too
          Cleaned,           \* a key or text decoded and cleaned by SanitizeString
          Logged,            \* a text after redactString: on one line
          Vector,            \* text -> what the chain of detectors reports, or "none"
          Rank,              \* text -> prompt-injection severity, 0 to 3
          Internal, Personal,  \* texts that ValidateURL refuses, that hold PII
          protoPollutionKeys, nosqlDangerousKeys, scanAuthFields,  \* as they are spelled
          sensitiveKeys,     \* of the logger
          SensitiveFieldNames  \* of the mass-assignment detector

VARIABLES body,      \* the value at hand
          function,  \* the function called last
          result     \* what a detector said

vars == <<body, function, result>>

IsMap(v) == v.kind = "map"
IsList(v) == v.kind = "list"
IsText(v) == v.kind = "text"
Text(t) == [kind |-> "text", text |-> t]
Other == [kind |-> "other"]

Values(m) == Range(m.at)
Children(v) == IF IsMap(v) THEN Values(v) ELSE IF IsList(v) THEN Range(v.items) ELSE {}

Init == body \in Bodies /\ function = "none" /\ result = {}

Keyed(v, keys) == \E k \in DOMAIN v.at : Lower[k] \in keys

-----------------------------------------------------------------------------
(* Detection *)

\* What one string reports.
TextHits(v) == IF Vector[v.text] = "none" THEN {} ELSE {Vector[v.text]}

\* scanThreatsDepth: every hit that may be the one returned.  A map's keys come
\* in any order and the first that hits wins; a list's first item does.
RECURSIVE Threats(_, _)
Threats(v, depth) ==
    IF depth > MaxDepth THEN {}
    ELSE IF IsText(v) THEN TextHits(v)
    ELSE IF IsMap(v) THEN UNION {
            IF Lower[k] \in protoPollutionKeys THEN {"prototype"}
            ELSE IF Lower[k] \in nosqlDangerousKeys THEN {"nosql"}
            ELSE IF Lower[k] \in scanAuthFields /\ IsList(v.at[k]) THEN {"nosql"}
            ELSE Threats(v.at[k], depth + 1) : k \in DOMAIN v.at }
    ELSE IF IsList(v)
         THEN LET hits == SelectSeq([i \in DOMAIN v.items |-> Threats(v.items[i], depth + 1)],
                                     LAMBDA h : h # {})
              IN  IF hits = <<>> THEN {} ELSE Head(hits)
    ELSE {}

\* detectNoSQLDepth, detectProtoDepth: maps, and the maps in a list; a list in a
\* list is not looked into.
RECURSIVE Keys(_, _, _)
Keys(v, keys, depth) ==
    /\ depth <= MaxDepth
    /\ \/ Keyed(v, keys)
       \/ \E c \in Values(v) :
            IF IsMap(c) THEN Keys(c, keys, depth + 1)
            ELSE IsList(c) /\ \E x \in Range(c.items) : IsMap(x) /\ Keys(x, keys, depth + 1)

\* walkMassAssign, walkPromptInjection, walkSSRF: one walk, each with its own
\* test of a map's keys or of a string.
Flags(v, scan) ==
    CASE scan = "mass" -> IsMap(v) /\ \E k \in DOMAIN v.at : Folded[k] \in SensitiveFieldNames
      [] scan = "prompt" -> IsText(v) /\ Rank[v.text] >= 2
      [] scan = "ssrf" -> IsText(v) /\ v.text \in Internal

RECURSIVE Walk(_, _, _)
Walk(v, scan, depth) ==
    depth <= WalkDepth /\ (Flags(v, scan) \/ \E c \in Children(v) : Walk(c, scan, depth + 1))

\* scanObjectRecursive: at any depth, but not into a list in a list.
RECURSIVE Pii(_)
Pii(m) ==
    \E c \in Values(m) :
        \/ IsText(c) /\ c.text \in Personal
        \/ IsMap(c) /\ Pii(c)
        \/ IsList(c) /\ \E x \in Range(c.items) :
              (IsText(x) /\ x.text \in Personal) \/ (IsMap(x) /\ Pii(x))

-----------------------------------------------------------------------------
(* Transformation *)

\* A choice of one member of every set of f.
OneOfEach(f) == { g \in [DOMAIN f -> UNION Range(f)] : \A x \in DOMAIN f : g[x] \in f[x] }

Kept(m) == { k \in DOMAIN m.at : Lower[k] \notin protoPollutionKeys \cup nosqlDangerousKeys }

\* sanitizeMapDepth, sanitizeSlice: too deep is returned as it is; dangerous
\* keys are dropped as they are spelled, then keys and strings are cleaned.  Of
\* the keys with one cleaned form the one that the range over the map meets last
\* wins, hence a set of outcomes.
RECURSIVE Sanitized(_, _)
Sanitized(v, depth) ==
    IF IsText(v) THEN {Text(Cleaned[v.text])}
    ELSE IF depth > MaxDepth \/ v = Other THEN {v}
    ELSE IF IsList(v)
         THEN { [v EXCEPT !.items = s] : s \in OneOfEach([i \in DOMAIN v.items |-> Sanitized(v.items[i], depth + 1)]) }
    ELSE { [v EXCEPT !.at = m] : m \in OneOfEach(
              [c \in { Cleaned[k] : k \in Kept(v) } |->
                  UNION { Sanitized(v.at[k], depth + 1) : k \in { x \in Kept(v) : Cleaned[x] = c } }]) }

\* redactDepth, redactSlice.
RECURSIVE Redact(_, _)
Redact(v, depth) ==
    IF IsText(v) THEN Text(Logged[v.text])
    ELSE IF depth > MaxDepth THEN v
    ELSE IF IsList(v) THEN [v EXCEPT !.items = [i \in DOMAIN @ |-> Redact(@[i], depth + 1)]]
    ELSE IF IsMap(v) THEN [v EXCEPT !.at = [k \in DOMAIN @ |->
            IF Lower[k] \in sensitiveKeys THEN Text("[REDACTED]") ELSE Redact(@[k], depth + 1)]]
    ELSE v

WithoutPii(v) == IF v.text \in Personal THEN Text("[REDACTED]") ELSE v

\* Wrong: maps in a list are left.
RECURSIVE RedactSome(_)
RedactSome(m) ==
    [m EXCEPT !.at = [k \in DOMAIN @ |->
        LET c == @[k] IN
        IF IsText(c) THEN WithoutPii(c) ELSE IF IsMap(c) THEN RedactSome(c)
        ELSE IF IsList(c) THEN [c EXCEPT !.items = [i \in DOMAIN @ |->
                                    IF IsText(@[i]) THEN WithoutPii(@[i]) ELSE @[i]]]
        ELSE c]]

\* redactObjectRecursive.
RECURSIVE RedactPersonal(_)
RedactPersonal(m) ==
    [m EXCEPT !.at = [k \in DOMAIN @ |->
        LET c == @[k] IN
        IF IsText(c) THEN WithoutPii(c) ELSE IF IsMap(c) THEN RedactPersonal(c)
        ELSE IF IsList(c) THEN [c EXCEPT !.items = [i \in DOMAIN @ |->
                                    IF IsText(@[i]) THEN WithoutPii(@[i])
                                    ELSE IF IsMap(@[i]) THEN RedactPersonal(@[i]) ELSE @[i]]]
        ELSE c]]

-----------------------------------------------------------------------------
(* Calls *)

Say(name, answer) == function' = name /\ result' = answer /\ UNCHANGED body

Become(name, value) == body' = value /\ function' = name /\ result' = {}

ScanThreats == Say("ScanThreats", Threats(body, 0))
DetectNoSQLInjection ==
    IsMap(body) /\ Say("DetectNoSQLInjection", Keys(body, nosqlDangerousKeys, 0))
DetectPrototypePollution ==
    IsMap(body) /\ Say("DetectPrototypePollution", Keys(body, protoPollutionKeys, 0))
DetectMassAssignment == Say("DetectMassAssignment", Walk(body, "mass", 0))
ScanPromptInjection == Say("ScanPromptInjection", Walk(body, "prompt", 0))
ScanForSSRF == Say("ScanForSSRF", Walk(body, "ssrf", 0))
ScanObjectPii == IsMap(body) /\ Say("ScanObjectPii", Pii(body))

SanitizeMap == IsMap(body) /\ \E v \in Sanitized(body, 0) : Become("SanitizeMap", v)
LogRedact == IsMap(body) /\ Become("Redact", Redact(body, 0))
RedactObjectPii == IsMap(body) /\ Become("RedactObjectPii", RedactPersonal(body))

Next ==
    \/ ScanThreats \/ DetectNoSQLInjection \/ DetectPrototypePollution
    \/ DetectMassAssignment \/ ScanPromptInjection \/ ScanForSSRF \/ ScanObjectPii
    \/ SanitizeMap \/ LogRedact \/ RedactObjectPii

Spec == Init /\ [][Next]_vars

-----------------------------------------------------------------------------
(* Properties, in terms of the levels of the tree, not of the walks. *)

\* The values n steps below v, a step leading to To of a value.
At(v, To(_), n) ==
    LET level[i \in 0 .. n] == IF i = 0 THEN {v} ELSE UNION { To(c) : c \in level[i - 1] }
    IN  level[n]

Within(v, To(_), n) == UNION { At(v, To, i) : i \in 0 .. n }

\* Where the walks over maps go next: a map, or a map in a list.
InnerMaps(m) ==
    LET inLists == UNION { Range(c.items) : c \in { l \in Values(m) : IsList(l) } }
    IN  { x \in Values(m) \cup inLists : IsMap(x) }

\* The texts those walks see.
TextsOf(m) ==
    LET inLists == UNION { Range(c.items) : c \in { l \in Values(m) : IsList(l) } }
    IN  { x \in Values(m) \cup inLists : IsText(x) }

Threatening(v) ==
    \/ IsText(v) /\ Vector[v.text] # "none"
    \/ IsMap(v) /\ Keyed(v, protoPollutionKeys \cup nosqlDangerousKeys)
    \/ IsMap(v) /\ \E k \in DOMAIN v.at : Lower[k] \in scanAuthFields /\ IsList(v.at[k])

\* A detector says yes exactly when what it looks for is in the value, no deeper
\* than it promises to look, wherever keys and arrays put it.
VerdictsExact ==
    /\ function = "ScanThreats" =>
          (result # {} <=> \E v \in Within(body, Children, MaxDepth) : Threatening(v))
    /\ function = "DetectNoSQLInjection" =>
          (result <=> \E m \in Within(body, InnerMaps, MaxDepth) : Keyed(m, nosqlDangerousKeys))
    /\ function = "DetectPrototypePollution" =>
          (result <=> \E m \in Within(body, InnerMaps, MaxDepth) : Keyed(m, protoPollutionKeys))
    /\ function = "DetectMassAssignment" =>
          (result <=> \E v \in Within(body, Children, WalkDepth) : Flags(v, "mass"))
    /\ function = "ScanPromptInjection" =>
          (result <=> \E v \in Within(body, Children, WalkDepth) : Flags(v, "prompt"))
    /\ function = "ScanForSSRF" =>
          (result <=> \E v \in Within(body, Children, WalkDepth) : Flags(v, "ssrf"))
    /\ function = "ScanObjectPii" =>
          (result <=> \E m \in Within(body, InnerMaps, 9) : \E t \in TextsOf(m) : t.text \in Personal)

\* The values below v, v itself included, with the steps that lead to them.
RECURSIVE Nodes(_)
Steps(v) ==
    IF IsMap(v) THEN { <<"key", k>> : k \in DOMAIN v.at }
    ELSE IF IsList(v) THEN { <<"item", i>> : i \in DOMAIN v.items } ELSE {}
Child(v, s) == IF IsMap(v) THEN v.at[s[2]] ELSE v.items[s[2]]
Nodes(v) ==
    {<< <<>>, v >>}
    \cup UNION { { << <<s>> \o n[1], n[2] >> : n \in Nodes(Child(v, s)) } : s \in Steps(v) }

\* The step is taken from a value of a level that is still transformed.
InReach(path) == Len(path) <= MaxDepth + 1

IsKeyIn(s, keys) == s[1] = "key" /\ Lower[s[2]] \in keys
IsLost(s) == IsKeyIn(s, protoPollutionKeys \cup nosqlDangerousKeys)
CleanStep(s) == IF s[1] = "key" THEN <<"key", Cleaned[s[2]]>> ELSE s

\* Container x of a result has the kind and the children of container v.
SameShape(x, v) == x.kind = v.kind /\ Steps(x) = Steps(v)

\* SanitizeMap: down to MaxDepth, whatever is in the result w was in v, at the
\* place it has once the keys above it are cleaned, none of which was dangerous
\* as it was spelled; a string was cleaned, and a map or a list has all its
\* children but those under such keys.  A key of w may still be dangerous when
\* cleaning made it so, and a string may still be one that a detector reports.
SanitizedExactly(v, w) == \A x \in Nodes(w) : \E n \in Nodes(v) :
    LET path == n[1]
        reached == DOMAIN path \cap 1 .. MaxDepth + 1 IN
    /\ \A i \in reached : ~IsLost(path[i])
    /\ x[1] = [i \in DOMAIN path |-> IF i \in reached THEN CleanStep(path[i]) ELSE path[i]]
    /\ IF ~InReach(path) THEN x[2] = n[2]
       ELSE IF IsText(n[2]) THEN x[2] = Text(Cleaned[n[2].text])
       ELSE IF Len(path) > MaxDepth THEN x[2] = n[2]
       ELSE x[2].kind = n[2].kind /\ Steps(x[2]) = { CleanStep(s) : s \in { t \in Steps(n[2]) : ~IsLost(t) } }

\* Redact: down to MaxDepth, every value under a sensitive key, whatever it was,
\* and nothing else is replaced; strings are on one line.
RedactedExactly(v, w) == \A x \in Nodes(w) : \E n \in Nodes(v) :
    LET path == n[1] IN
    /\ x[1] = path
    /\ IF ~InReach(path) THEN x[2] = n[2]
       ELSE IF path # <<>> /\ IsKeyIn(Last(path), sensitiveKeys) THEN x[2] = Text("[REDACTED]")
       ELSE IF IsText(n[2]) THEN x[2] = Text(Logged[n[2].text])
       ELSE SameShape(x[2], n[2])

\* RedactObjectPii: at any depth, but not in a list in a list, a string with PII
\* is replaced and everything else is as it was.
WithoutPiiExactly(v, w) == \A x \in Nodes(w) : \E n \in Nodes(v) :
    LET path == n[1]
        inListOfList == \E i \in DOMAIN path : i > 1 /\ path[i][1] = "item" /\ path[i - 1][1] = "item" IN
    /\ x[1] = path
    /\ IF IsText(n[2]) /\ n[2].text \in Personal /\ ~inListOfList THEN x[2] = Text("[REDACTED]")
       ELSE IF IsText(n[2]) THEN x[2] = n[2]
       ELSE SameShape(x[2], n[2])

\* A transformation does to a value, node by node, what it promises and nothing
\* else: nothing is lost, added, moved or changed beside it, whatever the value
\* went through before.
TransformedExactly ==
    /\ function' = "SanitizeMap" => SanitizedExactly(body, body')
    /\ function' = "Redact" => RedactedExactly(body, body')
    /\ function' = "RedactObjectPii" => WithoutPiiExactly(body, body')
    /\ function' \notin {"SanitizeMap", "Redact", "RedactObjectPii"} => body' = body
=============================================================================
