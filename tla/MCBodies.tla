------------------------------ MODULE MCBodies ------------------------------
(***************************************************************************)
(* The walks over JSON, for TLC: values of up to five levels, limits of    *)
(* two and one.  "$elemMatch" is listed in a spelling that no lower-cased  *)
(* key has; the "wide" keys are spelled so that cleaning them gives        *)
(* another key; "filter" is a text that a detector reports and cleaning    *)
(* leaves.                                                                 *)
(***************************************************************************)
EXTENDS Integers, Sequences, TLC

CONSTANTS InnerKey, OuterKey, Leaf   \* keys of the innermost maps, of the others, texts

VARIABLES body, function, result

AnyKey == InnerKey \cup OuterKey
AsIs(S) == [x \in S |-> x]
Map(m) == [kind |-> "map", at |-> m]
List(s) == [kind |-> "list", items |-> s]
Leaves == { [kind |-> "text", text |-> t] : t \in Leaf } \cup {[kind |-> "other"]}
Plain == [kind |-> "text", text |-> "plain"]

\* v as a value, alone or beside a plain one, of a map and of a list.
Grown(keys, inside) ==
    UNION { { Map(k :> v), Map(k :> v @@ "sibling" :> Plain) } : k \in keys, v \in inside }
    \cup UNION { { List(<<v>>), List(<<Plain, v>>) } : v \in inside }

Shallow == Grown(InnerKey, Leaves)
Deeper == Grown(OuterKey, Shallow)
\* Below the limits of the transformations: maps in maps, lists in lists.
Deepest ==
    { Map("a" :> Map("a" :> Map("a" :> v))) : v \in Shallow } \cup { Map("a" :> List(<<List(<<v>>)>>)) : v \in Shallow }

Values == Leaves \cup Shallow \cup Deeper \cup Grown(OuterKey, Deeper) \cup Deepest

Names == AnyKey \cup {"sibling", "__proto__", "$where"}
Texts == Leaf \cup {"plain", "[REDACTED]", "encoded", "one line"}

\* ScanThreats and the others as the adapters call them.
B == INSTANCE Bodies WITH
        Bodies <- Values, MaxDepth <- 2, WalkDepth <- 1,
        Lower <- ("__Proto__" :> "__proto__" @@ "is_Admin" :> "is_admin" @@ "$elemMatch" :> "$elemmatch")
                    @@ AsIs(Names),
        Folded <- ("is_Admin" :> "isadmin" @@ "__Proto__" :> "proto" @@ "__proto__" :> "proto") @@ AsIs(Names),
        Cleaned <- ("script" :> "encoded" @@ "wide proto" :> "__proto__" @@ "wide sibling" :> "sibling")
                      @@ AsIs(Names \cup Texts),
        Logged <- ("two lines" :> "one line") @@ AsIs(Texts),
        Vector <- ("script" :> "xss" @@ "filter" :> "ldap") @@ [t \in Texts |-> "none"],
        Rank <- [t \in Texts |-> IF t = "ignore instructions" THEN 2 ELSE IF t = "act as" THEN 1 ELSE 0],
        Internal <- {"http://127.0.0.1"}, Personal <- {"a@b.co"},
        protoPollutionKeys <- {"__proto__"}, nosqlDangerousKeys <- {"$where", "$elemMatch"},
        scanAuthFields <- {"username"}, sensitiveKeys <- {"password"},
        SensitiveFieldNames <- {"isadmin"}

Spec == B!Spec
=============================================================================
