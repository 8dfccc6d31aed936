------------------------------- MODULE MCPii -------------------------------
(***************************************************************************)
(* Pii for TLC: the texts of Length characters with up to three matches    *)
(* that do not overlap, and the ones where a phone number is found inside  *)
(* of an e-mail address that begins with it, alone or among other words.   *)
(***************************************************************************)
EXTENDS Integers, Sequences, FiniteSets

CONSTANTS Length, Overlapping

VARIABLES text, labels, matches, redacted, outcome

Types == <<"email", "phone", "credit_card">>
Hit(type, start, end) == [type |-> type, start |-> start, end |-> end]
Hits == { Hit(type, start, end) : type \in {"email", "phone", "credit_card"},
                                  start \in 0 .. Length - 1, end \in 1 .. Length }
Spans == { m \in Hits : m.start < m.end }
Apart(hits) == \A a, b \in hits : a = b \/ a.end <= b.start \/ b.end <= a.start

Disjoint == { hits \in { {a, b, c} : a, b, c \in Spans } : Apart(hits) }

PhoneInEmail ==
    { [length |-> before + 4 + after,
       hits |-> {Hit("email", before, before + 4), Hit("phone", before, before + 3)}] : before, after \in 0 .. 1 }

P == INSTANCE Pii WITH
        PiiTypes <- Types,
        Texts <- IF Overlapping THEN PhoneInEmail ELSE { [length |-> Length, hits |-> h] : h \in Disjoint }

Spec == P!Spec
Redacted == P!Redacted
PositionsPreserved == P!PositionsPreserved
=============================================================================
