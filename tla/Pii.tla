-------------------------------- MODULE Pii --------------------------------
(***************************************************************************)
(* sanitizers/pii.go: what RedactPii makes of a text.  The expressions are *)
(* abstracted to where they match: a match is a type and a span            *)
(* [start, end) of the text.  Two matches of one expression never overlap, *)
(* matches of different expressions may: the one for phone numbers has no  *)
(* word boundary and matches inside of addresses and card numbers.         *)
(***************************************************************************)
EXTENDS Integers, Sequences, SequencesExt, FiniteSets

CONSTANTS PiiTypes,   \* the types, in the order ScanPii looks for them
          Texts       \* [length, hits]: a text and the set of matches it holds

Options ==
    \A t \in Texts :
        /\ t.length \in Nat /\ IsFiniteSet(t.hits)
        /\ \A m \in t.hits : /\ m \in [type : Range(PiiTypes), start : Nat, end : Nat]
                             /\ m.start < m.end /\ m.end <= t.length

VARIABLES text, labels,   \* the call: the text and how long each type's replacement is
          matches,        \* ScanPii's result, less what has been replaced
          redacted,       \* the text so far
          outcome         \* "scan", "replace", "done" or "panic"

vars == <<text, labels, matches, redacted, outcome>>

\* A character of the text by its place, and those of a replacement.
Original(p) == [place |-> p, label |-> "none"]
Label(type) == [k \in 1 .. labels[type] |-> [place |-> 0, label |-> type]]
Whole(t) == [p \in 1 .. t.length |-> Original(p)]

\* Replacement and the default are as long for every type, TypeLabels are not.
Init ==
    /\ text \in Texts
    /\ labels \in { [t \in Range(PiiTypes) |-> n] : n \in {1, 3} }
                  \cup { [t \in Range(PiiTypes) |-> IF t = PiiTypes[1] THEN 3 ELSE 1] }
    /\ matches = <<>> /\ redacted = Whole(text) /\ outcome = "scan"

\* sort.Slice by start: matches that start together stay in the order they
\* were found (it is stable for fewer than twelve).
Rank(m) == CHOOSE n \in DOMAIN PiiTypes : PiiTypes[n] = m.type
Before(a, b) == a.start < b.start \/ (a.start = b.start /\ Rank(a) < Rank(b))

\* Wrong: in the order they were found.
ScanUnsorted ==
    /\ outcome = "scan" /\ outcome' = "replace"
    /\ matches' = SetToSortSeq(text.hits, LAMBDA a, b : Rank(a) < Rank(b))
    /\ UNCHANGED <<text, labels, redacted>>

\* The matches of every type, sorted.
Sorted(hits) ==
    { s \in [1 .. Cardinality(hits) -> hits] :
        Range(s) = hits /\ \A i, j \in DOMAIN s : i < j => Before(s[i], s[j]) }

ScanPii ==
    /\ outcome = "scan" /\ outcome' = "replace"
    /\ matches' \in Sorted(text.hits)
    /\ UNCHANGED <<text, labels, redacted>>

\* result[:m.Start] + replacement + result[m.End:], which panics when the
\* result has become shorter than m.End.
Replaced(s, m) == SubSeq(s, 1, m.start) \o Label(m.type) \o SubSeq(s, m.end + 1, Len(s))

RedactPii ==
    /\ outcome = "replace" /\ matches # <<>>
    /\ LET m == Last(matches) IN
       IF m.end > Len(redacted)
       THEN outcome' = "panic" /\ UNCHANGED redacted
       ELSE redacted' = Replaced(redacted, m) /\ UNCHANGED outcome
    /\ matches' = Front(matches)
    /\ UNCHANGED <<text, labels>>

Return ==
    /\ outcome = "replace" /\ matches = <<>>
    /\ outcome' = "done"
    /\ UNCHANGED <<text, labels, matches, redacted>>

Next == ScanPii \/ RedactPii \/ Return

Spec == Init /\ [][Next]_vars

\* What a text should become: every match its label, all else as it was.
Covered(p) == \E m \in text.hits : m.start < p /\ p <= m.end
Expected ==
    FlattenSeq([p \in 1 .. text.length |->
        IF ~Covered(p) THEN <<Original(p)>>
        ELSE IF \E m \in text.hits : m.start = p - 1
             THEN Label((CHOOSE m \in text.hits : m.start = p - 1).type)
             ELSE <<>>])

\* RedactPii: the positions of the matches found first are still right when
\* they are replaced, whatever the lengths of the labels, as long as no two
\* matches overlap.
Redacted ==
    /\ outcome # "panic"
    /\ outcome = "done" => redacted = Expected

\* pii.go:137: replacing "from end to start to preserve positions", so that
\* what no match covers is kept and nothing a match covers is.
PositionsPreserved ==
    /\ outcome # "panic"
    /\ outcome = "done" =>
          SelectSeq(redacted, LAMBDA c : c.place > 0) = SelectSeq(Whole(text), LAMBDA c : ~Covered(c.place))
=============================================================================
