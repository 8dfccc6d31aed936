------------------------------- MODULE Files -------------------------------
(***************************************************************************)
(* validation/file.go: the name under which an uploaded file is kept, and  *)
(* whether it is kept.  A name is a sequence of characters by class and of *)
(* words that may be extensions.                                           *)
(***************************************************************************)
EXTENDS Integers, Sequences, SequencesExt, FiniteSets

CONSTANTS Uploads,         \* FileInputs: [name, size, type, content]
          Options,         \* ValidateFileOptions, with the default in place of MaxSize
          Unsafe,          \* the classes of characters that are removed: separator,
                           \* control, newline and the rest
          Executable,      \* words that are dangerous extensions
          TypesOf          \* content -> the types whose signature it has

VARIABLES file, options, result

vars == <<file, options, result>>

Pending == [valid |-> FALSE, errors |-> {}, name |-> <<>>]

Init == file \in Uploads /\ options \in Options /\ result = Pending

-----------------------------------------------------------------------------
(* SanitizeFilename *)

\* The places of a set in order, and the characters of s at them.
Places(I) == [k \in 1 .. Cardinality(I) |-> CHOOSE i \in I : Cardinality({ j \in I : j <= i }) = k]
Kept(s, I) == [k \in DOMAIN Places(I) |-> s[Places(I)[k]]]

Cleaned(s) == Kept(s, { i \in DOMAIN s : s[i] \notin Unsafe })

\* ^.*[/\\]: up to the last separator that no newline comes before.
Separators(s) == { i \in DOMAIN s : s[i] = "/" /\ \A j \in 1 .. i : s[j] # "newline" }

WithoutPath(s) ==
    IF Separators(s) = {} THEN s
    ELSE SubSeq(s, (CHOOSE i \in Separators(s) : \A j \in Separators(s) : j <= i) + 1, Len(s))

Underscored(s) == [i \in DOMAIN s |-> IF s[i] = " " THEN "_" ELSE s[i]]

WithoutLeading(c, s) ==
    LET n == SelectInSeq(s, LAMBDA x : x # c)
    IN  IF n = 0 THEN <<>> ELSE SubSeq(s, n, Len(s))

\* Runs of c become one.
Collapsed(c, s) == Kept(s, { i \in DOMAIN s : s[i] # c \/ i = 1 \/ s[i - 1] # c })

\* _+\. after single underscores are left.
TrimmedBeforeDots(s) == Kept(s, { i \in DOMAIN s : s[i] # "_" \/ i = Len(s) \/ s[i + 1] # "." })

WithoutEdges(s) == Reverse(WithoutLeading("_", Reverse(WithoutLeading("_", s))))

SanitizeFilename(name) ==
    LET undotted == WithoutLeading(".", Underscored(Cleaned(WithoutPath(name))))
        single == Collapsed(".", Collapsed("_", undotted))
        trimmed == WithoutEdges(TrimmedBeforeDots(single))
    IN  IF trimmed \in {<<>>, <<".">>} THEN <<"unnamed">> ELSE trimmed

-----------------------------------------------------------------------------
(* ValidateFile *)

Parts(s) ==    \* strings.Split(s, ".")
    LET cuts == <<0>> \o Places({ i \in DOMAIN s : s[i] = "." }) \o <<Len(s) + 1>>
    IN  [k \in 1 .. Len(cuts) - 1 |-> SubSeq(s, cuts[k] + 1, cuts[k + 1] - 1)]

NoExtension == <<>>

\* Nothing before the last dot: no extension either.  "file." has one, ".".
getFileExtension(s) ==
    IF Len(Parts(s)) = 1 \/ (Len(Parts(s)) = 2 /\ Parts(s)[1] = <<>>) THEN NoExtension
    ELSE <<".">> \o Last(Parts(s))

Dangerous(part) == \E w \in Executable : part = <<w>>

\* Wrong: the first part that may be an extension is taken for the name.
SecondOnly(s) == \E i \in 3 .. Len(Parts(s)) - 1 : Dangerous(Parts(s)[i])

hasDoubleExtension(s) == \E i \in 2 .. Len(Parts(s)) - 1 : Dangerous(Parts(s)[i])

Errors(f, o) ==
    LET name == SanitizeFilename(f.name)
        ext == getFileExtension(name)
        When(b, e) == IF b THEN {e} ELSE {}
    IN  When(f.size > o.MaxSize, "large") \cup When(f.size = 0, "empty")
        \cup When(o.BlockNoExtension /\ ext = NoExtension, "none")
        \cup When(o.BlockExecutables /\ ext # NoExtension /\ Dangerous(Tail(ext)), "executable")
        \cup When(o.BlockDoubleExtensions /\ hasDoubleExtension(name), "double")
        \cup When(o.AllowedExtensions # {} /\ ext # NoExtension /\ ext \notin o.AllowedExtensions, "extension")
        \cup When(o.AllowedTypes # {} /\ f.type \notin o.AllowedTypes, "type")
        \cup When(o.ValidateMagicBytes /\ f.content # "none" /\ f.type \notin TypesOf[f.content], "content")

ValidateFile ==
    /\ result = Pending
    /\ result' = [valid |-> Errors(file, options) = {}, errors |-> Errors(file, options),
                  name |-> SanitizeFilename(file.name)]
    /\ UNCHANGED <<file, options>>

Next == ValidateFile

Spec == Init /\ [][Next]_vars

-----------------------------------------------------------------------------
Stored == result # Pending

\* SanitizeFilename, ValidateFile: the name is never empty and holds no
\* separator, control or blank however they are nested; what is valid under the
\* default switches ends in an extension that is allowed, and none of its
\* extensions is dangerous.
StoredSafely ==
    Stored =>
        /\ result.name # <<>> /\ \A i \in DOMAIN result.name : result.name[i] \notin Unsafe \cup {" "}
        /\ result.valid /\ options.BlockNoExtension /\ options.BlockExecutables /\ options.BlockDoubleExtensions =>
              /\ \A i \in 2 .. Len(Parts(result.name)) : ~Dangerous(Parts(result.name)[i])
              /\ options.AllowedExtensions # {} =>
                    \E ext \in options.AllowedExtensions : IsSuffix(ext, result.name)

\* file.go:121: "Strip leading dots (hidden files / .htaccess)".  Violated: an
\* underscore, or a space, before the dot goes after the dots went.
NeverHidden == Stored => Head(result.name) # "."
=============================================================================
