------------------------------ MODULE MCFiles ------------------------------
(***************************************************************************)
(* Files for TLC: every name of up to MaxLength characters and words, and  *)
(* every size, type and content of a plain one.                            *)
(***************************************************************************)
EXTENDS Integers, Sequences, SequencesExt

CONSTANTS Character, MaxLength

VARIABLES file, options, result

Upload(name, size, type, content) == [name |-> name, size |-> size, type |-> type, content |-> content]

Uploads ==
    { Upload(name, 1, "image/jpeg", "none") : name \in BoundedSeq(Character, MaxLength) }
    \cup { Upload(<<"a", ".", "jpg">>, size, type, content) :
             size \in 0 .. 3, type \in {"image/jpeg", "image/png"}, content \in {"none", "jpeg", "png"} }

Default(none, extensions, types) ==
    [MaxSize |-> 2, BlockNoExtension |-> none, BlockExecutables |-> TRUE, BlockDoubleExtensions |-> TRUE,
     AllowedExtensions |-> extensions, AllowedTypes |-> types, ValidateMagicBytes |-> TRUE]

F == INSTANCE Files WITH
        Options <- { Default(none, {<<".", "jpg">>}, {"image/jpeg"}) : none \in BOOLEAN } \cup {Default(TRUE, {}, {})},
        Unsafe <- {"/", "newline", "<"}, Executable <- {"php"},
        TypesOf <- [c \in {"jpeg", "png"} |-> IF c = "png" THEN {"image/png"} ELSE {"image/jpeg"}]

Spec == F!Spec
StoredSafely == F!StoredSafely
NeverHidden == F!NeverHidden
=============================================================================
