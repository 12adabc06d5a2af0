----------------------------- MODULE MCJsonValue -----------------------------
(***************************************************************************)
(* Instances of JsonValue for TLC: what is written and read back, cut      *)
(* short, or edited by hand.                                               *)
(***************************************************************************)
EXTENDS JsonValue

\* Every character the parser distinguishes, and those that writing tells apart with
\* the letter of an escape.
Characters == {"{", "}", "[", "]", "\"", "\\", ":", ",", "n", "l", "u", "1", "-", "\n"}
WrittenLetters == {"\"", "\\", "\n", "n"}
=============================================================================
