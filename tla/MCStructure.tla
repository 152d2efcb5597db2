---------------------------- MODULE MCStructure ----------------------------
(* All texts of up to four lines.                                           *)
EXTENDS Structure

ShortTexts == UNION {[1..n -> Kinds] : n \in 1..4}
=============================================================================
