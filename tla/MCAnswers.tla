----------------------------- MODULE MCAnswers -----------------------------
(* A document of ann, and two queries of ann or bob, one of which may search *)
(* twice.                                                                    *)
EXTENDS Answers

CONSTANTS d1, q1, q2, ann, bob

MCDocs    == {d1}
MCOwners  == {ann, bob}
MCOwnerOf == [d \in MCDocs |-> ann]
MCQueries == {q1, q2}
MCAgentic == {q2}
=============================================================================
