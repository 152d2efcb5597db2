----------------------------- MODULE MCIndexer -----------------------------
(* Documents of six runes with spaces inside or at both ends, and wide        *)
(* letters, on two pages or without pages; one that repeats itself; one cut    *)
(* off in its second page; and letter-spaced ones.                            *)
EXTENDS Indexer

S == 0

Runes6(spaces) == [r \in 1..6 |-> IF r \in spaces THEN S ELSE r]

Plain ==
    {[runes |-> Runes6(spaces), wide |-> wide, offsets |-> pages] :
        spaces \in {{}, {3}, {2, 3}, {1, 6}}, wide \in {{}, {4, 5}},
        pages \in {{}, {0, 2}}}

Repeating == [runes |-> <<1, S, 1, 1, S, 1>>, wide |-> {4}, offsets |-> {0, 3}]

CutOff == [runes |-> Runes6({3}), wide |-> {}, offsets |-> {0, 2, 8}]

\* Three letters make a spaced run: behind the boundary it leaves the boundary
\* where it was, across it the boundary is late, and a boundary at the end of it
\* is behind the end of the text.  A gap of three ends a run, so does the digit 6.
Spaced ==
    {[runes |-> <<1, 2, S, 3, S, 4, S, 5>>, wide |-> {4}, offsets |-> {0, b}] : b \in {3, 7}}
    \cup {[runes |-> <<1, S, 2, S, S, 3, S, S, S, 4>>, wide |-> {}, offsets |-> {0, 2}],
          [runes |-> <<1, S, 2, S, 6>>, wide |-> {3}, offsets |-> {0, 4}]}

SmallDocuments == Plain \cup {Repeating, CutOff} \cup Spaced
=============================================================================
