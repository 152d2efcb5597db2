----------------------------- MODULE Structure -----------------------------
(***************************************************************************)
(* The structure-aware pre-pass of the chunk-splitter: segment groups the    *)
(* lines of a text into blocks, a run of tabular lines is one table block,   *)
(* captions are glued to what they annotate.  A line is one of Kinds and a   *)
(* block holds the positions of its lines.                                  *)
(***************************************************************************)
EXTENDS Naturals, Sequences, SequencesExt

CONSTANT Texts  \* sequences of kinds

Kinds == {"prose", "blank", "heading", "row", "caption", "captionRow"}

VARIABLES text,     \* the lines
          i,        \* the line segment is at
          flow,     \* the open block of prose
          section,  \* the heading in force, 0 if none
          blocks,   \* the blocks so far
          done      \* segment has returned

vars == <<text, i, flow, section, blocks, done>>

IsTabular(k) == k \in {"row", "captionRow"}
IsCaption(k) == k \in {"caption", "captionRow"}
minTableRows == 2

Block(lines, kind) == [lines |-> lines, kind |-> kind, section |-> section]
Span(from, to)     == [k \in 1..(to - from) |-> from + k - 1]

Init ==
    /\ text \in Texts
    /\ i = 1
    /\ flow = <<>>
    /\ section = 0
    /\ blocks = <<>>
    /\ done = FALSE

-----------------------------------------------------------------------------
\* tableRun: how many tabular lines there are from line j on, if enough.
TableRun(j) ==
    LET run == CHOOSE n \in 0..Len(text) :
                  /\ \A k \in j..(j + n - 1) : k <= Len(text) /\ IsTabular(text[k])
                  /\ j + n <= Len(text) => ~IsTabular(text[j + n])
    IN  IF run >= minTableRows THEN run ELSE 0

\* captionThenTable, or else a table alone: the lines of the table at i.
Run == IF IsCaption(text[i]) /\ i < Len(text) /\ TableRun(i + 1) > 0
       THEN 1 + TableRun(i + 1)
       ELSE TableRun(i)

\* captionedTable: a caption line right below is absorbed too.
TableEnd == LET to == i + Run
            IN  IF to <= Len(text) /\ IsCaption(text[to]) THEN to + 1 ELSE to

flushFlow == IF flow = <<>> THEN blocks ELSE Append(blocks, Block(flow, "flow"))

TakeTable ==
    /\ i <= Len(text)
    /\ Run > 0
    /\ blocks' = Append(flushFlow, Block(Span(i, TableEnd), "table"))
    /\ flow' = <<>>
    /\ i' = i + Run
    /\ UNCHANGED <<text, section, done>>

TakeLine ==
    /\ i <= Len(text)
    /\ Run = 0
    /\ section' = IF text[i] = "heading" THEN i ELSE section
    /\ flow' = Append(flow, i)
    /\ i' = i + 1
    /\ UNCHANGED <<text, blocks, done>>

-----------------------------------------------------------------------------
\* A block of prose that is one caption line, blank lines aside.
IsCaptionBlock(b) ==
    LET words == SelectSeq(b.lines, LAMBDA k : text[k] # "blank")
    IN  b.kind = "flow" /\ Len(words) = 1 /\ IsCaption(text[words[1]])

\* One step of attachCaptions: out is what has been decided, held the caption
\* block that goes in front of the next one.
Glue(acc, b) ==
    LET lines == acc.held.lines \o b.lines
        this  == [b EXCEPT !.lines = lines,
                           !.section = IF @ = 0 THEN acc.held.section ELSE @]
        out   == acc.out
    IN  IF ~IsCaptionBlock(this)
        THEN [out |-> Append(out, this), held |-> Block(<<>>, "flow")]
        ELSE IF out # <<>> /\ Last(out).kind = "table"
        THEN [acc EXCEPT !.out = [out EXCEPT ![Len(out)].lines = @ \o lines]]
        ELSE [acc EXCEPT !.held = this]

\* attachCaptions: a caption goes to the table before it or else to the block
\* after it, and stands alone at the end.
AttachCaptions(bs) ==
    LET glued[n \in 0..Len(bs)] ==
            IF n = 0 THEN [out |-> <<>>, held |-> Block(<<>>, "flow")]
            ELSE Glue(glued[n - 1], bs[n])
        end == glued[Len(bs)]
    IN  IF end.held.lines = <<>> THEN end.out ELSE Append(end.out, end.held)

Return ==
    /\ i > Len(text)
    /\ ~done
    /\ blocks' = AttachCaptions(flushFlow)
    /\ flow' = <<>>
    /\ done' = TRUE
    /\ UNCHANGED <<text, i, section>>

Next == TakeTable \/ TakeLine \/ Return
Spec == Init /\ [][Next]_vars

-----------------------------------------------------------------------------
(* Properties.                                                              *)

(* "blocks reconstruct the source byte-for-byte": every line is in the       *)
(* blocks once, in its place.                                                *)
BlocksReconstruct ==
    done => FlattenSeq([n \in DOMAIN blocks |-> blocks[n].lines])
              = [k \in DOMAIN text |-> k]
=============================================================================
