------------------------------ MODULE Windows ------------------------------
(***************************************************************************)
(* The pure functions of the chunk-splitter: how letter-spacing is taken     *)
(* out of a text, where a window of it ends, what it carries over, and where *)
(* in the document a chunk was found.                                       *)
(*                                                                         *)
(* A text is a sequence of runes.  A rune is Space or a letter; some of the  *)
(* letters are Alphabetic, the others stand for digits and signs.  Wide says *)
(* which positions hold runes of two bytes.  Positions count from 1 as       *)
(* usual; offsets, as in the code, from 0 with an exclusive end.            *)
(***************************************************************************)
EXTENDS Naturals, FiniteSets, Sequences, SequencesExt, FiniteSetsExt

CONSTANTS Space,        \* the whitespace rune
          Alphabetic,   \* what unicode.IsLetter accepts
          MinTrackedRun,   \* letters that make a spaced run
          MaxConnectorGap, \* spaces that may join two of them
          SplitWindow,  \* splitWindow in bytes
          Lookback,     \* how far windowEnd looks back for a space
          Overlap,      \* CHUNK_OVERLAP in runes
          ChunkSize     \* what a chunk may measure

ASSUME WindowsAssumption ==
    /\ SplitWindow \in Nat /\ SplitWindow >= 2  \* the widest rune
    /\ Lookback \in Nat
    /\ Overlap \in Nat
    /\ ChunkSize \in Nat \ {0}

\* Positions, in order.
InOrder(positions) ==
    [i \in 1..Cardinality(positions) |->
        CHOOSE k \in positions : Cardinality({j \in positions : j <= k}) = i]

-----------------------------------------------------------------------------
(* CollapseTracking: l e t t e r s  set apart become a word.                  *)

\* isSingleLetter: a token of one letter.
Single(runes, k) ==
    /\ runes[k] \in Alphabetic
    /\ \A j \in {k - 1, k + 1} \cap DOMAIN runes : runes[j] = Space

\* trackedRunLength: enough single letters from a to b, none of them farther
\* than a connector from the next.
Tracked(runes, a, b) ==
    /\ Single(runes, a) /\ Single(runes, b)
    /\ \A k \in a..b : /\ runes[k] # Space => Single(runes, k)
                       /\ \E j \in k..Min({k + MaxConnectorGap, b}) : runes[j] # Space
    /\ Cardinality({k \in a..b : runes[k] # Space}) >= MinTrackedRun

\* The positions that stay: all but the spaces within such a run.
Untracked(runes) ==
    {k \in DOMAIN runes : \/ runes[k] # Space
                         \/ ~\E a \in 1..k, b \in k..Len(runes) : Tracked(runes, a, b)}

-----------------------------------------------------------------------------
(* Windows.                                                                  *)

\* The byte offset after the first r runes.
ByteOf(text, wide, r) == r + Cardinality(wide \cap 1..r)

\* utf8.RuneCountInString(text[:b]): the runes that begin before b.
RuneAt(text, wide, b) == Cardinality({r \in 1..Len(text) : ByteOf(text, wide, r - 1) < b})

Boundaries(text, wide) == {ByteOf(text, wide, r) : r \in 0..Len(text)}

\* Byte offsets just behind a space.
AfterSpace(text, wide) ==
    {ByteOf(text, wide, r) : r \in {q \in 1..Len(text) : text[q] = Space}}

\* Mutant: the cut is not moved back to a rune boundary.
WindowEndRaw(text, wide, start) ==
    Min({start + SplitWindow, ByteOf(text, wide, Len(text))})

\* windowEnd: as far as the limit allows, on a rune boundary, and behind a
\* space if there is one close to the end.
WindowEnd(text, wide, start) ==
    LET len    == ByteOf(text, wide, Len(text))
        end    == Max({b \in Boundaries(text, wide) :
                        start <= b /\ b <= start + SplitWindow})
        breaks == {b \in AfterSpace(text, wide) :
                    /\ start + 1 < b /\ b <= end
                    /\ end + 1 < b + Lookback}
    IN  IF start + SplitWindow >= len THEN len
        ELSE IF breaks # {} THEN Max(breaks)
        ELSE end

\* tailRunes: the runes carried into the next window.
TailRunes(seg) == SubSeq(seg, Len(seg) - Min({Overlap, Len(seg)}) + 1, Len(seg))

-----------------------------------------------------------------------------
(* Splitting a segment, and finding the chunks in it again.                  *)

\* A chunk as the interval of the segment it was made of.
Interval(from, to) == [from |-> from, to |-> to]

Blank(text, seg, c) == \A k \in c.from..c.to : text[seg[k]] = Space

\* Where pieces of at most ChunkSize may end in n runes.
Cuts(n) == {C \in SUBSET (0..n) :
              /\ {0, n} \subseteq C
              /\ \A k \in C \ {0} : \E j \in C : j < k /\ k - j <= ChunkSize}

\* The piece that ends at cut e, behind the overlap with the piece before it.
PieceAt(C, e) ==
    LET Before(k) == Max({j \in C : j < k})
        b         == Before(e)
    IN  Interval(1 + IF b = 0 THEN 0 ELSE Max({Before(b), b - Min({Overlap, b})}), e)

\* Intervals with different ends, in order.
ByEnd(intervals) ==
    [i \in 1..Cardinality(intervals) |->
        CHOOSE c \in intervals :
            Cardinality({b \in intervals : b.to <= c.to}) = i]

\* The chunks for given cuts; a blank one is not emitted.
Pieces(text, seg, C) ==
    {c \in {PieceAt(C, e) : e \in C \ {0}} : ~Blank(text, seg, c)}

\* Split: consecutive pieces of bounded size, each with its overlap.
Splits(text, seg) == {ByEnd(Pieces(text, seg, C)) : C \in Cuts(Len(seg))}

\* normalizeWithMap: the positions of seg that survive when runs of whitespace
\* are collapsed to their first rune and the ends are trimmed, in order.
Kept(text, seg) ==
    LET letter(k) == text[seg[k]] # Space
    IN  {k \in DOMAIN seg : \/ letter(k)
                            \/ /\ k > 1 /\ letter(k - 1)
                               /\ \E j \in k..Len(seg) : letter(j)}

Normal(text, seg) == InOrder(Kept(text, seg))

\* The runes that are compared.
Runes(text, seg, positions) == [i \in DOMAIN positions |-> text[seg[positions[i]]]]

\* Mutant: the next chunk is searched from the end of the last match.
BehindMatch(hit, needle) == hit + Len(needle)

\* Where the search for the next chunk starts: chunks overlap, so one past the
\* start of this match.
Advance(hit, needle) == hit + 1

\* The compared runes of a chunk.
Needle(text, seg, c) == LET part == SubSeq(seg, c.from, c.to)
                        IN  Runes(text, part, Normal(text, part))

\* The matches from the cursor on.
Hits(hay, needle, cursor) ==
    {k \in cursor..(Len(hay) + 1 - Len(needle)) :
        SubSeq(hay, k, k + Len(needle) - 1) = needle}

\* Where a compared rune is in the segment; behind the last one, its end.
Orig(seg, norm, k) == IF k > Len(norm) THEN Len(seg) ELSE norm[k] - 1

\* The first match is taken for the chunk; a chunk that is not found has the
\* span <<0, 0>> and leaves the cursor in its place.
Locate(seg, norm, hay, needle, before) ==
    LET hits == Hits(hay, needle, before.cursor)
        hit  == Min(hits)
    IN  IF needle = <<>> \/ hits = {} THEN [before EXCEPT !.span = <<0, 0>>]
        ELSE [span   |-> <<Orig(seg, norm, hit), Orig(seg, norm, hit + Len(needle))>>,
              cursor |-> Advance(hit, needle)]

\* LocateOffsets: the chunks one after the other.
LocateOffsets(text, seg, chunks) ==
    LET norm == Normal(text, seg)
        hay  == Runes(text, seg, norm)
        loc[i \in 0..Len(chunks)] ==
            IF i = 0 THEN [span |-> <<0, 0>>, cursor |-> 1]
            ELSE Locate(seg, norm, hay, Needle(text, seg, chunks[i]), loc[i - 1])
    IN  [i \in DOMAIN chunks |-> loc[i].span]
=============================================================================
