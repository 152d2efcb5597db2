------------------------------ MODULE Indexer ------------------------------
(***************************************************************************)
(* chunk-splitter's Indexer.Process: a text is split window by window, the   *)
(* chunks of a window are embedded in batches, and one batch is written to   *)
(* Qdrant and then to OpenSearch in the background while the next one is     *)
(* embedded.  A failed attempt is redelivered once; ids depend only on the   *)
(* document and the chunk's index, so a redelivery overwrites.              *)
(***************************************************************************)
EXTENDS Windows

CONSTANTS Documents,   \* records [runes, wide, offsets] as a parser hands them
                       \* over, with the rune offsets at which pages begin
          BatchSize,   \* EMBED_BATCH
          Faults,      \* "embed", "vectors", "lexical": calls that may fail
          MaxAttempts  \* bound: deliveries of the document

ASSUME IndexerAssumption ==
    /\ \A d \in Documents : /\ Len(d.runes) \in Nat
                            /\ DOMAIN d.runes = 1..Len(d.runes)
                            /\ d.wide \subseteq DOMAIN d.runes
                            /\ \A r \in d.wide : d.runes[r] # Space
                            /\ d.offsets = {} \/ 0 \in d.offsets
                            /\ d.offsets \subseteq Nat
    /\ BatchSize \in Nat \ {0}
    /\ MaxAttempts \in Nat \ {0}

VARIABLES text,      \* the document
          attempt,   \* the delivery being handled
          at,        \* where Process is
          start,     \* byte offset of the next window
          carry,     \* positions of the runes carried into it
          window,    \* the chunks of the current window
          batch,     \* how many of them have been embedded
          made,      \* every chunk of this attempt, in order of its index
          written,   \* chunks counted as written to both stores
          inflight,  \* the batch write in the background
          vectors,   \* Qdrant: index -> chunk
          lexical    \* OpenSearch: index -> chunk

vars == <<text, attempt, at, start, carry, window, batch, made, written,
          inflight, vectors, lexical>>

position == <<start, carry, window, made>>
stores   == <<vectors, lexical>>

Steps      == {"window", "embed", "settle", "drain", "last", "indexed",
               "failed", "retry"}
WriteSteps == {"none", "vectors", "lexical", "written", "error"}

NoWrite == [at |-> "none", lo |-> 0, hi |-> 0]
NoChunk == [first |-> 0, last |-> 0, span |-> <<0, 0>>]
None    == [i \in {} |-> NoChunk]

\* What Process makes of a document, which capTextToMax may have cut off behind
\* some of its page offsets: CollapseTracking takes spaces out, and the parser's
\* offsets are then laid over the shorter text as they are, or dropped when one
\* is behind its end (validPageOffsets).  pages is what Process works with,
\* begins is where the pages really begin.
TextOf(d) ==
    LET kept == InOrder(Untracked(d.runes))
    IN  [runes  |-> [i \in DOMAIN kept |-> d.runes[kept[i]]],
         wide   |-> {i \in DOMAIN kept : kept[i] \in d.wide},
         pages  |-> IF \A p \in d.offsets : p <= Len(kept) THEN d.offsets ELSE {},
         begins |-> {Cardinality({i \in DOMAIN kept : kept[i] <= p}) : p \in d.offsets}]

Texts == {TextOf(d) : d \in Documents}

N(t)     == Len(t.runes)
Size(t)  == ByteOf(t.runes, t.wide, N(t))

TypeOK ==
    /\ text \in Texts
    /\ attempt \in 1..MaxAttempts
    /\ at \in Steps
    /\ start \in Boundaries(text.runes, text.wide)
    /\ carry \in Seq(1..N(text))
    /\ window \in Seq([first : 1..N(text), last : 1..N(text),
                       span : Nat \X Nat])
    /\ batch \in 0..Len(window)
    /\ made \in Seq([first : 1..N(text), last : 1..N(text), span : Nat \X Nat])
    /\ written \in 0..Len(made)
    /\ inflight.at \in WriteSteps
    /\ inflight.lo <= inflight.hi /\ inflight.hi <= Len(made)

Init ==
    /\ text \in Texts
    /\ attempt = 1
    /\ at = "window"
    /\ start = 0
    /\ carry = <<>>
    /\ window = <<>>
    /\ batch = 0
    /\ made = <<>>
    /\ written = 0
    /\ inflight = NoWrite
    /\ vectors = None
    /\ lexical = None

-----------------------------------------------------------------------------
(* Process: one window after the other.                                      *)

\* byteStartsOf: the rune offsets of the pages, in bytes of the text.
PageBytes == {ByteOf(text.runes, text.wide, r) : r \in text.pages}

\* Mutant: a page that begins at b is taken for the next one.
NextPageFrom(b) == Min({p \in PageBytes : p >= b} \cup {Size(text)})

\* nextPageByteAfter: the first page start behind b, or the end of the text.
NextPage(b) == Min({p \in PageBytes : p > b} \cup {Size(text)})

\* A window does not cross a page boundary.
End == LET end == WindowEnd(text.runes, text.wide, start)
       IN  IF text.pages # {} /\ NextPage(start) <= end
           THEN NextPage(start) ELSE end

AtPageBreak == text.pages # {} /\ End = NextPage(start) /\ End < Size(text)

Segment == LET from == RuneAt(text.runes, text.wide, start)
               to   == RuneAt(text.runes, text.wide, End)
           IN  carry \o [k \in 1..(to - from) |-> from + k]

\* Mutant: the carry is not taken off.
BaseRuneNoCarry == RuneAt(text.runes, text.wide, start)

\* windowBaseRune: where rune 0 of the segment is in the document.
BaseRune == RuneAt(text.runes, text.wide, start) - Len(carry)

\* absOffset: a located span is moved to document coordinates.
AbsOffset(span) == IF span = <<0, 0>> THEN span
                   ELSE <<span[1] + BaseRune, span[2] + BaseRune>>

\* Mutant: context is carried over a page break.
CarryAlways == TailRunes(Segment)

\* The overlap with the next window; a new page starts fresh.
NextCarry == IF AtPageBreak THEN <<>> ELSE TailRunes(Segment)

\* A chunk of the segment, in the document.
Found(seg, chunks, spans) ==
    [i \in DOMAIN chunks |-> [first |-> seg[chunks[i].from],
                              last  |-> seg[chunks[i].to],
                              span  |-> AbsOffset(spans[i])]]

\* The next window is split and its chunks located.
Window ==
    /\ at = "window"
    /\ start < Size(text)
    /\ \E seg \in {Segment} : \E chunks \in Splits(text.runes, seg) :
       \E spans \in {LocateOffsets(text.runes, seg, chunks)} :
        LET found == Found(seg, chunks, spans)
        IN  /\ window' = found
            /\ made' = made \o found
            /\ at' = IF found = <<>> THEN "window" ELSE "embed"
    /\ batch' = 0
    /\ carry' = NextCarry
    /\ start' = End
    /\ UNCHANGED <<text, attempt, written, inflight, stores>>

\* The text is used up: the document is indexed.
Indexed ==
    /\ at = "window"
    /\ start >= Size(text)
    /\ at' = "indexed"
    /\ UNCHANGED <<text, attempt, position, batch, written, inflight, stores>>

-----------------------------------------------------------------------------
(* indexChunks: embed a batch, settle the write before it, start its write.  *)

Embed ==
    /\ at = "embed"
    /\ \/ at' = "settle"
       \/ "embed" \in Faults /\ at' = "drain"
    /\ UNCHANGED <<text, attempt, position, batch, written, inflight, stores>>

Settled == inflight.at \in {"none", "written"}
Counted == written + inflight.hi - inflight.lo

\* The chunks of the next batch, by their absolute indices lo + 1 .. hi.
Base  == Len(made) - Len(window)
Batch == [at |-> "vectors", lo |-> Base + batch,
          hi |-> Base + Min({batch + BatchSize, Len(window)})]

\* Mutant: the write before is not waited for.
SettleBlindly ==
    /\ at = "settle"
    /\ written' = Counted
    /\ inflight' = Batch
    /\ batch' = Batch.hi - Base
    /\ at' = IF Batch.hi = Len(made) THEN "last" ELSE "embed"
    /\ UNCHANGED <<text, attempt, position, stores>>

\* settleWrite and startBatchWrite.
Settle ==
    /\ at = "settle"
    /\ Settled
    /\ written' = Counted
    /\ inflight' = Batch
    /\ batch' = Batch.hi - Base
    /\ at' = IF Batch.hi = Len(made) THEN "last" ELSE "embed"
    /\ UNCHANGED <<text, attempt, position, stores>>

\* The last write of a window is settled before the next window.
SettleLast ==
    /\ at = "last"
    /\ Settled
    /\ written' = Counted
    /\ inflight' = NoWrite
    /\ at' = "window"
    /\ UNCHANGED <<text, attempt, position, batch, stores>>

\* Mutant: a failed embedding returns at once.
FailEarly ==
    /\ \/ at \in {"settle", "last"} /\ inflight.at = "error"
       \/ at = "drain"
    /\ at' = "failed"
    /\ UNCHANGED <<text, attempt, position, batch, written, inflight, stores>>

\* A failed write, or a failed embedding once the write before it is over.
Fail ==
    /\ \/ at \in {"settle", "last", "drain"} /\ inflight.at = "error"
       \/ at = "drain" /\ Settled
    /\ at' = "failed"
    /\ inflight' = NoWrite
    /\ UNCHANGED <<text, attempt, position, batch, written, stores>>

-----------------------------------------------------------------------------
(* The background write: Upsert, then Index; both replace what is there.     *)

Put(store) == [i \in DOMAIN store \cup (inflight.lo + 1)..inflight.hi |->
                  IF i \in (inflight.lo + 1)..inflight.hi THEN made[i]
                  ELSE store[i]]

Wrote(from, to) == /\ inflight.at = from
                   /\ inflight' = [inflight EXCEPT !.at = to]

\* Mutant: a failed upsert ends the goroutine without an answer.
UpsertSilent ==
    /\ \/ Wrote("vectors", "lexical") /\ vectors' = Put(vectors)
       \/ "vectors" \in Faults /\ Wrote("vectors", "silent") /\ vectors' = vectors
    /\ UNCHANGED <<text, attempt, at, position, batch, written, lexical>>

\* A call that failed may have taken effect all the same.
Upsert ==
    /\ \/ Wrote("vectors", "lexical") /\ vectors' = Put(vectors)
       \/ /\ "vectors" \in Faults
          /\ Wrote("vectors", "error")
          /\ vectors' \in {vectors, Put(vectors)}
    /\ UNCHANGED <<text, attempt, at, position, batch, written, lexical>>

\* Mutant: an error of the lexical index is dropped.
IndexUnchecked ==
    /\ Wrote("lexical", "written")
    /\ lexical' \in {lexical, Put(lexical)}
    /\ UNCHANGED <<text, attempt, at, position, batch, written, vectors>>

Index ==
    /\ \/ Wrote("lexical", "written") /\ lexical' = Put(lexical)
       \/ /\ "lexical" \in Faults
          /\ Wrote("lexical", "error")
          /\ lexical' \in {lexical, Put(lexical)}
    /\ UNCHANGED <<text, attempt, at, position, batch, written, vectors>>

-----------------------------------------------------------------------------
\* The job is delivered again: Process starts over on stores that hold what
\* earlier attempts wrote.
Restart ==
    /\ attempt < MaxAttempts
    /\ attempt' = attempt + 1
    /\ at' = "window"
    /\ start' = 0
    /\ carry' = <<>>
    /\ window' = <<>>
    /\ batch' = 0
    /\ made' = <<>>
    /\ written' = 0
    /\ inflight' = NoWrite
    /\ UNCHANGED <<text, stores>>

Redeliver == at = "failed" /\ Restart

\* The process dies, and the background write with it.
Crash == at # "failed" /\ Restart

Next == \/ Window \/ Indexed \/ Embed \/ Settle \/ SettleLast \/ Fail
        \/ Upsert \/ Index \/ Redeliver \/ Crash

\* Process and its goroutine run on; every call returns.
Fairness == /\ WF_vars(Window \/ Indexed \/ Embed \/ Settle \/ SettleLast \/ Fail)
            /\ WF_vars(Upsert \/ Index)

Spec     == Init /\ [][Next]_vars
FairSpec == Spec /\ Fairness

-----------------------------------------------------------------------------
(* Properties.                                                              *)

InBoth(i) == /\ i \in DOMAIN vectors \cap DOMAIN lexical
             /\ vectors[i] = made[i]
             /\ lexical[i] = made[i]

Letters == {r \in DOMAIN text.runes : text.runes[r] # Space}

(* An indexed document is found by every word of it: each letter of the text *)
(* is in a chunk of this attempt that both stores hold, across windows,      *)
(* pages, batches and what an earlier attempt left behind.                   *)
IndexedIsComplete ==
    at = "indexed" =>
        \A r \in Letters : \E i \in DOMAIN made :
            r \in made[i].first..made[i].last /\ InBoth(i)

(* written counts the chunks that are durably in both stores, in order, as   *)
(* the reconciliation of Process and chunk_count take it to.                 *)
WrittenIsDurable == /\ \A i \in 1..written : InBoth(i)
                    /\ at = "indexed" => written = Len(made)

(* When Process returns, no write of its goroutine is under way that could   *)
(* land on top of a redelivery.                                              *)
QuietAtReturn == at \in {"indexed", "failed"} => inflight.at = "none"

\* The page of a rune: by the offsets Process has, and in truth.
MarkedPage(r) == Cardinality({p \in text.pages : p < r})
PageOf(r)     == Cardinality({p \in text.begins : p < r})

LettersOf(c) == Letters \cap (c.first..c.last)

\* The span starts at the first letter of the chunk and ends behind its last
\* one, before any other.
Located(c) ==
    /\ c.span[1] = Min(LettersOf(c)) - 1
    /\ Letters \cap (c.span[1] + 1)..c.span[2] = LettersOf(c)

\* No letter of the text is there twice.
Unrepeated == \A q, r \in Letters : text.runes[q] = text.runes[r] => q = r

(* In a text that does not repeat itself every chunk is located exactly,     *)
(* through carries, overlaps, trimmed spaces and wide runes, except one that  *)
(* repeats the whole chunk before it as its overlap.  In no text has a chunk  *)
(* letters from both sides of a page boundary as Process knows them; they are *)
(* of one page in truth where the pages begin at these boundaries, but a      *)
(* letter-spaced run moves the text under all boundaries behind its start.   *)
ProvenanceIsExact ==
    \A i \in DOMAIN made :
        /\ \/ ~Unrepeated
           \/ Located(made[i])
           \/ /\ made[i].span = <<0, 0>>
              /\ i > 1 /\ LettersOf(made[i - 1]) \subseteq LettersOf(made[i])
        /\ \A q, r \in LettersOf(made[i]) :
              /\ MarkedPage(q) = MarkedPage(r)
              /\ text.begins \subseteq text.pages => PageOf(q) = PageOf(r)

(* Process never stays where it is in the text: wherever a window has ended,  *)
(* before a wide rune, behind a space or at the start of a page, the next one *)
(* ends farther on.                                                          *)
WindowsAdvance == at = "window" /\ start < Size(text) => start < End

(* Every delivery comes to an end: windows advance and nobody waits for a    *)
(* write that is never answered.                                             *)
EventuallyReturns == <>(at \in {"indexed", "failed"})
=============================================================================
