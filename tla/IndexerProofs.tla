---------------------------- MODULE IndexerProofs ----------------------------
(***************************************************************************)
(* Proofs about Indexer for any texts, batch sizes, failures and numbers of  *)
(* redeliveries.                                                            *)
(*                                                                         *)
(* The first half is about Windows alone: chunks cover their segment and      *)
(* advance, a segment is a stretch of the document, and in a stretch that     *)
(* does not repeat itself the search finds every chunk where it begins.       *)
(* The second half is about Process: it never returns with its background     *)
(* write under way (Quiet), what it counts as written is in both stores       *)
(* (Account), and it walks through the text without losing a letter, giving   *)
(* a wrong place or mixing pages (Course).                                    *)
(***************************************************************************)
EXTENDS Indexer, FiniteSetTheorems, FunctionTheorems, SequenceTheorems, TLAPS

-----------------------------------------------------------------------------
(* Numbers: least and greatest members, and induction as a fact about sets.  *)

\* A set of numbers has a least member, which Min chooses.
LEMMA Least ==
    ASSUME NEW T \in SUBSET Nat, T # {}
    PROVE  /\ Min(T) \in T /\ \A k \in T : Min(T) <= k
           /\ \E m \in T : \A k \in T : m <= k
  <1>1. PICK m \in T : \A k \in T : ~(<<k, m>> \in OpToRel(<, Nat))
    BY NatLessThanWellFounded, WFMin
  <1>2. \A k \in T : ~(k < m)
    BY <1>1 DEF OpToRel
  <1>3. m \in T /\ \A k \in T : m <= k
    BY <1>2
  <1>4. Min(T) \in T /\ \A k \in T : Min(T) <= k
    BY <1>3 DEF Min
  <1> QED BY <1>4

\* A bounded one has a greatest member, which Max chooses.
LEMMA Greatest ==
    ASSUME NEW n \in Nat, NEW T \in SUBSET (0..n), T # {}
    PROVE  Max(T) \in T /\ Max(T) \in 0..n /\ \A k \in T : k <= Max(T)
  <1> DEFINE D == {d \in 0..n : n - d \in T}
  <1>1. D \in SUBSET Nat
    OBVIOUS
  <1>2. PICK k \in T : TRUE
    OBVIOUS
  <1>3. n - k \in D
    OBVIOUS
  <1>4. PICK d \in D : \A e \in D : d <= e
    BY <1>1, <1>3, Least
  <1>5. \A j \in T : j <= n - d
    <2> TAKE j \in T
    <2>1. n - j \in D
      OBVIOUS
    <2>2. d <= n - j
      BY <1>4, <2>1
    <2>3. d \in Nat /\ j \in Nat
      BY <1>4
    <2> QED BY <2>2, <2>3
  <1>6. n - d \in T /\ \A j \in T : n - d >= j
    BY <1>4, <1>5
  <1>7. Max(T) \in T /\ \A j \in T : Max(T) >= j
    BY <1>6 DEF Max
  <1> QED BY <1>7

\* Induction, as a fact about a set of numbers.
LEMMA Inductive ==
    ASSUME NEW T, 0 \in T, \A n \in Nat : n \in T => n + 1 \in T
    PROVE  Nat \subseteq T
  <1> SUFFICES ASSUME Nat \ T # {} PROVE FALSE
    OBVIOUS
  <1>1. PICK m \in Nat \ T : \A k \in Nat \ T : m <= k
    BY Least
  <1>2. m # 0 /\ m - 1 \in Nat
    BY <1>1
  <1>3. m - 1 \in T
    BY <1>1, <1>2
  <1>4. m - 1 + 1 = m
    BY <1>2
  <1> QED BY <1>2, <1>3, <1>4

-----------------------------------------------------------------------------
(* Bytes and runes.                                                          *)

\* What holds of every text: a sequence of runes, some of them wide.
Script(runes, wide) ==
    /\ Len(runes) \in Nat
    /\ DOMAIN runes = 1..Len(runes)
    /\ wide \subseteq DOMAIN runes

\* Offsets grow with the runes.
LEMMA ByteGrows ==
    ASSUME NEW runes, NEW wide, Script(runes, wide)
    PROVE  /\ ByteOf(runes, wide, 0) = 0
           /\ \A r \in Nat : ByteOf(runes, wide, r) \in Nat /\ r <= ByteOf(runes, wide, r)
           /\ \A q, r \in Nat : q <= r => ByteOf(runes, wide, q) + (r - q) <= ByteOf(runes, wide, r)
  <1> DEFINE extra(r) == Cardinality(wide \cap 1..r)
  <1>1. \A r \in Nat : IsFiniteSet(1..r) /\ wide \cap 1..r \in SUBSET (1..r)
    BY FS_Interval
  <1>2. \A r \in Nat : IsFiniteSet(wide \cap 1..r) /\ extra(r) \in Nat
    BY <1>1, FS_Subset, FS_CardinalityType
  <1>0. \A r : ByteOf(runes, wide, r) = r + extra(r)
    BY DEF ByteOf
  <1>6. extra(0) = 0
    <2>1. wide \cap 1..0 = {}
      OBVIOUS
    <2> QED BY <2>1, FS_EmptySet
  <1>7. ASSUME NEW q \in Nat, NEW r \in Nat, q <= r PROVE extra(q) <= extra(r)
    <2>1. wide \cap 1..q \in SUBSET (wide \cap 1..r)
      BY <1>7
    <2> QED BY <1>2, <2>1, FS_Subset
  <1> HIDE DEF extra
  <1>3. ASSUME NEW r \in Nat PROVE ByteOf(runes, wide, r) \in Nat /\ r <= ByteOf(runes, wide, r)
    <2>1. extra(r) \in Nat /\ ByteOf(runes, wide, r) = r + extra(r)
      BY <1>0, <1>2
    <2> QED BY <2>1
  <1>4. ByteOf(runes, wide, 0) = 0
    BY <1>0, <1>6
  <1>5. ASSUME NEW q \in Nat, NEW r \in Nat, q <= r
        PROVE  ByteOf(runes, wide, q) + (r - q) <= ByteOf(runes, wide, r)
    <2>1. extra(q) \in Nat /\ extra(r) \in Nat /\ extra(q) <= extra(r)
      BY <1>2, <1>5, <1>7
    <2> QED BY <1>0, <1>5, <2>1
  <1> QED BY <1>3, <1>4, <1>5

\* Counting the runes before an offset undoes ByteOf.
LEMMA RuneAtByteOf ==
    ASSUME NEW runes, NEW wide, Script(runes, wide), NEW r \in 0..Len(runes)
    PROVE  RuneAt(runes, wide, ByteOf(runes, wide, r)) = r
  <1> DEFINE before == {q \in 1..Len(runes) : ByteOf(runes, wide, q - 1) < ByteOf(runes, wide, r)}
  <1>1. Len(runes) \in Nat /\ r \in Nat
    BY DEF Script
  <1>2. ASSUME NEW q \in 1..Len(runes) PROVE q \in before <=> q <= r
    <2>1. q - 1 \in Nat /\ q \in Nat
      BY <1>1
    <2>2. CASE q <= r
      <3>1. ByteOf(runes, wide, q - 1) + (r - (q - 1)) <= ByteOf(runes, wide, r)
        BY <1>1, <2>1, <2>2, ByteGrows
      <3>2. ByteOf(runes, wide, q - 1) \in Nat /\ ByteOf(runes, wide, r) \in Nat
        BY <1>1, <2>1, ByteGrows
      <3> QED BY <1>1, <2>1, <2>2, <3>1, <3>2
    <2>3. CASE q > r
      <3>1. ByteOf(runes, wide, r) + (q - 1 - r) <= ByteOf(runes, wide, q - 1)
        BY <1>1, <2>1, <2>3, ByteGrows
      <3>2. ByteOf(runes, wide, q - 1) \in Nat /\ ByteOf(runes, wide, r) \in Nat
        BY <1>1, <2>1, ByteGrows
      <3> QED BY <1>1, <2>1, <2>3, <3>1, <3>2
    <2> QED BY <1>1, <2>1, <2>2, <2>3
  <1>3. before = 1..r
    BY <1>1, <1>2
  <1>4. Cardinality(1..r) = r
    BY <1>1, FS_Interval
  <1> QED BY <1>3, <1>4 DEF RuneAt

\* What is known of a rune boundary.
LEMMA Boundary ==
    ASSUME NEW runes, NEW wide, Script(runes, wide), NEW b \in Boundaries(runes, wide)
    PROVE  /\ b \in Nat /\ b <= ByteOf(runes, wide, Len(runes))
           /\ RuneAt(runes, wide, b) \in 0..Len(runes)
           /\ b = ByteOf(runes, wide, RuneAt(runes, wide, b))
  <1>1. PICK r \in 0..Len(runes) : b = ByteOf(runes, wide, r)
    BY DEF Boundaries
  <1>2. RuneAt(runes, wide, b) = r
    BY <1>1, RuneAtByteOf
  <1>3. Len(runes) \in Nat /\ r \in Nat /\ r <= Len(runes)
    BY DEF Script
  <1>4. b \in Nat /\ ByteOf(runes, wide, Len(runes)) \in Nat
        /\ b + (Len(runes) - r) <= ByteOf(runes, wide, Len(runes))
    BY <1>1, <1>3, ByteGrows
  <1> QED BY <1>1, <1>2, <1>3, <1>4

\* Boundaries and their runes are in the same order.
LEMMA BoundaryOrder ==
    ASSUME NEW runes, NEW wide, Script(runes, wide),
           NEW b \in Boundaries(runes, wide), NEW c \in Boundaries(runes, wide)
    PROVE  b <= c <=> RuneAt(runes, wide, b) <= RuneAt(runes, wide, c)
  <1> DEFINE q == RuneAt(runes, wide, b)
             r == RuneAt(runes, wide, c)
  <1>1. q \in Nat /\ r \in Nat /\ b = ByteOf(runes, wide, q) /\ c = ByteOf(runes, wide, r)
        /\ b \in Nat /\ c \in Nat
    BY Boundary DEF Script
  <1> HIDE DEF q, r
  <1>2. q <= r => b + (r - q) <= c
    BY <1>1, ByteGrows
  <1>3. r <= q => c + (q - r) <= b
    BY <1>1, ByteGrows
  <1>4. b <= c <=> q <= r
    BY <1>1, <1>2, <1>3
  <1> QED BY <1>4 DEF q, r

\* The ends of the text are boundaries.
LEMMA BoundaryEnds ==
    ASSUME NEW runes, NEW wide, Script(runes, wide)
    PROVE  /\ 0 \in Boundaries(runes, wide) /\ RuneAt(runes, wide, 0) = 0
           /\ ByteOf(runes, wide, Len(runes)) \in Boundaries(runes, wide)
           /\ RuneAt(runes, wide, ByteOf(runes, wide, Len(runes))) = Len(runes)
           /\ \A r \in 0..Len(runes) : ByteOf(runes, wide, r) \in Boundaries(runes, wide)
  <1>1. 0 \in 0..Len(runes) /\ Len(runes) \in 0..Len(runes)
    BY DEF Script
  <1>2. ByteOf(runes, wide, 0) = 0
    BY ByteGrows
  <1> QED BY <1>1, <1>2, RuneAtByteOf DEF Boundaries

\* No rune is wider than two bytes.
LEMMA NextBoundary ==
    ASSUME NEW runes, NEW wide, Script(runes, wide), NEW r \in Nat
    PROVE  ByteOf(runes, wide, r + 1) <= ByteOf(runes, wide, r) + 2
  <1> DEFINE S == wide \cap 1..r
             T == wide \cap 1..(r + 1)
             U == S \cup {r + 1}
  <1>1. IsFiniteSet(S) /\ r + 1 \notin S
    <2>1. IsFiniteSet(1..r)
      BY FS_Interval
    <2> QED BY <2>1, FS_Subset
  <1>2. T \in SUBSET U
    OBVIOUS
  <1>3. ByteOf(runes, wide, r) = r + Cardinality(S) /\ ByteOf(runes, wide, r + 1) = r + 1 + Cardinality(T)
    BY DEF ByteOf
  <1> HIDE DEF S, T
  <1>4. IsFiniteSet(U) /\ Cardinality(U) = Cardinality(S) + 1
    BY <1>1, FS_AddElement
  <1> HIDE DEF U
  <1>5. IsFiniteSet(T) /\ Cardinality(T) <= Cardinality(U) /\ Cardinality(T) \in Nat
        /\ Cardinality(S) \in Nat
    BY <1>1, <1>2, <1>4, FS_Subset, FS_CardinalityType
  <1> QED BY <1>3, <1>4, <1>5

(* windowEnd never cuts a rune, and unless the text is used up it ends behind *)
(* its start, whatever spaces and wide runes it finds on its way back.        *)
THEOREM WindowEndIsBoundary ==
    ASSUME NEW runes, NEW wide, Script(runes, wide), NEW b \in Boundaries(runes, wide)
    PROVE  /\ WindowEnd(runes, wide, b) \in Boundaries(runes, wide)
           /\ b <= WindowEnd(runes, wide, b)
           /\ b < ByteOf(runes, wide, Len(runes)) => b < WindowEnd(runes, wide, b)
  <1> DEFINE len    == ByteOf(runes, wide, Len(runes))
             reach  == {c \in Boundaries(runes, wide) : b <= c /\ c <= b + SplitWindow}
             end    == Max(reach)
             breaks == {c \in AfterSpace(runes, wide) :
                          b + 1 < c /\ c <= end /\ end + 1 < c + Lookback}
  <1>1. len \in Boundaries(runes, wide) /\ len \in Nat /\ b \in Nat /\ b <= len
        /\ \A c \in Boundaries(runes, wide) : c \in 0..len
    BY Boundary, BoundaryEnds
  <1>2. AfterSpace(runes, wide) \subseteq Boundaries(runes, wide)
    BY DEF AfterSpace, Boundaries
  <1>3. b \in reach
    BY <1>1, WindowsAssumption
  <1>4. end \in reach
    <2>1. reach \in SUBSET (0..len)
      BY <1>1
    <2> QED BY <1>1, <1>3, <2>1, Greatest
  <1>5. breaks # {} => Max(breaks) \in breaks
    <2>1. breaks \in SUBSET (0..len)
      BY <1>1, <1>2
    <2> QED BY <1>1, <2>1, Greatest
  <1>6. WindowEnd(runes, wide, b) = IF b + SplitWindow >= len THEN len
                                    ELSE IF breaks # {} THEN Max(breaks) ELSE end
    BY DEF WindowEnd
  <1>8. ASSUME b < len, b + SplitWindow < len PROVE b < end
    <2> DEFINE r == RuneAt(runes, wide, b)
               c == ByteOf(runes, wide, r + 1)
    <2>1. r \in 0..Len(runes) /\ b = ByteOf(runes, wide, r) /\ Len(runes) \in Nat
      BY Boundary DEF Script
    <2>2. r # Len(runes)
      BY <1>1, <1>8, <2>1
    <2> HIDE DEF r
    <2>3. r + 1 \in 0..Len(runes) /\ r \in Nat
      BY <2>1, <2>2
    <2>4. c \in Boundaries(runes, wide) /\ c <= b + 2
      BY <2>1, <2>3, BoundaryEnds, NextBoundary
    <2>5. ByteOf(runes, wide, r) + (r + 1 - r) <= c
      BY <2>3, ByteGrows
    <2> HIDE DEF c, len, reach
    <2>6. c \in Nat /\ b < c /\ c <= b + SplitWindow
      <3>1. c \in Nat /\ b + 1 <= c
        BY <1>1, <2>1, <2>3, <2>4, <2>5
      <3> QED BY <1>1, <2>4, <3>1, WindowsAssumption
    <2>7. c \in reach
      BY <1>1, <2>4, <2>6 DEF reach
    <2>8. c <= end /\ end \in Nat
      <3>1. reach \in SUBSET (0..len)
        BY <1>1 DEF reach
      <3> QED BY <1>1, <1>4, <2>7, <3>1, Greatest DEF reach
    <2> HIDE DEF end
    <2> QED BY <1>1, <2>6, <2>8
  <1>7. ASSUME breaks # {} PROVE Max(breaks) \in Boundaries(runes, wide) /\ b < Max(breaks)
    <2>1. Max(breaks) \in AfterSpace(runes, wide) /\ b + 1 < Max(breaks)
      BY <1>5, <1>7
    <2> HIDE DEF breaks, len
    <2>2. Max(breaks) \in Boundaries(runes, wide)
      BY <1>2, <2>1
    <2>3. Max(breaks) \in Nat
      BY <2>2, Boundary
    <2> QED BY <1>1, <2>1, <2>2, <2>3
  <1>9. end \in Boundaries(runes, wide) /\ b <= end
    BY <1>4
  <1> HIDE DEF len, end, breaks
  <1> DEFINE w == WindowEnd(runes, wide, b)
  <1>10. CASE b + SplitWindow >= len
    <2>1. w = len
      BY <1>6, <1>10
    <2> QED BY <1>1, <2>1 DEF len
  <1>11. CASE ~(b + SplitWindow >= len)
    <2>1. b < len /\ b + SplitWindow < len
      BY <1>1, <1>11, WindowsAssumption
    <2>2. CASE breaks # {}
      <3>1. w = Max(breaks)
        BY <1>6, <1>11, <2>2
      <3>2. Max(breaks) \in 0..len
        BY <1>1, <1>7, <2>2
      <3> QED BY <1>1, <1>7, <2>2, <3>1, <3>2
    <2>3. CASE breaks = {}
      BY <1>6, <1>8, <1>9, <1>11, <2>1, <2>3
    <2> QED BY <2>2, <2>3
  <1> QED BY <1>10, <1>11

-----------------------------------------------------------------------------
(* Putting a set in order by ranks.                                          *)

\* How many members of S come up to each of them, by their keys.
RankIn(S, key) == [c \in S |-> Cardinality({b \in S : key[b] <= key[c]})]

\* Each rank is that of one member, and ranks are in the order of the keys.
LEMMA Ranks ==
    ASSUME NEW S, IsFiniteSet(S), NEW key \in [S -> Nat],
           \A b, c \in S : key[b] = key[c] => b = c
    PROVE  /\ Cardinality(S) \in Nat
           /\ RankIn(S, key) \in [S -> 1..Cardinality(S)]
           /\ \A b, c \in S : RankIn(S, key)[b] = RankIn(S, key)[c] => b = c
           /\ \A b, c \in S : RankIn(S, key)[b] < RankIn(S, key)[c] => key[b] < key[c]
           /\ \A i \in 1..Cardinality(S) : \E c \in S : RankIn(S, key)[c] = i
  <1> DEFINE n     == Cardinality(S)
             up(c) == {b \in S : key[b] <= key[c]}
             rank  == RankIn(S, key)
  <1>0. rank = [c \in S |-> Cardinality(up(c))]
    BY DEF RankIn
  <1>1. n \in Nat /\ IsFiniteSet(1..n) /\ Cardinality(1..n) = n
    <2>1. n \in Nat
      BY FS_CardinalityType
    <2> QED BY <2>1, FS_Interval
  <1>2. ASSUME NEW c \in S PROVE rank[c] \in 1..n
    <2>1. up(c) \in SUBSET S /\ c \in up(c)
      OBVIOUS
    <2>2. IsFiniteSet(up(c)) /\ Cardinality(up(c)) <= n
      BY <2>1, FS_Subset
    <2>3. Cardinality(up(c)) \in Nat /\ Cardinality(up(c)) # 0
      BY <2>1, <2>2, FS_CardinalityType, FS_EmptySet
    <2>4. rank[c] = Cardinality(up(c))
      BY <1>0
    <2> QED BY <1>1, <2>2, <2>3, <2>4
  <1>3. ASSUME NEW b \in S, NEW c \in S, key[b] < key[c] PROVE rank[b] < rank[c]
    <2>1. up(b) \in SUBSET up(c) /\ c \in up(c) /\ c \notin up(b)
      BY <1>3
    <2>2. IsFiniteSet(up(c)) /\ up(c) # up(b)
      BY <2>1, FS_Subset
    <2>3. Cardinality(up(b)) <= Cardinality(up(c)) /\ Cardinality(up(b)) # Cardinality(up(c))
      BY <2>1, <2>2, FS_Subset
    <2>4. rank[b] \in Nat /\ rank[c] \in Nat /\ rank[b] = Cardinality(up(b)) /\ rank[c] = Cardinality(up(c))
      BY <1>0, <1>1, <1>2
    <2> QED BY <2>3, <2>4
  <1>4. \A b, c \in S : rank[b] = rank[c] => b = c
    <2> SUFFICES ASSUME NEW b \in S, NEW c \in S, rank[b] = rank[c] PROVE b = c
      OBVIOUS
    <2> HIDE DEF rank
    <2>1. ~(key[b] < key[c]) /\ ~(key[c] < key[b])
      <3>1. rank[b] \in Nat /\ rank[c] \in Nat
        BY <1>1, <1>2
      <3> QED BY <1>3, <3>1
    <2>2. key[b] = key[c]
      BY <2>1
    <2> QED BY <2>2
  <1>5. rank \in [S -> 1..n]
    BY <1>0, <1>2
  <1>6. rank \in Injection(S, 1..n)
    BY <1>4, <1>5 DEF Injection, IsInjective
  <1>7. rank \in Surjection(S, 1..n)
    BY <1>1, <1>6, FS_Injection
  <1>8. \A i \in 1..n : \E c \in S : rank[c] = i
    BY <1>7 DEF Surjection
  <1>9. ASSUME NEW b \in S, NEW c \in S, rank[b] < rank[c] PROVE key[b] < key[c]
    <2>1. rank[b] \in Nat /\ rank[c] \in Nat
      BY <1>1, <1>2
    <2> HIDE DEF rank
    <2>2. ~(key[c] < key[b])
      BY <1>3, <1>9, <2>1
    <2>3. key[c] # key[b]
      BY <1>9, <2>1
    <2> QED BY <2>2, <2>3
  <1> QED BY <1>1, <1>4, <1>5, <1>8, <1>9

\* s[i] is chosen to be the member of rank i, if there is one.
Chosen(S, key, s) ==
    /\ IsFiniteSet(S) /\ key \in [S -> Nat]
    /\ \A b, c \in S : key[b] = key[c] => b = c
    /\ s = [i \in 1..Cardinality(S) |-> s[i]]
    /\ \A i \in 1..Cardinality(S) :
          (\E c \in S : RankIn(S, key)[c] = i) => s[i] \in S /\ RankIn(S, key)[s[i]] = i

\* What is chosen by rank is in the order of the keys, and nothing is left out.
LEMMA ByRank ==
    ASSUME NEW S, NEW key, NEW s, Chosen(S, key, s)
    PROVE  /\ Cardinality(S) \in Nat
           /\ s \in [1..Cardinality(S) -> S]
           /\ \A i, j \in 1..Cardinality(S) : i < j => key[s[i]] < key[s[j]]
           /\ \A c \in S : \E i \in 1..Cardinality(S) : s[i] = c
  <1> DEFINE n    == Cardinality(S)
             rank == RankIn(S, key)
  <1>1. /\ n \in Nat /\ rank \in [S -> 1..n]
        /\ \A b, c \in S : rank[b] = rank[c] => b = c
        /\ \A b, c \in S : rank[b] < rank[c] => key[b] < key[c]
        /\ \A i \in 1..n : \E c \in S : rank[c] = i
    <2>1. IsFiniteSet(S) /\ key \in [S -> Nat] /\ \A b, c \in S : key[b] = key[c] => b = c
      BY DEF Chosen
    <2> QED BY <2>1, Ranks
  <1>2. s = [i \in 1..n |-> s[i]]
        /\ \A i \in 1..n : (\E c \in S : rank[c] = i) => s[i] \in S /\ rank[s[i]] = i
    BY DEF Chosen
  <1> HIDE DEF n, rank
  <1>3. \A i \in 1..n : s[i] \in S /\ rank[s[i]] = i
    BY <1>1, <1>2
  <1>4. \A c \in S : rank[c] \in 1..n /\ s[rank[c]] = c
    BY <1>1, <1>3
  <1>5. \A i, j \in 1..n : i < j => key[s[i]] < key[s[j]]
    BY <1>1, <1>3
  <1>6. s \in [1..n -> S]
    BY <1>2, <1>3
  <1> QED BY <1>1, <1>4, <1>5, <1>6 DEF n

Ascends(s, n) == \A i, j \in 1..n : i < j => s[i] < s[j]

\* InOrder lists a set of positions in ascending order.
LEMMA InOrderAscends ==
    ASSUME NEW n \in Nat, NEW P \in SUBSET (1..n)
    PROVE  /\ Cardinality(P) \in Nat /\ Len(InOrder(P)) = Cardinality(P)
           /\ InOrder(P) \in [1..Cardinality(P) -> P]
           /\ Ascends(InOrder(P), Cardinality(P))
           /\ \A k \in P : \E i \in 1..Cardinality(P) : InOrder(P)[i] = k
  <1> DEFINE key == [k \in P |-> k]
             up(k) == {j \in P : j <= k}
             s == InOrder(P)
  <1>1. IsFiniteSet(P)
    <2>1. IsFiniteSet(1..n)
      BY FS_Interval
    <2> QED BY <2>1, FS_Subset
  <1>2. key \in [P -> Nat] /\ \A b, c \in P : key[b] = key[c] => b = c
    OBVIOUS
  <1>3. s = [i \in 1..Cardinality(P) |-> CHOOSE k \in P : Cardinality(up(k)) = i]
    BY DEF InOrder
  <1>7. \A c \in P : RankIn(P, key)[c] = Cardinality(up(c))
    <2>1. \A c \in P : {b \in P : key[b] <= key[c]} = up(c)
      OBVIOUS
    <2> QED BY <2>1 DEF RankIn
  <1>5. \A k \in P : key[k] = k
    OBVIOUS
  <1> HIDE DEF key, up, s
  <1>8. Chosen(P, key, s)
    <2>1. s = [i \in 1..Cardinality(P) |-> s[i]]
      BY <1>3
    <2>2. ASSUME NEW i \in 1..Cardinality(P), \E c \in P : RankIn(P, key)[c] = i
          PROVE  s[i] \in P /\ RankIn(P, key)[s[i]] = i
      <3>1. \E c \in P : Cardinality(up(c)) = i
        BY <1>7, <2>2
      <3>2. s[i] \in P /\ Cardinality(up(s[i])) = i
        BY <1>3, <3>1
      <3> QED BY <1>7, <3>2
    <2> QED BY <1>1, <1>2, <2>1, <2>2 DEF Chosen
  <1>4. /\ Cardinality(P) \in Nat
        /\ s \in [1..Cardinality(P) -> P]
        /\ \A i, j \in 1..Cardinality(P) : i < j => key[s[i]] < key[s[j]]
        /\ \A c \in P : \E i \in 1..Cardinality(P) : s[i] = c
    BY <1>8, ByRank
  <1>6. Ascends(s, Cardinality(P))
    BY <1>4, <1>5 DEF Ascends
  <1>9. Len(s) = Cardinality(P)
    BY <1>4
  <1> QED BY <1>4, <1>6, <1>9 DEF s

\* A text keeps what documents are given with: its wide runes are letters, and
\* its page boundaries, the first of which is its start, lie in it.
TextIs(t) ==
    /\ Script(t.runes, t.wide)
    /\ \A r \in t.wide : t.runes[r] # Space
    /\ t.pages = {} \/ 0 \in t.pages
    /\ t.pages \subseteq 0..Len(t.runes)

\* Taking letter-spacing out of a document gives such a text.
LEMMA CollapseGivesText ==
    ASSUME NEW d \in Documents
    PROVE  TextIs(TextOf(d))
  <1> DEFINE P == Untracked(d.runes)
             kept == InOrder(P)
             n == Cardinality(P)
             t == TextOf(d)
  <1>1. /\ Len(d.runes) \in Nat /\ DOMAIN d.runes = 1..Len(d.runes)
        /\ d.wide \subseteq DOMAIN d.runes
        /\ \A r \in d.wide : d.runes[r] # Space
        /\ d.offsets = {} \/ 0 \in d.offsets
        /\ d.offsets \subseteq Nat
    BY IndexerAssumption
  <1>2. P \in SUBSET (1..Len(d.runes))
    BY <1>1 DEF Untracked
  <1>3. n \in Nat /\ Len(kept) = n /\ kept \in [1..n -> P]
    BY <1>1, <1>2, InOrderAscends
  <1>4. /\ t.runes = [i \in DOMAIN kept |-> d.runes[kept[i]]]
        /\ t.wide = {i \in DOMAIN kept : kept[i] \in d.wide}
        /\ t.pages = IF \A p \in d.offsets : p <= Len(kept) THEN d.offsets ELSE {}
    BY DEF TextOf
  <1> HIDE DEF P, kept, n, t
  <1>5. DOMAIN t.runes = 1..n /\ Len(t.runes) = n
    <2>1. t.runes = [i \in 1..n |-> d.runes[kept[i]]]
      BY <1>3, <1>4
    <2> DEFINE V == {d.runes[kept[i]] : i \in 1..n}
    <2>2. t.runes \in [1..n -> V]
      BY <2>1
    <2> HIDE DEF V
    <2>3. t.runes \in Seq(V)
      BY <1>3, <2>2
    <2> QED BY <1>3, <2>2, <2>3
  <1>6. t.wide \subseteq 1..n /\ \A r \in t.wide : t.runes[r] # Space
    BY <1>1, <1>3, <1>4
  <1>7. (t.pages = {} \/ 0 \in t.pages) /\ t.pages \subseteq 0..n
    <2>1. \A p \in d.offsets : p \in Nat
      BY <1>1
    <2> QED BY <1>1, <1>3, <1>4, <2>1
  <1>8. TextIs(t)
    BY <1>3, <1>5, <1>6, <1>7 DEF TextIs, Script
  <1> QED BY <1>8 DEF t

LEMMA TextsAreTexts == ASSUME NEW t \in Texts PROVE TextIs(t)
  BY CollapseGivesText DEF Texts

LEMMA TextsAreScripts ==
    ASSUME NEW t \in Texts
    PROVE  Script(t.runes, t.wide)
  BY TextsAreTexts DEF TextIs

\* ByEnd lists intervals with different ends by them.
LEMMA ByEndAscends ==
    ASSUME NEW S, IsFiniteSet(S), \A c \in S : c.to \in Nat, \A b, c \in S : b.to = c.to => b = c
    PROVE  /\ Cardinality(S) \in Nat /\ Len(ByEnd(S)) = Cardinality(S)
           /\ ByEnd(S) \in [1..Cardinality(S) -> S]
           /\ \A i, j \in 1..Cardinality(S) : i < j => ByEnd(S)[i].to < ByEnd(S)[j].to
           /\ \A c \in S : \E i \in 1..Cardinality(S) : ByEnd(S)[i] = c
  <1> DEFINE key == [c \in S |-> c.to]
             up(c) == {b \in S : b.to <= c.to}
             s == ByEnd(S)
  <1>2. key \in [S -> Nat] /\ \A b, c \in S : key[b] = key[c] => b = c
    OBVIOUS
  <1>3. s = [i \in 1..Cardinality(S) |-> CHOOSE c \in S : Cardinality(up(c)) = i]
    BY DEF ByEnd
  <1>7. \A c \in S : RankIn(S, key)[c] = Cardinality(up(c))
    <2>1. \A c \in S : {b \in S : key[b] <= key[c]} = up(c)
      OBVIOUS
    <2> QED BY <2>1 DEF RankIn
  <1>5. \A c \in S : key[c] = c.to
    OBVIOUS
  <1> HIDE DEF key, up, s
  <1>8. Chosen(S, key, s)
    BY <1>2, <1>3, <1>7 DEF Chosen
  <1>4. /\ Cardinality(S) \in Nat
        /\ s \in [1..Cardinality(S) -> S]
        /\ \A i, j \in 1..Cardinality(S) : i < j => key[s[i]] < key[s[j]]
        /\ \A c \in S : \E i \in 1..Cardinality(S) : s[i] = c
    BY <1>8, ByRank
  <1>6. \A i, j \in 1..Cardinality(S) : i < j => s[i].to < s[j].to
    BY <1>4, <1>5
  <1>9. Len(s) = Cardinality(S)
    BY <1>4
  <1> QED BY <1>4, <1>6, <1>9 DEF s

\* Two ascending lists of the same numbers are equal.
LEMMA SameAscent ==
    ASSUME NEW m \in Nat, NEW n \in Nat, NEW s \in [1..m -> Nat], NEW t \in [1..n -> Nat],
           Ascends(s, m), Ascends(t, n),
           \A i \in 1..m : \E j \in 1..n : s[i] = t[j],
           \A j \in 1..n : \E i \in 1..m : s[i] = t[j]
    PROVE  m = n /\ s = t
  <1> DEFINE D == {i \in Nat \ {0} : i <= m /\ i <= n /\ s[i] # t[i]}
  <1>1. D = {}
    <2> SUFFICES ASSUME D # {} PROVE FALSE
      OBVIOUS
    <2>1. PICK i \in D : \A k \in D : i <= k
      BY Least
    <2>2. i \in 1..m /\ i \in 1..n /\ s[i] # t[i] /\ s[i] \in Nat /\ t[i] \in Nat
      BY <2>1
    <2>3. \A k \in Nat \ {0} : k < i => s[k] = t[k]
      BY <2>1, <2>2
    <2>4. CASE s[i] < t[i]
      <3>1. PICK j \in 1..n : s[i] = t[j]
        BY <2>2
      <3>2. ~(j < i)
        <4> SUFFICES ASSUME j < i PROVE FALSE
          OBVIOUS
        <4>1. j \in 1..m /\ s[j] = t[j]
          BY <2>2, <2>3
        <4>2. s[j] < s[i]
          BY <2>2, <4>1 DEF Ascends
        <4> QED BY <2>2, <3>1, <4>1, <4>2
      <3>3. i < j => t[i] < t[j]
        BY <2>2 DEF Ascends
      <3>4. j \in Nat /\ i \in Nat
        BY <2>2
      <3>5. i = j \/ i < j
        BY <3>2, <3>4
      <3>7. t[j] \in Nat
        OBVIOUS
      <3>6. t[i] <= t[j]
        <4>1. CASE i = j
          BY <2>2, <4>1
        <4>2. CASE i < j
          BY <2>2, <3>3, <3>7, <4>2
        <4> QED BY <3>5, <4>1, <4>2
      <3> QED BY <2>2, <2>4, <3>1, <3>6, <3>7
    <2>5. CASE t[i] < s[i]
      <3>1. PICK j \in 1..m : s[j] = t[i]
        BY <2>2
      <3>2. ~(j < i)
        <4> SUFFICES ASSUME j < i PROVE FALSE
          OBVIOUS
        <4>1. j \in 1..n /\ s[j] = t[j]
          BY <2>2, <2>3
        <4>2. t[j] < t[i]
          BY <2>2, <4>1 DEF Ascends
        <4> QED BY <2>2, <3>1, <4>1, <4>2
      <3>3. i < j => s[i] < s[j]
        BY <2>2 DEF Ascends
      <3>4. j \in Nat /\ i \in Nat
        BY <2>2
      <3>5. i = j \/ i < j
        BY <3>2, <3>4
      <3>7. s[j] \in Nat
        OBVIOUS
      <3>6. s[i] <= s[j]
        <4>1. CASE i = j
          BY <2>2, <4>1
        <4>2. CASE i < j
          BY <2>2, <3>3, <3>7, <4>2
        <4> QED BY <3>5, <4>1, <4>2
      <3> QED BY <2>2, <2>5, <3>1, <3>6, <3>7
    <2> QED BY <2>2, <2>4, <2>5
  <1>2. ASSUME NEW i \in 1..m, i <= n PROVE s[i] = t[i]
    <2>0. i \notin D
      BY <1>1
    <2>1. i \in Nat \ {0} /\ i <= m /\ i \notin D
      BY <2>0
    <2> QED BY <1>2, <2>1
  <1>3. ~(m < n)
    <2> SUFFICES ASSUME m < n PROVE FALSE
      OBVIOUS
    <2>1. m + 1 \in 1..n
      OBVIOUS
    <2>2. PICK i \in 1..m : s[i] = t[m + 1]
      BY <2>1
    <2>3. i \in 1..n /\ i < m + 1 /\ s[i] = t[i]
      BY <1>2
    <2>4. t[i] < t[m + 1]
      BY <2>1, <2>3 DEF Ascends
    <2>5. t[m + 1] \in Nat
      BY <2>1
    <2> QED BY <2>2, <2>3, <2>4, <2>5
  <1>4. ~(n < m)
    <2> SUFFICES ASSUME n < m PROVE FALSE
      OBVIOUS
    <2>1. n + 1 \in 1..m
      OBVIOUS
    <2>2. PICK i \in 1..n : t[i] = s[n + 1]
      BY <2>1
    <2>3. i \in 1..m /\ i < n + 1 /\ s[i] = t[i]
      BY <1>2
    <2>4. s[i] < s[n + 1]
      BY <2>1, <2>3 DEF Ascends
    <2>5. s[n + 1] \in Nat
      BY <2>1
    <2> QED BY <2>2, <2>3, <2>4, <2>5
  <1>5. m = n
    BY <1>3, <1>4
  <1> QED BY <1>2, <1>5

-----------------------------------------------------------------------------
(* The chunks of a segment.                                                  *)

\* The cut before cut k.
Prev(C, k) == Max({j \in C : j < k})

\* Each cut but the first has one before it.
LEMMA PrevCut ==
    ASSUME NEW n \in Nat, NEW C \in Cuts(n), NEW k \in C \ {0}
    PROVE  /\ Prev(C, k) \in C /\ Prev(C, k) \in Nat /\ Prev(C, k) < k /\ k \in 1..n
           /\ \A j \in C : j < k => j <= Prev(C, k)
  <1> DEFINE T == {j \in C : j < k}
  <1>1. C \in SUBSET (0..n) /\ 0 \in C
    BY DEF Cuts
  <1>2. k \in 1..n
    BY <1>1
  <1>3. T \in SUBSET (0..n) /\ T # {}
    <2>1. 0 \in T
      BY <1>1, <1>2
    <2>2. T \in SUBSET (0..n)
      BY <1>1
    <2> QED BY <2>1, <2>2
  <1>4. Max(T) \in T /\ Max(T) \in 0..n /\ \A j \in T : j <= Max(T)
    BY <1>3, Greatest
  <1>5. Prev(C, k) = Max(T)
    BY DEF Prev
  <1> QED BY <1>2, <1>4, <1>5

\* A piece ends at its cut and begins at or before the cut before.
LEMMA Piece ==
    ASSUME NEW n \in Nat, NEW C \in Cuts(n), NEW e \in C \ {0}
    PROVE  /\ PieceAt(C, e).to = e /\ PieceAt(C, e).from \in Nat
           /\ 1 <= PieceAt(C, e).from /\ PieceAt(C, e).from <= Prev(C, e) + 1
           /\ Prev(C, e) # 0 => Prev(C, Prev(C, e)) + 1 <= PieceAt(C, e).from
  <1> DEFINE b == Prev(C, e)
             p == Prev(C, b)
             o == b - Min({Overlap, b})
  <1>1. PieceAt(C, e) = Interval(1 + IF b = 0 THEN 0 ELSE Max({p, o}), e)
    BY DEF PieceAt, Prev
  <1>2. b \in C /\ b \in Nat
    BY PrevCut
  <1>3. b # 0 => p \in Nat /\ p < b
    BY <1>2, PrevCut
  <1>4. o \in Nat /\ o <= b
    <2>1. Min({Overlap, b}) \in Nat /\ Min({Overlap, b}) <= b
      <3>1. Overlap \in Nat /\ {Overlap, b} \in SUBSET Nat /\ {Overlap, b} # {}
        BY <1>2, WindowsAssumption
      <3>2. Min({Overlap, b}) \in {Overlap, b} /\ \A k \in {Overlap, b} : Min({Overlap, b}) <= k
        BY <3>1, Least
      <3> QED BY <3>1, <3>2
    <2> QED BY <1>2, <2>1
  <1> HIDE DEF b, p, o
  <1>5. b # 0 => Max({p, o}) \in {p, o} /\ p <= Max({p, o})
    <2> SUFFICES ASSUME b # 0 PROVE Max({p, o}) \in {p, o} /\ p <= Max({p, o})
      OBVIOUS
    <2>1. {p, o} \in SUBSET (0..b) /\ {p, o} # {}
      BY <1>2, <1>3, <1>4
    <2> QED BY <1>2, <2>1, Greatest
  <1>6. PieceAt(C, e).to = e /\ PieceAt(C, e).from = 1 + IF b = 0 THEN 0 ELSE Max({p, o})
    BY <1>1 DEF Interval
  <1>7. CASE b = 0
    BY <1>6, <1>7 DEF b
  <1>8. CASE b # 0
    <2>1. Max({p, o}) \in Nat /\ p <= Max({p, o}) /\ Max({p, o}) <= b
      BY <1>2, <1>3, <1>4, <1>5, <1>8
    <2>2. PieceAt(C, e).from = 1 + Max({p, o})
      BY <1>6, <1>8
    <2> HIDE DEF PieceAt
    <2>3. PieceAt(C, e).from \in Nat /\ 1 <= PieceAt(C, e).from /\ PieceAt(C, e).from <= b + 1
          /\ p + 1 <= PieceAt(C, e).from
      BY <1>2, <1>3, <1>8, <2>1, <2>2
    <2> QED BY <1>6, <2>3 DEF b, p
  <1> QED BY <1>7, <1>8

\* A later piece does not begin before an earlier one.
LEMMA PieceOrder ==
    ASSUME NEW n \in Nat, NEW C \in Cuts(n), NEW d \in C \ {0}, NEW e \in C \ {0}, d < e
    PROVE  PieceAt(C, d).from <= PieceAt(C, e).from
  <1>1. /\ Prev(C, d) \in C /\ Prev(C, d) \in Nat /\ Prev(C, d) < d /\ d \in 1..n
        /\ Prev(C, e) \in C /\ Prev(C, e) \in Nat /\ d <= Prev(C, e)
    BY PrevCut
  <1>2. Prev(C, e) \in C \ {0} /\ Prev(C, d) < Prev(C, e)
    BY <1>1
  <1>3. Prev(C, Prev(C, e)) \in Nat /\ Prev(C, d) <= Prev(C, Prev(C, e))
    BY <1>1, <1>2, PrevCut
  <1>4. PieceAt(C, d).from <= Prev(C, d) + 1 /\ PieceAt(C, d).from \in Nat
    BY Piece
  <1>5. Prev(C, Prev(C, e)) + 1 <= PieceAt(C, e).from /\ PieceAt(C, e).from \in Nat
    BY <1>2, Piece
  <1> QED BY <1>1, <1>3, <1>4, <1>5

\* What the chunks of a segment of n runes are: intervals of it that advance.
Chunked(n, chunks) ==
    /\ Len(chunks) \in Nat /\ DOMAIN chunks = 1..Len(chunks)
    /\ \A i \in 1..Len(chunks) :
          /\ chunks[i].from \in 1..n /\ chunks[i].to \in 1..n
          /\ chunks[i].from <= chunks[i].to
    /\ \A i, j \in 1..Len(chunks) :
          i < j => chunks[i].from <= chunks[j].from /\ chunks[i].to < chunks[j].to

(* However the separators cut a segment, the chunks are intervals that        *)
(* advance, each has a letter, and each letter is in one of them.             *)
THEOREM SplitCovers ==
    ASSUME NEW runes, NEW seg, Len(seg) \in Nat, NEW chunks \in Splits(runes, seg)
    PROVE  /\ Chunked(Len(seg), chunks)
           /\ \A i \in 1..Len(chunks) : \E k \in chunks[i].from..chunks[i].to : runes[seg[k]] # Space
           /\ \A k \in 1..Len(seg) : runes[seg[k]] # Space =>
                 \E i \in 1..Len(chunks) : k \in chunks[i].from..chunks[i].to
  <1> DEFINE n == Len(seg)
  <1>1. PICK C \in Cuts(n) : chunks = ByEnd(Pieces(runes, seg, C))
    BY DEF Splits
  <1> DEFINE P == Pieces(runes, seg, C)
  <1>2. /\ C \in SUBSET (0..n) /\ n \in C
        /\ \A c \in P : \E e \in C \ {0} : c = PieceAt(C, e) /\ c.to = e
        /\ \A c \in P : ~Blank(runes, seg, c)
    <2>1. C \in SUBSET (0..n) /\ n \in C
      BY DEF Cuts
    <2>2. \A c \in P : ~Blank(runes, seg, c) /\ \E e \in C \ {0} : c = PieceAt(C, e)
      BY DEF Pieces
    <2>3. \A e \in C \ {0} : PieceAt(C, e).to = e
      BY Piece
    <2> QED BY <2>1, <2>2, <2>3
  <1>3. /\ \A c \in P : c.to \in Nat
        /\ \A b, c \in P : b.to = c.to => b = c
    BY <1>2
  <1>4. IsFiniteSet(P)
    <2> DEFINE ends == [c \in P |-> c.to]
    <2>1. IsFiniteSet(0..n)
      BY FS_Interval
    <2>2. IsFiniteSet(C)
      BY <1>2, <2>1, FS_Subset
    <2>5. ASSUME NEW c \in P PROVE c.to \in C
      <3>1. PICK e \in C \ {0} : c = PieceAt(C, e) /\ c.to = e
        BY <1>2
      <3> QED BY <3>1
    <2> HIDE DEF P
    <2>3. ends \in [P -> C]
      BY <2>5
    <2>4. ends \in Injection(P, C)
      BY <1>3, <2>3 DEF Injection, IsInjective
    <2> QED BY <2>2, <2>4, FS_Injection
  <1>5. /\ Cardinality(P) \in Nat /\ Len(chunks) = Cardinality(P)
        /\ chunks \in [1..Cardinality(P) -> P]
        /\ \A i, j \in 1..Cardinality(P) : i < j => chunks[i].to < chunks[j].to
        /\ \A c \in P : \E i \in 1..Cardinality(P) : chunks[i] = c
    BY <1>1, <1>3, <1>4, ByEndAscends
  <1>6. ASSUME NEW c \in P
        PROVE  /\ c.from \in 1..n /\ c.to \in 1..n /\ c.from <= c.to
               /\ \E k \in c.from..c.to : runes[seg[k]] # Space
    <2>1. PICK e \in C \ {0} : c = PieceAt(C, e) /\ c.to = e
      BY <1>2
    <2>2. c.from \in Nat /\ 1 <= c.from /\ c.from <= Prev(C, e) + 1
      BY <2>1, Piece
    <2>3. Prev(C, e) \in Nat /\ Prev(C, e) < e /\ e \in 1..n
      BY PrevCut
    <2>4. ~Blank(runes, seg, c)
      BY <1>2
    <2> QED BY <2>1, <2>2, <2>3, <2>4 DEF Blank
  <1>7. ASSUME NEW b \in P, NEW c \in P, b.to < c.to PROVE b.from <= c.from
    <2>1. PICK d \in C \ {0} : b = PieceAt(C, d) /\ b.to = d
      BY <1>2
    <2>2. PICK e \in C \ {0} : c = PieceAt(C, e) /\ c.to = e
      BY <1>2
    <2>3. d < e
      BY <1>7, <2>1, <2>2
    <2> QED BY <2>1, <2>2, <2>3, PieceOrder
  <1>8. ASSUME NEW k \in 1..n, runes[seg[k]] # Space
        PROVE  \E c \in P : k \in c.from..c.to
    <2> DEFINE T == {e \in C : k <= e}
    <2>0. n \in Nat /\ k \in Nat /\ k <= n
      OBVIOUS
    <2>a. C \subseteq 0..n /\ n \in C
      BY <1>2
    <2>b. 0..n \subseteq Nat
      OBVIOUS
    <2>c. n \in T
      BY <2>0, <2>a
    <2>d. T \in SUBSET Nat
      BY <2>a, <2>b
    <2>1. T \in SUBSET Nat /\ n \in T
      BY <2>c, <2>d
    <2>2. PICK e \in T : \A j \in T : e <= j
      BY <2>1, Least
    <2>3. e \in C \ {0} /\ k <= e /\ e \in Nat
      BY <2>1, <2>2
    <2>4. Prev(C, e) \in C /\ Prev(C, e) \in Nat /\ Prev(C, e) < e
      BY <2>3, PrevCut
    <2>5. Prev(C, e) < k
      BY <2>2, <2>3, <2>4
    <2> DEFINE c == PieceAt(C, e)
    <2>6. c.to = e /\ c.from \in Nat /\ c.from <= Prev(C, e) + 1
      BY <2>3, Piece
    <2> HIDE DEF c
    <2>7. k \in c.from..c.to
      BY <2>3, <2>4, <2>5, <2>6
    <2>8. ~Blank(runes, seg, c)
      BY <1>8, <2>7 DEF Blank
    <2>9. c \in P
      BY <2>3, <2>8 DEF Pieces, c
    <2> QED BY <2>7, <2>9
  <1> HIDE DEF P
  <1>9. Chunked(n, chunks)
    BY <1>5, <1>6, <1>7 DEF Chunked
  <1> QED BY <1>5, <1>6, <1>8, <1>9

-----------------------------------------------------------------------------
(* A segment is a stretch of the document, and so is every chunk of it.      *)

\* The positions base + 1 .. base + m.
Stretch(base, m) == [k \in 1..m |-> base + k]

\* A stretch is a sequence of positions.
LEMMA StretchIs ==
    ASSUME NEW base \in Nat, NEW m \in Nat
    PROVE  /\ Stretch(base, m) \in Seq(Nat) /\ Len(Stretch(base, m)) = m
           /\ DOMAIN Stretch(base, m) = 1..m
           /\ \A k \in 1..m : Stretch(base, m)[k] = base + k
  <1>1. Stretch(base, m) \in [1..m -> Nat]
    BY DEF Stretch
  <1> QED BY <1>1 DEF Stretch

Part(s, a, b) == SubSeq(s, a, b)

\* A part of a stretch is a stretch.
LEMMA StretchPart ==
    ASSUME NEW base \in Nat, NEW m \in Nat, NEW a \in Nat, NEW b \in Nat, 1 <= a, a <= b + 1, b <= m,
           NEW base2, base2 = base + a - 1, NEW n, n = b - a + 1
    PROVE  Part(Stretch(base, m), a, b) = Stretch(base2, n)
  <1> DEFINE s == Stretch(base, m)
             t == SubSeq(s, a, b)
  <1>1. n \in Nat /\ base2 \in Nat
    OBVIOUS
  <1>2. ASSUME NEW i \in a..b PROVE s[i] \in Nat /\ s[i] = base + i
    <2>1. i \in 1..m
      OBVIOUS
    <2>2. s[i] = base + i
      BY <2>1, StretchIs
    <2> QED BY <2>1, <2>2
  <1>3. t \in Seq(Nat) /\ Len(t) = n /\ \A i \in 1..n : t[i] = s[a + i - 1]
    <2>1. t \in Seq(Nat) /\ Len(t) = (IF a <= b THEN n ELSE 0) /\ \A i \in 1..n : t[i] = s[a + i - 1]
      BY <1>2, SubSeqProperties
    <2> QED BY <2>1
  <1>4. \A i \in 1..n : t[i] = base2 + i
    <2> TAKE i \in 1..n
    <2>1. a + i - 1 \in a..b
      OBVIOUS
    <2> HIDE DEF s, t
    <2> QED BY <1>2, <1>3, <2>1
  <1> HIDE DEF t, s
  <1>5. t = [i \in 1..n |-> t[i]]
    BY <1>1, <1>3
  <1> QED BY <1>4, <1>5 DEF Stretch, Part, t, s

\* A stretch is longer by the stretch that follows it.
LEMMA StretchConcat ==
    ASSUME NEW base \in Nat, NEW m \in Nat, NEW n \in Nat
    PROVE  Stretch(base, m) \o Stretch(base + m, n) = Stretch(base, m + n)
  <1> DEFINE s == Stretch(base, m)
             t == Stretch(base + m, n)
  <1>1. /\ s \in Seq(Nat) /\ t \in Seq(Nat) /\ Len(s) = m /\ Len(t) = n
        /\ \A k \in 1..m : s[k] = base + k
        /\ \A k \in 1..n : t[k] = base + m + k
    <2>1. base + m \in Nat
      OBVIOUS
    <2> QED BY <2>1, StretchIs
  <1> HIDE DEF s, t
  <1>2. s \o t \in Seq(Nat) /\ Len(s \o t) = m + n
        /\ \A k \in 1..(m + n) : (s \o t)[k] = IF k <= m THEN s[k] ELSE t[k - m]
    BY <1>1, ConcatProperties
  <1>3. \A k \in 1..(m + n) : (s \o t)[k] = base + k
    <2> TAKE k \in 1..(m + n)
    <2>1. CASE k <= m
      BY <1>1, <1>2, <2>1
    <2>2. CASE ~(k <= m)
      <3>1. PICK j \in 1..n : j = k - m
        BY <2>2
      <3>2. (s \o t)[k] = t[k - m]
        BY <1>2, <2>2
      <3>3. t[j] = base + m + j
        BY <1>1
      <3> QED BY <3>1, <3>2, <3>3
    <2> QED BY <2>1, <2>2
  <1>4. s \o t = [k \in 1..(m + n) |-> (s \o t)[k]]
    <2>1. m + n \in Nat
      OBVIOUS
    <2>2. s \o t \in [1..Len(s \o t) -> Nat]
      BY <1>2, LenProperties
    <2> QED BY <1>2, <2>1, <2>2
  <1> QED BY <1>3, <1>4 DEF Stretch, s, t

-----------------------------------------------------------------------------
(* Normalised text.                                                          *)

Letter(runes, r) == runes[r] # Space

\* What survives of a stretch, in order, and the runes that are compared.
KeptIn(runes, base, m) == Kept(runes, Stretch(base, m))
Norm(runes, base, m)   == Normal(runes, Stretch(base, m))
Hay(runes, base, m)    == Runes(runes, Stretch(base, m), Norm(runes, base, m))
RunesOf(runes, base, m) == {runes[base + k] : k \in 1..m}

\* What survives: the letters, and a space behind a letter if more letters follow.
LEMMA KeptStretch ==
    ASSUME NEW runes, NEW base \in Nat, NEW m \in Nat
    PROVE  /\ KeptIn(runes, base, m) \in SUBSET (1..m)
           /\ \A k \in 1..m :
                k \in KeptIn(runes, base, m) <=>
                   \/ Letter(runes, base + k)
                   \/ /\ k > 1 /\ Letter(runes, base + k - 1)
                      /\ \E j \in k..m : Letter(runes, base + j)
  <1> DEFINE s == Stretch(base, m)
             K == Kept(runes, s)
  <1>1. DOMAIN s = 1..m /\ Len(s) = m /\ \A k \in 1..m : s[k] = base + k
    BY StretchIs
  <1> HIDE DEF s
  <1>2. K = {k \in 1..m : \/ runes[s[k]] # Space
                          \/ /\ k > 1 /\ runes[s[k - 1]] # Space
                             /\ \E j \in k..m : runes[s[j]] # Space}
    BY <1>1 DEF Kept
  <1> HIDE DEF K
  <1>3. ASSUME NEW k \in 1..m
        PROVE  k \in K <=> \/ Letter(runes, base + k)
                           \/ /\ k > 1 /\ Letter(runes, base + k - 1)
                              /\ \E j \in k..m : Letter(runes, base + j)
    <2>1. k \in K <=> \/ runes[s[k]] # Space
                      \/ /\ k > 1 /\ runes[s[k - 1]] # Space
                         /\ \E j \in k..m : runes[s[j]] # Space
      BY <1>2
    <2>2. s[k] = base + k
      BY <1>1
    <2>3. k > 1 => s[k - 1] = base + k - 1
      <3>1. k > 1 => k - 1 \in 1..m
        OBVIOUS
      <3> QED BY <1>1, <3>1
    <2>4. \A j \in k..m : s[j] = base + j
      BY <1>1
    <2> QED BY <2>1, <2>2, <2>3, <2>4 DEF Letter
  <1>4. K \in SUBSET (1..m)
    BY <1>2
  <1> QED BY <1>3, <1>4 DEF s, K, KeptIn

\* An ascending list of just the members of S.
Enumerates(s, S) ==
    /\ Len(s) \in Nat /\ s \in [1..Len(s) -> S] /\ Ascends(s, Len(s))
    /\ \A k \in S : \E i \in 1..Len(s) : s[i] = k

\* The surviving positions, in order.
LEMMA NormalStretch ==
    ASSUME NEW runes, NEW base \in Nat, NEW m \in Nat
    PROVE  /\ Enumerates(Norm(runes, base, m), KeptIn(runes, base, m))
           /\ Norm(runes, base, m) \in [1..Len(Norm(runes, base, m)) -> 1..m]
  <1> DEFINE P == KeptIn(runes, base, m)
             s == Norm(runes, base, m)
  <1>1. P \in SUBSET (1..m)
    BY KeptStretch
  <1>2. s = InOrder(P)
    BY DEF Normal, Norm, KeptIn
  <1> HIDE DEF P, s
  <1>3. /\ Len(s) \in Nat /\ s \in [1..Len(s) -> P] /\ Ascends(s, Len(s))
        /\ \A k \in P : \E i \in 1..Len(s) : s[i] = k
    <2>1. /\ Cardinality(P) \in Nat /\ Len(s) = Cardinality(P)
          /\ s \in [1..Cardinality(P) -> P]
          /\ Ascends(s, Cardinality(P))
          /\ \A k \in P : \E i \in 1..Cardinality(P) : s[i] = k
      BY <1>1, <1>2, InOrderAscends
    <2> QED BY <2>1
  <1>4. s \in [1..Len(s) -> 1..m]
    BY <1>1, <1>3
  <1> QED BY <1>3, <1>4 DEF P, s, Enumerates

\* The compared runes of a stretch.
LEMMA RunesStretch ==
    ASSUME NEW runes, NEW base \in Nat, NEW m \in Nat
    PROVE  /\ Len(Hay(runes, base, m)) = Len(Norm(runes, base, m))
           /\ Hay(runes, base, m) \in [1..Len(Norm(runes, base, m)) -> RunesOf(runes, base, m)]
           /\ \A i \in 1..Len(Norm(runes, base, m)) :
                 Hay(runes, base, m)[i] = runes[base + Norm(runes, base, m)[i]]
  <1> DEFINE seg  == Stretch(base, m)
             norm == Norm(runes, base, m)
             hay  == Hay(runes, base, m)
             n    == Len(norm)
  <1>1. n \in Nat /\ norm \in [1..n -> 1..m]
    BY NormalStretch DEF Enumerates
  <1>2. \A k \in 1..m : seg[k] = base + k
    BY StretchIs
  <1>0. hay = Runes(runes, seg, norm)
    BY DEF Hay
  <1> HIDE DEF norm, seg, n, hay
  <1>3. hay = [i \in 1..n |-> runes[base + norm[i]]]
    <2>1. hay = [i \in 1..n |-> runes[seg[norm[i]]]]
      BY <1>0, <1>1 DEF Runes
    <2>2. \A i \in 1..n : seg[norm[i]] = base + norm[i]
      BY <1>1, <1>2
    <2> QED BY <2>1, <2>2
  <1>4. hay \in [1..n -> RunesOf(runes, base, m)]
    <2>1. \A i \in 1..n : hay[i] = runes[base + norm[i]] /\ norm[i] \in 1..m
      BY <1>1, <1>3
    <2>2. \A i \in 1..n : hay[i] \in RunesOf(runes, base, m)
      BY <2>1 DEF RunesOf
    <2> QED BY <1>3, <2>2
  <1>5. Len(hay) = n
    BY <1>1, <1>4
  <1> QED BY <1>3, <1>4, <1>5 DEF norm, n, hay

-----------------------------------------------------------------------------
(* The needle of a chunk is what lies in the haystack between its first and   *)
(* its last letter.                                                          *)

\* The letters of positions a..b of a stretch.
LettersIn(runes, base, a, b) == {k \in a..b : Letter(runes, base + k)}

\* Within a chunk the same positions survive as in the segment around it, but
\* for what is before its first and behind its last letter.
LEMMA KeptPart ==
    ASSUME NEW runes, NEW base \in Nat, NEW m \in Nat, NEW a \in 1..m, NEW b \in 1..m, a <= b,
           NEW f \in LettersIn(runes, base, a, b), NEW l \in LettersIn(runes, base, a, b),
           \A k \in LettersIn(runes, base, a, b) : f <= k /\ k <= l
    PROVE  /\ f \in a..b /\ l \in a..b /\ f <= l
           /\ \A k \in 1..m :
                 k \in KeptIn(runes, base, m) /\ f <= k /\ k <= l <=>
                    /\ k - (a - 1) \in 1..(b - a + 1)
                    /\ k - (a - 1) \in KeptIn(runes, base + a - 1, b - a + 1)
  <1> DEFINE base2 == base + a - 1
             m2    == b - a + 1
             whole == KeptIn(runes, base, m)
             part  == KeptIn(runes, base2, m2)
  <1>1. /\ f \in a..b /\ l \in a..b /\ f <= l
        /\ Letter(runes, base + f) /\ Letter(runes, base + l)
        /\ \A k \in a..b : Letter(runes, base + k) => f <= k /\ k <= l
    BY DEF LettersIn
  <1>2. base2 \in Nat /\ m2 \in Nat
    OBVIOUS
  <1>3. \A k \in 1..m :
           k \in whole <=> \/ Letter(runes, base + k)
                           \/ /\ k > 1 /\ Letter(runes, base + k - 1)
                              /\ \E j \in k..m : Letter(runes, base + j)
    BY KeptStretch
  <1>4. \A k \in 1..m2 :
           k \in part <=> \/ Letter(runes, base2 + k)
                          \/ /\ k > 1 /\ Letter(runes, base2 + k - 1)
                             /\ \E j \in k..m2 : Letter(runes, base2 + j)
    BY <1>2, KeptStretch
  <1> HIDE DEF whole, part
  <1>5. ASSUME NEW k \in 1..m, k \in whole, f <= k, k <= l
        PROVE  k - (a - 1) \in 1..m2 /\ k - (a - 1) \in part
    <2> DEFINE i == k - (a - 1)
    <2>1. i \in 1..m2 /\ base2 + i = base + k /\ base2 + i - 1 = base + k - 1
      BY <1>1, <1>5
    <2>2. CASE Letter(runes, base + k)
      BY <1>4, <2>1, <2>2
    <2>3. CASE ~Letter(runes, base + k)
      <3>1. k > 1 /\ Letter(runes, base + k - 1)
        BY <1>3, <1>5, <2>3
      <3>2. k # f
        BY <1>1, <2>3
      <3>3. i > 1
        BY <1>1, <1>5, <3>2
      <3>4. l - (a - 1) \in i..m2 /\ base2 + (l - (a - 1)) = base + l
        BY <1>1, <1>5
      <3>5. Letter(runes, base2 + (l - (a - 1)))
        BY <1>1, <3>4
      <3> HIDE DEF i, base2, m2
      <3>6. i \in part
        BY <1>4, <2>1, <3>1, <3>3, <3>4, <3>5
      <3> QED BY <2>1, <3>6 DEF i
    <2> QED BY <2>2, <2>3
  <1>6. ASSUME NEW k \in 1..m, k - (a - 1) \in 1..m2, k - (a - 1) \in part
        PROVE  k \in whole /\ f <= k /\ k <= l
    <2> DEFINE i == k - (a - 1)
    <2>1. i \in 1..m2 /\ base2 + i = base + k /\ base2 + i - 1 = base + k - 1 /\ k \in a..b
      BY <1>6
    <2>2. CASE Letter(runes, base + k)
      BY <1>1, <1>3, <2>1, <2>2
    <2>3. CASE ~Letter(runes, base + k)
      <3>1. /\ i > 1 /\ Letter(runes, base + k - 1)
            /\ \E j \in i..m2 : Letter(runes, base2 + j)
        <4> HIDE DEF i, m2, base2
        <4>1. i \in part
          BY <1>6 DEF i
        <4> QED BY <1>4, <2>1, <2>3, <4>1
      <3>2. PICK j \in i..m2 : Letter(runes, base2 + j)
        BY <3>1
      <3>3. j + (a - 1) \in k..b /\ base2 + j = base + (j + (a - 1))
        OBVIOUS
      <3>4. Letter(runes, base + (j + (a - 1)))
        BY <3>2, <3>3
      <3>5. k <= l
        <4>1. j + (a - 1) \in a..b
          BY <2>1, <3>3
        <4>2. j + (a - 1) <= l
          BY <1>1, <3>4, <4>1
        <4> QED BY <1>1, <3>3, <4>2
      <3>6. f <= k
        <4>1. k - 1 \in a..b /\ base + k - 1 = base + (k - 1)
          BY <2>1, <3>1
        <4>2. f <= k - 1
          BY <1>1, <3>1, <4>1
        <4> QED BY <1>1, <4>1, <4>2
      <3>7. k > 1
        BY <2>1, <3>1
      <3>8. j + (a - 1) \in k..m
        BY <3>3
      <3>9. k \in whole
        BY <1>3, <3>1, <3>4, <3>7, <3>8
      <3> QED BY <3>5, <3>6, <3>9
    <2> QED BY <2>2, <2>3
  <1> QED BY <1>1, <1>5, <1>6 DEF whole, part

\* Where an ascending list of a set has a member.
LEMMA PlaceOf ==
    ASSUME NEW n \in Nat, NEW s \in [1..n -> Nat], Ascends(s, n), NEW i \in 1..n, NEW j \in 1..n
    PROVE  /\ s[i] <= s[j] <=> i <= j
           /\ s[i] = s[j] <=> i = j
  <1>1. i < j => s[i] < s[j]
    BY DEF Ascends
  <1>2. j < i => s[j] < s[i]
    BY DEF Ascends
  <1>3. s[i] \in Nat /\ s[j] \in Nat /\ i \in Nat /\ j \in Nat
    OBVIOUS
  <1>4. i < j \/ i = j \/ j < i
    BY <1>3
  <1>5. CASE i < j
    BY <1>1, <1>3, <1>5
  <1>6. CASE j < i
    BY <1>2, <1>3, <1>6
  <1>7. CASE i = j
    BY <1>3, <1>7
  <1> QED BY <1>4, <1>5, <1>6, <1>7

\* f and l are the first and the last letter of chunk c.
Bounded(runes, base, c, f, l) ==
    /\ f \in LettersIn(runes, base, c.from, c.to)
    /\ l \in LettersIn(runes, base, c.from, c.to)
    /\ \A k \in LettersIn(runes, base, c.from, c.to) : f <= k /\ k <= l

\* The needle of c is the haystack from place p to place q, its first and last
\* letter's.
NeedleAt(runes, base, m, c, f, l, p, q) ==
    /\ p <= q /\ Norm(runes, base, m)[p] = f /\ Norm(runes, base, m)[q] = l
    /\ Needle(runes, Stretch(base, m), c) \in [1..(q - p + 1) -> RunesOf(runes, base, m)]
    /\ \A i \in 1..(q - p + 1) :
          Needle(runes, Stretch(base, m), c)[i] = Hay(runes, base, m)[p + i - 1]

\* The needle of a chunk is in the haystack, where its letters are.
LEMMA NeedleIs ==
    ASSUME NEW runes, NEW base \in Nat, NEW m \in Nat,
           NEW c, c.from \in 1..m, c.to \in 1..m, c.from <= c.to,
           NEW f, NEW l, Bounded(runes, base, c, f, l)
    PROVE  \E p, q \in 1..Len(Norm(runes, base, m)) : NeedleAt(runes, base, m, c, f, l, p, q)
  <1> DEFINE seg   == Stretch(base, m)
             norm  == Norm(runes, base, m)
             hay   == Hay(runes, base, m)
             n     == Len(norm)
             a     == c.from
             b     == c.to
             base2 == base + a - 1
             m2    == b - a + 1
             part  == Stretch(base2, m2)
             norm2 == Norm(runes, base2, m2)
             n2    == Len(norm2)
             whole == KeptIn(runes, base, m)
             sub   == KeptIn(runes, base2, m2)
  <1>1. base2 \in Nat /\ m2 \in Nat /\ a \in 1..m /\ b \in 1..m /\ a <= b
    OBVIOUS
  <1>2. SubSeq(seg, a, b) = part
    <2>1. a \in Nat /\ b \in Nat /\ 1 <= a /\ a <= b + 1 /\ b <= m
      BY <1>1
    <2>3. base2 = base + a - 1 /\ m2 = b - a + 1
      OBVIOUS
    <2> HIDE DEF a, b, base2, m2
    <2>2. Part(seg, a, b) = part
      BY <2>1, <2>3, StretchPart
    <2> QED BY <2>2 DEF Part
  <1>3. Needle(runes, seg, c) = Hay(runes, base2, m2)
    BY <1>2 DEF Needle, Hay, Norm
  <1>4. /\ n \in Nat /\ norm \in [1..n -> whole] /\ Ascends(norm, n)
        /\ \A k \in whole : \E i \in 1..n : norm[i] = k
    <2>1. Enumerates(norm, whole)
      BY NormalStretch
    <2> HIDE DEF norm, whole
    <2> QED BY <2>1 DEF Enumerates
  <1>5. /\ n2 \in Nat /\ norm2 \in [1..n2 -> sub] /\ Ascends(norm2, n2)
        /\ \A k \in sub : \E i \in 1..n2 : norm2[i] = k
    <2>1. Enumerates(norm2, sub)
      <3> HIDE DEF base2, m2
      <3> QED BY <1>1, NormalStretch
    <2> HIDE DEF norm2, sub
    <2> QED BY <2>1 DEF Enumerates
  <1>6. whole \subseteq 1..m /\ sub \subseteq 1..m2
    BY <1>1, KeptStretch
  <1>7. /\ hay \in [1..n -> RunesOf(runes, base, m)]
        /\ \A i \in 1..n : hay[i] = runes[base + norm[i]]
    BY RunesStretch
  <1>0. /\ Hay(runes, base2, m2) \in [1..n2 -> RunesOf(runes, base2, m2)]
        /\ \A i \in 1..n2 : Hay(runes, base2, m2)[i] = runes[base2 + norm2[i]]
    BY <1>1, RunesStretch
  <1>8. /\ f \in a..b /\ l \in a..b /\ f <= l
        /\ \A k \in 1..m : k \in whole /\ f <= k /\ k <= l <=>
                           k - (a - 1) \in 1..m2 /\ k - (a - 1) \in sub
    BY <1>1, KeptPart DEF Bounded
  <1>9. f \in whole /\ l \in whole
    <2>1. f \in 1..m /\ l \in 1..m /\ Letter(runes, base + f) /\ Letter(runes, base + l)
      BY <1>1, <1>8 DEF Bounded, LettersIn
    <2> QED BY <2>1, KeptStretch
  <1> HIDE DEF seg, norm, hay, n, a, b, m2, part, norm2, n2, whole, sub
  <1>10. PICK p \in 1..n : norm[p] = f
    BY <1>4, <1>9
  <1>11. PICK q \in 1..n : norm[q] = l
    BY <1>4, <1>9
  <1>12. norm \in [1..n -> Nat]
    <2>1. whole \subseteq Nat
      BY <1>6
    <2> QED BY <1>4, <2>1
  <1>13. p <= q /\ p \in Nat /\ q \in Nat
    <2>1. p \in Nat /\ q \in Nat
      BY <1>4
    <2>2. norm[p] <= norm[q] <=> p <= q
      BY <1>4, <1>12, PlaceOf
    <2> QED BY <1>8, <1>10, <1>11, <2>1, <2>2
  <1> DEFINE w == q - p + 1
             s == [i \in 1..n2 |-> norm2[i] + (a - 1)]
             t == [i \in 1..w |-> norm[p + i - 1]]
  <1>14. w \in Nat
    BY <1>13
  <1>15. \A i \in 1..w : p + i - 1 \in p..q /\ p + i - 1 \in 1..n
    BY <1>10, <1>11, <1>13, <1>4
  <1>16. s \in [1..n2 -> Nat] /\ Ascends(s, n2)
    <2>1. ASSUME NEW i \in 1..n2 PROVE norm2[i] \in 1..m2 /\ norm2[i] \in Nat
      <3>1. norm2[i] \in 1..m2
        BY <1>5, <1>6
      <3> QED BY <3>1
    <2>2. s \in [1..n2 -> Nat]
      BY <1>1, <2>1
    <2>3. ASSUME NEW i \in 1..n2, NEW j \in 1..n2, i < j PROVE s[i] < s[j]
      <3>1. norm2[i] < norm2[j]
        BY <1>5, <2>3 DEF Ascends
      <3> QED BY <1>1, <2>1, <3>1
    <2> QED BY <2>2, <2>3 DEF Ascends
  <1>17. t \in [1..w -> Nat] /\ Ascends(t, w)
    <2>1. t \in [1..w -> Nat]
      BY <1>12, <1>15
    <2>2. ASSUME NEW i \in 1..w, NEW j \in 1..w, i < j PROVE t[i] < t[j]
      <3>1. p + i - 1 \in 1..n /\ p + j - 1 \in 1..n /\ p + i - 1 < p + j - 1
        BY <1>13, <1>15, <2>2
      <3> QED BY <1>4, <3>1 DEF Ascends
    <2> QED BY <2>1, <2>2 DEF Ascends
  <1>18. ASSUME NEW i \in 1..n2 PROVE \E j \in 1..w : s[i] = t[j]
    <2> DEFINE k == s[i]
    <2>1. norm2[i] \in sub /\ norm2[i] \in 1..m2
      BY <1>5, <1>6
    <2>2. k \in 1..m /\ k - (a - 1) = norm2[i]
      BY <1>1, <2>1 DEF m2
    <2>3. k \in whole /\ f <= k /\ k <= l
      BY <1>8, <2>1, <2>2
    <2>4. PICK g \in 1..n : norm[g] = k
      BY <1>4, <2>3
    <2> HIDE DEF k
    <2>5. p <= g /\ g <= q
      BY <1>4, <1>10, <1>11, <1>12, <2>3, <2>4, PlaceOf
    <2>6. g - p + 1 \in 1..w /\ p + (g - p + 1) - 1 = g
      BY <1>13, <2>5
    <2>7. t[g - p + 1] = k
      BY <2>4, <2>6
    <2> QED BY <2>6, <2>7 DEF k
  <1>19. ASSUME NEW j \in 1..w PROVE \E i \in 1..n2 : s[i] = t[j]
    <2> DEFINE g == p + j - 1
               k == norm[g]
    <2>1. g \in 1..n /\ p <= g /\ g <= q /\ t[j] = k
      BY <1>13, <1>15
    <2>2. k \in whole /\ k \in 1..m
      BY <1>4, <1>6, <2>1
    <2>3. f <= k /\ k <= l
      <3> HIDE DEF g
      <3> QED BY <1>4, <1>10, <1>11, <1>12, <2>1, PlaceOf
    <2> HIDE DEF k
    <2>4. k - (a - 1) \in sub
      BY <1>8, <2>2, <2>3
    <2>5. PICK i \in 1..n2 : norm2[i] = k - (a - 1)
      BY <1>5, <2>4
    <2>6. s[i] = k
      BY <1>1, <2>2, <2>5
    <2> QED BY <2>1, <2>6
  <1>20. n2 = w /\ s = t
    <2> HIDE DEF s, t, w
    <2> QED BY <1>5, <1>14, <1>16, <1>17, <1>18, <1>19, SameAscent
  <1>21. \A i \in 1..w : base2 + norm2[i] = base + norm[p + i - 1]
    <2> TAKE i \in 1..w
    <2>1. s[i] = norm2[i] + (a - 1) /\ t[i] = norm[p + i - 1] /\ s[i] = t[i]
      BY <1>20
    <2>2. norm2[i] \in Nat
      <3>1. norm2[i] \in 1..m2
        BY <1>5, <1>6, <1>20
      <3> QED BY <3>1
    <2>3. norm2[i] + (a - 1) = norm[p + i - 1]
      BY <2>1
    <2> QED BY <1>1, <2>2, <2>3
  <1>22. \A i \in 1..w : Hay(runes, base2, m2)[i] = hay[p + i - 1] /\ hay[p + i - 1] \in RunesOf(runes, base, m)
    <2> TAKE i \in 1..w
    <2>1. hay[p + i - 1] = runes[base + norm[p + i - 1]] /\ hay[p + i - 1] \in RunesOf(runes, base, m)
      BY <1>7, <1>15
    <2>2. Hay(runes, base2, m2)[i] = runes[base2 + norm2[i]]
      BY <1>0, <1>20
    <2> QED BY <1>21, <2>1, <2>2
  <1> DEFINE needle == Needle(runes, seg, c)
  <1>23. /\ needle \in [1..w -> RunesOf(runes, base, m)]
         /\ \A i \in 1..w : needle[i] = hay[p + i - 1]
    <2> HIDE DEF needle, w
    <2>1. needle \in [1..w -> RunesOf(runes, base2, m2)]
      BY <1>0, <1>3, <1>20 DEF needle
    <2> QED BY <1>3, <1>22, <2>1 DEF needle
  <1> QED BY <1>10, <1>11, <1>13, <1>23 DEF n, norm, hay, seg, NeedleAt

\* The needle is at place k of the haystack.
Matches(hay, needle, w, k) == \A i \in 1..w : hay[k + i - 1] = needle[i]

\* The hits are the places from the cursor on where the needle is.
LEMMA HitsOf ==
    ASSUME NEW n \in Nat, NEW w \in Nat, 1 <= w, NEW R, NEW hay \in [1..n -> R],
           NEW needle \in [1..w -> R], NEW cursor \in Nat \ {0}
    PROVE  /\ Hits(hay, needle, cursor) \in SUBSET Nat
           /\ \A k \in Nat : k \in Hits(hay, needle, cursor) <=>
                 cursor <= k /\ k + w <= n + 1 /\ Matches(hay, needle, w, k)
  <1>1. Len(hay) = n /\ Len(needle) = w
    OBVIOUS
  <1>2. Hits(hay, needle, cursor) =
           {k \in cursor..(n + 1 - w) : Part(hay, k, k + w - 1) = needle}
    BY <1>1 DEF Hits, Part
  <1>3. ASSUME NEW k \in cursor..(n + 1 - w)
        PROVE  Part(hay, k, k + w - 1) = needle <=> Matches(hay, needle, w, k)
    <2> DEFINE e == k + w - 1
               t == Part(hay, k, e)
    <2>1. k \in Nat /\ 1 <= k /\ e \in Nat /\ e <= n /\ k <= e /\ e - k + 1 = w
      OBVIOUS
    <2> HIDE DEF e
    <2>2. \A i \in k..e : hay[i] \in R
      BY <2>1
    <2>3. /\ t \in Seq(R) /\ Len(t) = w
          /\ \A i \in 1..w : t[i] = hay[k + i - 1]
      BY <2>1, <2>2, SubSeqProperties DEF Part
    <2> HIDE DEF t
    <2>4. t \in [1..w -> R]
      BY <2>3, LenProperties
    <2>5. t = needle <=> \A i \in 1..w : t[i] = needle[i]
      BY <2>4
    <2> QED BY <2>3, <2>5 DEF t, e, Matches
  <1>4. \A k \in Nat : k \in cursor..(n + 1 - w) <=> cursor <= k /\ k + w <= n + 1
    OBVIOUS
  <1> QED BY <1>2, <1>3, <1>4

\* A state of the search: the span of the last chunk and the cursor.
Search == [span : Nat \X Nat, cursor : Nat \ {0}]

\* What a search leads to.
Outcome(seg, norm, hits, w, before, after) ==
    /\ hits = {} => after = [before EXCEPT !.span = <<0, 0>>]
    /\ hits # {} => \E hit \in hits :
                       after = [span   |-> <<Orig(seg, norm, hit), Orig(seg, norm, hit + w)>>,
                                cursor |-> hit + 1]

\* A segment of m runes, n of which are compared, and a needle of w.
Given(seg, m, norm, n, hay, needle, w, R) ==
    /\ m \in Nat /\ Len(seg) = m
    /\ n \in Nat /\ norm \in [1..n -> 1..m] /\ Len(norm) = n /\ hay \in [1..n -> R]
    /\ w \in Nat /\ 1 <= w /\ needle \in [1..w -> R]

\* A search leads to a state of the search, by its first hit if it has one.
LEMMA LocateType ==
    ASSUME NEW seg, NEW m, NEW norm, NEW n, NEW hay, NEW needle, NEW w, NEW R,
           Given(seg, m, norm, n, hay, needle, w, R), NEW before \in Search
    PROVE  /\ Locate(seg, norm, hay, needle, before) \in Search
           /\ Outcome(seg, norm, Hits(hay, needle, before.cursor), w, before,
                      Locate(seg, norm, hay, needle, before))
  <1> DEFINE hits  == Hits(hay, needle, before.cursor)
             hit   == Min(hits)
             after == Locate(seg, norm, hay, needle, before)
  <1>0. /\ m \in Nat /\ Len(seg) = m
        /\ n \in Nat /\ norm \in [1..n -> 1..m] /\ Len(norm) = n /\ hay \in [1..n -> R]
        /\ w \in Nat /\ 1 <= w /\ needle \in [1..w -> R]
    BY DEF Given
  <1>1. before.cursor \in Nat \ {0} /\ before.span \in Nat \X Nat
    BY DEF Search
  <1>2. Len(needle) = w /\ needle # <<>>
    BY <1>0
  <1>3. /\ hits \in SUBSET Nat
        /\ \A k \in hits : k \in Nat /\ 1 <= k /\ k + w <= n + 1
    <2>1. /\ hits \in SUBSET Nat
          /\ \A k \in Nat : k \in hits => before.cursor <= k /\ k + w <= n + 1
      BY <1>0, <1>1, HitsOf
    <2> HIDE DEF hits
    <2>2. ASSUME NEW k \in hits PROVE k \in Nat /\ 1 <= k /\ k + w <= n + 1
      <3>1. k \in Nat /\ before.cursor <= k /\ k + w <= n + 1
        BY <2>1
      <3> QED BY <1>1, <3>1
    <2> QED BY <2>1, <2>2
  <1>4. after = IF hits = {} THEN [before EXCEPT !.span = <<0, 0>>]
                ELSE [span   |-> <<Orig(seg, norm, hit), Orig(seg, norm, hit + w)>>,
                      cursor |-> hit + 1]
    BY <1>2 DEF Locate, Advance
  <1> HIDE DEF hits, after
  <1>5. CASE hits = {}
    <2>1. after = [before EXCEPT !.span = <<0, 0>>]
      BY <1>4, <1>5
    <2>2. after \in Search
      BY <2>1 DEF Search
    <2> QED BY <1>5, <2>1, <2>2 DEF hits, after, Outcome
  <1>6. CASE hits # {}
    <2>1. hit \in hits /\ hit \in Nat /\ 1 <= hit /\ hit + w <= n + 1
      <3>1. hit \in hits
        BY <1>3, <1>6, Least
      <3> QED BY <1>3, <3>1
    <2> HIDE DEF hit
    <2>2. Orig(seg, norm, hit) \in Nat /\ Orig(seg, norm, hit + w) \in Nat
      <3>1. ASSUME NEW k \in Nat, 1 <= k PROVE Orig(seg, norm, k) \in Nat
        <4>1. CASE k > n
          BY <1>0, <4>1 DEF Orig
        <4>2. CASE ~(k > n)
          <5>1. norm[k] \in 1..m
            BY <1>0, <3>1, <4>2
          <5>2. norm[k] - 1 \in Nat
            BY <5>1
          <5> QED BY <1>0, <4>2, <5>2 DEF Orig
        <4> QED BY <4>1, <4>2
      <3>2. hit + w \in Nat /\ 1 <= hit + w
        BY <1>0, <2>1
      <3> QED BY <2>1, <3>1, <3>2
    <2>3. after = [span   |-> <<Orig(seg, norm, hit), Orig(seg, norm, hit + w)>>,
                   cursor |-> hit + 1]
      BY <1>4, <1>6 DEF hit
    <2>4. after \in Search
      BY <2>1, <2>2, <2>3 DEF Search
    <2> QED BY <1>6, <2>1, <2>3, <2>4 DEF hits, hit, after, Outcome
  <1> QED BY <1>5, <1>6

\* No letter is twice in a stretch.
Distinct(runes, base, m) ==
    \A j, k \in 1..m : Letter(runes, base + j) /\ runes[base + j] = runes[base + k] => j = k

\* A span that begins at letter f and ends behind letter l, before any other.
Spans(runes, base, m, f, l, span) ==
    /\ span[1] = f - 1 /\ span[2] \in Nat /\ l <= span[2] /\ span[2] <= m
    /\ \A k \in (l + 1)..span[2] : ~Letter(runes, base + k)

\* The end of a match is mapped to a place before the next letter.
LEMMA OrigEnd ==
    ASSUME NEW runes, NEW base \in Nat, NEW m \in Nat,
           NEW q \in 1..Len(Norm(runes, base, m)), NEW l, l = Norm(runes, base, m)[q],
           NEW e, e = Orig(Stretch(base, m), Norm(runes, base, m), q + 1)
    PROVE  e \in Nat /\ l <= e /\ e <= m /\ \A k \in (l + 1)..e : ~Letter(runes, base + k)
  <1> DEFINE norm == Norm(runes, base, m)
             n    == Len(norm)
             K    == KeptIn(runes, base, m)
  <1>1. /\ n \in Nat /\ norm \in [1..n -> K] /\ norm \in [1..n -> 1..m]
        /\ Ascends(norm, n)
        /\ \A k \in K : \E i \in 1..n : norm[i] = k
    <2>1. Enumerates(norm, K) /\ norm \in [1..n -> 1..m]
      BY NormalStretch
    <2> HIDE DEF norm, K
    <2> QED BY <2>1 DEF Enumerates
  <1>2. \A k \in 1..m : Letter(runes, base + k) => k \in K
    BY KeptStretch
  <1>3. Len(Stretch(base, m)) = m
    BY StretchIs
  <1>4. e = IF q + 1 > n THEN m ELSE norm[q + 1] - 1
    BY <1>3 DEF Orig
  <1>5. q \in 1..n /\ l = norm[q] /\ q \in Nat /\ l \in 1..m
    BY <1>1
  <1> HIDE DEF norm, n, K
  <1>6. ASSUME NEW k \in 1..m, l < k, Letter(runes, base + k)
        PROVE  \E i \in 1..n : norm[i] = k /\ q < i
    <2>1. PICK i \in 1..n : norm[i] = k
      BY <1>1, <1>2, <1>6
    <2>2. i < q => norm[i] < norm[q]
      BY <1>1, <1>5 DEF Ascends
    <2>3. i \in Nat /\ i # q /\ ~(i < q)
      BY <1>1, <1>5, <1>6, <2>1, <2>2
    <2> QED BY <1>5, <2>1, <2>3
  <1>7. CASE q + 1 > n
    <2>1. e = m
      BY <1>4, <1>7
    <2>2. ASSUME NEW k \in (l + 1)..m PROVE ~Letter(runes, base + k)
      <3>1. k \in 1..m /\ l < k
        BY <1>5
      <3>2. ~(\E i \in 1..n : q < i)
        BY <1>1, <1>5, <1>7
      <3> QED BY <1>6, <3>1, <3>2
    <2> QED BY <1>5, <2>1, <2>2
  <1>8. CASE ~(q + 1 > n)
    <2>1. q + 1 \in 1..n
      BY <1>1, <1>5, <1>8
    <2>2. norm[q + 1] \in 1..m /\ norm[q] < norm[q + 1] /\ e = norm[q + 1] - 1
      BY <1>1, <1>4, <1>5, <1>8, <2>1 DEF Ascends
    <2>3. ASSUME NEW k \in (l + 1)..e PROVE ~Letter(runes, base + k)
      <3> SUFFICES ASSUME Letter(runes, base + k) PROVE FALSE
        OBVIOUS
      <3>1. k \in 1..m /\ l < k /\ k < norm[q + 1]
        BY <1>5, <2>2
      <3>2. PICK i \in 1..n : norm[i] = k /\ q < i
        BY <1>6, <3>1
      <3>3. q + 1 < i => norm[q + 1] < norm[i]
        BY <1>1, <2>1 DEF Ascends
      <3>4. i = q + 1 \/ q + 1 < i
        BY <1>5, <3>2
      <3>5. norm[q + 1] \in Nat
        BY <2>2
      <3>6. CASE i = q + 1
        BY <3>1, <3>2, <3>5, <3>6
      <3>7. CASE q + 1 < i
        BY <3>1, <3>2, <3>3, <3>5, <3>7
      <3> QED BY <3>4, <3>6, <3>7
    <2> QED BY <1>5, <2>2, <2>3
  <1> QED BY <1>7, <1>8

\* Chunk c, from letter f to letter l, is searched; f is at place p.
Searched(runes, base, m, c, f, l, p, before, after) ==
    /\ c.from \in 1..m /\ c.to \in 1..m /\ c.from <= c.to
    /\ Bounded(runes, base, c, f, l)
    /\ p \in 1..Len(Norm(runes, base, m)) /\ Norm(runes, base, m)[p] = f
    /\ before \in Search
    /\ after = Locate(Stretch(base, m), Norm(runes, base, m), Hay(runes, base, m),
                      Needle(runes, Stretch(base, m), c), before)

\* It is found there if the cursor has not passed its first letter.
FoundAt(runes, base, m, f, l, p, before, after) ==
    /\ before.cursor <= p => after.cursor = p + 1 /\ Spans(runes, base, m, f, l, after.span)
    /\ p < before.cursor => after.cursor = before.cursor /\ after.span = <<0, 0>>

(* In a segment that does not repeat itself the first match of a chunk is    *)
(* where its first letter is: the cursor has passed it or it is found there,  *)
(* and the span is exact.                                                    *)
LEMMA LocateExact ==
    ASSUME NEW runes, NEW base \in Nat, NEW m \in Nat, Distinct(runes, base, m),
           NEW c, NEW f, NEW l, NEW p, NEW before, NEW after,
           Searched(runes, base, m, c, f, l, p, before, after)
    PROVE  FoundAt(runes, base, m, f, l, p, before, after)
  <1>z. /\ c.from \in 1..m /\ c.to \in 1..m /\ c.from <= c.to
        /\ Bounded(runes, base, c, f, l)
        /\ p \in 1..Len(Norm(runes, base, m)) /\ Norm(runes, base, m)[p] = f
        /\ before \in Search
        /\ after = Locate(Stretch(base, m), Norm(runes, base, m), Hay(runes, base, m),
                          Needle(runes, Stretch(base, m), c), before)
    BY DEF Searched
  <1> DEFINE norm   == Norm(runes, base, m)
             n      == Len(norm)
             hay    == Hay(runes, base, m)
             R      == RunesOf(runes, base, m)
             needle == Needle(runes, Stretch(base, m), c)
             seg    == Stretch(base, m)
             hits   == Hits(hay, needle, before.cursor)
  <1>1. /\ n \in Nat /\ norm \in [1..n -> 1..m] /\ norm \in [1..n -> Nat] /\ Ascends(norm, n)
    <2>1. n \in Nat /\ norm \in [1..n -> 1..m] /\ Ascends(norm, n)
      BY NormalStretch DEF Enumerates
    <2> QED BY <2>1
  <1>2. /\ hay \in [1..n -> R]
        /\ \A i \in 1..n : hay[i] = runes[base + norm[i]]
    BY RunesStretch
  <1>3. PICK g, q \in 1..n :
              /\ g <= q /\ norm[g] = f /\ norm[q] = l
              /\ needle \in [1..(q - g + 1) -> R]
              /\ \A i \in 1..(q - g + 1) : needle[i] = hay[g + i - 1]
    <2>1. PICK g, q \in 1..n : NeedleAt(runes, base, m, c, f, l, g, q)
      BY <1>z, NeedleIs
    <2> QED BY <2>1 DEF NeedleAt
  <1>a. Letter(runes, base + f) /\ norm[p] = f /\ p \in 1..n
    BY <1>z DEF Bounded, LettersIn
  <1>b. Len(seg) = m
    BY StretchIs
  <1>c. before.cursor \in Nat \ {0}
    BY <1>z DEF Search
  <1>d. after = Locate(seg, norm, hay, needle, before)
    BY <1>z
  <1>e. \A j, k \in 1..m : Letter(runes, base + j) /\ runes[base + j] = runes[base + k] => j = k
    BY DEF Distinct
  <1>f. \A e : e = Orig(seg, norm, q + 1) =>
           e \in Nat /\ l <= e /\ e <= m /\ \A k \in (l + 1)..e : ~Letter(runes, base + k)
    BY <1>3, OrigEnd
  <1> HIDE DEF norm, n, hay, R, needle, seg
  <1>4. g = p
    <2>0. n \in Nat /\ norm \in [1..n -> Nat] /\ Ascends(norm, n) /\ g \in 1..n /\ p \in 1..n
      BY <1>1, <1>3, <1>a
    <2>1. norm[g] = norm[p] <=> g = p
      BY <2>0, PlaceOf
    <2> QED BY <1>3, <1>a, <2>1
  <1> DEFINE w == q - p + 1
  <1>5. /\ w \in Nat /\ 1 <= w /\ p + w = q + 1 /\ p \in Nat /\ q \in Nat
        /\ needle \in [1..w -> R]
        /\ \A i \in 1..w : needle[i] = hay[p + i - 1]
    BY <1>1, <1>3, <1>4
  <1> HIDE DEF w
  <1>6. /\ hits \in SUBSET Nat
        /\ \A k \in Nat : k \in hits <=> before.cursor <= k /\ k + w <= n + 1 /\ Matches(hay, needle, w, k)
    BY <1>1, <1>2, <1>5, <1>c, HitsOf
  <1>7. ASSUME NEW k \in hits PROVE k = p
    <2>1. k \in Nat /\ before.cursor <= k /\ k + w <= n + 1 /\ Matches(hay, needle, w, k)
      BY <1>6
    <2>2. 1 \in 1..w /\ k + 1 - 1 = k /\ p + 1 - 1 = p /\ k \in 1..n
      BY <1>1, <1>5, <1>c, <2>1
    <2>3. hay[k] = hay[p]
      <3>1. hay[k + 1 - 1] = needle[1] /\ needle[1] = hay[p + 1 - 1]
        BY <1>5, <2>1, <2>2 DEF Matches
      <3> QED BY <2>2, <3>1
    <2>4. runes[base + norm[k]] = runes[base + norm[p]] /\ norm[k] \in 1..m /\ norm[p] \in 1..m
      BY <1>1, <1>2, <1>3, <1>4, <2>2, <2>3
    <2>5. norm[p] = norm[k]
      BY <1>a, <1>e, <2>4
    <2>0. n \in Nat /\ norm \in [1..n -> Nat] /\ Ascends(norm, n) /\ k \in 1..n /\ p \in 1..n
      BY <1>1, <1>a, <2>2
    <2>6. norm[k] = norm[p] <=> k = p
      BY <2>0, PlaceOf
    <2> QED BY <2>5, <2>6
  <1>8. p \in hits <=> before.cursor <= p
    <2>1. p + w <= n + 1
      BY <1>1, <1>3, <1>5
    <2>2. Matches(hay, needle, w, p)
      BY <1>5 DEF Matches
    <2> QED BY <1>5, <1>6, <2>1, <2>2
  <1>9. /\ hits = {} => after = [before EXCEPT !.span = <<0, 0>>]
        /\ hits # {} => \E hit \in hits :
              after = [span   |-> <<Orig(seg, norm, hit), Orig(seg, norm, hit + w)>>,
                       cursor |-> hit + 1]
    <2>1. Len(norm) = n
      BY DEF n
    <2>2. Outcome(seg, norm, hits, w, before, after)
      <3>1. Given(seg, m, norm, n, hay, needle, w, R)
        BY <1>1, <1>2, <1>5, <1>b, <2>1 DEF Given
      <3> QED BY <1>d, <1>z, <3>1, LocateType
    <2> QED BY <2>2 DEF Outcome
  <1> HIDE DEF hits
  <1>10. CASE before.cursor <= p
    <2>1. hits = {p}
      BY <1>7, <1>8, <1>10
    <2>2. after = [span   |-> <<Orig(seg, norm, p), Orig(seg, norm, p + w)>>, cursor |-> p + 1]
      BY <1>7, <1>9, <2>1
    <2>3. after.cursor = p + 1 /\ after.span[1] = Orig(seg, norm, p) /\ after.span[2] = Orig(seg, norm, q + 1)
      <3>1. after.cursor = p + 1 /\ after.span = <<Orig(seg, norm, p), Orig(seg, norm, p + w)>>
        BY <2>2
      <3>2. p + w = q + 1
        BY <1>5
      <3> QED BY <3>1, <3>2
    <2>4. Orig(seg, norm, p) = f - 1
      <3>1. ~(p > Len(norm))
        BY <1>1, <1>a DEF n, norm
      <3> QED BY <1>a, <3>1 DEF Orig
    <2>5. Spans(runes, base, m, f, l, after.span)
      BY <1>f, <2>3, <2>4 DEF Spans
    <2> QED BY <1>5, <1>10, <1>c, <2>3, <2>5 DEF FoundAt
  <1>11. CASE p < before.cursor
    <2>1. hits = {}
      BY <1>5, <1>7, <1>8, <1>11, <1>c
    <2>2. after = [before EXCEPT !.span = <<0, 0>>]
      BY <1>9, <2>1
    <2>3. after.cursor = before.cursor /\ after.span = <<0, 0>>
      BY <1>z, <2>2 DEF Search
    <2> QED BY <1>5, <1>11, <1>c, <2>3 DEF FoundAt
  <1>12. before.cursor <= p \/ p < before.cursor
    BY <1>5, <1>c
  <1> QED BY <1>10, <1>11, <1>12

\* A chunk of a segment of m runes that is not blank.
Lettered(runes, base, m, c) ==
    /\ c.from \in 1..m /\ c.to \in 1..m /\ c.from <= c.to
    /\ LettersIn(runes, base, c.from, c.to) # {}

\* A chunk that is not blank has a first and a last letter.
LEMMA BoundsExist ==
    ASSUME NEW runes, NEW base \in Nat, NEW m \in Nat, NEW c, Lettered(runes, base, m, c)
    PROVE  \E f, l : Bounded(runes, base, c, f, l)
  <1> DEFINE S == LettersIn(runes, base, c.from, c.to)
  <1>1. S \in SUBSET (0..m) /\ S \in SUBSET Nat /\ S # {}
    BY DEF LettersIn, Lettered
  <1> HIDE DEF S
  <1>2. Min(S) \in S /\ \A k \in S : Min(S) <= k
    BY <1>1, Least
  <1>3. Max(S) \in S /\ \A k \in S : k <= Max(S)
    BY <1>1, Greatest
  <1> QED BY <1>2, <1>3 DEF Bounded, S

\* Searching for a chunk of a segment leads to a state of the search.
LEMMA LocateStep ==
    ASSUME NEW runes, NEW base \in Nat, NEW m \in Nat, NEW c, Lettered(runes, base, m, c),
           NEW before \in Search
    PROVE  Locate(Stretch(base, m), Norm(runes, base, m), Hay(runes, base, m),
                  Needle(runes, Stretch(base, m), c), before) \in Search
  <1> DEFINE norm   == Norm(runes, base, m)
             n      == Len(norm)
             hay    == Hay(runes, base, m)
             R      == RunesOf(runes, base, m)
             needle == Needle(runes, Stretch(base, m), c)
             seg    == Stretch(base, m)
  <1>1. PICK f, l : Bounded(runes, base, c, f, l)
    BY BoundsExist
  <1>2. PICK p, q \in 1..n : NeedleAt(runes, base, m, c, f, l, p, q)
    BY <1>1, NeedleIs DEF Lettered
  <1>3. p <= q /\ needle \in [1..(q - p + 1) -> R]
    BY <1>2 DEF NeedleAt
  <1>4. n \in Nat /\ norm \in [1..n -> 1..m]
    BY NormalStretch DEF Enumerates
  <1>5. hay \in [1..n -> R] /\ Len(seg) = m
    BY RunesStretch, StretchIs
  <1>6. q - p + 1 \in Nat /\ 1 <= q - p + 1
    <2>1. p \in Nat /\ q \in Nat
      BY <1>4
    <2> QED BY <1>3, <2>1
  <1>7. Given(seg, m, norm, n, hay, needle, q - p + 1, R)
    BY <1>3, <1>4, <1>5, <1>6 DEF Given
  <1> HIDE DEF norm, n, hay, R, needle, seg
  <1>8. Locate(seg, norm, hay, needle, before) \in Search
    BY <1>7, LocateType
  <1> QED BY <1>8 DEF norm, hay, needle, seg

FirstSearch == [span |-> <<0, 0>>, cursor |-> 1]

LEMMA FirstSearchType == FirstSearch \in Search
  BY DEF FirstSearch, Search

\* The searches for the chunks, one after the other.
Searches(runes, base, m, chunks, n, loc) ==
    /\ loc \in [0..n -> Search]
    /\ loc[0] = FirstSearch
    /\ \A i \in 1..n : loc[i] = Locate(Stretch(base, m), Norm(runes, base, m), Hay(runes, base, m),
                                       Needle(runes, Stretch(base, m), chunks[i]), loc[i - 1])

(* LocateOffsets is a loop: the recursion is defined and each chunk is        *)
(* searched in the state the one before it has left.                          *)
LEMMA LocateLoop ==
    ASSUME NEW runes, NEW base \in Nat, NEW m \in Nat, NEW chunks, Chunked(m, chunks),
           \A i \in 1..Len(chunks) : Lettered(runes, base, m, chunks[i])
    PROVE  \E loc : /\ Searches(runes, base, m, chunks, Len(chunks), loc)
                    /\ DOMAIN LocateOffsets(runes, Stretch(base, m), chunks) = 1..Len(chunks)
                    /\ \A i \in 1..Len(chunks) :
                          LocateOffsets(runes, Stretch(base, m), chunks)[i] = loc[i].span
  <1> DEFINE n          == Len(chunks)
             next(i, x) == Locate(Stretch(base, m), Norm(runes, base, m), Hay(runes, base, m),
                                  Needle(runes, Stretch(base, m), chunks[i]), x)
             rec(g)     == [i \in 0..n |-> IF i = 0 THEN FirstSearch ELSE next(i, g[i - 1])]
             loc        == CHOOSE g : g = rec(g)
  <1>1. n \in Nat /\ DOMAIN chunks = 1..n
    BY DEF Chunked
  <1>2. ASSUME NEW i \in 1..n, NEW x \in Search PROVE next(i, x) \in Search
    BY LocateStep
  <1>3. LocateOffsets(runes, Stretch(base, m), chunks) = [i \in DOMAIN chunks |-> loc[i].span]
    BY DEF LocateOffsets, Norm, Hay, FirstSearch
  <1>9. \A g : Searches(runes, base, m, chunks, n, g) <=>
           /\ g \in [0..n -> Search] /\ g[0] = FirstSearch
           /\ \A i \in 1..n : g[i] = next(i, g[i - 1])
    BY DEF Searches
  <1>0. FirstSearch \in Search
    BY FirstSearchType
  <1> HIDE DEF n, next
  <1> DEFINE T == {k \in Nat : k <= n =>
                     \E g \in [0..k -> Search] : /\ g[0] = FirstSearch
                                                /\ \A i \in 1..k : g[i] = next(i, g[i - 1])}
  <1>4. 0 \in T
    <2> DEFINE g == [i \in 0..0 |-> FirstSearch]
    <2>1. g \in [0..0 -> Search] /\ g[0] = FirstSearch
      BY <1>0
    <2>2. \A i \in 1..0 : g[i] = next(i, g[i - 1])
      OBVIOUS
    <2> HIDE DEF g
    <2>3. \E h \in [0..0 -> Search] : h[0] = FirstSearch /\ \A i \in 1..0 : h[i] = next(i, h[i - 1])
      BY <2>1, <2>2
    <2> QED BY <2>3
  <1>5. ASSUME NEW k \in Nat, k \in T PROVE k + 1 \in T
    <2> SUFFICES ASSUME k + 1 <= n
                 PROVE  \E g \in [0..(k + 1) -> Search] :
                           /\ g[0] = FirstSearch
                           /\ \A i \in 1..(k + 1) : g[i] = next(i, g[i - 1])
      OBVIOUS
    <2>1. PICK g \in [0..k -> Search] : /\ g[0] = FirstSearch
                                        /\ \A i \in 1..k : g[i] = next(i, g[i - 1])
      BY <1>1, <1>5
    <2> DEFINE h == [i \in 0..(k + 1) |-> IF i = k + 1 THEN next(k + 1, g[k]) ELSE g[i]]
    <2>2. next(k + 1, g[k]) \in Search
      <3>1. k + 1 \in 1..n /\ g[k] \in Search
        BY <1>1
      <3> QED BY <1>2, <3>1
    <2>3. h \in [0..(k + 1) -> Search] /\ h[0] = FirstSearch
      <3>1. \A i \in 0..(k + 1) : i # k + 1 => i \in 0..k
        OBVIOUS
      <3> QED BY <2>1, <2>2, <3>1
    <2>4. ASSUME NEW i \in 1..(k + 1) PROVE h[i] = next(i, h[i - 1])
      <3>1. i \in 0..(k + 1) /\ i - 1 \in 0..(k + 1) /\ i - 1 # k + 1 /\ i - 1 \in 0..k
        OBVIOUS
      <3>2. h[i - 1] = g[i - 1]
        BY <3>1
      <3>3. CASE i = k + 1
        <4>1. h[i] = next(k + 1, g[k]) /\ i - 1 = k
          BY <3>3
        <4> QED BY <3>2, <3>3, <4>1
      <3>4. CASE i # k + 1
        <4>1. i \in 1..k /\ h[i] = g[i]
          BY <3>1, <3>4
        <4> QED BY <2>1, <3>2, <4>1
      <3> QED BY <3>3, <3>4
    <2> HIDE DEF h
    <2> QED BY <2>3, <2>4
  <1>6. n \in T
    <2> HIDE DEF T
    <2> QED BY <1>1, <1>4, <1>5, Inductive
  <1>7. PICK g \in [0..n -> Search] : g[0] = FirstSearch /\ \A i \in 1..n : g[i] = next(i, g[i - 1])
    BY <1>1, <1>6
  <1>8. loc = rec(loc)
    <2>1. g = rec(g)
      <3>1. \A i \in 0..n : g[i] = IF i = 0 THEN FirstSearch ELSE next(i, g[i - 1])
        BY <1>1, <1>7
      <3> QED BY <1>7, <3>1
    <2> HIDE DEF rec
    <2> QED BY <2>1
  <1> HIDE DEF loc
  <1>10. /\ DOMAIN loc = 0..n /\ loc[0] = FirstSearch
         /\ \A i \in 1..n : loc[i] = next(i, loc[i - 1])
    BY <1>1, <1>8
  <1>11. \A k \in Nat : k <= n => loc[k] \in Search
    <2> DEFINE U == {k \in Nat : k <= n => loc[k] \in Search}
    <2>1. 0 \in U
      BY <1>0, <1>10
    <2>2. ASSUME NEW k \in Nat, k \in U PROVE k + 1 \in U
      <3> SUFFICES ASSUME k + 1 <= n PROVE loc[k + 1] \in Search
        OBVIOUS
      <3>1. loc[k] \in Search /\ k + 1 \in 1..n /\ k + 1 - 1 = k
        BY <1>1, <2>2
      <3>2. loc[k + 1] = next(k + 1, loc[k])
        BY <1>10, <3>1
      <3> QED BY <1>2, <3>1, <3>2
    <2> HIDE DEF U
    <2>3. Nat \subseteq U
      BY <2>1, <2>2, Inductive
    <2> QED BY <2>3 DEF U
  <1>12. loc \in [0..n -> Search]
    BY <1>1, <1>8, <1>10, <1>11
  <1>13. Searches(runes, base, m, chunks, n, loc)
    BY <1>9, <1>10, <1>12
  <1> QED BY <1>1, <1>3, <1>13 DEF n

\* The chunks of a stretch of m runes, each of which is not blank.
Lots(runes, base, m, chunks) ==
    /\ Chunked(m, chunks)
    /\ \A i \in 1..Len(chunks) : Lettered(runes, base, m, chunks[i])

\* The cursor is behind the first letter of the chunk searched last.
Passed(runes, base, m, c, after) ==
    \E f, l : \E p \in 1..Len(Norm(runes, base, m)) :
        Bounded(runes, base, c, f, l) /\ Norm(runes, base, m)[p] = f /\ after.cursor = p + 1

\* The span of a chunk is exact, or the chunk begins where the one before does.
Exact(runes, base, m, chunks, i, span) ==
    \/ \E f, l : Bounded(runes, base, chunks[i], f, l) /\ Spans(runes, base, m, f, l, span)
    \/ /\ span = <<0, 0>> /\ i > 1
       /\ LettersIn(runes, base, chunks[i - 1].from, chunks[i - 1].to)
            \subseteq LettersIn(runes, base, chunks[i].from, chunks[i].to)

\* A later chunk begins where the one before does, and repeats it, or behind.
LEMMA FirstsAdvance ==
    ASSUME NEW runes, NEW base \in Nat, NEW m \in Nat, NEW b, NEW c,
           Lettered(runes, base, m, b), Lettered(runes, base, m, c),
           b.from <= c.from, b.to < c.to,
           NEW d, NEW e, Bounded(runes, base, b, d, e),
           NEW f, NEW l, Bounded(runes, base, c, f, l)
    PROVE  /\ d <= f
           /\ d = f => LettersIn(runes, base, b.from, b.to) \subseteq LettersIn(runes, base, c.from, c.to)
  <1>1. /\ b.from \in Nat /\ b.to \in Nat /\ c.from \in Nat /\ c.to \in Nat
        /\ d \in b.from..b.to /\ f \in c.from..c.to
    BY DEF Lettered, Bounded, LettersIn
  <1>2. d \in Nat /\ f \in Nat /\ b.from <= d /\ d <= b.to /\ c.from <= f /\ f <= c.to
    BY <1>1
  <1>3. d <= f
    <2>1. CASE f <= b.to
      <3>1. f \in b.from..b.to
        BY <1>1, <1>2, <2>1
      <3>2. Letter(runes, base + f)
        BY DEF Bounded, LettersIn
      <3> QED BY <3>1, <3>2 DEF Bounded, LettersIn
    <2>2. CASE f > b.to
      BY <1>1, <1>2, <2>2
    <2> QED BY <1>1, <1>2, <2>1, <2>2
  <1>4. ASSUME d = f, NEW k \in LettersIn(runes, base, b.from, b.to)
        PROVE  k \in LettersIn(runes, base, c.from, c.to)
    <2>1. k \in b.from..b.to /\ Letter(runes, base + k) /\ d <= k
      BY DEF LettersIn, Bounded
    <2>2. k \in Nat /\ k <= b.to
      BY <1>1, <2>1
    <2>3. k \in c.from..c.to
      BY <1>1, <1>2, <1>4, <2>1, <2>2
    <2> QED BY <2>1, <2>3 DEF LettersIn
  <1> QED BY <1>3, <1>4

\* The next chunk is found at its first letter unless the cursor has passed it.
LEMMA ChunkFound ==
    ASSUME NEW runes, NEW base \in Nat, NEW m \in Nat, Distinct(runes, base, m),
           NEW chunks, Lots(runes, base, m, chunks),
           NEW loc, Searches(runes, base, m, chunks, Len(chunks), loc),
           NEW i \in 1..Len(chunks),
           i > 1 => Passed(runes, base, m, chunks[i - 1], loc[i - 1])
    PROVE  /\ Passed(runes, base, m, chunks[i], loc[i])
           /\ Exact(runes, base, m, chunks, i, loc[i].span)
  <1> DEFINE norm   == Norm(runes, base, m)
             c      == chunks[i]
             before == loc[i - 1]
             after  == loc[i]
  <1>1. Len(chunks) \in Nat /\ i \in Nat /\ i - 1 \in 0..Len(chunks)
    BY DEF Lots, Chunked
  <1>2. /\ before \in Search
        /\ after = Locate(Stretch(base, m), norm, Hay(runes, base, m),
                          Needle(runes, Stretch(base, m), c), before)
    BY <1>1 DEF Searches
  <1>3. Lettered(runes, base, m, c) /\ c.from \in 1..m /\ c.to \in 1..m /\ c.from <= c.to
    BY DEF Lots, Lettered
  <1>4. PICK f, l : Bounded(runes, base, c, f, l)
    BY <1>3, BoundsExist
  <1>5. PICK p, q \in 1..Len(norm) : NeedleAt(runes, base, m, c, f, l, p, q)
    BY <1>3, <1>4, NeedleIs
  <1>6. norm[p] = f
    BY <1>5 DEF NeedleAt
  <1>7. FoundAt(runes, base, m, f, l, p, before, after)
    <2>1. Searched(runes, base, m, c, f, l, p, before, after)
      BY <1>2, <1>3, <1>4, <1>6 DEF Searched
    <2> QED BY <2>1, LocateExact
  <1>8. before.cursor \in Nat /\ Len(norm) \in Nat /\ p \in Nat /\ 1 <= p
    <2>1. Len(norm) \in Nat
      BY NormalStretch DEF Enumerates
    <2> QED BY <1>2, <2>1 DEF Search
  <1>9. CASE before.cursor <= p
    <2>1. after.cursor = p + 1 /\ Spans(runes, base, m, f, l, after.span)
      BY <1>7, <1>9 DEF FoundAt
    <2> QED BY <1>4, <1>6, <2>1 DEF Passed, Exact
  <1>10. CASE p < before.cursor
    <2>2. after.cursor = before.cursor /\ after.span = <<0, 0>>
      BY <1>7, <1>10 DEF FoundAt
    <2>3. i > 1
      <3>1. i = 1 => before.cursor = 1
        BY DEF Searches, FirstSearch
      <3> QED BY <1>1, <1>8, <1>10, <3>1
    <2> DEFINE b == chunks[i - 1]
    <2>4. PICK d, e : \E r \in 1..Len(norm) :
             Bounded(runes, base, b, d, e) /\ norm[r] = d /\ before.cursor = r + 1
      BY <2>3 DEF Passed
    <2>5. PICK r \in 1..Len(norm) :
             Bounded(runes, base, b, d, e) /\ norm[r] = d /\ before.cursor = r + 1
      BY <2>4
    <2>6. i - 1 \in 1..Len(chunks) /\ i - 1 < i
      BY <1>1, <2>3
    <2>7. b.from <= c.from /\ b.to < c.to /\ Lettered(runes, base, m, b)
      BY <2>6 DEF Lots, Chunked
    <2> HIDE DEF b
    <2>8. /\ d <= f
          /\ d = f => LettersIn(runes, base, b.from, b.to) \subseteq LettersIn(runes, base, c.from, c.to)
      BY <1>3, <1>4, <2>5, <2>7, FirstsAdvance
    <2>9. norm \in [1..Len(norm) -> Nat] /\ Ascends(norm, Len(norm))
      <3>1. norm \in [1..Len(norm) -> 1..m] /\ Ascends(norm, Len(norm))
        BY NormalStretch DEF Enumerates
      <3> HIDE DEF norm
      <3>2. 1..m \subseteq Nat
        OBVIOUS
      <3> QED BY <3>1, <3>2
    <2> HIDE DEF norm
    <2>10. r <= p /\ (r = p => d = f)
      BY <1>6, <1>8, <2>5, <2>8, <2>9, PlaceOf
    <2>11. r = p
      BY <1>8, <1>10, <2>5, <2>10
    <2>12. Passed(runes, base, m, c, after)
      BY <1>4, <1>6, <2>2, <2>5, <2>11 DEF Passed, norm
    <2>13. Exact(runes, base, m, chunks, i, after.span)
      BY <2>2, <2>3, <2>8, <2>10, <2>11 DEF Exact, b
    <2> QED BY <2>12, <2>13
  <1> QED BY <1>8, <1>9, <1>10

(* Each chunk of a segment that does not repeat itself is located exactly, or *)
(* repeats the letters of the chunk before it and is left without a span.     *)
THEOREM ChunksLocated ==
    ASSUME NEW runes, NEW base \in Nat, NEW m \in Nat, NEW chunks, Lots(runes, base, m, chunks)
    PROVE  /\ DOMAIN LocateOffsets(runes, Stretch(base, m), chunks) = 1..Len(chunks)
           /\ \A i \in 1..Len(chunks) :
                 /\ LocateOffsets(runes, Stretch(base, m), chunks)[i] \in Nat \X Nat
                 /\ Distinct(runes, base, m) =>
                      Exact(runes, base, m, chunks, i,
                            LocateOffsets(runes, Stretch(base, m), chunks)[i])
  <1> DEFINE spans == LocateOffsets(runes, Stretch(base, m), chunks)
             n     == Len(chunks)
  <1>1. Chunked(m, chunks) /\ \A i \in 1..n : Lettered(runes, base, m, chunks[i])
    BY DEF Lots
  <1>2. PICK loc : /\ Searches(runes, base, m, chunks, n, loc) /\ DOMAIN spans = 1..n
                   /\ \A i \in 1..n : spans[i] = loc[i].span
    BY <1>1, LocateLoop
  <1>3. n \in Nat
    BY <1>1 DEF Chunked
  <1>4. ASSUME NEW i \in 1..n PROVE spans[i] \in Nat \X Nat
    <2>1. i \in 0..n
      BY <1>3
    <2>2. loc[i] \in Search
      BY <1>2, <2>1 DEF Searches
    <2> HIDE DEF spans
    <2> QED BY <1>2, <2>2 DEF Search
  <1>5. ASSUME Distinct(runes, base, m), NEW j \in 1..n
        PROVE  Exact(runes, base, m, chunks, j, loc[j].span)
    <2> DEFINE T == {i \in Nat : i \in 1..n => /\ Passed(runes, base, m, chunks[i], loc[i])
                                              /\ Exact(runes, base, m, chunks, i, loc[i].span)}
    <2>1. 0 \in T
      OBVIOUS
    <2>2. ASSUME NEW i \in Nat, i \in T PROVE i + 1 \in T
      <3> SUFFICES ASSUME i + 1 \in 1..n
                   PROVE  /\ Passed(runes, base, m, chunks[i + 1], loc[i + 1])
                          /\ Exact(runes, base, m, chunks, i + 1, loc[i + 1].span)
        OBVIOUS
      <3> DEFINE k == i + 1
      <3>1. k \in 1..n /\ k - 1 = i
        OBVIOUS
      <3>2. k > 1 => Passed(runes, base, m, chunks[k - 1], loc[k - 1])
        <4>1. k > 1 => i \in 1..n
          BY <1>3
        <4> QED BY <2>2, <3>1, <4>1
      <3> HIDE DEF k
      <3>3. Passed(runes, base, m, chunks[k], loc[k]) /\ Exact(runes, base, m, chunks, k, loc[k].span)
        BY <1>2, <1>5, <3>1, <3>2, ChunkFound
      <3> QED BY <3>3 DEF k
    <2> HIDE DEF T
    <2>3. Nat \subseteq T
      BY <2>1, <2>2, Inductive
    <2>4. j \in Nat
      BY <1>3
    <2> QED BY <2>3, <2>4 DEF T
  <1> QED BY <1>2, <1>4, <1>5

-----------------------------------------------------------------------------
(* Process and its background write.                                        *)

\* Between windows nothing is written, and a write that is over stays over.
Quiet == /\ at \in {"window", "indexed", "failed"} => inflight.at = "none"
         /\ at \in Steps
         /\ DOMAIN inflight = {"at", "lo", "hi"}

LEMMA QuietInit == ASSUME Init PROVE Quiet
  BY DEF Init, Quiet, Steps, NoWrite

\* The background write works on a write that is there.
LEMMA QuietWrite == ASSUME Quiet, Upsert \/ Index PROVE Quiet'
  <1>1. PICK from \in {"vectors", "lexical"}, to \in WriteSteps : Wrote(from, to) /\ at' = at
    BY DEF Upsert, Index, WriteSteps
  <1>2. inflight.at \in {"vectors", "lexical"}
    BY <1>1 DEF Wrote
  <1>3. DOMAIN inflight' = DOMAIN inflight
    BY <1>1 DEF Wrote
  <1> QED BY <1>1, <1>2, <1>3 DEF Quiet

LEMMA QuietProcess ==
    ASSUME Quiet, Window \/ Indexed \/ Embed \/ Settle \/ SettleLast \/ Fail
    PROVE  Quiet'
  <1>1. CASE Window
    <2>1. at = "window" /\ at' \in {"window", "embed"} /\ inflight' = inflight
      BY <1>1 DEF Window
    <2> QED BY <2>1 DEF Quiet, Steps
  <1>2. CASE Indexed
    BY <1>2 DEF Indexed, Quiet, Steps
  <1>3. CASE Embed
    BY <1>3 DEF Embed, Quiet, Steps
  <1>4. CASE Settle
    <2>1. at' \in {"last", "embed"} /\ inflight' = Batch
      BY <1>4 DEF Settle
    <2> QED BY <2>1 DEF Batch, Quiet, Steps
  <1>5. CASE SettleLast
    BY <1>5 DEF SettleLast, NoWrite, Quiet, Steps
  <1>6. CASE Fail
    BY <1>6 DEF Fail, NoWrite, Quiet, Steps
  <1> QED BY <1>1, <1>2, <1>3, <1>4, <1>5, <1>6

LEMMA QuietStep == ASSUME Quiet, [Next]_vars PROVE Quiet'
  <1>1. CASE UNCHANGED vars
    BY <1>1 DEF vars, Quiet
  <1>2. CASE Redeliver \/ Crash
    BY <1>2 DEF Redeliver, Crash, Restart, NoWrite, Quiet, Steps
  <1> QED BY <1>1, <1>2, QuietWrite, QuietProcess DEF Next

(* When Process returns, indexed or failed, no write of its goroutine is      *)
(* left that could land on top of a redelivery: every path, the one after a  *)
(* failed embedding included, settles the write before.                      *)
THEOREM ReturnsQuietly == Spec => []QuietAtReturn
  <1>1. Init => Quiet
    BY QuietInit
  <1>2. Quiet /\ [Next]_vars => Quiet'
    BY QuietStep
  <1>3. Quiet => QuietAtReturn
    BY DEF Quiet, QuietAtReturn
  <1> QED BY <1>1, <1>2, <1>3, PTL DEF Spec
-----------------------------------------------------------------------------
(* Sequences whose elements have no type of their own.                       *)

Listing(s) == Len(s) \in Nat /\ DOMAIN s = 1..Len(s) /\ s \in Seq({s[i] : i \in DOMAIN s})

LEMMA ListingSeq == ASSUME NEW S, NEW s \in Seq(S) PROVE Listing(s)
  <1>1. s \in [1..Len(s) -> S] /\ Len(s) \in Nat
    OBVIOUS
  <1> DEFINE T == {s[i] : i \in DOMAIN s}
  <1>2. s \in [1..Len(s) -> T]
    BY <1>1
  <1> HIDE DEF T
  <1>3. s \in Seq(T)
    BY <1>1, <1>2
  <1> QED BY <1>1, <1>3 DEF Listing, T

LEMMA ListingFun == ASSUME NEW n \in Nat, NEW S, NEW f \in [1..n -> S] PROVE Listing(f) /\ Len(f) = n
  <1>1. f \in Seq(S) /\ Len(f) = n
    OBVIOUS
  <1> QED BY <1>1, ListingSeq

LEMMA ListingConcat ==
    ASSUME NEW s, NEW t, Listing(s), Listing(t)
    PROVE  /\ Listing(s \o t) /\ Len(s \o t) = Len(s) + Len(t)
           /\ \A i \in 1..Len(s) : (s \o t)[i] = s[i]
           /\ \A i \in 1..Len(t) : (s \o t)[Len(s) + i] = t[i]
  <1> DEFINE S == {s[i] : i \in DOMAIN s} \cup {t[i] : i \in DOMAIN t}
  <1>1. {s[i] : i \in DOMAIN s} \subseteq S /\ {t[i] : i \in DOMAIN t} \subseteq S
    OBVIOUS
  <1>2. s \in Seq({s[i] : i \in DOMAIN s}) /\ t \in Seq({t[i] : i \in DOMAIN t})
    BY DEF Listing
  <1> HIDE DEF S
  <1>3. s \in Seq(S) /\ t \in Seq(S)
    BY <1>1, <1>2
  <1>4. /\ s \o t \in Seq(S) /\ Len(s \o t) = Len(s) + Len(t)
        /\ \A i \in 1..Len(s) : (s \o t)[i] = s[i]
        /\ \A i \in 1..Len(t) : (s \o t)[Len(s) + i] = t[i]
    BY <1>3
  <1> QED BY <1>4, ListingSeq

LEMMA ListingEmpty == Listing(<<>>) /\ Len(<<>>) = 0
  BY DEF Listing

\* The chunks of a segment are a sequence.
LEMMA ByEndListing ==
    ASSUME NEW S, IsFiniteSet(S) PROVE Listing(ByEnd(S))
  <1>1. Cardinality(S) \in Nat
    BY FS_CardinalityType
  <1>2. ByEnd(S) \in [1..Cardinality(S) -> {ByEnd(S)[i] : i \in 1..Cardinality(S)}]
    BY DEF ByEnd
  <1> QED BY <1>1, <1>2, ListingFun

LEMMA SplitsListing ==
    ASSUME NEW runes, NEW seg, Len(seg) \in Nat, NEW chunks \in Splits(runes, seg)
    PROVE  Listing(chunks)
  <1>1. PICK C \in Cuts(Len(seg)) : chunks = ByEnd(Pieces(runes, seg, C))
    BY DEF Splits
  <1> DEFINE f == [e \in C \ {0} |-> PieceAt(C, e)]
             T == {PieceAt(C, e) : e \in C \ {0}}
  <1>2. IsFiniteSet(C \ {0})
    <2>1. C \ {0} \subseteq 0..Len(seg)
      BY DEF Cuts
    <2>2. IsFiniteSet(0..Len(seg))
      BY FS_Interval
    <2> QED BY <2>1, <2>2, FS_Subset
  <1>3. f \in Surjection(C \ {0}, T)
    BY DEF Surjection
  <1>4. IsFiniteSet(T)
    BY <1>2, <1>3, FS_Surjection
  <1>5. IsFiniteSet(Pieces(runes, seg, C))
    <2>1. Pieces(runes, seg, C) \subseteq T
      BY DEF Pieces
    <2> QED BY <1>4, <2>1, FS_Subset
  <1> QED BY <1>1, <1>5, ByEndListing
LEMMA RuneAtNat ==
    ASSUME NEW runes, NEW wide, NEW b, Len(runes) \in Nat
    PROVE  RuneAt(runes, wide, b) \in Nat
  <1>1. IsFiniteSet(1..Len(runes))
    BY FS_Interval
  <1>2. IsFiniteSet({r \in 1..Len(runes) : ByteOf(runes, wide, r - 1) < b})
    BY <1>1, FS_Subset
  <1> QED BY <1>2, FS_CardinalityType DEF RuneAt

LEMMA MinPair == ASSUME NEW a \in Nat, NEW b \in Nat
                 PROVE  /\ Min({a, b}) \in {a, b} /\ Min({a, b}) <= a /\ Min({a, b}) <= b
  <1>1. \E x \in {a, b} : \A y \in {a, b} : x <= y
    OBVIOUS
  <1> QED BY <1>1 DEF Min

LEMMA TailListing == ASSUME NEW seg, Listing(seg) PROVE Listing(TailRunes(seg))
  <1> DEFINE m == Min({Overlap, Len(seg)})
             S == {seg[i] : i \in DOMAIN seg}
  <1>1. m \in 0..Len(seg)
    BY MinPair, WindowsAssumption DEF Listing
  <1>2. seg \in Seq(S) /\ Len(seg) \in Nat
    BY DEF Listing
  <1> HIDE DEF m, S
  <1>3. SubSeq(seg, Len(seg) - m + 1, Len(seg)) \in Seq(S)
    BY <1>1, <1>2
  <1> QED BY <1>3, ListingSeq DEF TailRunes, m

-----------------------------------------------------------------------------
(* The count of written chunks follows the writes.                           *)

Writes == [at : WriteSteps, lo : Nat, hi : Nat]

\* The batches embedded so far are those that are written or being written.
Books ==
    /\ text \in Texts /\ at \in Steps
    /\ Listing(carry) /\ Listing(window) /\ Listing(made)
    /\ Len(window) <= Len(made)
    /\ batch \in 0..Len(window)
    /\ written \in 0..Len(made)
    /\ inflight \in Writes /\ inflight.lo <= inflight.hi /\ inflight.hi <= Len(made)
    /\ inflight.at = "none" => inflight = NoWrite
    /\ inflight.at # "none" => inflight.lo = written
    /\ at # "failed" => Base + batch = written + (inflight.hi - inflight.lo)
    /\ at = "last" => batch = Len(window)
    /\ at \in {"window", "indexed"} => inflight.at = "none" /\ batch = Len(window)

Durable ==
    /\ \A i \in 1..written : InBoth(i)
    /\ \A i \in (inflight.lo + 1)..inflight.hi :
          /\ inflight.at = "lexical" => i \in DOMAIN vectors /\ vectors[i] = made[i]
          /\ inflight.at = "written" => InBoth(i)

Account == Books /\ Durable

LEMMA NoWriteType == NoWrite \in Writes /\ NoWrite.at = "none" /\ NoWrite.lo = 0 /\ NoWrite.hi = 0
  BY DEF NoWrite, Writes, WriteSteps

LEMMA Lengths ==
    ASSUME Books
    PROVE  /\ Len(window) \in Nat /\ Len(made) \in Nat /\ batch \in Nat /\ written \in Nat
           /\ inflight.lo \in Nat /\ inflight.hi \in Nat
           /\ Base \in Nat /\ Base + Len(window) = Len(made)
           /\ inflight.at = "none" => inflight.lo = 0 /\ inflight.hi = 0
  <1>1. Len(window) \in Nat /\ Len(made) \in Nat /\ Len(window) <= Len(made)
    BY DEF Books, Listing
  <1>2. batch \in Nat /\ written \in Nat
    BY <1>1 DEF Books
  <1>3. inflight.lo \in Nat /\ inflight.hi \in Nat
    BY DEF Books, Writes
  <1>4. Base \in Nat /\ Base + Len(window) = Len(made)
    BY <1>1 DEF Base
  <1>5. inflight.at = "none" => inflight.lo = 0 /\ inflight.hi = 0
    BY NoWriteType DEF Books
  <1> QED BY <1>1, <1>2, <1>3, <1>4, <1>5

LEMMA AccountInit == ASSUME Init PROVE Account
  <1>1. Books
    BY ListingEmpty, NoWriteType DEF Init, Books, Steps, Base
  <1>2. Durable
    BY NoWriteType DEF Init, Durable
  <1> QED BY <1>1, <1>2 DEF Account

\* New chunks are none of those written.
LEMMA AccountWindow == ASSUME Account, Window PROVE Account'
  <1> USE DEF Account
  <1>1. Listing(Segment)
    <2> DEFINE from == RuneAt(text.runes, text.wide, start)
               to   == RuneAt(text.runes, text.wide, End)
               new  == [k \in 1..(to - from) |-> from + k]
    <2>1. from \in Nat /\ to \in Nat
      BY RuneAtNat, TextsAreScripts DEF Books, Script
    <2> HIDE DEF from, to
    <2>2. CASE to - from \in Nat
      <3>1. new \in [1..(to - from) -> Nat]
        BY <2>1, <2>2
      <3> QED BY <2>2, <3>1, ListingFun, ListingConcat DEF Books, Segment, from, to
    <2>3. CASE to - from \notin Nat
      <3>1. 1..(to - from) = 1..0
        BY <2>1, <2>3
      <3>2. new \in [1..0 -> Nat]
        BY <3>1
      <3> QED BY <3>2, ListingFun, ListingConcat DEF Books, Segment, from, to
    <2> QED BY <2>2, <2>3
  <1>a. PICK seg \in {Segment} : \E chunks \in Splits(text.runes, seg) :
          \E spans \in {LocateOffsets(text.runes, seg, chunks)} :
          /\ window' = Found(seg, chunks, spans) /\ made' = made \o Found(seg, chunks, spans)
          /\ at' = IF Found(seg, chunks, spans) = <<>> THEN "window" ELSE "embed"
    BY DEF Window
  <1>b. PICK chunks \in Splits(text.runes, seg) : \E spans :
          /\ window' = Found(seg, chunks, spans) /\ made' = made \o Found(seg, chunks, spans)
          /\ at' = IF Found(seg, chunks, spans) = <<>> THEN "window" ELSE "embed"
    BY <1>a
  <1>c. PICK spans :
          /\ window' = Found(seg, chunks, spans) /\ made' = made \o Found(seg, chunks, spans)
          /\ at' = IF Found(seg, chunks, spans) = <<>> THEN "window" ELSE "embed"
    BY <1>b
  <1> DEFINE found == Found(seg, chunks, spans)
  <1>2. /\ DOMAIN found = DOMAIN chunks /\ found = [i \in DOMAIN chunks |-> found[i]]
          /\ window' = found /\ made' = made \o found
          /\ at' = IF found = <<>> THEN "window" ELSE "embed"
    BY <1>c DEF Found
  <1> HIDE DEF found
  <1>3. Listing(found)
    <2>1. Listing(chunks)
      <3>1. seg = Segment /\ Len(Segment) \in Nat
        BY <1>1 DEF Listing
      <3> QED BY <3>1, SplitsListing
    <2>2. found \in [1..Len(chunks) -> {found[i] : i \in 1..Len(chunks)}]
      BY <1>2, <2>1 DEF Listing
    <2> QED BY <2>1, <2>2, ListingFun DEF Listing
  <1>4. /\ Listing(made') /\ Len(made') = Len(made) + Len(found)
        /\ \A i \in 1..Len(made) : made'[i] = made[i]
    BY <1>2, <1>3, ListingConcat DEF Books
  <1>5. Listing(carry')
    BY <1>1, TailListing, ListingEmpty DEF Window, NextCarry
  <1>6. /\ at = "window" /\ batch' = 0 /\ inflight = NoWrite
        /\ UNCHANGED <<text, written, inflight, vectors, lexical>>
    BY DEF Window, Books, stores
  <1>7. written = Len(made) /\ Len(made) \in Nat /\ Len(found) \in Nat
    <2>1. Len(found) \in Nat
      BY <1>3 DEF Listing
    <2>2. Base + batch = written + (inflight.hi - inflight.lo) /\ batch = Len(window)
      BY <1>6 DEF Books
    <2> QED BY <1>6, <2>1, <2>2, Lengths, NoWriteType
  <1>8. found = <<>> => Len(found) = 0
    BY ListingEmpty
  <1>9. Books'
    <2>1. at' \in {"window", "embed"}
      BY <1>2
    <2>2. Base' = Len(made)
      BY <1>2, <1>4, <1>7 DEF Base
    <2> QED BY <1>2, <1>3, <1>4, <1>5, <1>6, <1>7, <1>8, <2>1, <2>2, NoWriteType DEF Books, Steps
  <1>10. Durable'
    BY <1>4, <1>6, <1>7, NoWriteType DEF Durable, InBoth
  <1> QED BY <1>9, <1>10

\* The next batch begins behind the one embedded last.
LEMMA BatchBounds ==
    ASSUME Books, at # "failed"
    PROVE  /\ Batch \in Writes /\ Batch.at = "vectors" /\ Batch.lo = Base + batch
           /\ Batch.lo <= Batch.hi /\ Batch.hi <= Len(made) /\ Base \in Nat
           /\ Batch.hi - Base \in 0..Len(window)
           /\ Batch.hi = Len(made) => Batch.hi - Base = Len(window)
  <1> DEFINE m == Min({batch + BatchSize, Len(window)})
  <1>1. /\ Len(window) \in Nat /\ Len(made) \in Nat /\ batch \in Nat /\ BatchSize \in Nat
        /\ batch <= Len(window)
    <2>1. BatchSize \in Nat
      BY IndexerAssumption
    <2> QED BY <2>1, Lengths DEF Books
  <1>2. batch <= m /\ m <= Len(window) /\ m \in Nat
    <2>1. batch + BatchSize \in Nat /\ batch <= batch + BatchSize
      BY <1>1
    <2> QED BY <1>1, <2>1, MinPair
  <1>3. Batch = [at |-> "vectors", lo |-> Base + batch, hi |-> Base + m]
    BY DEF Batch
  <1> HIDE DEF m
  <1>4. Base \in Nat /\ Base + Len(window) = Len(made)
    BY Lengths
  <1> HIDE DEF Base
  <1> QED BY <1>1, <1>2, <1>3, <1>4 DEF Writes, WriteSteps

\* Settling a write extends what is durably written by its batch.
LEMMA AccountSettle == ASSUME Account, Settle \/ SettleLast PROVE Account'
  <1> USE DEF Account
  <1>1. /\ Settled /\ written' = Counted /\ at \in {"settle", "last"}
        /\ UNCHANGED <<text, carry, window, made, vectors, lexical>>
    BY DEF Settle, SettleLast, position, stores
  <1>0. /\ Base + batch = written + (inflight.hi - inflight.lo)
        /\ inflight.lo <= inflight.hi /\ inflight.hi <= Len(made)
        /\ written <= Len(made) /\ batch <= Len(window)
        /\ inflight.at # "none" => inflight.lo = written
        /\ inflight.at \in {"none", "written"}
    BY <1>1 DEF Books, Settled
  <1>2. /\ Counted = Base + batch
        /\ inflight.at # "none" => Counted = inflight.hi
        /\ inflight.at = "none" => Counted = written
        /\ Counted \in 0..Len(made)
    BY <1>0, Lengths DEF Counted
  <1>3. \A i \in 1..Counted : InBoth(i)
    <2>1. ASSUME NEW i \in 1..Counted, ~(i \in 1..written) PROVE InBoth(i)
      <3>0. i \in Nat /\ written < i /\ i <= Counted
        BY <1>2, <2>1, Lengths
      <3>2. inflight.at = "written" /\ Counted = inflight.hi /\ inflight.lo = written
        <4>1. Counted # written
          BY <3>0, Lengths
        <4> QED BY <1>0, <1>2, <4>1
      <3>1. inflight.at = "written" /\ i \in (inflight.lo + 1)..inflight.hi
        BY <3>0, <3>2, Lengths
      <3> QED BY <3>1 DEF Durable
    <2>2. ASSUME NEW i \in 1..written PROVE InBoth(i)
      BY DEF Durable
    <2> QED BY <2>1, <2>2
  <1>4. \A i \in 1..written' : InBoth(i)'
    BY <1>1, <1>3 DEF InBoth
  <1>5. CASE Settle
    <2>1. /\ inflight' = Batch /\ batch' = Batch.hi - Base
          /\ at' = IF Batch.hi = Len(made) THEN "last" ELSE "embed"
      BY <1>5 DEF Settle
    <2>2. /\ Base' = Base /\ Len(window') = Len(window) /\ Len(made') = Len(made)
          /\ Batch.at = "vectors" /\ Batch.lo = Counted /\ Batch \in Writes
          /\ Batch.lo <= Batch.hi /\ Batch.hi <= Len(made)
          /\ Batch.hi - Base \in 0..Len(window)
          /\ Batch.hi = Len(made) => Batch.hi - Base = Len(window)
      BY <1>1, <1>2, BatchBounds DEF Base
    <2>3. Base + (Batch.hi - Base) = Counted + (Batch.hi - Batch.lo)
      <3>1. Batch.hi \in Nat
        BY <2>2 DEF Writes
      <3> QED BY <1>2, <2>2, <3>1, Lengths
    <2>4. at' \in {"last", "embed"} /\ (at' = "last" => batch' = Len(window))
      BY <2>1, <2>2
    <2>5. Books'
      BY <1>1, <1>2, <2>1, <2>2, <2>3, <2>4 DEF Books, Steps, Listing
    <2>6. Durable'
      BY <1>4, <2>1, <2>2 DEF Durable
    <2> QED BY <2>5, <2>6
  <1>6. CASE SettleLast
    <2>1. inflight' = NoWrite /\ at' = "window" /\ batch' = batch /\ at = "last"
      BY <1>6 DEF SettleLast
    <2>2. Base' = Base /\ batch = Len(window) /\ Base + batch = Counted + (0 - 0)
      BY <1>1, <1>2, <2>1, Lengths DEF Books, Base
    <2>4. Books'
      BY <1>1, <1>2, <2>1, <2>2, Lengths, NoWriteType DEF Books, Steps, Listing
    <2>3. Durable'
      BY <1>4, <2>1, NoWriteType DEF Durable
    <2> QED BY <2>3, <2>4
  <1> QED BY <1>5, <1>6

LEMMA AccountProcess == ASSUME Account, Indexed \/ Embed \/ Fail PROVE Account'
  <1> USE DEF Account
  <1>1. CASE Indexed \/ Embed
    <2>1. /\ UNCHANGED <<text, carry, window, made, batch, written, inflight, vectors, lexical>>
          /\ \/ at = "window" /\ at' = "indexed"
             \/ at = "embed" /\ at' \in {"settle", "drain"}
      BY <1>1 DEF Indexed, Embed, position, stores
    <2> QED BY <2>1 DEF Books, Durable, InBoth, Base, Steps
  <1>2. CASE Fail
    <2>1. /\ UNCHANGED <<text, carry, window, made, batch, written, vectors, lexical>>
          /\ at' = "failed" /\ inflight' = NoWrite
      BY <1>2 DEF Fail, position, stores
    <2>2. Len(made) \in Nat
      BY DEF Books, Listing
    <2> QED BY <2>1, <2>2, NoWriteType DEF Books, Durable, InBoth, Base, Steps
  <1> QED BY <1>1, <1>2

\* A write touches its own chunks only, and leaves them as they were made.
LEMMA PutEffect ==
    ASSUME Account, NEW store
    PROVE  /\ \A i \in (inflight.lo + 1)..inflight.hi :
                 i \in DOMAIN Put(store) /\ Put(store)[i] = made[i]
           /\ \A i \in DOMAIN store : i \notin (inflight.lo + 1)..inflight.hi =>
                 i \in DOMAIN Put(store) /\ Put(store)[i] = store[i]
  BY DEF Put

LEMMA AccountWrite == ASSUME Account, Upsert \/ Index PROVE Account'
  <1> USE DEF Account
  <1>1. PICK from \in {"vectors", "lexical"}, to \in {"lexical", "written", "error"} : Wrote(from, to)
    BY DEF Upsert, Index
  <1>2. /\ UNCHANGED <<text, carry, window, made, batch, written, at>>
        /\ inflight'.lo = inflight.lo /\ inflight'.hi = inflight.hi /\ inflight'.at = to
        /\ inflight.at = from /\ inflight' \in Writes
    BY <1>1 DEF Upsert, Index, position, Wrote, Books, Writes, WriteSteps
  <1>3. Books'
    BY <1>2 DEF Books, Base
  <1>4. \A i \in 1..written : i \notin (inflight.lo + 1)..inflight.hi
    BY <1>2 DEF Books, Writes
  <1>5. vectors' \in {vectors, Put(vectors)} /\ lexical' \in {lexical, Put(lexical)}
    BY DEF Upsert, Index
  <1>6. \A i \in 1..written : InBoth(i)'
    BY <1>2, <1>4, <1>5, PutEffect DEF Durable, InBoth
  <1>7. CASE to = "lexical"
    <2>1. vectors' = Put(vectors)
      BY <1>1, <1>2, <1>7 DEF Upsert, Index, Wrote, Books, Writes
    <2> QED BY <1>2, <1>3, <1>6, <1>7, <2>1, PutEffect DEF Durable
  <1>8. CASE to = "written"
    <2>1. from = "lexical" /\ lexical' = Put(lexical) /\ vectors' = vectors
      BY <1>1, <1>2, <1>8 DEF Upsert, Index, Wrote, Books, Writes
    <2> QED BY <1>2, <1>3, <1>6, <1>8, <2>1, PutEffect DEF Durable, InBoth
  <1>9. CASE to = "error"
    BY <1>2, <1>3, <1>6, <1>9 DEF Durable
  <1> QED BY <1>7, <1>8, <1>9

LEMMA AccountStep == ASSUME Account, [Next]_vars PROVE Account'
  <1>1. CASE UNCHANGED vars
    BY <1>1 DEF vars, Account, Books, Durable, InBoth, Base
  <1>2. CASE Redeliver \/ Crash
    <2>1. /\ UNCHANGED <<text, vectors, lexical>> /\ at' = "window" /\ carry' = <<>> /\ window' = <<>>
          /\ made' = <<>> /\ batch' = 0 /\ written' = 0 /\ inflight' = NoWrite
      BY <1>2 DEF Redeliver, Crash, Restart, stores
    <2> QED BY <2>1, ListingEmpty, NoWriteType DEF Account, Books, Durable, Base, Steps
  <1> QED BY <1>1, <1>2, AccountWindow, AccountSettle, AccountProcess, AccountWrite DEF Next

(* The chunks counted as written are durably in both stores, in order, over   *)
(* failed calls that took effect, redeliveries and crashes; and an indexed     *)
(* document has written all the chunks that were made of it.                   *)
THEOREM CountIsDurable == Spec => []WrittenIsDurable
  <1>1. Init => Account
    BY AccountInit
  <1>2. Account /\ [Next]_vars => Account'
    BY AccountStep
  <1>3. Account => WrittenIsDurable
    <2> SUFFICES ASSUME Account PROVE at = "indexed" => written = Len(made)
      BY DEF Account, Durable, WrittenIsDurable
    <2>1. at = "indexed" => /\ Base + batch = written + (inflight.hi - inflight.lo)
                            /\ inflight.at = "none" /\ batch = Len(window)
      BY DEF Account, Books
    <2> QED BY <2>1, Lengths DEF Account
  <1> QED BY <1>1, <1>2, <1>3, PTL DEF Spec

-----------------------------------------------------------------------------
(* Where Process is in the text.                                             *)

Rune(b) == RuneAt(text.runes, text.wide, b)
Offsets == Boundaries(text.runes, text.wide)

\* The carry is the stretch before the next window.
Place ==
    /\ text \in Texts
    /\ start \in Offsets
    /\ Len(carry) \in Nat /\ Len(carry) <= Rune(start)
    /\ carry = Stretch(Rune(start) - Len(carry), Len(carry))

\* No page begins in the carry, or right behind it.
Clean ==
    start < Size(text) => \A p \in text.pages : p <= Rune(start) - Len(carry) \/ p > Rune(start)

SegmentLen == Len(carry) + (Rune(End) - Rune(start))

\* Rune boundaries and pages of a text.
LEMMA OffsetsAre ==
    ASSUME text \in Texts
    PROVE  /\ N(text) \in Nat /\ Size(text) \in Offsets /\ Size(text) \in Nat
           /\ Rune(Size(text)) = N(text) /\ 0 \in Offsets /\ Rune(0) = 0
           /\ \A b \in Offsets : b \in Nat /\ b <= Size(text) /\ Rune(b) \in 0..N(text)
           /\ \A b, c \in Offsets : b <= c <=> Rune(b) <= Rune(c)
           /\ \A p \in text.pages : /\ p \in 0..N(text)
                                    /\ ByteOf(text.runes, text.wide, p) \in Offsets
                                    /\ Rune(ByteOf(text.runes, text.wide, p)) = p
  <1>1. Script(text.runes, text.wide)
    BY TextsAreScripts
  <1>2. N(text) \in Nat /\ text.pages \subseteq 0..N(text)
    BY TextsAreTexts DEF TextIs, Script, N
  <1>3. Size(text) \in Offsets /\ Rune(Size(text)) = N(text) /\ 0 \in Offsets /\ Rune(0) = 0
    BY <1>1, BoundaryEnds DEF Size, Offsets, Rune, N
  <1>4. \A b \in Offsets : b \in Nat /\ b <= Size(text) /\ Rune(b) \in 0..N(text)
    BY <1>1, Boundary DEF Size, Offsets, Rune, N
  <1>5. \A b, c \in Offsets : b <= c <=> Rune(b) <= Rune(c)
    BY <1>1, BoundaryOrder DEF Offsets, Rune
  <1>6. \A p \in text.pages : /\ p \in 0..N(text)
                              /\ ByteOf(text.runes, text.wide, p) \in Offsets
                              /\ Rune(ByteOf(text.runes, text.wide, p)) = p
    BY <1>1, <1>2, BoundaryEnds, RuneAtByteOf DEF Offsets, Rune, N
  <1> QED BY <1>2, <1>3, <1>4, <1>5, <1>6

\* The next page, and how far a window goes.
LEMMA EndIs ==
    ASSUME Place, start < Size(text)
    PROVE  /\ NextPage(start) \in Offsets
           /\ \A p \in text.pages : p > Rune(start) => Rune(NextPage(start)) <= p
           /\ End \in Offsets /\ start < End /\ start <= End
           /\ text.pages # {} => End <= NextPage(start)
  <1> DEFINE later == {p \in PageBytes : p > start} \cup {Size(text)}
             next  == NextPage(start)
             end   == WindowEnd(text.runes, text.wide, start)
  <1>1. text \in Texts /\ start \in Offsets
    BY DEF Place
  <1>2. /\ Size(text) \in Offsets /\ Size(text) \in Nat
        /\ \A b \in Offsets : b \in Nat /\ Rune(b) \in 0..N(text)
        /\ \A b, c \in Offsets : b <= c <=> Rune(b) <= Rune(c)
        /\ \A p \in text.pages : /\ p \in 0..N(text)
                                 /\ ByteOf(text.runes, text.wide, p) \in Offsets
                                 /\ Rune(ByteOf(text.runes, text.wide, p)) = p
        /\ N(text) \in Nat
    BY <1>1, OffsetsAre
  <1>3. PageBytes \subseteq Offsets
    BY <1>2 DEF PageBytes
  <1>4. later \in SUBSET Nat /\ later \subseteq Offsets /\ Size(text) \in later
    BY <1>2, <1>3
  <1>5. next \in later /\ \A b \in later : next <= b
    <2>1. Min(later) \in later /\ \A b \in later : Min(later) <= b
      <3> HIDE DEF later
      <3> QED BY <1>4, Least
    <2> QED BY <2>1 DEF NextPage
  <1>6. next \in Offsets /\ start < next
    BY <1>4, <1>5
  <1>7. ASSUME NEW p \in text.pages, p > Rune(start) PROVE Rune(next) <= p
    <2> DEFINE b == ByteOf(text.runes, text.wide, p)
    <2>1. b \in Offsets /\ Rune(b) = p /\ b \in PageBytes
      BY <1>2 DEF PageBytes
    <2> HIDE DEF b
    <2>2. ~(b <= start)
      <3>1. Rune(start) \in Nat /\ p \in Nat
        BY <1>1, <1>2
      <3>2. ~(Rune(b) <= Rune(start))
        BY <1>7, <2>1, <3>1
      <3> QED BY <1>1, <1>2, <2>1, <3>2
    <2>3. b \in later
      <3>1. b \in Nat /\ start \in Nat
        BY <1>1, <1>2, <2>1
      <3> QED BY <2>1, <2>2, <3>1
    <2>4. next <= b
      BY <1>5, <2>3
    <2> HIDE DEF next
    <2> QED BY <1>2, <1>6, <2>1, <2>4
  <1>8. end \in Offsets /\ start < end
    <2>1. Script(text.runes, text.wide) /\ start < ByteOf(text.runes, text.wide, Len(text.runes))
      BY <1>1, TextsAreScripts DEF Size, N
    <2> QED BY <1>1, <2>1, WindowEndIsBoundary DEF Offsets
  <1>9. End = IF text.pages # {} /\ next <= end THEN next ELSE end
    BY DEF End
  <1>10. start \in Nat /\ next \in Nat /\ end \in Nat
    BY <1>1, <1>2, <1>6, <1>8
  <1>11. End \in Offsets /\ start < End /\ start <= End /\ (text.pages # {} => End <= next)
    <2> HIDE DEF next, end
    <2> QED BY <1>6, <1>8, <1>9, <1>10
  <1> QED BY <1>6, <1>7, <1>11

\* A segment is the stretch from its base rune to the end of the window.
LEMMA SegmentIs ==
    ASSUME Place, start < Size(text)
    PROVE  /\ BaseRune \in Nat /\ SegmentLen \in Nat
           /\ Segment = Stretch(BaseRune, SegmentLen)
           /\ BaseRune + SegmentLen = Rune(End) /\ Rune(End) \in 0..N(text)
           /\ BaseRune <= Rune(start) /\ Rune(start) <= Rune(End)
           /\ BaseRune = Rune(start) - Len(carry)
  <1>1. /\ Rune(start) \in 0..N(text) /\ Rune(End) \in 0..N(text) /\ Rune(start) <= Rune(End)
        /\ N(text) \in Nat
    BY EndIs, OffsetsAre DEF Place
  <1>2. /\ Len(carry) \in Nat /\ Len(carry) <= Rune(start)
        /\ carry = Stretch(Rune(start) - Len(carry), Len(carry))
    BY DEF Place
  <1> DEFINE b == BaseRune
             w == Len(carry)
             n == Rune(End) - Rune(start)
  <1>3. BaseRune = Rune(start) - Len(carry)
    BY DEF BaseRune, Rune
  <1>4. b \in Nat /\ w \in Nat /\ n \in Nat /\ b + w = Rune(start) /\ SegmentLen = w + n
        /\ b + (w + n) = Rune(End)
    <2>1. /\ Rune(start) \in Nat /\ Rune(End) \in Nat /\ w \in Nat /\ w <= Rune(start)
          /\ b = Rune(start) - w /\ SegmentLen = w + n
      BY <1>1, <1>2, <1>3 DEF SegmentLen
    <2>2. n = Rune(End) - Rune(start)
      OBVIOUS
    <2> HIDE DEF b, w, n
    <2> QED BY <1>1, <2>1, <2>2
  <1>5. Segment = carry \o [k \in 1..n |-> Rune(start) + k]
    BY DEF Segment, Rune
  <1>6. Segment = Stretch(b, w) \o Stretch(b + w, n)
    BY <1>2, <1>3, <1>4, <1>5 DEF Stretch
  <1> HIDE DEF b, w, n
  <1>7. Segment = Stretch(b, w + n)
    BY <1>4, <1>6, StretchConcat
  <1>8. b = BaseRune
    BY DEF b
  <1>9. b <= Rune(start)
    <2>1. b + w = Rune(start) /\ w \in Nat /\ b \in Nat
      BY <1>4
    <2> QED BY <2>1
  <1> QED BY <1>1, <1>3, <1>4, <1>7, <1>8, <1>9

\* What is carried from a stretch is the end of it.
LEMMA TailIs ==
    ASSUME NEW base \in Nat, NEW m \in Nat
    PROVE  \E w \in 0..m : TailRunes(Stretch(base, m)) = Stretch(base + m - w, w)
  <1> DEFINE seg == Stretch(base, m)
             w   == Min({Overlap, m})
             a   == m - w + 1
             b2  == base + m - w
  <1>1. Len(seg) = m
    BY StretchIs
  <1>2. w \in Nat /\ w <= m
    <2>1. Overlap \in Nat
      BY WindowsAssumption
    <2>2. Min({Overlap, m}) \in {Overlap, m} /\ Min({Overlap, m}) <= m
      <3>1. {Overlap, m} \in SUBSET Nat
        BY <2>1
      <3> QED BY <3>1, Least
    <2> QED BY <2>1, <2>2
  <1>3. TailRunes(seg) = Part(seg, a, m)
    BY <1>1 DEF TailRunes, Part
  <1> HIDE DEF w
  <1>4. a \in Nat /\ 1 <= a /\ a <= m + 1 /\ b2 = base + a - 1 /\ w = m - a + 1 /\ b2 \in Nat
    BY <1>2
  <1> HIDE DEF a, b2
  <1>5. Part(Stretch(base, m), a, m) = Stretch(b2, w)
    BY <1>2, <1>4, StretchPart
  <1>6. TailRunes(seg) = Stretch(b2, w)
    BY <1>3, <1>5
  <1> QED BY <1>2, <1>6 DEF b2

\* A window leaves the carry before the next one, without a page between them.
LEMMA PlaceStep ==
    ASSUME Place, Clean, start < Size(text), carry' = NextCarry, start' = End, text' = text
    PROVE  Place' /\ Clean'
  <1> DEFINE b == BaseRune
             m == SegmentLen
             e == Rune(End)
             s == Rune(start)
             w == Len(carry')
  <1>1. /\ b \in Nat /\ m \in Nat /\ Segment = Stretch(b, m) /\ b + m = e
        /\ b <= s /\ s <= e /\ b = s - Len(carry)
    BY SegmentIs
  <1>2. /\ text \in Texts /\ start \in Offsets /\ End \in Offsets
        /\ NextPage(start) \in Offsets
        /\ \A p \in text.pages : p > s => Rune(NextPage(start)) <= p
        /\ text.pages # {} => End <= NextPage(start)
    BY EndIs DEF Place
  <1>3. /\ \A o \in Offsets : o \in Nat /\ Rune(o) \in Nat
        /\ \A o, q \in Offsets : o <= q <=> Rune(o) <= Rune(q)
        /\ text.pages \subseteq Nat
    BY <1>2, OffsetsAre
  <1> HIDE DEF b, m, s
  <1>4. /\ w \in Nat /\ w <= m /\ carry' = Stretch(e - w, w)
        /\ AtPageBreak => w = 0
    <2> HIDE DEF e
    <2>1. CASE AtPageBreak
      <3>1. carry' = <<>> /\ w = 0
        BY <2>1 DEF NextCarry
      <3>2. Stretch(e, 0) = <<>>
        BY DEF Stretch
      <3> QED BY <1>1, <1>2, <1>3, <3>1, <3>2 DEF e
    <2>2. CASE ~AtPageBreak
      <3>1. PICK v \in 0..m : carry' = Stretch(b + m - v, v)
        BY <1>1, <2>2, TailIs DEF NextCarry
      <3>2. e - v \in Nat /\ v \in Nat /\ b + m - v = e - v /\ v <= m
        BY <1>1
      <3>3. w = v
        BY <3>1, <3>2, StretchIs
      <3> QED BY <2>2, <3>1, <3>2, <3>3
    <2> QED BY <2>1, <2>2
  <1> HIDE DEF w
  <1>5. w <= e
    BY <1>1, <1>4
  <1>6. Rune(start)' = e
    BY DEF Rune
  <1>7. Place'
    <2>1. start' \in Offsets' /\ text' \in Texts
      BY <1>2 DEF Offsets
    <2>2. w = Len(carry')
      BY DEF w
    <2> QED BY <1>4, <1>5, <1>6, <2>1, <2>2 DEF Place
  <1>8. Clean'
    <2> SUFFICES ASSUME End < Size(text), NEW p \in text.pages
                 PROVE  p <= e - w \/ p > e
      BY <1>6 DEF Clean, w, Size, N
    <2>1. p \in Nat /\ s \in Nat /\ e \in Nat
      BY <1>2, <1>3 DEF s
    <2>2. CASE p <= s
      <3>1. p <= b
        BY <1>1, <2>1, <2>2 DEF Clean, s
      <3>2. b <= e - w
        BY <1>1, <1>4, <2>1
      <3> QED BY <1>1, <1>4, <2>1, <3>1, <3>2
    <2>3. CASE p > s
      <3>1. Rune(NextPage(start)) <= p /\ text.pages # {} /\ End <= NextPage(start)
        BY <1>2, <2>3
      <3>2. CASE AtPageBreak
        BY <1>4, <2>1, <3>2
      <3>3. CASE ~AtPageBreak
        <4>1. End # NextPage(start)
          BY <3>1, <3>3 DEF AtPageBreak
        <4>2. ~(NextPage(start) <= End)
          BY <1>2, <1>3, <3>1, <4>1
        <4>3. ~(Rune(NextPage(start)) <= e)
          BY <1>2, <1>3, <4>2
        <4>4. Rune(NextPage(start)) \in Nat
          BY <1>2, <1>3
        <4> HIDE DEF e
        <4> QED BY <2>1, <3>1, <4>3, <4>4
      <3> QED BY <3>2, <3>3
    <2> QED BY <2>1, <2>2, <2>3
  <1> QED BY <1>7, <1>8

\* The chunks of a stretch and what they cover.
LEMMA SplitLots ==
    ASSUME NEW runes, NEW base \in Nat, NEW m \in Nat,
           NEW chunks \in Splits(runes, Stretch(base, m))
    PROVE  /\ Lots(runes, base, m, chunks)
           /\ \A k \in 1..m : Letter(runes, base + k) =>
                 \E i \in 1..Len(chunks) : k \in chunks[i].from..chunks[i].to
  <1> DEFINE seg == Stretch(base, m)
  <1>1. Len(seg) = m /\ \A k \in 1..m : seg[k] = base + k
    BY StretchIs
  <1> HIDE DEF seg
  <1>2. /\ Chunked(m, chunks)
        /\ \A i \in 1..Len(chunks) : \E k \in chunks[i].from..chunks[i].to : runes[seg[k]] # Space
        /\ \A k \in 1..m : runes[seg[k]] # Space =>
              \E i \in 1..Len(chunks) : k \in chunks[i].from..chunks[i].to
    <2>1. chunks \in Splits(runes, seg) /\ Len(seg) \in Nat
      BY <1>1 DEF seg
    <2>2. /\ Chunked(Len(seg), chunks)
          /\ \A i \in 1..Len(chunks) : \E k \in chunks[i].from..chunks[i].to : runes[seg[k]] # Space
          /\ \A k \in 1..Len(seg) : runes[seg[k]] # Space =>
                \E i \in 1..Len(chunks) : k \in chunks[i].from..chunks[i].to
      BY <2>1, SplitCovers
    <2> QED BY <1>1, <2>2
  <1>3. ASSUME NEW i \in 1..Len(chunks) PROVE Lettered(runes, base, m, chunks[i])
    <2>1. chunks[i].from \in 1..m /\ chunks[i].to \in 1..m /\ chunks[i].from <= chunks[i].to
      BY <1>2 DEF Chunked
    <2>2. PICK k \in chunks[i].from..chunks[i].to : runes[seg[k]] # Space
      BY <1>2
    <2>3. k \in 1..m
      BY <2>1
    <2>4. k \in LettersIn(runes, base, chunks[i].from, chunks[i].to)
      BY <1>1, <2>2, <2>3 DEF LettersIn, Letter
    <2> QED BY <2>1, <2>4 DEF Lettered
  <1>4. ASSUME NEW k \in 1..m, Letter(runes, base + k)
        PROVE  \E i \in 1..Len(chunks) : k \in chunks[i].from..chunks[i].to
    <2>1. runes[seg[k]] # Space
      BY <1>1, <1>4 DEF Letter
    <2> QED BY <1>2, <2>1
  <1> QED BY <1>2, <1>3, <1>4 DEF Lots

Chunk == [first : 1..N(text), last : 1..N(text), span : Nat \X Nat]

\* Chunk c of a segment, located at span, in the document.
Moved(base, c, span) ==
    [first |-> base + c.from, last |-> base + c.to,
     span  |-> IF span = <<0, 0>> THEN span ELSE <<span[1] + base, span[2] + base>>]

\* A stretch of the document.
Within(base, m) == base \in Nat /\ m \in Nat /\ N(text) \in Nat /\ base + m <= N(text)
                   /\ text \in Texts

LEMMA LetterIs ==
    ASSUME text \in Texts
    PROVE  \A r : r \in Letters <=> r \in 1..N(text) /\ Letter(text.runes, r)
  BY TextsAreScripts DEF Script, Letters, Letter, N

\* The letters of a chunk, in the segment and in the document.
LEMMA LettersMoved ==
    ASSUME NEW base, NEW m, Within(base, m),
           NEW c, Lettered(text.runes, base, m, c), NEW span
    PROVE  /\ \A k \in LettersIn(text.runes, base, c.from, c.to) :
                 k \in 1..m /\ base + k \in LettersOf(Moved(base, c, span))
           /\ \A r \in LettersOf(Moved(base, c, span)) :
                 r \in Nat /\ r - base \in LettersIn(text.runes, base, c.from, c.to)
  <1> DEFINE a == c.from
             b == c.to
  <1>1. /\ base \in Nat /\ m \in Nat /\ N(text) \in Nat /\ base + m <= N(text) /\ text \in Texts
        /\ a \in 1..m /\ b \in 1..m
    BY DEF Within, Lettered
  <1>2. LettersOf(Moved(base, c, span)) = Letters \cap ((base + a)..(base + b))
    BY DEF LettersOf, Moved
  <1>3. LettersIn(text.runes, base, c.from, c.to) = {k \in a..b : Letter(text.runes, base + k)}
    BY DEF LettersIn
  <1> HIDE DEF a, b
  <1>4. ASSUME NEW k \in a..b, Letter(text.runes, base + k)
        PROVE  k \in 1..m /\ base + k \in Letters /\ base + k \in (base + a)..(base + b)
    <2>1. k \in 1..m /\ base + k \in 1..N(text) /\ base + k \in (base + a)..(base + b)
      BY <1>1
    <2> QED BY <1>1, <1>4, <2>1, LetterIs
  <1>5. ASSUME NEW r \in Letters, r \in (base + a)..(base + b)
        PROVE  r \in Nat /\ r - base \in a..b /\ Letter(text.runes, base + (r - base))
    <2>1. r \in 1..N(text) /\ Letter(text.runes, r)
      BY <1>1, LetterIs
    <2>2. r \in Nat /\ r - base \in a..b /\ base + (r - base) = r
      BY <1>1, <1>5, <2>1
    <2> QED BY <2>1, <2>2
  <1> QED BY <1>2, <1>3, <1>4, <1>5

\* An exact span in the segment is exact in the document, moved by the base rune.
LEMMA LocatedMoved ==
    ASSUME NEW base, NEW m, Within(base, m),
           NEW c, Lettered(text.runes, base, m, c), NEW span \in Nat \X Nat,
           NEW f, NEW l, Bounded(text.runes, base, c, f, l),
           Spans(text.runes, base, m, f, l, span)
    PROVE  Located(Moved(base, c, span))
  <1> DEFINE S == LettersOf(Moved(base, c, span))
             L == LettersIn(text.runes, base, c.from, c.to)
  <1>1. base \in Nat /\ m \in Nat /\ N(text) \in Nat /\ base + m <= N(text) /\ text \in Texts
    BY DEF Within
  <1>2. /\ \A k \in L : k \in 1..m /\ base + k \in S
        /\ \A r \in S : r \in Nat /\ r - base \in L
    BY LettersMoved
  <1>3. f \in L /\ l \in L /\ \A k \in L : f <= k /\ k <= l
    BY DEF Bounded
  <1>4. /\ span[1] = f - 1 /\ span[2] \in Nat /\ l <= span[2] /\ span[2] <= m
        /\ \A k \in (l + 1)..span[2] : ~Letter(text.runes, base + k)
    BY DEF Spans
  <1>5. f \in 1..m /\ l \in 1..m
    BY <1>2, <1>3
  <1>6. L = {k \in c.from..c.to : Letter(text.runes, base + k)}
        /\ c.from \in 1..m /\ c.to \in 1..m
    BY DEF LettersIn, Lettered
  <1>7. Moved(base, c, span).span = <<span[1] + base, span[2] + base>>
    <2>1. span[2] # 0
      BY <1>4, <1>5
    <2>2. span # <<0, 0>>
      BY <2>1
    <2> QED BY <2>2 DEF Moved
  <1> HIDE DEF L
  <1>8. S \subseteq Letters
    BY DEF LettersOf
  <1> HIDE DEF S
  <1>9. Min(S) = base + f
    <2>1. base + f \in S /\ S \in SUBSET Nat
      BY <1>2, <1>3
    <2>2. Min(S) \in S /\ Min(S) <= base + f
      BY <2>1, Least
    <2>3. Min(S) - base \in L /\ Min(S) \in Nat
      BY <1>2, <2>2
    <2>4. f <= Min(S) - base
      BY <1>3, <2>3
    <2> QED BY <1>1, <1>5, <2>2, <2>3, <2>4
  <1>10. span[1] + base = Min(S) - 1 /\ span[1] + base + 1 = base + f
    BY <1>1, <1>4, <1>5, <1>9
  <1>11. Letters \cap ((base + f)..(span[2] + base)) = S
    <2>1. ASSUME NEW r \in Letters, r \in (base + f)..(span[2] + base) PROVE r \in S
      <3>1. r \in 1..N(text) /\ Letter(text.runes, r)
        BY <1>1, LetterIs
      <3> DEFINE k == r - base
      <3>2. k \in f..span[2] /\ base + k = r /\ k \in Nat
        BY <1>1, <1>4, <1>5, <2>1, <3>1
      <3> HIDE DEF k
      <3>3. Letter(text.runes, base + k)
        BY <3>1, <3>2
      <3>4. k <= l
        <4>1. k \notin (l + 1)..span[2]
          BY <1>4, <3>3
        <4> QED BY <1>4, <1>5, <3>2, <4>1
      <3>5. k \in c.from..c.to
        <4>1. f \in c.from..c.to /\ l \in c.from..c.to
          BY <1>3, <1>6
        <4> QED BY <1>5, <1>6, <3>2, <3>4, <4>1
      <3>6. k \in L
        BY <1>6, <3>3, <3>5
      <3> QED BY <1>2, <3>2, <3>6
    <2>2. ASSUME NEW r \in S PROVE r \in Letters /\ r \in (base + f)..(span[2] + base)
      <3>1. r \in Nat /\ r - base \in L /\ r \in Letters
        BY <1>2, <1>8
      <3>2. f <= r - base /\ r - base <= l
        BY <1>3, <3>1
      <3> QED BY <1>1, <1>4, <1>5, <3>1, <3>2
    <2> QED BY <2>1, <2>2
  <1> QED BY <1>7, <1>10, <1>11 DEF Located, S

\* No page boundary lies between two runes, nor does a page begin there if it
\* begins at a boundary.
SamePage(q, r) == /\ MarkedPage(q) = MarkedPage(r)
                  /\ text.begins \subseteq text.pages => PageOf(q) = PageOf(r)

\* No page begins inside the stretch.
LEMMA OnePage ==
    ASSUME NEW base, NEW m, Within(base, m), text.pages \subseteq Nat,
           \A p \in text.pages : p <= base \/ base + m <= p,
           NEW c, Lettered(text.runes, base, m, c), NEW span,
           NEW q \in LettersOf(Moved(base, c, span)), NEW r \in LettersOf(Moved(base, c, span))
    PROVE  SamePage(q, r)
  <1> DEFINE L == LettersIn(text.runes, base, c.from, c.to)
  <1>1. base \in Nat /\ m \in Nat
    BY DEF Within
  <1>2. /\ \A k \in L : k \in 1..m
        /\ q \in Nat /\ q - base \in L
        /\ r \in Nat /\ r - base \in L
    BY LettersMoved
  <1> HIDE DEF L
  <1>3. q - base \in 1..m /\ r - base \in 1..m
    BY <1>2
  <1>4. ASSUME NEW p \in text.pages PROVE p < q <=> p < r
    <2>1. p \in Nat /\ (p <= base \/ base + m <= p)
      OBVIOUS
    <2> QED BY <1>1, <1>2, <1>3, <2>1
  <1>5. {p \in text.pages : p < q} = {p \in text.pages : p < r}
    BY <1>4
  <1>6. text.begins \subseteq text.pages =>
           {p \in text.begins : p < q} = {p \in text.begins : p < r}
    BY <1>4
  <1> QED BY <1>5, <1>6 DEF SamePage, MarkedPage, PageOf

\* What ProvenanceIsExact says of chunk i of a list.
Fits(s, i) ==
    /\ \/ ~Unrepeated
       \/ Located(s[i])
       \/ /\ s[i].span = <<0, 0>>
          /\ i > 1 /\ LettersOf(s[i - 1]) \subseteq LettersOf(s[i])
    /\ \A q, r \in LettersOf(s[i]) : SamePage(q, r)

\* Parts of a text without repetitions have none.
LEMMA UnrepeatedIsDistinct ==
    ASSUME NEW base, NEW m, Within(base, m), Unrepeated
    PROVE  Distinct(text.runes, base, m)
  <1> SUFFICES ASSUME NEW j \in 1..m, NEW k \in 1..m, Letter(text.runes, base + j),
                      text.runes[base + j] = text.runes[base + k]
               PROVE  j = k
    BY DEF Distinct
  <1>1. base \in Nat /\ m \in Nat /\ N(text) \in Nat /\ base + m <= N(text) /\ text \in Texts
    BY DEF Within
  <1>2. base + j \in 1..N(text) /\ base + k \in 1..N(text)
    BY <1>1
  <1>3. Letter(text.runes, base + k)
    BY DEF Letter
  <1>4. base + j \in Letters /\ base + k \in Letters
    BY <1>1, <1>2, <1>3, LetterIs
  <1>5. base + j = base + k
    BY <1>4 DEF Unrepeated
  <1> QED BY <1>1, <1>5

\* The chunks of a stretch of one page, their spans, and what is made of them.
Pieced(base, m, chunks, spans, found) ==
    /\ Within(base, m) /\ text.pages \subseteq Nat
    /\ \A p \in text.pages : p <= base \/ base + m <= p
    /\ Lots(text.runes, base, m, chunks)
    /\ \A i \in 1..Len(chunks) :
          /\ spans[i] \in Nat \X Nat
          /\ Distinct(text.runes, base, m) => Exact(text.runes, base, m, chunks, i, spans[i])
          /\ found[i] = Moved(base, chunks[i], spans[i])

\* A chunk of a window fits the document.
LEMMA ChunkFits ==
    ASSUME NEW base, NEW m, NEW chunks, NEW spans, NEW found,
           Pieced(base, m, chunks, spans, found), NEW i \in 1..Len(chunks)
    PROVE  found[i] \in Chunk /\ Fits(found, i)
  <1> DEFINE c == chunks[i]
             L(d) == LettersIn(text.runes, base, d.from, d.to)
  <1>z. /\ Within(base, m) /\ text.pages \subseteq Nat
        /\ \A p \in text.pages : p <= base \/ base + m <= p
        /\ Lots(text.runes, base, m, chunks)
        /\ \A k \in 1..Len(chunks) :
              /\ spans[k] \in Nat \X Nat
              /\ Distinct(text.runes, base, m) => Exact(text.runes, base, m, chunks, k, spans[k])
              /\ found[k] = Moved(base, chunks[k], spans[k])
    BY DEF Pieced
  <1>1. base \in Nat /\ m \in Nat /\ N(text) \in Nat /\ base + m <= N(text) /\ Len(chunks) \in Nat
    BY <1>z DEF Within, Lots, Chunked
  <1>2. Lettered(text.runes, base, m, c) /\ found[i] = Moved(base, c, spans[i])
        /\ spans[i] \in Nat \X Nat
    BY <1>z DEF Lots
  <1> HIDE DEF c
  <1>3. found[i] \in Chunk
    <2>1. c.from \in 1..m /\ c.to \in 1..m
      BY <1>2 DEF Lettered
    <2>2. base + c.from \in 1..N(text) /\ base + c.to \in 1..N(text)
      BY <1>1, <2>1
    <2>3. (IF spans[i] = <<0, 0>> THEN spans[i]
           ELSE <<spans[i][1] + base, spans[i][2] + base>>) \in Nat \X Nat
      BY <1>1, <1>2
    <2> QED BY <1>2, <2>2, <2>3 DEF Moved, Chunk
  <1>4. \A q, r \in LettersOf(found[i]) : SamePage(q, r)
    BY <1>2, <1>z, OnePage
  <1>5. ASSUME Unrepeated
        PROVE  \/ Located(found[i])
               \/ /\ found[i].span = <<0, 0>>
                  /\ i > 1 /\ LettersOf(found[i - 1]) \subseteq LettersOf(found[i])
    <2>1. Exact(text.runes, base, m, chunks, i, spans[i])
      BY <1>5, <1>z, UnrepeatedIsDistinct
    <2>2. CASE \E f, l : Bounded(text.runes, base, chunks[i], f, l)
                         /\ Spans(text.runes, base, m, f, l, spans[i])
      <3>1. PICK f, l : Bounded(text.runes, base, c, f, l)
                        /\ Spans(text.runes, base, m, f, l, spans[i])
        BY <2>2 DEF c
      <3> QED BY <1>2, <1>z, <3>1, LocatedMoved
    <2>3. CASE /\ spans[i] = <<0, 0>> /\ i > 1
               /\ L(chunks[i - 1]) \subseteq L(chunks[i])
      <3>1. found[i].span = <<0, 0>>
        BY <1>2, <2>3 DEF Moved
      <3>2. i - 1 \in 1..Len(chunks)
        BY <1>1, <2>3
      <3> DEFINE b == chunks[i - 1]
      <3>3. Lettered(text.runes, base, m, b) /\ found[i - 1] = Moved(base, b, spans[i - 1])
        BY <1>z, <3>2 DEF Lots
      <3>4. L(b) \subseteq L(c)
        BY <2>3 DEF c
      <3> HIDE DEF b
      <3>5. ASSUME NEW r \in LettersOf(found[i - 1]) PROVE r \in LettersOf(found[i])
        <4>1. r \in Nat /\ r - base \in L(b)
          BY <1>z, <3>3, LettersMoved
        <4>2. r - base \in L(c)
          BY <3>4, <4>1
        <4> DEFINE k == r - base
        <4>3. base + k = r
          BY <1>1, <4>1
        <4>4. base + k \in LettersOf(found[i])
          <5> HIDE DEF k
          <5>1. k \in L(c)
            BY <4>2 DEF k
          <5> QED BY <1>2, <1>z, <5>1, LettersMoved
        <4> QED BY <4>3, <4>4
      <3> QED BY <2>3, <3>1, <3>5
    <2> QED BY <2>1, <2>2, <2>3 DEF Exact
  <1> QED BY <1>3, <1>4, <1>5 DEF Fits

\* What a window adds.
Added(base, m, found, n) ==
    /\ n \in Nat /\ found \in [1..n -> Chunk]
    /\ \A i \in 1..n : Fits(found, i)
    /\ \A r \in Letters : base < r /\ r <= base + m =>
          \E i \in 1..n : r \in found[i].first..found[i].last

\* What a window makes fits the document and covers the window.
LEMMA WindowChunks ==
    ASSUME Place, Clean, start < Size(text),
           NEW chunks \in Splits(text.runes, Segment),
           NEW found, found = Found(Segment, chunks, LocateOffsets(text.runes, Segment, chunks))
    PROVE  Added(BaseRune, SegmentLen, found, Len(chunks))
  <1> DEFINE base  == BaseRune
             m     == SegmentLen
             spans == LocateOffsets(text.runes, Segment, chunks)
             n     == Len(chunks)
  <1>1. /\ base \in Nat /\ m \in Nat /\ Segment = Stretch(base, m)
        /\ base + m = Rune(End) /\ Rune(End) \in 0..N(text)
        /\ base = Rune(start) - Len(carry) /\ base <= Rune(start) /\ Rune(start) <= Rune(End)
    BY SegmentIs
  <1>2. /\ text \in Texts /\ start \in Offsets /\ End \in Offsets /\ NextPage(start) \in Offsets
        /\ \A p \in text.pages : p > Rune(start) => Rune(NextPage(start)) <= p
        /\ text.pages # {} => End <= NextPage(start)
    BY EndIs DEF Place
  <1>3. /\ N(text) \in Nat /\ text.pages \subseteq Nat
        /\ \A o \in Offsets : Rune(o) \in Nat
        /\ \A o, q \in Offsets : o <= q <=> Rune(o) <= Rune(q)
    BY <1>2, OffsetsAre
  <1>4. Found(Segment, chunks, spans) =
          [i \in DOMAIN chunks |-> [first |-> Segment[chunks[i].from], last |-> Segment[chunks[i].to],
                                    span  |-> IF spans[i] = <<0, 0>> THEN spans[i]
                                              ELSE <<spans[i][1] + base, spans[i][2] + base>>]]
    BY DEF Found, AbsOffset
  <1>5. spans = LocateOffsets(text.runes, Stretch(base, m), chunks)
        /\ chunks \in Splits(text.runes, Stretch(base, m))
    BY <1>1
  <1>6. found = Found(Segment, chunks, spans)
    OBVIOUS
  <1> HIDE DEF base, m, spans, n
  <1>7. Within(base, m)
    BY <1>1, <1>2, <1>3 DEF Within
  <1>8. /\ Lots(text.runes, base, m, chunks)
        /\ \A k \in 1..m : Letter(text.runes, base + k) =>
              \E i \in 1..Len(chunks) : k \in chunks[i].from..chunks[i].to
    BY <1>1, <1>5, SplitLots
  <1>9. \A i \in 1..Len(chunks) :
            /\ spans[i] \in Nat \X Nat
            /\ Distinct(text.runes, base, m) => Exact(text.runes, base, m, chunks, i, spans[i])
    BY <1>1, <1>5, <1>8, ChunksLocated
  <1>10. n \in Nat /\ DOMAIN chunks = 1..n /\ n = Len(chunks)
    BY <1>8 DEF Lots, Chunked, n
  <1>11. ASSUME NEW i \in 1..n
         PROVE  found[i] = Moved(base, chunks[i], spans[i])
    <2>1. chunks[i].from \in 1..m /\ chunks[i].to \in 1..m
      BY <1>8, <1>10 DEF Lots, Chunked
    <2>2. Segment[chunks[i].from] = base + chunks[i].from /\ Segment[chunks[i].to] = base + chunks[i].to
      BY <1>1, <2>1, StretchIs
    <2> QED BY <1>4, <1>6, <1>10, <2>2 DEF Moved
  <1>12. \A p \in text.pages : p <= base \/ base + m <= p
    <2> TAKE p \in text.pages
    <2>1. CASE p > Rune(start)
      <3>1. Rune(NextPage(start)) <= p /\ End <= NextPage(start)
        BY <1>2, <2>1
      <3>2. Rune(End) <= Rune(NextPage(start))
        BY <1>2, <1>3, <3>1
      <3>3. Rune(End) \in Nat /\ Rune(NextPage(start)) \in Nat /\ p \in Nat
        BY <1>2, <1>3
      <3> QED BY <1>1, <3>1, <3>2, <3>3
    <2>2. CASE ~(p > Rune(start))
      BY <1>1, <2>2 DEF Clean
    <2> QED BY <2>1, <2>2
  <1>13. ASSUME NEW i \in 1..n PROVE found[i] \in Chunk /\ Fits(found, i)
    <2>1. Pieced(base, m, chunks, spans, found)
      BY <1>3, <1>7, <1>8, <1>9, <1>10, <1>11, <1>12 DEF Pieced
    <2> QED BY <1>10, <2>1, ChunkFits
  <1>14. found \in [1..n -> Chunk]
    <2>1. DOMAIN found = 1..n /\ found = [i \in DOMAIN chunks |-> found[i]]
      BY <1>4, <1>6, <1>10
    <2> QED BY <1>10, <1>13, <2>1
  <1>15. ASSUME NEW r \in Letters, base < r, r <= base + m
         PROVE  \E i \in 1..n : r \in found[i].first..found[i].last
    <2>1. r \in 1..N(text) /\ Letter(text.runes, r)
      BY <1>2, LetterIs
    <2> DEFINE k == r - base
    <2>2. k \in 1..m /\ base + k = r
      BY <1>1, <1>3, <1>15, <2>1
    <2> HIDE DEF k
    <2>3. Letter(text.runes, base + k)
      BY <2>1, <2>2
    <2>4. PICK i \in 1..n : k \in chunks[i].from..chunks[i].to
      BY <1>8, <1>10, <2>2, <2>3
    <2>5. chunks[i].from \in 1..m /\ chunks[i].to \in 1..m
      BY <1>8, <1>10 DEF Lots, Chunked
    <2>6. found[i].first = base + chunks[i].from /\ found[i].last = base + chunks[i].to
      <3>1. found[i] = Moved(base, chunks[i], spans[i])
        BY <1>11
      <3> QED BY <3>1 DEF Moved
    <2>7. r \in found[i].first..found[i].last
      <3>1. /\ base \in Nat /\ k \in Nat /\ chunks[i].from \in Nat /\ chunks[i].to \in Nat
            /\ chunks[i].from <= k /\ k <= chunks[i].to
        BY <1>1, <2>2, <2>4, <2>5
      <3>2. base + k \in (base + chunks[i].from)..(base + chunks[i].to)
        BY <3>1
      <3> QED BY <2>2, <2>6, <3>2
    <2> QED BY <2>7
  <1>16. Added(base, m, found, n)
    BY <1>10, <1>13, <1>14, <1>15 DEF Added
  <1> QED BY <1>16 DEF base, m, n

\* The chunks made so far have the letters up to the next window.
Covered == \A r \in Letters : r <= Rune(start) =>
              \E i \in 1..Len(made) : r \in made[i].first..made[i].last

(* Process is on its course: it stands at a rune of the text with the carry   *)
(* before it, every letter behind it is in a chunk, and the chunks fit.       *)
Course ==
    /\ Place /\ Clean /\ Covered
    /\ attempt \in 1..MaxAttempts
    /\ window \in Seq(Chunk) /\ made \in Seq(Chunk)
    /\ \A i \in 1..Len(made) : Fits(made, i)
    /\ at = "indexed" => start >= Size(text)

\* A delivery starts with nothing made.
LEMMA NothingMade ==
    text \in Texts /\ start = 0 /\ carry = <<>> /\ made = <<>>
       => Place /\ Clean /\ Covered /\ \A i \in 1..Len(made) : Fits(made, i)
  <1> SUFFICES ASSUME text \in Texts, start = 0, carry = <<>>, made = <<>>
               PROVE  Place /\ Clean /\ Covered /\ \A i \in 1..Len(made) : Fits(made, i)
    OBVIOUS
  <1>1. N(text) \in Nat /\ 0 \in Offsets /\ Rune(0) = 0 /\ text.pages \subseteq Nat
    BY OffsetsAre
  <1>2. Len(carry) = 0 /\ Len(made) = 0 /\ carry = Stretch(0, 0)
    BY DEF Stretch
  <1>3. Place
    BY <1>1, <1>2 DEF Place
  <1>4. Clean
    BY <1>1, <1>2 DEF Clean
  <1>5. Covered
    <2>1. \A r \in Letters : ~(r <= 0)
      BY <1>1, LetterIs
    <2> QED BY <1>1, <2>1 DEF Covered
  <1> QED BY <1>2, <1>3, <1>4, <1>5

LEMMA CourseInit == ASSUME Init PROVE Course
  <1>1. /\ text \in Texts /\ start = 0 /\ carry = <<>> /\ made = <<>> /\ window = <<>>
        /\ attempt = 1 /\ at = "window"
    BY DEF Init
  <1>2. Place /\ Clean /\ Covered /\ \A i \in 1..Len(made) : Fits(made, i)
    BY <1>1, NothingMade
  <1> QED BY <1>1, <1>2, IndexerAssumption DEF Course

\* The chunks of a window follow those made before.
LEMMA FitsConcat ==
    ASSUME NEW s \in Seq(Chunk), NEW n, NEW t, NEW base, NEW m, Added(base, m, t, n),
           \A i \in 1..Len(s) : Fits(s, i)
    PROVE  /\ t \in Seq(Chunk) /\ Len(t) = n /\ s \o t \in Seq(Chunk)
           /\ Len(s \o t) = Len(s) + n /\ Len(s) \in Nat /\ n \in Nat
           /\ \A i \in 1..Len(s) : (s \o t)[i] = s[i]
           /\ \A i \in 1..n : (s \o t)[Len(s) + i] = t[i]
           /\ \A i \in 1..Len(s \o t) : Fits(s \o t, i)
  <1>1. t \in [1..n -> Chunk] /\ n \in Nat /\ \A i \in 1..n : Fits(t, i)
    BY DEF Added
  <1> HIDE DEF Chunk
  <1>2. /\ t \in Seq(Chunk) /\ Len(t) = n /\ s \o t \in Seq(Chunk)
        /\ Len(s \o t) = Len(s) + n /\ Len(s) \in Nat
        /\ \A i \in 1..Len(s) : (s \o t)[i] = s[i]
        /\ \A i \in 1..n : (s \o t)[Len(s) + i] = t[i]
    BY <1>1
  <1> DEFINE u == s \o t
  <1>3. ASSUME NEW i \in 1..Len(s) PROVE Fits(u, i)
    <2>1. Fits(s, i) /\ u[i] = s[i]
      BY <1>2
    <2>2. i > 1 => i - 1 \in 1..Len(s)
      BY <1>2
    <2>3. i > 1 => u[i - 1] = s[i - 1]
      BY <1>2, <2>2
    <2> HIDE DEF u
    <2> QED BY <2>1, <2>3 DEF Fits
  <1>4. ASSUME NEW i \in 1..n PROVE Fits(u, Len(s) + i)
    <2> DEFINE k == Len(s) + i
    <2>1. Fits(t, i) /\ u[k] = t[i]
      BY <1>1, <1>2
    <2>2. i > 1 => i - 1 \in 1..n /\ k - 1 = Len(s) + (i - 1) /\ k > 1
      BY <1>1, <1>2
    <2>3. i > 1 => u[Len(s) + (i - 1)] = t[i - 1]
      BY <1>2, <2>2
    <2> HIDE DEF u, k
    <2>4. i > 1 => k > 1 /\ u[k - 1] = t[i - 1]
      BY <2>2, <2>3
    <2>5. Fits(u, k)
      BY <2>1, <2>4 DEF Fits
    <2> QED BY <2>5 DEF k
  <1>5. ASSUME NEW i \in 1..Len(u) PROVE Fits(u, i)
    <2>1. i \in 1..(Len(s) + n) /\ Len(s) \in Nat /\ n \in Nat
      BY <1>1, <1>2
    <2> HIDE DEF u
    <2>2. CASE i <= Len(s)
      BY <1>3, <2>1, <2>2
    <2>3. CASE i > Len(s)
      <3>1. i - Len(s) \in 1..n /\ Len(s) + (i - Len(s)) = i
        BY <2>1, <2>3
      <3> DEFINE j == i - Len(s)
      <3>2. j \in 1..n /\ Len(s) + j = i
        BY <3>1
      <3> HIDE DEF j
      <3> QED BY <1>4, <3>2
    <2> QED BY <2>1, <2>2, <2>3
  <1> QED BY <1>1, <1>2, <1>5

\* The step that matters: the chunks of the next window.
LEMMA CourseWindow == ASSUME Course, Window PROVE Course'
  <1>1. /\ Place /\ Clean /\ Covered /\ attempt \in 1..MaxAttempts
        /\ made \in Seq(Chunk) /\ \A i \in 1..Len(made) : Fits(made, i)
    BY DEF Course
  <1>2. /\ at = "window" /\ start < Size(text) /\ carry' = NextCarry /\ start' = End
        /\ text' = text /\ attempt' = attempt
    BY DEF Window
  <1>3. PICK chunks \in Splits(text.runes, Segment) :
           LET found == Found(Segment, chunks, LocateOffsets(text.runes, Segment, chunks))
           IN  window' = found /\ made' = made \o found /\ at' \in {"window", "embed"}
    BY DEF Window
  <1> DEFINE found == Found(Segment, chunks, LocateOffsets(text.runes, Segment, chunks))
             n     == Len(chunks)
  <1>4. window' = found /\ made' = made \o found /\ at' \in {"window", "embed"}
    BY <1>3
  <1>5. Added(BaseRune, SegmentLen, found, n)
    BY <1>1, <1>2, WindowChunks
  <1>6. Place' /\ Clean'
    BY <1>1, <1>2, PlaceStep
  <1> HIDE DEF found, n
  <1>7. /\ found \in Seq(Chunk) /\ Len(found) = n /\ made' \in Seq(Chunk)
        /\ Len(made') = Len(made) + n /\ Len(made) \in Nat /\ n \in Nat
        /\ \A i \in 1..Len(made) : made'[i] = made[i]
        /\ \A i \in 1..n : made'[Len(made) + i] = found[i]
        /\ \A i \in 1..Len(made') : Fits(made', i)
    BY <1>1, <1>4, <1>5, FitsConcat
  <1>8. Chunk' = Chunk /\ \A i : Fits(made', i) => Fits(made, i)'
    BY <1>2 DEF Chunk, Fits, Unrepeated, Letters, Located, LettersOf, SamePage, MarkedPage, PageOf, N
  <1>9. Covered'
    <2> SUFFICES ASSUME NEW r \in Letters, r <= Rune(End)
                 PROVE  \E i \in 1..Len(made') : r \in made'[i].first..made'[i].last
      BY <1>2 DEF Covered, Letters, Rune
    <2>1. /\ BaseRune + SegmentLen = Rune(End) /\ BaseRune <= Rune(start)
          /\ BaseRune \in Nat /\ SegmentLen \in Nat /\ Rune(start) \in Nat
      BY <1>1, <1>2, SegmentIs, OffsetsAre DEF Place
    <2>2. r \in Nat
      BY <1>1, LetterIs DEF Place
    <2>3. CASE r <= Rune(start)
      <3>1. PICK i \in 1..Len(made) : r \in made[i].first..made[i].last
        BY <1>1, <2>3 DEF Covered
      <3>2. i \in 1..Len(made') /\ made'[i] = made[i]
        BY <1>7
      <3> QED BY <3>1, <3>2
    <2>4. CASE r > Rune(start)
      <3>1. BaseRune < r /\ r <= BaseRune + SegmentLen
        BY <2>1, <2>2, <2>4
      <3>2. PICK i \in 1..n : r \in found[i].first..found[i].last
        BY <1>5, <3>1 DEF Added
      <3> DEFINE k == Len(made) + i
      <3>3. k \in 1..Len(made') /\ made'[k] = found[i]
        BY <1>7
      <3> HIDE DEF k
      <3> QED BY <3>2, <3>3
    <2>5. r <= Rune(start) \/ r > Rune(start)
      BY <2>1, <2>2
    <2> QED BY <2>3, <2>4, <2>5
  <1>10. window' \in Seq(Chunk') /\ made' \in Seq(Chunk')
    BY <1>4, <1>7, <1>8
  <1>11. (\A i \in 1..Len(made) : Fits(made, i))'
    BY <1>7, <1>8
  <1> QED BY <1>1, <1>2, <1>4, <1>6, <1>9, <1>10, <1>11 DEF Course

\* Every other step of a delivery leaves the course alone.
LEMMA CourseKept ==
    ASSUME Course, UNCHANGED <<text, attempt, position>>,
           at' = "indexed" => at = "indexed" \/ start >= Size(text)
    PROVE  Course'
  <1>1. /\ text' = text /\ attempt' = attempt /\ start' = start /\ carry' = carry
        /\ window' = window /\ made' = made
    BY DEF position
  <1>2. Place' /\ Clean' /\ Covered'
    BY <1>1 DEF Course, Place, Clean, Covered, Rune, Offsets, Letters, Size, N
  <1>3. (\A i \in 1..Len(made) : Fits(made, i))'
    <2>1. Letters' = Letters /\ (Unrepeated' <=> Unrepeated)
      BY <1>1 DEF Letters, Unrepeated
    <2>2. \A i : /\ LettersOf(made[i])' = LettersOf(made[i])
                 /\ Located(made[i])' <=> Located(made[i])
      BY <1>1, <2>1 DEF LettersOf, Located
    <2>3. \A q, r : SamePage(q, r)' <=> SamePage(q, r)
      BY <1>1 DEF SamePage, MarkedPage, PageOf
    <2>4. \A i : Fits(made, i) => Fits(made, i)'
      BY <1>1, <2>1, <2>2, <2>3 DEF Fits
    <2> QED BY <1>1, <2>4 DEF Course
  <1>4. window' \in Seq(Chunk') /\ made' \in Seq(Chunk')
    BY <1>1 DEF Course, Chunk, N
  <1>5. attempt' \in 1..MaxAttempts /\ (at' = "indexed" => start' >= Size(text'))
    BY <1>1 DEF Course
  <1> QED BY <1>2, <1>3, <1>4, <1>5 DEF Course

LEMMA CourseRestart == ASSUME Course, Restart PROVE Course'
  <1>1. /\ text' \in Texts /\ start' = 0 /\ carry' = <<>> /\ made' = <<>> /\ window' = <<>>
        /\ attempt' = attempt + 1 /\ attempt < MaxAttempts /\ at' = "window"
    BY DEF Restart, Course, Place
  <1>2. (Place /\ Clean /\ Covered /\ \A i \in 1..Len(made) : Fits(made, i))'
    <2>1. (text \in Texts /\ start = 0 /\ carry = <<>> /\ made = <<>>)'
      BY <1>1
    <2> QED BY <2>1, NothingMade, PTL
  <1>3. attempt' \in 1..MaxAttempts
    BY <1>1, IndexerAssumption DEF Course
  <1>4. window' \in Seq(Chunk') /\ made' \in Seq(Chunk')
    BY <1>1
  <1> QED BY <1>1, <1>2, <1>3, <1>4 DEF Course

LEMMA CourseStep == ASSUME Course, [Next]_vars PROVE Course'
  <1>1. CASE UNCHANGED vars
    BY <1>1, CourseKept DEF vars, position
  <1>2. CASE Window
    BY <1>2, CourseWindow
  <1>3. CASE Indexed
    <2>1. UNCHANGED <<text, attempt, position>> /\ start >= Size(text)
      BY <1>3 DEF Indexed
    <2> QED BY <2>1, CourseKept
  <1>4. CASE Embed \/ Settle \/ SettleLast \/ Fail \/ Upsert \/ Index
    <2>1. UNCHANGED <<text, attempt, position>> /\ (at' = "indexed" => at = "indexed")
      BY <1>4 DEF Embed, Settle, SettleLast, Fail, Upsert, Index
    <2> QED BY <2>1, CourseKept
  <1>5. CASE Redeliver \/ Crash
    BY <1>5, CourseRestart DEF Redeliver, Crash
  <1> QED BY <1>1, <1>2, <1>3, <1>4, <1>5 DEF Next

LEMMA CourseType == ASSUME Course, Account PROVE TypeOK
  <1>1. /\ text \in Texts /\ start \in Offsets /\ Len(carry) \in Nat /\ Len(carry) <= Rune(start)
        /\ carry = Stretch(Rune(start) - Len(carry), Len(carry))
    BY DEF Course, Place
  <1>2. N(text) \in Nat /\ Rune(start) \in 0..N(text)
    BY <1>1, OffsetsAre
  <1>3. carry \in Seq(1..N(text))
    <2> DEFINE w == Len(carry)
               b == Rune(start) - w
    <2>1. w \in Nat /\ b \in Nat /\ b + w <= N(text)
      BY <1>1, <1>2
    <2>2. carry = [k \in 1..w |-> b + k]
      BY <1>1 DEF Stretch
    <2> HIDE DEF w, b
    <2> DEFINE S == 1..N(text)
    <2>3. carry \in [1..w -> S]
      BY <1>2, <2>1, <2>2
    <2> HIDE DEF S
    <2>4. carry \in Seq(S)
      BY <2>1, <2>3
    <2> QED BY <2>4 DEF S
  <1>4. /\ attempt \in 1..MaxAttempts
        /\ window \in Seq([first : 1..N(text), last : 1..N(text), span : Nat \X Nat])
        /\ made \in Seq([first : 1..N(text), last : 1..N(text), span : Nat \X Nat])
    BY DEF Course, Chunk
  <1>5. /\ at \in Steps /\ batch \in 0..Len(window) /\ written \in 0..Len(made)
        /\ inflight.at \in WriteSteps
        /\ inflight.lo <= inflight.hi /\ inflight.hi <= Len(made)
    BY DEF Account, Books, Writes
  <1> QED BY <1>1, <1>3, <1>4, <1>5 DEF TypeOK, Offsets

\* At the end of the text every letter is behind, and all that was made is written.
LEMMA CourseComplete == ASSUME Course, Account PROVE IndexedIsComplete
  <1> SUFFICES ASSUME at = "indexed", NEW r \in Letters
               PROVE  \E i \in DOMAIN made : r \in made[i].first..made[i].last /\ InBoth(i)
    BY DEF IndexedIsComplete
  <1>1. text \in Texts /\ start \in Offsets /\ start >= Size(text)
    BY DEF Course, Place
  <1>2. Rune(start) = N(text) /\ r <= N(text)
    <2>1. /\ Size(text) \in Nat /\ Rune(Size(text)) = N(text) /\ N(text) \in Nat
          /\ start \in Nat /\ start <= Size(text)
      BY <1>1, OffsetsAre
    <2>2. start = Size(text)
      BY <1>1, <2>1
    <2>3. r \in 1..N(text)
      BY <1>1, LetterIs
    <2> QED BY <2>1, <2>2, <2>3
  <1>3. PICK i \in 1..Len(made) : r \in made[i].first..made[i].last
    BY <1>2 DEF Course, Covered
  <1>4. written = Len(made) /\ DOMAIN made = 1..Len(made)
    <2>1. /\ Base + batch = written + (inflight.hi - inflight.lo)
          /\ inflight.at = "none" /\ batch = Len(window) /\ DOMAIN made = 1..Len(made)
      BY DEF Account, Books, Listing
    <2> QED BY <2>1, Lengths DEF Account
  <1>5. InBoth(i)
    BY <1>3, <1>4 DEF Account, Durable
  <1> QED BY <1>3, <1>4, <1>5

(* Every window of Process ends farther on in the text, wherever spaces, wide *)
(* runes and pages are: the part of EventuallyReturns that is about the text. *)
THEOREM WindowsGoOn == Spec => []WindowsAdvance
  <1>1. Init => Course
    BY CourseInit
  <1>2. Course /\ [Next]_vars => Course'
    BY CourseStep
  <1>3. Course => WindowsAdvance
    <2> SUFFICES ASSUME Course, start < Size(text) PROVE start < End
      BY DEF WindowsAdvance
    <2> QED BY EndIs DEF Course
  <1> QED BY <1>1, <1>2, <1>3, PTL DEF Spec

(* Windows start at runes of the text, what is carried and what is made lies  *)
(* in the text, and batches and counts never leave what was made.             *)
THEOREM TypeCorrect == Spec => []TypeOK
  <1>1. Init => Course /\ Account
    BY CourseInit, AccountInit
  <1>2. Course /\ Account /\ [Next]_vars => (Course /\ Account)'
    BY CourseStep, AccountStep
  <1>3. Course /\ Account => TypeOK
    BY CourseType
  <1> QED BY <1>1, <1>2, <1>3, PTL DEF Spec

(* Every letter of a document called indexed is in a chunk of the attempt      *)
(* that calls it so, and both stores hold that chunk: through windows, pages,  *)
(* carries, however the text is split, and whatever calls failed before.      *)
THEOREM IndexedComplete == Spec => []IndexedIsComplete
  <1>1. Init => Course /\ Account
    BY CourseInit, AccountInit
  <1>2. Course /\ Account /\ [Next]_vars => (Course /\ Account)'
    BY CourseStep, AccountStep
  <1>3. Course /\ Account => IndexedIsComplete
    BY CourseComplete
  <1> QED BY <1>1, <1>2, <1>3, PTL DEF Spec

(* In a text without repetitions LocateOffsets and windowBaseRune give each    *)
(* chunk its exact place in the document, or none when it begins where the     *)
(* chunk before it does; and no chunk has letters from both sides of a page    *)
(* boundary as Process knows them, nor of two pages where the pages begin at   *)
(* these boundaries.                                                           *)
THEOREM ProvenanceExact == Spec => []ProvenanceIsExact
  <1>1. Init => Course
    BY CourseInit
  <1>2. Course /\ [Next]_vars => Course'
    BY CourseStep
  <1>3. Course => ProvenanceIsExact
    <2> SUFFICES ASSUME Course PROVE ProvenanceIsExact
      OBVIOUS
    <2>1. DOMAIN made = 1..Len(made) /\ \A i \in 1..Len(made) : Fits(made, i)
      BY DEF Course
    <2> QED BY <2>1 DEF Fits, SamePage, ProvenanceIsExact
  <1> QED BY <1>1, <1>2, <1>3, PTL DEF Spec
=============================================================================
