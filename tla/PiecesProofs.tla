---------------------------- MODULE PiecesProofs ----------------------------
(***************************************************************************)
(* What the closed forms of Pieces return, for any torrent and any window. *)
(* The proofs about the engine and about the loops cite these.             *)
(***************************************************************************)
EXTENDS Pieces, WellFoundedInduction, TLAPS

(* The least element of a set of piece numbers exists.                     *)
LEMMA MinIsLeast ==
    ASSUME NEW S \in SUBSET Nat, S # {}
    PROVE  Min(S) \in S /\ \A x \in S : Min(S) <= x
<1>1. PICK m \in S : \A x \in S : <<x, m>> \notin OpToRel(<, Nat)
  BY NatLessThanWellFounded, WFMin, Zenon
<1>2. \A x \in S : m <= x
  <2>1. \A x \in S : ~(x < m)
    <3>1. S \subseteq Nat
      OBVIOUS
    <3> QED
      BY <1>1, <3>1, Zenon DEF OpToRel
  <2> QED
    BY <2>1
<1>3. \E x \in S : \A y \in S : x =< y
  BY <1>2
<1> QED
  BY <1>3 DEF Min

(* A scan that starts from a count it may have returned, or from none,     *)
(* returns one (streamerok.cpp 322-334).                                   *)
LEMMA ScanType ==
    ASSUME NEW have \in SUBSET Piece, NEW count \in NoCount .. NPieces - 1
    PROVE  Scan(have, count) \in NoCount .. NPieces - 1
<1> USE NPiecesAssumption DEF NoCount, ScanStart
<1>1. Gaps(have, count) \in SUBSET Nat
  BY DEF Gaps
<1>2. CASE Gaps(have, count) = {}
  BY <1>2 DEF Scan
<1>3. CASE Gaps(have, count) # {}
  <2>1. Min(Gaps(have, count)) \in Gaps(have, count)
    BY <1>1, <1>3, MinIsLeast
  <2>2. Min(Gaps(have, count)) \in 0 .. NPieces - 1
    BY <2>1 DEF Gaps
  <2> QED
    BY <1>3, <2>2 DEF Scan
<1> QED
  BY <1>2, <1>3

(* In a torrent of two or more pieces a scan never arrives at the last     *)
(* piece: with a gap it stops before it, without one it stays where it was *)
(* (streamerok.cpp 329-334).                                               *)
LEMMA ScanStaysShort ==
    ASSUME NPieces > 1,
           NEW have \in SUBSET Piece,
           NEW count \in NoCount .. NPieces - 1, count < NPieces - 1
    PROVE  Scan(have, count) < NPieces - 1
<1> USE NPiecesAssumption DEF NoCount, ScanStart
<1>1. Gaps(have, count) \in SUBSET Nat
  BY DEF Gaps
<1>2. CASE Gaps(have, count) = {}
  BY <1>2 DEF Scan
<1>3. CASE Gaps(have, count) # {}
  <2>1. Min(Gaps(have, count)) \in Gaps(have, count)
    BY <1>1, <1>3, MinIsLeast
  <2>2. Min(Gaps(have, count)) \in 0 .. NPieces - 1
    BY <2>1 DEF Gaps
  <2> QED
    BY <1>3, <2>2 DEF Scan
<1> QED
  BY <1>2, <1>3

(* If the pieces up to the count a scan starts from are there, so are      *)
(* those up to the count it returns (streamerok.cpp 322-334).              *)
LEMMA ScanKeepsPrefix ==
    ASSUME NEW have \in SUBSET Piece, NEW count \in NoCount .. NPieces - 1,
           HasPrefix(have, count)
    PROVE  HasPrefix(have, Scan(have, count))
<1> USE NPiecesAssumption DEF NoCount, ScanStart
<1>1. Gaps(have, count) \in SUBSET Nat
  BY DEF Gaps
<1>2. CASE Gaps(have, count) = {}
  <2>1. CASE count < 0
    <3>1. 0 \in have
      BY <1>2, <2>1 DEF Gaps
    <3> QED
      BY <1>2, <2>1, <3>1 DEF Scan, HasPrefix
  <2>2. CASE ~(count < 0)
    BY <1>2, <2>2 DEF Scan
  <2> QED
    BY <2>1, <2>2
<1>3. CASE Gaps(have, count) # {}
  <2> DEFINE gap == Min(Gaps(have, count))
  <2>1. gap \in Gaps(have, count) /\ \A x \in Gaps(have, count) : gap <= x
    BY <1>1, <1>3, MinIsLeast
  <2>2. gap \in 0 .. NPieces - 1 /\ Scan(have, count) = gap - 1
    BY <1>3, <2>1 DEF Gaps, Scan
  <2> HIDE DEF gap
  <2>3. ASSUME NEW i \in 0 .. gap - 1 PROVE i \in have
    <3>1. i \notin Gaps(have, count)
      BY <2>1, <2>2
    <3>2. CASE i < ScanStart(count)
      BY <3>2 DEF HasPrefix
    <3>3. CASE ~(i < ScanStart(count))
      BY <2>2, <3>1, <3>3 DEF Gaps
    <3> QED
      BY <3>2, <3>3
  <2> QED
    BY <2>2, <2>3 DEF HasPrefix
<1> QED
  BY <1>2, <1>3

(* What prioritize asks for is missing, and less than a window beyond any  *)
(* gap at or after the first piece (streamerok.cpp 114-124).               *)
LEMMA WindowFollowsGap ==
    ASSUME NEW have \in SUBSET Piece, NEW first \in Nat, NEW last \in Piece,
           NEW p \in Window(have, first, last)
    PROVE  /\ p \in Missing(have, first, last)
           /\ p < Min(Missing(have, first, last)) + MAX_PRIORITY_PIECES
BY DEF Window

(* As long as the last piece is there and the file has a gap, prioritize   *)
(* asks for the first gap (streamerok.cpp 109, 114-124).                   *)
LEMMA WindowHasGap ==
    ASSUME NEW have \in SUBSET Piece, NEW first \in Nat, NEW last \in Piece,
           last \in have, Missing(have, first, last) # {}
    PROVE  Min(Missing(have, first, last)) \in Window(have, first, last)
<1> USE NPiecesAssumption
<1>1. Missing(have, first, last) \in SUBSET Nat
  BY DEF Missing, Piece
<1>2. Min(Missing(have, first, last)) \in Missing(have, first, last)
  BY <1>1, MinIsLeast
<1> QED
  BY <1>1, <1>2 DEF Window

(* Nothing outside the torrent is asked for.                               *)
LEMMA WindowType ==
    ASSUME NEW have \in SUBSET Piece, NEW first \in Nat, NEW last \in Piece
    PROVE  Window(have, first, last) \in SUBSET Piece
BY NPiecesAssumption DEF Window, Missing, Piece

(* The window of a new entry lies within the torrent.                      *)
LEMMA InitialWindowType ==
    ASSUME NEW first \in Nat, NEW last \in Piece
    PROVE  InitialWindow(first, last) \in SUBSET Piece /\ last \in InitialWindow(first, last)
BY DEF InitialWindow
=============================================================================
