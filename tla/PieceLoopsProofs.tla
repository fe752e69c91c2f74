-------------------------- MODULE PieceLoopsProofs --------------------------
(***************************************************************************)
(* The three loops do what the closed forms of Pieces say, for any number  *)
(* of pieces, any window and any pieces that arrive meanwhile.             *)
(***************************************************************************)
EXTENDS PieceLoops, PiecesProofs

USE NPiecesAssumption

(* The loop of prioritize: what was passed over is there or was asked for. *)
(* Everything asked for lies in the window that begins at the first piece  *)
(* m asked for, and the budget left covers the rest of that window.        *)
WindowFrom(m) ==
    /\ \A q \in priority : m <= q /\ q < m + MAX_PRIORITY_PIECES
    /\ latestPiece = m + MAX_PRIORITY_PIECES
         \/ (latestPiece >= last /\ last <= m + MAX_PRIORITY_PIECES)
    /\ piecesToSet >= m + MAX_PRIORITY_PIECES - i

PrioritizeInv ==
    op = "prioritize" /\ last \in pieces =>
        /\ first <= i
        /\ priority \subseteq Missing(pieces, first, last) \cap (0 .. i - 1)
        /\ \A q \in first .. i - 1 : q \in have \cup priority
        /\ priority = {} => latestPiece = last /\ piecesToSet = MAX_PRIORITY_PIECES
        /\ priority # {} => \E m \in priority : WindowFrom(m)
        /\ pc = "done" => ~PrioritizeGoesOn

NotEntered ==
    /\ op # "prioritize" => priority = {}
    /\ op # "scan" /\ last \notin pieces => pc = "done" /\ priority = {} /\ ~result

(* The loop of canGetUrl: what was passed over is there.                   *)
CanGetUrlInv ==
    op = "canGetUrl" /\ last \in pieces =>
        /\ piecesToSet = i - first
        /\ \A q \in first .. i - 1 : q \in have
        /\ pc = "loop" => piecesToSet < MIN_START_PIECES /\ ~result
        /\ pc = "done" /\ result => i >= last \/ piecesToSet >= MIN_START_PIECES
        /\ pc = "done" /\ ~result => ~CanGetUrl(pieces, first, last)

(* The loop of the scan: what was passed over was in the bitfield.         *)
ScanInv ==
    op = "scan" /\ pc = "loop" =>
        /\ ScanStart(count) <= i
        /\ \A q \in ScanStart(count) .. i - 1 : q \in pieces

LoopInv ==
    /\ TypeOK
    /\ NotEntered
    /\ PrioritizeInv
    /\ CanGetUrlInv
    /\ ScanInv

-----------------------------------------------------------------------------
(* Every call starts in the invariant.                                     *)
LEMMA LoopInit == Init => LoopInv
<1> SUFFICES ASSUME Init PROVE LoopInv
  OBVIOUS
<1>1. TypeOK
  <2>1. count \in NoCount .. NPieces - 1 /\ NPieces \in Nat
    BY DEF Init, NoCount, Piece
  <2>2. i \in 0 .. NPieces
    BY <2>1 DEF Init, ScanStart, NoCount
  <2>3. pc \in {"loop", "done"} /\ latestPiece \in Nat /\ piecesToSet \in Nat
    BY DEF Init, Piece
  <2>4. /\ op \in Ops /\ first \in Nat /\ last \in Piece
        /\ have \in SUBSET Piece /\ pieces = have
        /\ priority = {} /\ result = FALSE
    BY <2>1 DEF Init
  <2> QED
    BY <2>1, <2>2, <2>3, <2>4 DEF TypeOK
<1>2. NotEntered
  BY DEF Init, NotEntered
<1>3. PrioritizeInv
  BY <1>1 DEF Init, PrioritizeInv, TypeOK
<1>4. CanGetUrlInv
  BY <1>1 DEF Init, CanGetUrlInv, TypeOK
<1>5. ScanInv
  BY <1>1 DEF Init, ScanInv, TypeOK, ScanStart, NoCount
<1> QED
  BY <1>1, <1>2, <1>3, <1>4, <1>5 DEF LoopInv

(* An iteration of prioritize keeps the invariant.                         *)
LEMMA PrioritizeKeepsInv ==
    ASSUME LoopInv, PrioritizeStep
    PROVE  LoopInv'
<1> USE DEF LoopInv, inputs
<1>0. /\ op = "prioritize" /\ pc = "loop" /\ last \in pieces
      /\ UNCHANGED <<op, first, last, pieces, have, count, result>>
  BY DEF PrioritizeStep, NotEntered
<1>t. /\ first \in Nat /\ last \in Nat /\ i \in Nat /\ latestPiece \in Nat
      /\ piecesToSet \in Nat /\ last \in Piece /\ last <= NPieces - 1
      /\ MAX_PRIORITY_PIECES \in Nat /\ MAX_PRIORITY_PIECES > 0
      /\ \A q \in priority : q \in Nat
      /\ have \subseteq Piece /\ pieces \subseteq have /\ priority \subseteq Piece
  BY DEF TypeOK, Piece
<1>n. NotEntered' /\ CanGetUrlInv' /\ ScanInv'
  BY <1>0 DEF NotEntered, CanGetUrlInv, ScanInv
<1>1. CASE ~PrioritizeGoesOn
  <2>1. pc' = "done" /\ UNCHANGED <<i, latestPiece, piecesToSet, priority>>
    BY <1>1 DEF PrioritizeStep
  <2>2. TypeOK'
    BY <1>0, <2>1 DEF TypeOK
  <2>3. PrioritizeInv'
    BY <1>0, <1>1, <2>1 DEF PrioritizeInv, WindowFrom, PrioritizeGoesOn
  <2> QED
    BY <1>n, <2>2, <2>3
<1>2. CASE PrioritizeGoesOn /\ i \in have
  <2>1. i' = i + 1 /\ UNCHANGED <<pc, latestPiece, piecesToSet, priority>>
    BY <1>2 DEF PrioritizeStep, NextPiece
  <2>2. i < last
    BY <1>2 DEF PrioritizeGoesOn
  <2>3. TypeOK'
    BY <1>0, <1>t, <2>1, <2>2 DEF TypeOK
  <2>4. PrioritizeInv'
    <3>1. priority # {} => \E m \in priority : WindowFrom(m)'
      <4> SUFFICES ASSUME NEW m \in priority, WindowFrom(m)
                   PROVE  WindowFrom(m)'
        BY <1>0 DEF PrioritizeInv
      <4> QED
        BY <1>0, <1>t, <2>1 DEF WindowFrom
    <3>2. \A q \in first .. i' - 1 : q \in have \cup priority
      BY <1>0, <1>2, <1>t, <2>1 DEF PrioritizeInv
    <3> QED
      BY <1>0, <1>t, <2>1, <3>1, <3>2 DEF PrioritizeInv
  <2> QED
    BY <1>n, <2>3, <2>4
<1>3. CASE PrioritizeGoesOn /\ i \notin have
  <2>1. /\ i' = i + 1 /\ pc' = pc
        /\ latestPiece' = WindowEnd
        /\ priority' = priority \cup {i}
        /\ piecesToSet' = piecesToSet - 1
    BY <1>3 DEF PrioritizeStep, NextPiece
  <2>2. i < last /\ i < latestPiece /\ piecesToSet > 0
    BY <1>3 DEF PrioritizeGoesOn
  <2>3. TypeOK'
    BY <1>0, <1>t, <2>1, <2>2 DEF TypeOK, WindowEnd, Piece
  <2>4. PrioritizeInv'
    <3>1. \E m \in priority' : WindowFrom(m)'
      <4>1. CASE priority = {}
        <5>1. latestPiece = last /\ piecesToSet = MAX_PRIORITY_PIECES
          BY <1>0, <4>1 DEF PrioritizeInv
        <5>2. PICK m : m = i
          OBVIOUS
        <5>3. WindowFrom(m)'
          BY <1>0, <1>t, <2>1, <4>1, <5>1, <5>2 DEF WindowFrom, WindowEnd
        <5> QED
          BY <2>1, <5>2, <5>3
      <4>2. CASE priority # {}
        <5>1. PICK m \in priority : WindowFrom(m)
          BY <1>0, <4>2 DEF PrioritizeInv
        <5>2. m <= i
          BY <1>0, <1>t DEF PrioritizeInv
        <5>3. i < m + MAX_PRIORITY_PIECES
          BY <1>t, <2>2, <5>1 DEF WindowFrom
        <5>4. WindowFrom(m)'
          BY <1>0, <1>t, <2>1, <2>2, <5>1, <5>2, <5>3 DEF WindowFrom, WindowEnd
        <5> QED
          BY <2>1, <5>4
      <4> QED
        BY <4>1, <4>2
    <3>2. priority' \subseteq Missing(pieces, first, last) \cap (0 .. i' - 1)
      <4>1. i \in Missing(pieces, first, last)
        BY <1>0, <1>3, <1>t, <2>2 DEF PrioritizeInv, Missing
      <4> QED
        BY <1>0, <1>t, <2>1, <4>1 DEF PrioritizeInv
    <3>3. \A q \in first .. i' - 1 : q \in have \cup priority'
      BY <1>0, <1>t, <2>1 DEF PrioritizeInv
    <3> QED
      BY <1>0, <1>t, <2>1, <3>1, <3>2, <3>3 DEF PrioritizeInv
  <2> QED
    BY <1>n, <2>3, <2>4
<1> QED
  BY <1>1, <1>2, <1>3

(* An iteration of canGetUrl keeps the invariant.                          *)
LEMMA CanGetUrlKeepsInv ==
    ASSUME LoopInv, CanGetUrlStep
    PROVE  LoopInv'
<1> USE DEF LoopInv, inputs
<1>0. /\ op = "canGetUrl" /\ pc = "loop" /\ last \in pieces
      /\ UNCHANGED <<op, first, last, pieces, have, count, latestPiece, priority>>
  BY DEF CanGetUrlStep, NotEntered
<1>t. /\ first \in Nat /\ last \in Nat /\ i \in Nat /\ piecesToSet \in Nat
      /\ last <= NPieces - 1 /\ MIN_START_PIECES \in Nat
      /\ have \subseteq Piece /\ pieces \subseteq have
  BY DEF TypeOK, Piece
<1>i. /\ piecesToSet = i - first /\ piecesToSet < MIN_START_PIECES
      /\ \A q \in first .. i - 1 : q \in have
  BY <1>0 DEF CanGetUrlInv
<1>n. NotEntered' /\ PrioritizeInv' /\ ScanInv'
  BY <1>0 DEF NotEntered, PrioritizeInv, ScanInv
<1>1. CASE i >= last
  BY <1>0, <1>1, <1>i, <1>n DEF CanGetUrlStep, CanGetUrlInv, TypeOK
<1>2. CASE i < last /\ i \notin have
  <2>1. pc' = "done" /\ result' = FALSE /\ UNCHANGED <<i, piecesToSet>>
    BY <1>2, <1>t DEF CanGetUrlStep
  <2>2. ~CanGetUrl(pieces, first, last)
    BY <1>2, <1>i, <1>t DEF CanGetUrl
  <2>3. TypeOK' /\ CanGetUrlInv'
    BY <1>0, <1>i, <2>1, <2>2 DEF CanGetUrlInv, TypeOK
  <2> QED
    BY <1>n, <2>3
<1>3. CASE i < last /\ i \in have
  <2>1. /\ piecesToSet' = piecesToSet + 1
        /\ i' = i + 1
        /\ \/ piecesToSet + 1 >= MIN_START_PIECES /\ pc' = "done" /\ result' = TRUE
           \/ piecesToSet + 1 < MIN_START_PIECES /\ UNCHANGED <<pc, result>>
    BY <1>3, <1>t DEF CanGetUrlStep, Enough, NextPiece
  <2>2. TypeOK'
    <3>1. i' \in 0 .. NPieces /\ piecesToSet' \in Nat
      BY <1>3, <1>t, <2>1, NPiecesAssumption
    <3>2. pc' \in {"loop", "done"} /\ result' \in BOOLEAN
      BY <2>1 DEF TypeOK
    <3> QED
      BY <1>0, <3>1, <3>2 DEF TypeOK
  <2>3. \A q \in first .. i' - 1 : q \in have
    BY <1>3, <1>i, <1>t, <2>1
  <2>4. CanGetUrlInv'
    BY <1>0, <1>i, <1>t, <2>1, <2>3 DEF CanGetUrlInv
  <2> QED
    BY <1>n, <2>2, <2>4
<1> QED
  BY <1>1, <1>2, <1>3, <1>t

(* The scan step: it also sets the count to that of the closed form.       *)
LEMMA ScanKeepsInv ==
    ASSUME LoopInv, ScanStep
    PROVE  LoopInv' /\ (pc' = "done" => count' = Scan(pieces, count))
<1> USE DEF LoopInv, inputs
<1>0. /\ op = "scan" /\ pc = "loop"
      /\ UNCHANGED <<op, first, last, pieces, have, latestPiece, piecesToSet,
                     priority, result>>
  BY DEF ScanStep
<1>t. /\ i \in Nat /\ count \in NoCount .. NPieces - 1 /\ NPieces \in Nat
      /\ pieces \in SUBSET Piece /\ ScanStart(count) \in Nat
      /\ ScanStart(count) \in NoCount .. NPieces - 1
  BY DEF TypeOK, ScanStart, NoCount
<1>i. /\ ScanStart(count) <= i
      /\ \A q \in ScanStart(count) .. i - 1 : q \in pieces
  BY <1>0 DEF ScanInv
<1>n. NotEntered' /\ PrioritizeInv' /\ CanGetUrlInv'
  BY <1>0 DEF NotEntered, PrioritizeInv, CanGetUrlInv
<1>1. CASE i >= NPieces
  <2>1. pc' = "done" /\ count' = ScanStart(count) /\ i' = i
    BY <1>1 DEF ScanStep
  <2>2. Gaps(pieces, count) = {}
    BY <1>1, <1>i, <1>t DEF Gaps
  <2>3. TypeOK' /\ ScanInv'
    BY <1>0, <1>t, <2>1 DEF TypeOK, ScanInv
  <2> QED
    BY <1>n, <2>1, <2>2, <2>3 DEF Scan
<1>2. CASE i < NPieces /\ i \notin pieces
  <2>1. pc' = "done" /\ count' = i - 1 /\ i' = i
    BY <1>2, <1>t DEF ScanStep, BeforeGap
  <2>2. i \in Gaps(pieces, count) /\ \A q \in Gaps(pieces, count) : i <= q
    BY <1>2, <1>i, <1>t DEF Gaps
  <2>3. Min(Gaps(pieces, count)) = i
    <3>1. Gaps(pieces, count) \in SUBSET Nat
      BY <1>t DEF Gaps
    <3>2. /\ Min(Gaps(pieces, count)) \in Gaps(pieces, count)
          /\ Min(Gaps(pieces, count)) <= i
      BY <2>2, <3>1, MinIsLeast
    <3> QED
      BY <1>t, <2>2, <3>1, <3>2
  <2>4. TypeOK' /\ ScanInv'
    BY <1>0, <1>2, <1>t, <2>1 DEF TypeOK, ScanInv, NoCount
  <2> QED
    BY <1>n, <2>1, <2>2, <2>3, <2>4 DEF Scan
<1>3. CASE i < NPieces /\ i \in pieces
  <2>1. i' = i + 1 /\ pc' = pc /\ count' = count
    BY <1>3, <1>t DEF ScanStep, NextPiece
  <2>2. TypeOK'
    BY <1>0, <1>3, <1>t, <2>1 DEF TypeOK
  <2>3. \A q \in ScanStart(count) .. i' - 1 : q \in pieces
    BY <1>3, <1>i, <1>t, <2>1
  <2>4. ScanInv'
    BY <1>0, <1>i, <1>t, <2>1, <2>3 DEF ScanInv
  <2> QED
    BY <1>0, <1>n, <2>1, <2>2, <2>4
<1> QED
  BY <1>1, <1>2, <1>3, <1>t

(* A piece that arrives keeps the invariant: bitfields only grow.          *)
LEMMA ArrivalKeepsInv ==
    ASSUME LoopInv, NEW p \in Piece, PieceArrives(p)
    PROVE  LoopInv'
<1> USE DEF LoopInv, inputs
<1>1. /\ have' = have \cup {p} /\ pc = "loop"
      /\ UNCHANGED <<op, first, last, pieces, count, pc, i, latestPiece, piecesToSet,
                     priority, result>>
  BY DEF PieceArrives
<1>2. TypeOK'
  BY <1>1 DEF TypeOK
<1>3. PrioritizeInv' /\ CanGetUrlInv'
  BY <1>1 DEF PrioritizeInv, WindowFrom, CanGetUrlInv
<1> QED
  BY <1>1, <1>2, <1>3 DEF NotEntered, ScanInv

(* Every step keeps the invariant.                                         *)
LEMMA LoopStep ==
    ASSUME LoopInv, [Next]_vars
    PROVE  LoopInv'
<1>1. CASE UNCHANGED vars
  BY <1>1 DEF vars, inputs, LoopInv, TypeOK, NotEntered, PrioritizeInv, WindowFrom,
              PrioritizeGoesOn, CanGetUrlInv, ScanInv
<1> QED
  BY <1>1, PrioritizeKeepsInv, CanGetUrlKeepsInv, ScanKeepsInv, ArrivalKeepsInv DEF Next

(* So the invariant holds in every state of every call.                    *)
LEMMA LoopInvariant == Spec => []LoopInv
BY LoopInit, LoopStep, PTL DEF Spec

-----------------------------------------------------------------------------
(* The variables of the three loops stay in their ranges: none runs past   *)
(* the pieces (streamerok.cpp 114-124, 134-139, 329-334).                  *)
THEOREM TypeCorrect == Spec => []TypeOK
BY LoopInvariant, PTL DEF LoopInv

(* canGetUrl never answers yes while a piece the player starts with is     *)
(* missing, nor no while none was, whatever arrives meanwhile              *)
(* (streamerok.cpp 127-140).                                               *)
THEOREM ReadyCorrect == Spec => []ReadyIsSound
<1>1. LoopInv => ReadyIsSound
  <2> SUFFICES ASSUME LoopInv, Done("canGetUrl")
               PROVE  /\ result => CanGetUrl(have, first, last)
                      /\ CanGetUrl(pieces, first, last) => result
    BY DEF ReadyIsSound
  <2>1. /\ op = "canGetUrl" /\ pc = "done" /\ pieces \subseteq have
        /\ first \in Nat /\ last \in Nat /\ i \in Nat /\ result \in BOOLEAN
    BY NPiecesAssumption DEF Done, LoopInv, TypeOK, Piece
  <2>2. CASE last \notin pieces
    BY <2>1, <2>2 DEF LoopInv, NotEntered, CanGetUrl
  <2>3. CASE last \in pieces
    <3>1. result => CanGetUrl(have, first, last)
      BY <2>1, <2>3, NPiecesAssumption DEF LoopInv, CanGetUrlInv, CanGetUrl
    <3>2. ~result => ~CanGetUrl(pieces, first, last)
      BY <2>1, <2>3 DEF LoopInv, CanGetUrlInv
    <3> QED
      BY <3>1, <3>2
  <2> QED
    BY <2>2, <2>3
<1> QED
  BY <1>1, LoopInvariant, PTL

(* What prioritize asks for was missing when it began and spans less than  *)
(* one window, whatever arrives meanwhile (streamerok.cpp 111-124).        *)
THEOREM OneWindow == Spec => []RequestsOneWindow
<1>1. LoopInv => RequestsOneWindow
  <2> SUFFICES ASSUME LoopInv, NEW p \in priority, NEW q \in priority
               PROVE  p \in Missing(pieces, first, last) /\ q - p < MAX_PRIORITY_PIECES
    BY DEF RequestsOneWindow
  <2>1. priority \subseteq Nat /\ MAX_PRIORITY_PIECES \in Nat
    BY NPiecesAssumption DEF LoopInv, TypeOK, Piece
  <2>2. op = "prioritize" /\ last \in pieces
    BY DEF LoopInv, NotEntered, TypeOK, Ops
  <2>3. PICK m \in priority : WindowFrom(m)
    BY <2>2 DEF LoopInv, PrioritizeInv
  <2> QED
    BY <2>1, <2>2, <2>3 DEF LoopInv, PrioritizeInv, WindowFrom
<1> QED
  BY <1>1, LoopInvariant, PTL

(* When prioritize returns, it has asked for the first gap, unless a piece *)
(* it asked for has arrived (streamerok.cpp 114-124, 584-593).             *)
THEOREM NoGapLeftBehind == Spec => []FirstGapRequested
<1>1. LoopInv => FirstGapRequested
  <2> SUFFICES ASSUME LoopInv, Done("prioritize"), last \in pieces,
                      Missing(have, first, last) # {}, priority \cap have = {}
               PROVE  Min(Missing(have, first, last)) \in priority
    BY DEF FirstGapRequested
  <2> DEFINE g == Min(Missing(have, first, last))
  <2>1. /\ op = "prioritize" /\ pc = "done" /\ first \in Nat /\ last \in Nat /\ i \in Nat
        /\ latestPiece \in Nat /\ piecesToSet \in Nat
        /\ MAX_PRIORITY_PIECES \in Nat /\ MAX_PRIORITY_PIECES > 0
    BY NPiecesAssumption DEF Done, LoopInv, TypeOK, Piece
  <2>2. Missing(have, first, last) \in SUBSET Nat
    BY <2>1 DEF Missing
  <2>3. g \in Missing(have, first, last) /\ \A x \in Missing(have, first, last) : g <= x
    BY <2>2, MinIsLeast
  <2>4. g \in first .. last - 1 /\ g \notin have
    BY <2>3 DEF Missing
  <2>5. \A q \in first .. i - 1 : q \in have \cup priority
    BY <2>1 DEF LoopInv, PrioritizeInv
  <2>6. CASE priority = {}
    <3>1. i >= last
      BY <2>1, <2>6 DEF LoopInv, PrioritizeInv, PrioritizeGoesOn
    <3> QED
      BY <2>1, <2>4, <2>5, <3>1
  <2>7. CASE priority # {}
    <3>1. PICK m \in priority : m \in Missing(pieces, first, last) /\ m \in 0 .. i - 1
      BY <2>1, <2>7 DEF LoopInv, PrioritizeInv
    <3>2. m \in Missing(have, first, last)
      BY <3>1 DEF Missing
    <3>3. g <= m
      BY <2>3, <3>2
    <3> QED
      BY <2>1, <2>4, <2>5, <3>1, <3>3
  <2> QED
    BY <2>6, <2>7
<1> QED
  BY <1>1, LoopInvariant, PTL

(* With no piece arriving meanwhile prioritize asks for exactly the window *)
(* that the model of the engine uses (streamerok.cpp 106-125).             *)
THEOREM WindowExact == Spec => []RequestsTheWindow
<1>1. LoopInv => RequestsTheWindow
  <2> SUFFICES ASSUME LoopInv, Done("prioritize"), have = pieces
               PROVE  priority = Window(pieces, first, last)
    BY DEF RequestsTheWindow
  <2> DEFINE M == Missing(pieces, first, last)
  <2>1. /\ op = "prioritize" /\ pc = "done" /\ first \in Nat /\ last \in Nat /\ i \in Nat
        /\ latestPiece \in Nat /\ piecesToSet \in Nat
        /\ MAX_PRIORITY_PIECES \in Nat /\ MAX_PRIORITY_PIECES > 0
    BY NPiecesAssumption DEF Done, LoopInv, TypeOK, Piece
  <2>2. CASE last \notin pieces
    BY <2>1, <2>2 DEF LoopInv, NotEntered, Window
  <2>3. CASE last \in pieces
    <3>1. /\ priority \subseteq M \cap (0 .. i - 1)
          /\ \A q \in M : q < i => q \in priority
          /\ ~PrioritizeGoesOn
      BY <2>1, <2>3 DEF LoopInv, PrioritizeInv, Missing
    <3>2. M \in SUBSET Nat /\ \A q \in M : q < last
      BY <2>1 DEF Missing
    <3>3. CASE priority = {}
      <4>1. i >= last
        BY <2>1, <2>3, <3>1, <3>3 DEF LoopInv, PrioritizeInv, PrioritizeGoesOn
      <4>2. M = {}
        BY <2>1, <3>1, <3>2, <3>3, <4>1
      <4> QED
        BY <3>3, <4>2 DEF Window
    <3>4. CASE priority # {}
      <4>1. PICK m \in priority : WindowFrom(m)
        BY <2>1, <2>3, <3>4 DEF LoopInv, PrioritizeInv
      <4>2. m \in M /\ \A q \in M : m <= q
        BY <2>1, <3>1, <3>2, <4>1 DEF WindowFrom
      <4>3. Min(M) = m
        <5>1. Min(M) \in M /\ Min(M) <= m
          BY <3>2, <4>2, MinIsLeast
        <5> QED
          BY <3>2, <4>2, <5>1
      <4>4. i >= last \/ i >= m + MAX_PRIORITY_PIECES
        BY <2>1, <3>1, <3>2, <4>1, <4>2 DEF WindowFrom, PrioritizeGoesOn
      <4>5. \A q \in M : q \in priority <=> q < m + MAX_PRIORITY_PIECES
        BY <2>1, <3>1, <3>2, <4>1, <4>2, <4>4 DEF WindowFrom
      <4> QED
        BY <2>3, <3>1, <4>2, <4>3, <4>5 DEF Window
    <3> QED
      BY <3>3, <3>4
  <2> QED
    BY <2>2, <2>3
<1> QED
  BY <1>1, LoopInvariant, PTL

(* The scan returns what its closed form says of the bitfield it copied    *)
(* (streamerok.cpp 322-334).                                               *)
THEOREM ScanCorrect == Spec => ScanStopsAtGap
<1>1. LoopInv /\ [Next]_vars =>
        [op = "scan" /\ pc = "loop" /\ pc' = "done" => count' = Scan(pieces, count)]_vars
  BY ScanKeepsInv DEF Next, PrioritizeStep, CanGetUrlStep, PieceArrives, vars, inputs
<1> QED
  BY <1>1, LoopInvariant, PTL DEF Spec, ScanStopsAtGap
=============================================================================
