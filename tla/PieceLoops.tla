----------------------------- MODULE PieceLoops -----------------------------
(***************************************************************************)
(* The three loops of streamerok.cpp that walk over the pieces, one        *)
(* iteration per step, while the threads of libtorrent go on completing    *)
(* pieces.  tAux::prioritize and tAux::canGetUrl ask the torrent about     *)
(* each piece at the moment they reach it (have_piece); the scan of        *)
(* maxDownloadedPieceFromStart, and the test of the last piece in          *)
(* canGetUrl, read a copy of the bitfield (`pieces').                      *)
(***************************************************************************)
EXTENDS Pieces

VARIABLES
    op,             \* the function that runs
    first, last,    \* fileFirstPiece, fileLastPiece
    count,          \* maxDownloadedPieceFromStartCount
    have,           \* the pieces the torrent has now
    pieces,         \* the bitfield copied when the function was entered
    pc,             \* "loop" or "done"
    i,              \* the loop variable
    latestPiece,    \* prioritize: where the window ends
    piecesToSet,    \* prioritize: what is left of the window;
                    \* canGetUrl: the pieces counted
    priority,       \* prioritize: the pieces raised to priority 7
    result          \* canGetUrl: what it returns

inputs == <<op, first, last, pieces>>
vars == <<inputs, count, have, pc, i, latestPiece, piecesToSet, priority, result>>

Ops == {"prioritize", "canGetUrl", "scan"}

TypeOK ==
    /\ op \in Ops
    /\ first \in Nat
    /\ last \in Piece
    /\ count \in NoCount .. NPieces - 1
    /\ have \subseteq Piece
    /\ pieces \subseteq have
    /\ pc \in {"loop", "done"}
    /\ i \in 0 .. NPieces
    /\ latestPiece \in Nat
    /\ piecesToSet \in Nat
    /\ priority \subseteq Piece
    /\ result \in BOOLEAN

-----------------------------------------------------------------------------
(* A call: the early returns are taken at once, else the loop is set up.   *)
(* The first piece may lie beyond the last: the constructor of tAux raises *)
(* it above the stored maxBlock.                                           *)
Init ==
    /\ op \in Ops
    /\ first \in 0 .. NPieces
    /\ last \in Piece
    /\ have \in SUBSET Piece
    /\ pieces = have
    /\ count \in IF op = "scan" THEN {NoCount} \cup Piece ELSE {NoCount}
    /\ pc = IF op # "scan" /\ last \notin have THEN "done" ELSE "loop"
    /\ i = IF op = "scan" THEN ScanStart(count) ELSE first
    /\ latestPiece = last
    /\ piecesToSet = IF op = "prioritize" THEN MAX_PRIORITY_PIECES ELSE 0
    /\ priority = {}
    /\ result = FALSE

SamePieceBug == i
NextPiece == i + 1

ShortOfLastBug == i < last - 1 /\ i < latestPiece /\ piecesToSet > 0
BudgetBug == i < last /\ i < latestPiece /\ piecesToSet > 1

(* The header of the loop of prioritize.                                   *)
PrioritizeGoesOn == i < last /\ i < latestPiece /\ piecesToSet > 0

WindowEndBug == latestPiece

(* The first gap found decides where the window ends.                      *)
WindowEnd == IF latestPiece >= last THEN i + MAX_PRIORITY_PIECES ELSE latestPiece

PrioritizeStep ==
    /\ op = "prioritize" /\ pc = "loop"
    /\ IF ~PrioritizeGoesOn
       THEN pc' = "done" /\ UNCHANGED <<i, latestPiece, piecesToSet, priority>>
       ELSE /\ i' = NextPiece
            /\ IF i \in have
               THEN UNCHANGED <<latestPiece, piecesToSet, priority>>
               ELSE /\ latestPiece' = WindowEnd
                    /\ priority' = priority \cup {i}
                    /\ piecesToSet' = piecesToSet - 1
            /\ UNCHANGED pc
    /\ UNCHANGED <<inputs, have, count, result>>

EnoughBug == piecesToSet + 2 >= MIN_START_PIECES
Enough == piecesToSet + 1 >= MIN_START_PIECES

CanGetUrlStep ==
    /\ op = "canGetUrl" /\ pc = "loop"
    /\ IF i >= last
       THEN pc' = "done" /\ result' = TRUE /\ UNCHANGED <<i, piecesToSet>>
       ELSE IF i \notin have
       THEN pc' = "done" /\ result' = FALSE /\ UNCHANGED <<i, piecesToSet>>
       ELSE /\ piecesToSet' = piecesToSet + 1
            /\ i' = NextPiece
            /\ IF Enough
               THEN pc' = "done" /\ result' = TRUE
               ELSE UNCHANGED <<pc, result>>
    /\ UNCHANGED <<inputs, have, count, latestPiece, priority>>

BeforeGapBug == i
BeforeGapTwiceBug == i - 2
BeforeGap == i - 1

ScanStep ==
    /\ op = "scan" /\ pc = "loop"
    /\ IF i >= NPieces
       THEN pc' = "done" /\ count' = ScanStart(count) /\ UNCHANGED i
       ELSE IF i \notin pieces
       THEN pc' = "done" /\ count' = BeforeGap /\ UNCHANGED i
       ELSE i' = NextPiece /\ UNCHANGED <<pc, count>>
    /\ UNCHANGED <<inputs, have, latestPiece, piecesToSet, priority, result>>

(* libtorrent completes a piece while the loop runs.                       *)
PieceArrives(p) ==
    /\ pc = "loop"
    /\ p \notin have
    /\ have' = have \cup {p}
    /\ UNCHANGED <<inputs, count, pc, i, latestPiece, piecesToSet, priority, result>>

Next ==
    \/ PrioritizeStep
    \/ CanGetUrlStep
    \/ ScanStep
    \/ \E p \in Piece : PieceArrives(p)

Spec == Init /\ [][Next]_vars /\ WF_vars(PrioritizeStep \/ CanGetUrlStep \/ ScanStep)

-----------------------------------------------------------------------------
Done(f) == op = f /\ pc = "done"

(* prioritize leaves no gap behind: when it returns, the first gap has     *)
(* been asked for, unless a piece it asked for was completed during the    *)
(* loop, and that piece posts an alert which runs prioritize again         *)
(* (streamerok.cpp 114-124, 584-593).                                      *)
FirstGapRequested ==
    /\ Done("prioritize")
    /\ last \in pieces
    /\ Missing(have, first, last) # {}
    => \/ Min(Missing(have, first, last)) \in priority
       \/ priority \cap have # {}

(* With no piece completed meanwhile the loop asks for exactly the window. *)
RequestsTheWindow ==
    Done("prioritize") /\ have = pieces => priority = Window(pieces, first, last)

(* Whatever arrives meanwhile, everything asked for was missing when the   *)
(* call began and lies less than a window apart, so the budget piecesToSet *)
(* is never what stops the loop.                                           *)
RequestsOneWindow ==
    \A p, q \in priority :
        p \in Missing(pieces, first, last) /\ q - p < MAX_PRIORITY_PIECES

(* canGetUrl never answers yes while a piece the player starts with is     *)
(* missing, and answers no only if one was missing when it was entered.    *)
ReadyIsSound ==
    Done("canGetUrl") => /\ result => CanGetUrl(have, first, last)
                         /\ CanGetUrl(pieces, first, last) => result

(* The scan returns the last piece before the first gap of the copy it     *)
(* took, whatever arrives while it runs.                                   *)
ScanStopsAtGap ==
    [][op = "scan" /\ pc = "loop" /\ pc' = "done" => count' = Scan(pieces, count)]_vars

(* Every call returns, with pieces arriving or not.                        *)
CallReturns == <>(pc = "done")
=============================================================================
