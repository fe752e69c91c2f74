------------------------------- MODULE Pieces -------------------------------
(***************************************************************************)
(* Which pieces of a torrent the engine asks for, and what it reads off a  *)
(* bitfield.  A bitfield is the set `have' of the pieces that are          *)
(* complete; `first' and `last' are tAux::fileFirstPiece and               *)
(* tAux::fileLastPiece, the pieces the selected file starts and ends in.   *)
(*                                                                         *)
(* These are closed forms of the loops of streamerok.cpp; PieceLoops steps *)
(* through the loops and PieceLoopsProofs shows that they agree.           *)
(***************************************************************************)
EXTENDS Integers, FiniteSetsExt

CONSTANTS
    NPieces,              \* pieces of a torrent (torrent_info::num_pieces)
    MAX_PRIORITY_PIECES,  \* pieces of the window asked for ahead of the gap
    MIN_START_PIECES      \* pieces that must be there before playback

ASSUME NPiecesAssumption ==
    /\ NPieces \in Nat \ {0}
    /\ MAX_PRIORITY_PIECES \in Nat \ {0}
    /\ MIN_START_PIECES \in Nat \ {0}

Piece == 0 .. NPieces - 1

(* The value of maxDownloadedPieceFromStartCount before the first scan.    *)
NoCount == -1

(* The pieces of the file the engine does not have.  The last one is left  *)
(* out: the loops all stop short of it, it is asked for on its own.        *)
Missing(have, first, last) == {i \in first .. last - 1 : i \notin have}

(* The pieces the constructor of tAux raises to priority 7: the end of the *)
(* file, which holds the index of a movie, and the first window.           *)
InitialWindow(first, last) ==
    Piece \cap ({last, last - 1}
                  \cup {i \in first .. first + MAX_PRIORITY_PIECES - 1 : i < last})

(* A definition named ...Bug is a definition of the model with a plausible *)
(* mistake in it: the property checked against it must fail.               *)
WindowBug(have, first, last) ==
    IF last \notin have
    THEN {}
    ELSE {i \in Missing(have, first, last) :
            i < first + MAX_PRIORITY_PIECES}

WindowUnboundBug(have, first, last) ==
    IF last \notin have THEN {} ELSE Missing(have, first, last)

(* The pieces tAux::prioritize raises to priority 7: nothing until the     *)
(* last piece is there, then what is missing in the window that starts at  *)
(* the first gap.                                                          *)
Window(have, first, last) ==
    IF last \notin have \/ Missing(have, first, last) = {}
    THEN {}
    ELSE {i \in Missing(have, first, last) :
            i < Min(Missing(have, first, last)) + MAX_PRIORITY_PIECES}

(* tAux::canGetUrl: the last piece and the first few pieces are there.     *)
CanGetUrl(have, first, last) ==
    /\ last \in have
    /\ \A i \in first .. last - 1 : i < first + MIN_START_PIECES => i \in have

(* Streamerok::maxDownloadedPieceFromStart: the scan starts at the count   *)
(* of the scan before and stops before the first gap; when it finds no gap *)
(* the count is left as it was.                                            *)
ScanStart(count) == IF count < 0 THEN 0 ELSE count

Gaps(have, count) == {i \in ScanStart(count) .. NPieces - 1 : i \notin have}

ScanPastEndBug(have, count) ==
    IF Gaps(have, count) = {} THEN NPieces ELSE Min(Gaps(have, count)) - 1

Scan(have, count) ==
    IF Gaps(have, count) = {} THEN ScanStart(count) ELSE Min(Gaps(have, count)) - 1

(* The first pieces of the torrent, up to and with piece n.                *)
HasPrefix(have, n) == \A i \in 0 .. n : i \in have
=============================================================================
