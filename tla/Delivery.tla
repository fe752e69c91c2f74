------------------------------ MODULE Delivery ------------------------------
(***************************************************************************)
(* What the engine promises to those who watch while it downloads: a film  *)
(* somebody asked for arrives in the order it is watched, nothing arrives  *)
(* of a film nobody asked for, and what is in the files was delivered.     *)
(*                                                                         *)
(* It has no ids, handles, priorities, alerts, threads or settings;        *)
(* module Streamerok, which has them, implements it.                       *)
(***************************************************************************)
EXTENDS Pieces

CONSTANTS
    Torrents,
    FileFirst,      \* the pieces the selected file starts and ends in
    FileLast

VARIABLES
    from,   \* torrent -> the first pieces wanted by those who asked for it
    have,   \* torrent -> pieces it has
    disk    \* torrent -> pieces in its files

vars == <<from, have, disk>>

Empty == [t \in Torrents |-> {}]

Init == from = Empty /\ have = Empty /\ disk = Empty

(* A piece is due if it is one of the two at the end of the film, which    *)
(* hold the index of a movie, or in a window that begins no later than the *)
(* first gap somebody who asked would run into.                            *)
InTurn(t, p) ==
    \/ p \in {FileLast - 1, FileLast}
    \/ \E f \in from[t] :
          /\ p \in f .. FileLast - 1
          /\ \A gap \in Missing(have[t], f, FileLast) : p < gap + MAX_PRIORITY_PIECES

(* Somebody asks for the torrent, from some piece of the film on.          *)
Begin(t, f) ==
    /\ from' = [from EXCEPT ![t] = @ \cup {f}]
    /\ UNCHANGED <<have, disk>>

Stop(t) ==
    /\ from' = [from EXCEPT ![t] = {}]
    /\ have' = [have EXCEPT ![t] = {}]
    /\ UNCHANGED disk

Gets(t, p) ==
    /\ from[t] # {}
    /\ have' = [have EXCEPT ![t] = @ \cup {p}]
    /\ UNCHANGED from

(* A piece that was delivered before is found in the files.                *)
Find(t, p) ==
    /\ p \in disk[t] \ have[t]
    /\ Gets(t, p)
    /\ UNCHANGED disk

(* A piece arrives; the files may be gone.                                 *)
Deliver(t, p) ==
    /\ InTurn(t, p) /\ p \notin have[t]
    /\ Gets(t, p)
    /\ disk' \in {disk, [disk EXCEPT ![t] = @ \cup {p}]}

Shrinks == \A t \in Torrents : disk'[t] \subseteq disk[t]

(* The files of other torrents, or all, are deleted.                       *)
Clear ==
    /\ disk' \in [Torrents -> SUBSET Piece]
    /\ Shrinks
    /\ UNCHANGED <<from, have>>

Crash ==
    /\ from' = Empty
    /\ have' = Empty
    /\ disk' \in [Torrents -> SUBSET Piece]
    /\ Shrinks

Next ==
    \/ \E t \in Torrents :
          \/ \E f \in FileFirst .. NPieces : Begin(t, f)
          \/ Stop(t)
          \/ \E p \in Piece : Find(t, p) \/ Deliver(t, p)
    \/ Clear
    \/ Crash

Spec == Init /\ [][Next]_vars
=============================================================================
