--------------------------- MODULE FileSelection ----------------------------
(***************************************************************************)
(* Which file of a torrent importTorrent downloads (streamerok.cpp         *)
(* 245-277), and the pieces the constructor of tAux works out for it: the  *)
(* FileFirst and FileLast of module Streamerok.  A film is the largest     *)
(* file that is no padding, but a file with the given name comes first.    *)
(***************************************************************************)
EXTENDS Integers

CONSTANTS
    Sizes,          \* the sizes of files
    MaxSize,        \* numeric_limits<int64_t>::max()
    PieceLength,    \* bytes of a piece
    MaxFiles        \* bound: files of a torrent

ASSUME FileSelectionAssumption ==
    /\ MaxSize \in Nat \ {0}
    /\ Sizes \subseteq 0 .. MaxSize
    /\ PieceLength \in Nat \ {0}
    /\ MaxFiles \in Nat

VARIABLES
    files,          \* index -> file: torrent_info::file_at
    num_files,
    total_size,
    pc,             \* "parse", "loop", then how the selection ended
    i,              \* the loop variable
    longestSize,
    longestIndex

torrent == <<files, num_files, total_size>>
vars == <<torrent, pc, i, longestSize, longestIndex>>

file_entry == [offset : Nat, size : Sizes, pad_file : BOOLEAN, named : BOOLEAN]

TypeOK ==
    /\ files \in [0 .. num_files - 1 -> file_entry]
    /\ num_files \in 0 .. MaxFiles
    /\ total_size \in Nat
    /\ pc \in {"parse", "loop", "selected", "refused", "outOfRange"}
    /\ i \in 0 .. num_files
    /\ longestSize \in 0 .. MaxSize
    /\ longestIndex \in -1 .. num_files - 1

Init ==
    /\ files = [j \in {} |-> {}]
    /\ num_files = 0
    /\ total_size = 0
    /\ pc = "parse"
    /\ i = 0
    /\ longestSize = 0
    /\ longestIndex = -1

(* libtorrent lays the files out one behind the other.                     *)
AddFile(size, pad, named) ==
    /\ pc = "parse"
    /\ num_files < MaxFiles
    /\ num_files' = num_files + 1
    /\ total_size' = total_size + size
    /\ files' = [j \in 0 .. num_files |->
                   IF j = num_files
                   THEN [offset |-> total_size, size |-> size, pad_file |-> pad,
                         named |-> named]
                   ELSE files[j]]
    /\ UNCHANGED <<pc, i, longestSize, longestIndex>>

(* It refuses a torrent without a byte.                                    *)
Parsed ==
    /\ pc = "parse"
    /\ total_size > 0
    /\ pc' = "loop"
    /\ UNCHANGED <<torrent, i, longestSize, longestIndex>>

TakesBug(index, size) == longestIndex' = index + 1 /\ longestSize' = size
Takes(index, size) == longestIndex' = index /\ longestSize' = size

LongerBug(f) == f.size >= longestSize
Longer(f) == f.size > longestSize

(* Padding is passed over, and everything behind the file asked for.       *)
PassedOver(f) == f.pad_file \/ longestSize = MaxSize

(* One iteration of the loop.                                              *)
ConsiderFile ==
    LET f == files[i]
    IN /\ pc = "loop" /\ i < num_files
       /\ i' = i + 1
       /\ \/ /\ ~PassedOver(f) /\ f.named
             /\ Takes(i, MaxSize)
          \/ /\ ~PassedOver(f) /\ ~f.named /\ Longer(f)
             /\ Takes(i, f.size)
          \/ /\ PassedOver(f) \/ (~f.named /\ ~Longer(f))
             /\ UNCHANGED <<longestSize, longestIndex>>
       /\ UNCHANGED <<torrent, pc>>

(* The test that means to refuse a torrent without a film, and file_at.    *)
NoFileSelected == longestIndex < 0 /\ longestIndex >= num_files

SelectFile ==
    /\ pc = "loop" /\ i = num_files
    /\ pc' = IF NoFileSelected THEN "refused"
             ELSE IF longestIndex \in DOMAIN files THEN "selected"
             ELSE "outOfRange"
    /\ UNCHANGED <<torrent, i, longestSize, longestIndex>>

Next ==
    \/ \E size \in Sizes, pad, named \in BOOLEAN : AddFile(size, pad, named)
    \/ Parsed
    \/ ConsiderFile
    \/ SelectFile

Spec == Init /\ [][Next]_vars

-----------------------------------------------------------------------------
Selected == files[longestIndex]

num_pieces == (total_size + PieceLength - 1) \div PieceLength

(* torrent_info::map_file: the piece that holds a byte.                    *)
map_file(byte) == byte \div PieceLength

fileFirstPiece == map_file(Selected.offset)

FileLastPieceBug == map_file(Selected.offset + Selected.size)
fileLastPiece == map_file(Selected.offset + (Selected.size - 1))

-----------------------------------------------------------------------------
Films == {j \in 0 .. num_files - 1 : ~files[j].pad_file}

(* The film is the first file with the given name; without one it is the   *)
(* largest, and the first of these.  It is never padding (streamerok.cpp   *)
(* 252-268).                                                               *)
SelectsFilm ==
    pc = "selected" =>
        /\ longestIndex \in Films
        /\ \/ /\ Selected.named
              /\ \A j \in Films : j < longestIndex => ~files[j].named
           \/ \A j \in Films :
                 /\ files[j].size <= Selected.size
                 /\ j < longestIndex => files[j].size < Selected.size
                 /\ files[j].named => Selected.size = MaxSize

(* The pieces between the first and the last of the film are those that    *)
(* hold a byte of it, and the torrent has them (streamerok.cpp 88-89).     *)
CoversFile ==
    pc = "selected" /\ Selected.size > 0 =>
        /\ fileFirstPiece <= fileLastPiece
        /\ fileFirstPiece .. fileLastPiece =
              {p \in 0 .. num_pieces - 1 :
                  /\ p * PieceLength < Selected.offset + Selected.size
                  /\ Selected.offset < (p + 1) * PieceLength}
=============================================================================
