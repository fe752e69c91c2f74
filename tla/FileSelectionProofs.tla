------------------------ MODULE FileSelectionProofs -------------------------
(***************************************************************************)
(* The file importTorrent selects, and its pieces, for torrents of any     *)
(* number of files of any sizes and any length of a piece.                 *)
(***************************************************************************)
EXTENDS FileSelection, TLAPS

USE FileSelectionAssumption

(* A file has a size of 64 bits.                                           *)
LEMMA FileEntry ==
    ASSUME NEW f \in file_entry
    PROVE  /\ f.offset \in Nat /\ f.size \in 0 .. MaxSize
           /\ f.pad_file \in BOOLEAN /\ f.named \in BOOLEAN
BY DEF file_entry

(* The files lie within the torrent.                                       *)
LaidOut == \A j \in 0 .. num_files - 1 :
              files[j].offset + files[j].size <= total_size

Seen == {j \in 0 .. i - 1 : ~files[j].pad_file}

(* What the loop has found among the files it has seen.                    *)
NothingYet ==
    /\ longestIndex = -1 /\ longestSize = 0
    /\ \A j \in Seen : files[j].size = 0 /\ ~files[j].named

NamedOne ==
    /\ longestIndex \in Seen /\ longestSize = MaxSize
    /\ files[longestIndex].named
    /\ \A j \in Seen : j < longestIndex => ~files[j].named

LargestYet ==
    /\ longestIndex \in Seen /\ longestSize = files[longestIndex].size
    /\ \A j \in Seen :
          /\ files[j].size <= longestSize
          /\ j < longestIndex => files[j].size < longestSize
          /\ files[j].named => longestSize = MaxSize

SelectionInv ==
    /\ TypeOK
    /\ LaidOut
    /\ pc = "parse" => i = 0
    /\ pc # "parse" => total_size > 0
    /\ pc \notin {"parse", "loop"} => i = num_files
    /\ pc = "selected" => longestIndex # -1
    /\ NothingYet \/ NamedOne \/ LargestYet

(* Before a file is seen the invariant holds.                              *)
LEMMA SelectionInit == Init => SelectionInv
BY DEF Init, SelectionInv, TypeOK, LaidOut, NothingYet, Seen

(* A file added to the torrent lies behind the others.                     *)
LEMMA AddFileKeepsInv ==
    ASSUME SelectionInv, NEW size \in Sizes, NEW pad \in BOOLEAN, NEW named \in BOOLEAN,
           AddFile(size, pad, named)
    PROVE  SelectionInv'
<1> DEFINE f == [offset |-> total_size, size |-> size, pad_file |-> pad, named |-> named]
<1>1. /\ f \in file_entry /\ size \in Nat /\ num_files \in Nat /\ total_size \in Nat
      /\ num_files' = num_files + 1 /\ num_files' <= MaxFiles
  BY DEF AddFile, SelectionInv, TypeOK, file_entry
<1>2. /\ files' \in [0 .. num_files -> file_entry]
      /\ files'[num_files] = f
      /\ \A j \in 0 .. num_files - 1 : files'[j] = files[j]
  BY <1>1 DEF AddFile, SelectionInv, TypeOK
<1>3. i = 0 /\ i' = 0 /\ Seen = {} /\ Seen' = {}
  BY DEF SelectionInv, AddFile, Seen
<1>4. TypeOK'
  BY <1>1, <1>2 DEF AddFile, SelectionInv, TypeOK
<1>5. LaidOut'
  <2> SUFFICES ASSUME NEW j \in 0 .. num_files
               PROVE  files'[j].offset + files'[j].size <= total_size + size
    BY <1>1 DEF LaidOut, AddFile
  <2>1. CASE j = num_files
    BY <1>1, <1>2, <2>1
  <2>2. CASE j \in 0 .. num_files - 1
    <3>1. files[j] \in file_entry /\ files[j].offset + files[j].size <= total_size
      BY <2>2 DEF SelectionInv, LaidOut, TypeOK
    <3>2. files'[j] = files[j] /\ files[j].offset \in Nat /\ files[j].size \in Nat
      BY <1>2, <2>2, <3>1, FileEntry
    <3> QED
      BY <1>1, <3>1, <3>2
  <2> QED
    BY <1>1, <2>1, <2>2
<1>6. NothingYet'
  <2>1. NothingYet
    BY <1>3 DEF SelectionInv, NamedOne, LargestYet
  <2> QED
    BY <1>3, <2>1 DEF NothingYet, AddFile
<1> QED
  BY <1>3, <1>4, <1>5, <1>6 DEF SelectionInv, AddFile

(* An iteration takes the file it looks at, or keeps what it had.          *)
LEMMA ConsiderKeepsInv ==
    ASSUME SelectionInv, ConsiderFile
    PROVE  SelectionInv'
<1> DEFINE f == files[i]
<1>1. /\ i \in 0 .. num_files - 1 /\ num_files \in Nat /\ f \in file_entry
      /\ f.size \in 0 .. MaxSize
      /\ longestSize \in 0 .. MaxSize
      /\ \A j \in 0 .. num_files - 1 : files[j].size \in 0 .. MaxSize
  <2>1. i \in 0 .. num_files - 1 /\ num_files \in Nat /\ longestSize \in 0 .. MaxSize
    BY DEF ConsiderFile, SelectionInv, TypeOK
  <2>2. \A j \in 0 .. num_files - 1 : files[j] \in file_entry
    BY DEF SelectionInv, TypeOK
  <2> QED
    BY <2>1, <2>2, FileEntry
<1>2. UNCHANGED <<torrent, pc>> /\ i' = i + 1
  BY DEF ConsiderFile
<1>3. Seen' = IF f.pad_file THEN Seen ELSE Seen \cup {i}
  BY <1>1, <1>2 DEF Seen, torrent
<1>4. i \notin Seen /\ \A j \in Seen : j < i /\ j \in 0 .. num_files - 1
  BY <1>1 DEF Seen
<1>5. TypeOK'
  BY <1>1, <1>2 DEF ConsiderFile, SelectionInv, TypeOK, torrent, Takes
<1>6. NothingYet' \/ NamedOne' \/ LargestYet'
  <2>1. CASE ~PassedOver(f) /\ f.named /\ Takes(i, MaxSize)
    <3>1. longestIndex' = i /\ longestSize' = MaxSize /\ longestSize # MaxSize
          /\ Seen' = Seen \cup {i}
      BY <1>3, <2>1 DEF PassedOver, Takes
    <3>2. \A j \in Seen : ~files[j].named
      BY <3>1 DEF SelectionInv, NothingYet, NamedOne, LargestYet
    <3>3. files' = files
      BY <1>2 DEF torrent
    <3>4. /\ i \in Seen' /\ files'[i].named
          /\ \A j \in Seen' : j < i => ~files'[j].named
      BY <1>1, <2>1, <3>1, <3>2, <3>3
    <3> QED
      BY <3>1, <3>4 DEF NamedOne
  <2>2. CASE ~PassedOver(f) /\ ~f.named /\ Longer(f) /\ Takes(i, f.size)
    <3>1. longestIndex' = i /\ longestSize' = f.size /\ longestSize # MaxSize
          /\ longestSize < f.size /\ Seen' = Seen \cup {i}
      BY <1>3, <2>2 DEF PassedOver, Takes, Longer
    <3>2. \A j \in Seen : ~files[j].named /\ files[j].size <= longestSize
      BY <1>1, <3>1 DEF SelectionInv, NothingYet, NamedOne, LargestYet
    <3> QED
      BY <1>1, <1>2, <1>4, <2>2, <3>1, <3>2 DEF LargestYet, torrent
  <2>3. CASE /\ PassedOver(f) \/ (~f.named /\ ~Longer(f))
             /\ UNCHANGED <<longestSize, longestIndex>>
    <3>1. f.pad_file \/ longestSize = MaxSize \/ (~f.named /\ f.size <= longestSize)
      BY <1>1, <2>3 DEF PassedOver, Longer
    <3>2. CASE NothingYet
      BY <1>1, <1>2, <1>3, <2>3, <3>1, <3>2 DEF NothingYet, torrent
    <3>3. CASE NamedOne
      <4>1. files' = files /\ longestIndex' = longestIndex /\ longestSize' = longestSize
        BY <1>2, <2>3 DEF torrent
      <4>2. longestIndex \in Seen /\ longestIndex < i /\ longestIndex \in Int
        BY <1>1, <1>4, <3>3 DEF NamedOne
      <4>3. longestIndex \in Seen'
        BY <1>3, <4>2
      <4>4. \A j \in Seen' : j < longestIndex => j \in Seen
        BY <1>1, <1>3, <4>2
      <4> QED
        BY <3>3, <4>1, <4>3, <4>4 DEF NamedOne
    <3>4. CASE LargestYet
      BY <1>1, <1>2, <1>3, <1>4, <2>3, <3>1, <3>4 DEF LargestYet, torrent
    <3> QED
      BY <3>2, <3>3, <3>4 DEF SelectionInv
  <2> QED
    BY <2>1, <2>2, <2>3 DEF ConsiderFile
<1> QED
  BY <1>2, <1>5, <1>6 DEF SelectionInv, LaidOut, torrent, ConsiderFile

(* Every step keeps the invariant.                                         *)
LEMMA SelectionStep == SelectionInv /\ [Next]_vars => SelectionInv'
<1> SUFFICES ASSUME SelectionInv, [Next]_vars PROVE SelectionInv'
  OBVIOUS
<1>1. CASE Parsed
  BY <1>1 DEF Parsed, SelectionInv, TypeOK, LaidOut, torrent, NothingYet, NamedOne,
              LargestYet, Seen
<1>2. CASE SelectFile
  <2>1. longestIndex \in DOMAIN files => longestIndex # -1
    BY DEF SelectionInv, TypeOK
  <2> QED
    BY <1>2, <2>1 DEF SelectFile, SelectionInv, TypeOK, LaidOut, torrent, NothingYet,
                      NamedOne, LargestYet, Seen
<1>3. CASE UNCHANGED vars
  BY <1>3 DEF vars, SelectionInv, TypeOK, LaidOut, torrent, NothingYet, NamedOne,
              LargestYet, Seen
<1> QED
  BY <1>1, <1>2, <1>3, AddFileKeepsInv, ConsiderKeepsInv DEF Next

(* So it holds of every torrent.                                           *)
LEMMA SelectionInvariant == Spec => []SelectionInv
BY SelectionInit, SelectionStep, PTL DEF Spec

-----------------------------------------------------------------------------
(* The index stays within the torrent while the loop runs (streamerok.cpp  *)
(* 252-268).                                                               *)
THEOREM TypeCorrect == Spec => []TypeOK
BY SelectionInvariant, PTL DEF SelectionInv

(* The film selected is the first with the given name or the first of the  *)
(* largest, and no padding (streamerok.cpp 252-277).                       *)
THEOREM FilmCorrect == Spec => []SelectsFilm
<1>1. SelectionInv => SelectsFilm
  <2> SUFFICES ASSUME SelectionInv, pc = "selected"
               PROVE  SelectsFilm
    BY DEF SelectsFilm
  <2>1. Seen = Films /\ longestIndex # -1
    BY DEF SelectionInv, Seen, Films
  <2> QED
    BY <2>1 DEF SelectionInv, SelectsFilm, Selected, NothingYet, NamedOne, LargestYet
<1> QED
  BY <1>1, SelectionInvariant, PTL

(* The piece of a byte.                                                    *)
LEMMA PieceOfByte ==
    ASSUME NEW b \in Nat
    PROVE  /\ map_file(b) \in Nat
           /\ map_file(b) * PieceLength <= b
           /\ b < (map_file(b) + 1) * PieceLength
BY DEF map_file

(* A larger factor makes a larger product, and only a larger one does.     *)
LEMMA TimesPieceLength ==
    ASSUME NEW p \in Int, NEW q \in Int
    PROVE  p <= q <=> p * PieceLength <= q * PieceLength
OBVIOUS

(* The pieces from the first to the last of the film are those that hold a *)
(* byte of it, and pieces of the torrent: what module Streamerok assumes   *)
(* of FileFirst and FileLast (streamerok.cpp 88-89).                       *)
THEOREM PiecesCorrect == Spec => []CoversFile
<1>1. SelectionInv => CoversFile
  <2> SUFFICES ASSUME SelectionInv, pc = "selected", Selected.size > 0
               PROVE  CoversFile
    BY DEF CoversFile
  <2> DEFINE o == Selected.offset
             e == Selected.offset + Selected.size
  <2>1. /\ o \in Nat /\ e \in Nat /\ o < e /\ e <= total_size /\ total_size \in Nat
        /\ Selected.offset + (Selected.size - 1) = e - 1
    <3>1. longestIndex \in 0 .. num_files - 1
      BY DEF SelectionInv, TypeOK
    <3>2. Selected \in file_entry /\ o + Selected.size <= total_size
      BY <3>1 DEF SelectionInv, TypeOK, LaidOut, Selected
    <3>3. o \in Nat /\ Selected.size \in 0 .. MaxSize
      BY <3>2, FileEntry
    <3> QED
      BY <3>2, <3>3 DEF SelectionInv, TypeOK
  <2>2. /\ fileFirstPiece \in Nat
        /\ fileFirstPiece * PieceLength <= o
        /\ o < (fileFirstPiece + 1) * PieceLength
    BY <2>1, PieceOfByte DEF fileFirstPiece
  <2>3. /\ fileLastPiece \in Nat
        /\ fileLastPiece * PieceLength <= e - 1
        /\ e - 1 < (fileLastPiece + 1) * PieceLength
    <3>1. fileLastPiece = map_file(e - 1)
      BY <2>1 DEF fileLastPiece
    <3> HIDE DEF o, e
    <3>2. e - 1 \in Nat
      BY <2>1
    <3> QED
      BY <3>1, <3>2, PieceOfByte
  <2>4. /\ num_pieces \in Nat
        /\ total_size <= num_pieces * PieceLength
    <3>1. /\ map_file(total_size + PieceLength - 1) \in Nat
          /\ total_size + PieceLength - 1
                < (map_file(total_size + PieceLength - 1) + 1) * PieceLength
      BY <2>1, PieceOfByte
    <3> QED
      BY <2>1, <3>1 DEF num_pieces, map_file
  <2> HIDE DEF o, e
  <2>5. ASSUME NEW p \in Int
        PROVE  /\ fileFirstPiece <= p <=> o < (p + 1) * PieceLength
               /\ p <= fileLastPiece <=> p * PieceLength < e
               /\ p * PieceLength < e => p <= num_pieces - 1
    <3>1. fileFirstPiece <= p <=> o < (p + 1) * PieceLength
      <4>1. fileFirstPiece <= p => (fileFirstPiece + 1) * PieceLength <= (p + 1) * PieceLength
        BY <2>2, TimesPieceLength
      <4>2. p + 1 <= fileFirstPiece => (p + 1) * PieceLength <= fileFirstPiece * PieceLength
        BY <2>2, TimesPieceLength
      <4>3. (p + 1) * PieceLength \in Int /\ fileFirstPiece * PieceLength \in Int
            /\ (fileFirstPiece + 1) * PieceLength \in Int
        BY <2>2
      <4> QED
        BY <2>1, <2>2, <4>1, <4>2, <4>3
    <3>2. p <= fileLastPiece <=> p * PieceLength < e
      <4>1. p <= fileLastPiece => p * PieceLength <= fileLastPiece * PieceLength
        BY <2>3, TimesPieceLength
      <4>2. fileLastPiece + 1 <= p => (fileLastPiece + 1) * PieceLength <= p * PieceLength
        BY <2>3, TimesPieceLength
      <4>3. p * PieceLength \in Int /\ fileLastPiece * PieceLength \in Int
            /\ (fileLastPiece + 1) * PieceLength \in Int
        BY <2>3
      <4> QED
        BY <2>1, <2>3, <4>1, <4>2, <4>3
    <3>3. p * PieceLength < e => p <= num_pieces - 1
      <4>1. num_pieces <= p => num_pieces * PieceLength <= p * PieceLength
        BY <2>4, TimesPieceLength
      <4>2. p * PieceLength \in Int /\ num_pieces * PieceLength \in Int
        BY <2>4
      <4> QED
        BY <2>1, <2>4, <4>1, <4>2
    <3> QED
      BY <3>1, <3>2, <3>3
  <2>6. fileFirstPiece <= fileLastPiece
    <3>1. fileFirstPiece * PieceLength \in Int
      BY <2>2
    <3>2. fileFirstPiece * PieceLength < e
      BY <2>1, <2>2, <3>1
    <3> QED
      BY <2>2, <2>5, <3>2
  <2> QED
    BY <2>1, <2>2, <2>3, <2>4, <2>5, <2>6 DEF CoversFile, o, e
<1> QED
  BY <1>1, SelectionInvariant, PTL
=============================================================================
