-------------------------- MODULE StreamerokProofs --------------------------
(***************************************************************************)
(* What holds of the engine for any number of torrents, pieces, threads    *)
(* and imports, and with every fault of Streamerok.                        *)
(***************************************************************************)
EXTENDS Streamerok, PiecesProofs

USE NPiecesAssumption, StreamerokAssumption

(* The first piece of a new entry is at most one past the torrent.         *)
LEMMA FirstPieceType == TypeOK => FirstPiece \in 0 .. NPieces
BY DEF TypeOK, FirstPiece, Settings, NoCount, Piece

(* Forgetting an id leaves the other entries of tMap as they are.          *)
LEMMA WithoutType ==
    ASSUME TypeOK, NEW i
    PROVE  /\ DOMAIN Without(i) = DOMAIN tMap \ {i}
           /\ Without(i) \in [DOMAIN Without(i) -> tAux]
           /\ DOMAIN Without(i) \subseteq Ids
           /\ \A j \in DOMAIN Without(i) : Without(i)[j] = tMap[j]
BY DEF TypeOK, Without

(* An import that is at some stage is one of a torrent, and goes on with   *)
(* another stage of it.                                                    *)
LEMMA StageOfImport ==
    ASSUME TypeOK, NEW s \in Stages, Stage(s)
    PROVE  /\ importing.torrent \in Torrents
           /\ nextId < MaxImports
           /\ \A next \in Stages : [importing EXCEPT !.stage = next] \in Importing
<1>1. "idle" \notin Stages
  BY DEF Stages
<1>2. importing # Idle
  BY <1>1 DEF Stage, Idle
<1>3. importing \in [torrent : Torrents, stage : Stages]
  BY <1>2 DEF TypeOK, Importing
<1>4. \A next \in Stages :
        [importing EXCEPT !.stage = next] \in [torrent : Torrents, stage : Stages]
  BY <1>3
<1> QED
  BY <1>2, <1>3, <1>4 DEF TypeOK, Importing

(* An import that begins is one that runs.                                 *)
LEMMA BeginIsNotIdle ==
    ASSUME NEW t, ImportBegin(t)
    PROVE  importing' # Idle
<1>1. CASE importing' = [torrent |-> t, stage |-> "add"]
  BY <1>1 DEF Idle
<1>2. CASE importing' = [torrent |-> t, stage |-> "forget info"]
  BY <1>2 DEF Idle
<1> QED
  BY <1>1, <1>2 DEF ImportBegin

(* The engine starts with its types.                                       *)
LEMMA TypeInit == Init => TypeOK
BY DEF Init, TypeOK, Empty, NoHandle, Ids, NoCount, NoSettings, Settings, Piece,
       Importing, Idle

(* A death of the process, wherever it happens, keeps the types.           *)
LEMMA DeathType ==
    ASSUME TypeOK, Dies
    PROVE  TypeOK'
BY DEF Dies, TypeOK, Empty, NoHandle, Ids, NoCount, Piece, Importing, Idle

(* Every step of the engine keeps the types, one action at a time.         *)
LEMMA TypeStep == TypeOK /\ [Next]_vars => TypeOK'
<1> SUFFICES ASSUME TypeOK, [Next]_vars
             PROVE  TypeOK'
  OBVIOUS
<1> USE DEF TypeOK, libtorrent, engine
<1>1. ASSUME NEW t \in Torrents, ImportBegin(t) PROVE TypeOK'
  <2>1. /\ [torrent |-> t, stage |-> "add"] \in [torrent : Torrents, stage : Stages]
        /\ [torrent |-> t, stage |-> "forget info"] \in [torrent : Torrents, stage : Stages]
    BY DEF Stages
  <2>2. importing' \in Importing
    BY <1>1, <2>1 DEF ImportBegin, Importing
  <2>3. disk' \in [Torrents -> SUBSET Piece]
    BY <1>1 DEF ImportBegin, CleanOldFiles
  <2>4. importing' # Idle => nextId' < MaxImports
    BY <1>1 DEF ImportBegin
  <2>5. maxCount' \in NoCount .. NPieces - 1
    <3>1. maxCount' = NoCount
      BY <1>1 DEF ImportBegin
    <3> QED
      BY <3>1 DEF NoCount
  <2>6. UNCHANGED <<session, have, finished, priority, alerts, popped, tMap, nextId,
                    defaults>>
    BY <1>1 DEF ImportBegin
  <2> QED
    BY <2>2, <2>3, <2>4, <2>5, <2>6
<1>2. CASE ImportRejected
  BY <1>2 DEF ImportRejected, NoCount, Piece
<1>3. ASSUME NEW settings \in Settings, NEW s \in Stages, NEW next \in Stages,
             Stage(s), ImportWrites(settings, next)
      PROVE  TypeOK'
  <2>1. nextId < MaxImports /\ importing' \in Importing
    BY <1>3, StageOfImport DEF ImportWrites
  <2> QED
    BY <1>3, <2>1 DEF ImportWrites
<1>4. CASE ForgetSettings
  <2>1. {"forget info", "forget block", "forget percent", "forget ready", "info"}
          \subseteq Stages
    BY DEF Stages
  <2>2. /\ [defaults EXCEPT !.torrentInfo = NoTorrent] \in Settings
        /\ [defaults EXCEPT !.maxBlock = 0] \in Settings
        /\ [defaults EXCEPT !.lastPercent = 0] \in Settings
        /\ [defaults EXCEPT !.isReadySended = FALSE] \in Settings
    <3>1. 0 \in NoCount .. NPieces - 1
      BY DEF NoCount
    <3> QED
      BY <3>1 DEF Settings
  <2> QED
    BY <1>3, <1>4, <2>1, <2>2 DEF ForgetSettings
<1>5. CASE ImportInfo \/ ImportMaxBlock \/ ImportPercent
  <2>1. {"info", "block", "percent", "add"} \subseteq Stages
    BY DEF Stages
  <2>2. importing.torrent \in Torrents
    BY <1>5, <2>1, StageOfImport DEF ImportInfo, ImportMaxBlock, ImportPercent
  <2>3. Prefix[importing.torrent] \in {Prefix[t] : t \in Torrents}
    BY <1>5, <2>2
  <2>4. /\ [defaults EXCEPT !.torrentInfo = Prefix[importing.torrent]] \in Settings
        /\ [defaults EXCEPT !.maxBlock = NoCount] \in Settings
        /\ [defaults EXCEPT !.lastPercent = 0] \in Settings
    BY <2>3 DEF Settings, NoCount
  <2> QED
    BY <1>3, <1>5, <2>1, <2>4 DEF ImportInfo, ImportMaxBlock, ImportPercent
<1>6. CASE ImportAdd
  <2> DEFINE t == importing.torrent
             handle == IF session[t] = NoHandle THEN nextId + 1 ELSE session[t]
  <2>1. t \in Torrents /\ nextId + 1 \in Ids
    <3>1. "add" \in Stages
      BY DEF Stages
    <3> QED
      BY <1>6, <3>1, StageOfImport DEF ImportAdd, Ids
  <2>2. handle \in Ids
    BY <2>1
  <2>3. FirstPiece \in 0 .. NPieces
    BY FirstPieceType
  <2>4. InitialWindow(FirstPiece, FileLast) \in SUBSET Piece
    BY <2>3, InitialWindowType
  <2>5. DOMAIN tMap' \subseteq Ids /\ tMap' \in [DOMAIN tMap' -> tAux]
    BY <1>6, <2>1, <2>2, <2>3 DEF ImportAdd, tAux
  <2>6. session' \in [Torrents -> Ids \cup {NoHandle}]
    BY <1>6, <2>1, <2>2 DEF ImportAdd
  <2>7. priority' \in [Torrents -> SUBSET Piece]
    BY <1>6, <2>1, <2>4 DEF ImportAdd
  <2>8. importing' \in Importing /\ importing' = Idle /\ nextId' \in 0 .. MaxImports
    BY <1>6, <2>1 DEF ImportAdd, Importing, Ids
  <2> QED
    BY <1>6, <2>5, <2>6, <2>7, <2>8 DEF ImportAdd
<1>7. CASE ImportAddFails
  BY <1>7 DEF ImportAddFails, Stage, Importing, Idle
<1>8. ASSUME NEW i \in Ids, GetAux(i) PROVE TypeOK'
  BY <1>8, WithoutType DEF GetAux
<1>9. ASSUME NEW i \in Ids, CountPieces(i) PROVE TypeOK'
  <2>1. CASE Found(i)
    <3>1. have[tMap[i].torrent] \in SUBSET Piece
      BY <2>1 DEF Found, tAux
    <3>2. Scan(have[tMap[i].torrent], maxCount) \in NoCount .. NPieces - 1
      BY <3>1, ScanType
    <3> QED
      BY <1>9, <2>1, <3>2 DEF CountPieces
  <2>2. CASE ~Found(i)
    BY <1>9, <2>2, WithoutType DEF CountPieces
  <2> QED
    BY <2>1, <2>2
<1>10. ASSUME NEW i \in Ids, DeleteTorrent(i) PROVE TypeOK'
  BY <1>10, WithoutType DEF DeleteTorrent, Found, tAux
<1>11. ASSUME NEW w \in Workers, PopAlerts(w) PROVE TypeOK'
  BY <1>11 DEF PopAlerts
<1>12. ASSUME NEW w \in Workers, HandleAlert(w) PROVE TypeOK'
  <2>1. popped' \in [Workers -> SUBSET Ids]
    BY <1>12 DEF HandleAlert
  <2>2. priority' \in [Torrents -> SUBSET Piece]
    <3>1. ASSUME NEW i \in DOMAIN tMap
          PROVE  Window(have[tMap[i].torrent], tMap[i].fileFirstPiece, FileLast)
                   \in SUBSET Piece
      <4>1. have[tMap[i].torrent] \in SUBSET Piece
            /\ tMap[i].fileFirstPiece \in Nat
        BY <3>1 DEF tAux
      <4> QED
        BY <4>1, WindowType
    <3> QED
      BY <1>12, <3>1 DEF HandleAlert, Entries
  <2> QED
    BY <1>12, <2>1, <2>2 DEF HandleAlert
<1>13. ASSUME NEW t \in Torrents, NEW p \in Piece, PieceChecked(t, p) PROVE TypeOK'
  BY <1>13 DEF PieceChecked
<1>14. ASSUME NEW t \in Torrents, NEW p \in Piece, PieceFinished(t, p) PROVE TypeOK'
  BY <1>14 DEF PieceFinished
<1>15. CASE Restart
  BY <1>15, DeathType DEF Restart
<1>16. ASSUME NEW v \in Percents, StorePercent(v) PROVE TypeOK'
  BY <1>16 DEF StorePercent, Settings
<1>17. CASE StoreReady
  BY <1>17 DEF StoreReady, Settings
<1>18. CASE StoreMaxBlock
  BY <1>18 DEF StoreMaxBlock, Settings
<1>19. CASE UNCHANGED vars
  BY <1>19 DEF vars
<1> QED
  BY <1>1, <1>2, <1>3, <1>4, <1>5, <1>6, <1>7, <1>8, <1>9, <1>10, <1>11, <1>12,
     <1>13, <1>14, <1>15, <1>16, <1>17, <1>18, <1>19
     DEF Next, Import, Callback, Libtorrent

(* The engine's map, settings and queues only ever hold what they may      *)
(* (streamerok.h 13-26, 65-69, streamerok.cpp, UserDefaultHelper.m).       *)
THEOREM TypeCorrect == Spec => []TypeOK
BY TypeInit, TypeStep, PTL DEF Spec

-----------------------------------------------------------------------------
(* An id that no longer finds its torrent may be forgotten.                *)
LEMMA ForgetKeepsBooks ==
    ASSUME TypeOK, Bookkeeping, NEW i \in Ids, ~Found(i), tMap' = Without(i),
           UNCHANGED <<session, have, finished, priority, disk, nextId>>
    PROVE  Bookkeeping'
<1> USE DEF Bookkeeping
<1>1. /\ DOMAIN tMap' = DOMAIN tMap \ {i}
      /\ \A j \in DOMAIN tMap' : tMap'[j] = tMap[j]
  BY WithoutType
<1>2. IdsWereIssued' /\ HandleOfOneTorrent'
  BY <1>1 DEF IdsWereIssued, HandleOfOneTorrent
<1>3. SessionIsMapped'
  <2> SUFFICES ASSUME NEW t \in Torrents, session[t] # NoHandle
               PROVE  \E j \in DOMAIN tMap' : /\ tMap'[j].torrent = t
                                              /\ tMap'[j].handle = session[t]
    BY DEF SessionIsMapped
  <2>1. PICK j \in DOMAIN tMap : tMap[j].torrent = t /\ tMap[j].handle = session[t]
    BY DEF SessionIsMapped
  <2>2. j # i
    BY <2>1 DEF Found, Valid
  <2> QED
    BY <1>1, <2>1, <2>2
<1>4. OutOfSession' /\ CheckedFirst'
  BY DEF OutOfSession, CheckedFirst
<1> QED
  BY <1>2, <1>3, <1>4

(* deleteTorrent takes the torrent out of the session and the map at once. *)
LEMMA DeleteKeepsBooks ==
    ASSUME TypeOK, Bookkeeping, NEW i \in Ids, DeleteTorrent(i)
    PROVE  Bookkeeping'
<1> USE DEF Bookkeeping
<1>1. CASE ~Found(i)
  BY <1>1, ForgetKeepsBooks DEF DeleteTorrent
<1>2. CASE Found(i)
  <2> DEFINE t == tMap[i].torrent
  <2>1. t \in Torrents
    BY <1>2 DEF Found, TypeOK, tAux
  <2>2. /\ DOMAIN tMap' = DOMAIN tMap \ {i}
        /\ \A j \in DOMAIN tMap' : tMap'[j] = tMap[j]
    BY WithoutType DEF DeleteTorrent
  <2>3. /\ session' = [session EXCEPT ![t] = NoHandle]
        /\ have' = [have EXCEPT ![t] = {}]
        /\ finished' = [finished EXCEPT ![t] = {}]
        /\ priority' = [priority EXCEPT ![t] = {}]
        /\ UNCHANGED <<disk, nextId>>
    BY <1>2 DEF DeleteTorrent
  <2>4. IdsWereIssued' /\ HandleOfOneTorrent'
    BY <2>2, <2>3 DEF IdsWereIssued, HandleOfOneTorrent
  <2>5. SessionIsMapped'
    <3> SUFFICES ASSUME NEW u \in Torrents, session'[u] # NoHandle
                 PROVE  \E j \in DOMAIN tMap' : /\ tMap'[j].torrent = u
                                                /\ tMap'[j].handle = session'[u]
      BY DEF SessionIsMapped
    <3>1. u # t /\ session'[u] = session[u]
      BY <2>1, <2>3 DEF TypeOK
    <3>2. PICK j \in DOMAIN tMap : tMap[j].torrent = u /\ tMap[j].handle = session[u]
      BY <3>1 DEF SessionIsMapped
    <3> QED
      BY <2>2, <3>1, <3>2
  <2>6. OutOfSession'
    BY <2>1, <2>3 DEF OutOfSession, TypeOK
  <2>7. CheckedFirst'
    BY <2>1, <2>3 DEF CheckedFirst, TypeOK
  <2> QED
    BY <2>4, <2>5, <2>6, <2>7
<1> QED
  BY <1>1, <1>2

(* What ImportAdd does to the map and to the session.                      *)
LEMMA AddEffect ==
    ASSUME TypeOK, Bookkeeping, ImportAdd,
           NEW t, t = importing.torrent, NEW id, id = nextId + 1
    PROVE  /\ t \in Torrents
           /\ id \in Ids \ DOMAIN tMap
           /\ \A i \in DOMAIN tMap : tMap[i].handle < id
           /\ DOMAIN tMap' = DOMAIN tMap \cup {id}
           /\ \A i \in DOMAIN tMap : tMap'[i] = tMap[i]
           /\ tMap'[id] = [torrent |-> t, handle |-> session'[t],
                           fileFirstPiece |-> FirstPiece]
           /\ session'[t] = IF session[t] = NoHandle THEN id ELSE session[t]
           /\ \A u \in Torrents \ {t} : session'[u] = session[u]
           /\ priority'[t] = priority[t] \cup InitialWindow(FirstPiece, FileLast)
           /\ \A u \in Torrents \ {t} : priority'[u] = priority[u]
           /\ nextId' = id
           /\ UNCHANGED <<have, finished, disk, alerts, popped>>
<1>1. t \in Torrents /\ id \in Ids
  BY DEF TypeOK, ImportAdd, Stage, Importing, Idle, Ids
<1>2. id \notin DOMAIN tMap /\ \A i \in DOMAIN tMap : tMap[i].handle < id
  BY DEF Bookkeeping, IdsWereIssued, TypeOK, Ids, tAux
<1>3. /\ session'[t] = IF session[t] = NoHandle THEN id ELSE session[t]
      /\ \A u \in Torrents \ {t} : session'[u] = session[u]
      /\ priority'[t] = priority[t] \cup InitialWindow(FirstPiece, FileLast)
      /\ \A u \in Torrents \ {t} : priority'[u] = priority[u]
  BY <1>1 DEF TypeOK, ImportAdd
<1>4. /\ DOMAIN tMap' = DOMAIN tMap \cup {id}
      /\ \A i \in DOMAIN tMap : tMap'[i] = tMap[i]
      /\ tMap'[id] = [torrent |-> t, handle |-> session'[t],
                      fileFirstPiece |-> FirstPiece]
  BY <1>2, <1>3 DEF ImportAdd
<1> QED
  BY <1>1, <1>2, <1>3, <1>4 DEF ImportAdd

(* The entry of the new id (streamerok.cpp 279-281).                       *)
LEMMA AddedEntry ==
    ASSUME TypeOK, Bookkeeping, ImportAdd
    PROVE  tMap'[nextId + 1] = [torrent |-> importing.torrent,
                                handle |-> session'[importing.torrent],
                                fileFirstPiece |-> FirstPiece]
<1> DEFINE t == importing.torrent
           id == nextId + 1
<1>1. tMap'[id] = [torrent |-> t, handle |-> session'[t], fileFirstPiece |-> FirstPiece]
  BY AddEffect, Zenon
<1> QED
  BY <1>1

(* A new id gets a new handle, or shares the one of its torrent.           *)
LEMMA AddKeepsBooks ==
    ASSUME TypeOK, Bookkeeping, ImportAdd
    PROVE  Bookkeeping'
<1> DEFINE t == importing.torrent
           id == nextId + 1
<1>1. /\ t \in Torrents
      /\ id \in Ids \ DOMAIN tMap
      /\ \A i \in DOMAIN tMap : tMap[i].handle < id
      /\ DOMAIN tMap' = DOMAIN tMap \cup {id}
      /\ \A i \in DOMAIN tMap : tMap'[i] = tMap[i]
      /\ tMap'[id].torrent = t /\ tMap'[id].handle = session'[t]
      /\ session'[t] = IF session[t] = NoHandle THEN id ELSE session[t]
      /\ \A u \in Torrents \ {t} : session'[u] = session[u]
      /\ \A u \in Torrents \ {t} : priority'[u] = priority[u]
      /\ nextId' = id
      /\ UNCHANGED <<have, finished, disk>>
  <2>1. tMap'[id] = [torrent |-> t, handle |-> session'[t], fileFirstPiece |-> FirstPiece]
    BY AddedEntry
  <2> QED
    BY <2>1, AddEffect
<1> HIDE DEF t, id
<1> USE DEF Bookkeeping
<1>2. session[t] # NoHandle =>
        \E i \in DOMAIN tMap : tMap[i].torrent = t /\ tMap[i].handle = session[t]
  BY <1>1 DEF SessionIsMapped
<1>3. IdsWereIssued'
  <2>1. session[t] # NoHandle => session[t] <= nextId
    BY <1>2 DEF IdsWereIssued
  <2>2. nextId \in Nat /\ id = nextId + 1
    BY DEF id, TypeOK
  <2>3. \A i \in DOMAIN tMap : i \in Nat /\ tMap[i].handle \in Nat
    BY DEF TypeOK, Ids, tAux
  <2>4. session[t] \in Nat
    BY <1>1 DEF TypeOK, Ids, NoHandle
  <2> QED
    BY <1>1, <2>1, <2>2, <2>3, <2>4 DEF IdsWereIssued
<1>4. HandleOfOneTorrent'
  <2>1. \A i \in DOMAIN tMap : tMap[i].handle = session'[t] => tMap[i].torrent = t
    <3>1. CASE session[t] = NoHandle
      <4>1. \A i \in DOMAIN tMap : tMap[i].handle \in Nat
        BY DEF TypeOK, Ids, tAux
      <4>2. id \in Nat
        BY <1>1 DEF Ids
      <4> QED
        BY <1>1, <3>1, <4>1, <4>2
    <3>2. CASE session[t] # NoHandle
      BY <1>1, <1>2, <3>2 DEF HandleOfOneTorrent
    <3> QED
      BY <3>1, <3>2
  <2> QED
    BY <1>1, <2>1 DEF HandleOfOneTorrent
<1>5. SessionIsMapped'
  BY <1>1 DEF SessionIsMapped
<1>6. OutOfSession'
  <2>1. session'[t] # NoHandle
    BY <1>1 DEF NoHandle, Ids
  <2> QED
    BY <1>1, <2>1 DEF OutOfSession
<1>7. CheckedFirst'
  BY <1>1 DEF CheckedFirst
<1> QED
  BY <1>3, <1>4, <1>5, <1>6, <1>7

(* Every step of the engine keeps the map and the session in step.         *)
LEMMA BookkeepingStep ==
    ASSUME TypeOK, Bookkeeping, [Next]_vars
    PROVE  Bookkeeping'
<1> DEFINE books == <<session, have, finished, priority, disk, tMap, nextId>>
<1>1. CASE UNCHANGED books
  BY <1>1 DEF Bookkeeping, IdsWereIssued, HandleOfOneTorrent, SessionIsMapped,
              OutOfSession, CheckedFirst
<1> USE DEF Bookkeeping
<1>2. ASSUME NEW t \in Torrents, ImportBegin(t) PROVE Bookkeeping'
  <2>1. /\ \A u \in Torrents : disk'[u] \subseteq disk[u]
        /\ UNCHANGED <<session, have, finished, priority, tMap, nextId>>
    BY <1>2 DEF ImportBegin, CleanOldFiles
  <2>2. CheckedFirst'
    BY <2>1 DEF CheckedFirst
  <2> QED
    BY <2>1, <2>2 DEF IdsWereIssued, HandleOfOneTorrent, SessionIsMapped, OutOfSession
<1>3. CASE ImportAdd
  BY <1>3, AddKeepsBooks
<1>4. CASE ImportAddFails
  <2>1. nextId' = nextId + 1 /\ nextId \in Nat
        /\ UNCHANGED <<session, have, finished, priority, disk, tMap>>
    BY <1>4 DEF ImportAddFails, libtorrent, TypeOK
  <2>2. \A i \in DOMAIN tMap : i \in Nat /\ tMap[i].handle \in Nat
    BY DEF TypeOK, Ids, tAux
  <2>3. IdsWereIssued'
    BY <2>1, <2>2 DEF IdsWereIssued
  <2> QED
    BY <2>1, <2>3 DEF HandleOfOneTorrent, SessionIsMapped, OutOfSession, CheckedFirst
<1>5. ASSUME NEW i \in Ids, GetAux(i) PROVE Bookkeeping'
  BY <1>1, <1>5, ForgetKeepsBooks DEF GetAux, libtorrent
<1>6. ASSUME NEW i \in Ids, CountPieces(i) PROVE Bookkeeping'
  BY <1>1, <1>6, ForgetKeepsBooks DEF CountPieces, libtorrent
<1>7. ASSUME NEW i \in Ids, DeleteTorrent(i) PROVE Bookkeeping'
  BY <1>7, DeleteKeepsBooks
<1>8. ASSUME NEW w \in Workers, HandleAlert(w) PROVE Bookkeeping'
  <2>1. UNCHANGED <<session, have, finished, disk, tMap, nextId>>
    BY <1>8 DEF HandleAlert
  <2>2. \A t \in Torrents : session[t] = NoHandle => priority'[t] = priority[t]
    <3>1. ASSUME NEW h \in Ids, NEW i \in Entries(h)
          PROVE  session[tMap[i].torrent] # NoHandle
      BY <3>1 DEF Entries, Valid, TypeOK, tAux, Ids, NoHandle
    <3>2. popped[w] \subseteq Ids
      BY DEF TypeOK
    <3> QED
      BY <1>8, <3>1, <3>2 DEF HandleAlert, TypeOK
  <2> QED
    BY <2>1, <2>2 DEF IdsWereIssued, HandleOfOneTorrent, SessionIsMapped,
                      OutOfSession, CheckedFirst
<1>9. ASSUME NEW t \in Torrents, NEW p \in Piece, PieceChecked(t, p) \/ PieceFinished(t, p)
      PROVE  Bookkeeping'
  <2>1. /\ UNCHANGED <<session, priority, tMap, nextId>>
        /\ session[t] # NoHandle
        /\ \A u \in Torrents \ {t} : /\ have'[u] = have[u]
                                      /\ finished'[u] = finished[u]
                                      /\ disk'[u] = disk[u]
    BY <1>9 DEF PieceChecked, PieceFinished, engine, TypeOK
  <2>2. finished'[t] # {} => disk'[t] \subseteq have'[t]
    BY <1>9 DEF PieceChecked, PieceFinished, CheckedFirst, TypeOK
  <2>3. CheckedFirst'
    BY <2>1, <2>2 DEF CheckedFirst
  <2> QED
    BY <2>1, <2>3 DEF IdsWereIssued, HandleOfOneTorrent, SessionIsMapped, OutOfSession
<1>10. CASE Restart
  BY <1>10 DEF Restart, Dies, Empty, IdsWereIssued, HandleOfOneTorrent,
               SessionIsMapped, OutOfSession, CheckedFirst
<1> QED
  BY <1>1, <1>2, <1>3, <1>4, <1>5, <1>6, <1>7, <1>8, <1>9, <1>10
     DEF Next, Import, ImportRejected, ForgetSettings, ImportInfo, ImportMaxBlock,
         ImportPercent, StoreMaxBlock,
         ImportWrites, Callback, PopAlerts, Libtorrent, StorePercent, StoreReady,
         vars, libtorrent, engine

(* The ids, the handles and the session stay in step (streamerok.cpp       *)
(* 279-309, 528-546).                                                      *)
THEOREM BooksAreKept == Spec => []Bookkeeping
<1>1. Init => Bookkeeping
  BY DEF Init, Empty, NoHandle, Bookkeeping, IdsWereIssued, HandleOfOneTorrent,
         SessionIsMapped, OutOfSession, CheckedFirst
<1>2. TypeOK /\ Bookkeeping /\ [Next]_vars => Bookkeeping'
  BY BookkeepingStep
<1> QED
  BY <1>1, <1>2, TypeInit, TypeStep, PTL DEF Spec

-----------------------------------------------------------------------------
(* What an entry of tMap is made of.                                       *)
LEMMA EntryType ==
    ASSUME TypeOK, NEW i \in DOMAIN tMap
    PROVE  /\ i \in Ids
           /\ tMap[i].torrent \in Torrents
           /\ tMap[i].handle \in Ids
           /\ tMap[i].handle # NoHandle
           /\ tMap[i].fileFirstPiece \in Nat
           /\ have[tMap[i].torrent] \in SUBSET Piece
           /\ Gap(i) \in SUBSET Nat
BY DEF TypeOK, tAux, Ids, NoHandle, Gap, Missing, Piece

(* An entry about which nothing changed is in step as it was.              *)
LEMMA StillGoesOn ==
    ASSUME NEW i \in DOMAIN tMap, GoesOn(i), tMap'[i] = tMap[i],
           have'[tMap[i].torrent] = have[tMap[i].torrent],
           finished'[tMap[i].torrent] = finished[tMap[i].torrent],
           priority'[tMap[i].torrent] = priority[tMap[i].torrent],
           Alerted(tMap[i].handle) => Alerted(tMap[i].handle)'
    PROVE  GoesOn(i)'
<1>1. Gap(i)' = Gap(i)
  BY DEF Gap
<1> QED
  BY <1>1 DEF GoesOn, Alerted

(* Forgetting an id that finds nothing makes no other id single.           *)
LEMMA ForgetKeepsDownloads ==
    ASSUME TypeOK, Bookkeeping, NeverRunsDry, NEW i \in Ids, ~Found(i),
           tMap' = Without(i),
           UNCHANGED <<session, have, finished, priority, alerts, popped>>,
           NEW j \in Single'
    PROVE  GoesOn(j)'
<1>1. j \in DOMAIN tMap \ {i} /\ tMap'[j] = tMap[j]
  BY WithoutType DEF Single
<1>2. Valid(j) /\ OnlyEntry(j)'
  BY <1>1 DEF Single, Valid
<1>3. ASSUME NEW k \in DOMAIN tMap, tMap[k].handle = tMap[j].handle
      PROVE  k = j
  <2>1. CASE k = i
    <3>1. tMap[k].torrent = tMap[j].torrent
      BY <1>1, <1>3 DEF Bookkeeping, HandleOfOneTorrent
    <3> QED
      BY <1>2, <1>3, <2>1, <3>1 DEF Found, Valid
  <2>2. CASE k # i
    <3>1. k \in DOMAIN tMap' /\ tMap'[k] = tMap[k]
      BY <2>2, WithoutType
    <3> QED
      BY <1>1, <1>2, <1>3, <3>1 DEF OnlyEntry
  <2> QED
    BY <2>1, <2>2
<1>4. GoesOn(j)
  BY <1>1, <1>2, <1>3 DEF NeverRunsDry, Single, OnlyEntry
<1> QED
  BY <1>1, <1>4, StillGoesOn DEF Alerted

(* Deleting a torrent leaves the downloads of the others going on.         *)
LEMMA DeleteKeepsDownloads ==
    ASSUME TypeOK, Bookkeeping, NeverRunsDry, NEW i \in Ids, DeleteTorrent(i),
           NEW j \in Single'
    PROVE  GoesOn(j)'
<1>1. CASE ~Found(i)
  BY <1>1, ForgetKeepsDownloads DEF DeleteTorrent
<1>2. CASE Found(i)
  <2> DEFINE t == tMap[i].torrent
             u == tMap[j].torrent
  <2>1. i \in DOMAIN tMap /\ t \in Torrents
    BY <1>2, EntryType DEF Found
  <2>2. /\ DOMAIN tMap' = DOMAIN tMap \ {i}
        /\ \A k \in DOMAIN tMap' : tMap'[k] = tMap[k]
    BY WithoutType DEF DeleteTorrent
  <2>3. j \in DOMAIN tMap \ {i} /\ tMap'[j] = tMap[j] /\ u \in Torrents
    BY <2>2, EntryType DEF Single
  <2>4. session'[u] = tMap[j].handle /\ tMap[j].handle # NoHandle
    BY <2>3, EntryType DEF Single, Valid
  <2>5. u # t
    BY <1>2, <2>1, <2>4 DEF DeleteTorrent, TypeOK
  <2>6. /\ session'[u] = session[u]
        /\ have'[u] = have[u] /\ finished'[u] = finished[u] /\ priority'[u] = priority[u]
        /\ UNCHANGED <<alerts, popped>>
    BY <1>2, <2>3, <2>5 DEF DeleteTorrent, TypeOK
  <2>7. ASSUME NEW k \in DOMAIN tMap, tMap[k].handle = tMap[j].handle
        PROVE  k = j
    <3>1. k # i
      BY <2>1, <2>3, <2>5, <2>7 DEF Bookkeeping, HandleOfOneTorrent
    <3> QED
      BY <2>2, <2>3, <2>7, <3>1 DEF Single, OnlyEntry
  <2>8. GoesOn(j)
    BY <2>3, <2>4, <2>6, <2>7
       DEF NeverRunsDry, Single, Valid, OnlyEntry
  <2> QED
    BY <2>3, <2>6, <2>8, StillGoesOn DEF Alerted
<1> QED
  BY <1>1, <1>2

(* A new entry asks for the end of its file and its first window.          *)
LEMMA AddKeepsDownloads ==
    ASSUME TypeOK, Bookkeeping, NeverRunsDry, ImportAdd, NEW j \in Single'
    PROVE  GoesOn(j)'
<1> DEFINE t == importing.torrent
           id == nextId + 1
<1>1. tMap'[id] = [torrent |-> t, handle |-> session'[t], fileFirstPiece |-> FirstPiece]
  BY AddedEntry
<1>2. /\ t \in Torrents
      /\ id \in Ids \ DOMAIN tMap
      /\ \A i \in DOMAIN tMap : tMap[i].handle < id
      /\ DOMAIN tMap' = DOMAIN tMap \cup {id}
      /\ \A i \in DOMAIN tMap : tMap'[i] = tMap[i]
      /\ session'[t] = IF session[t] = NoHandle THEN id ELSE session[t]
      /\ \A u \in Torrents \ {t} : session'[u] = session[u]
      /\ priority'[t] = priority[t] \cup InitialWindow(FirstPiece, FileLast)
      /\ \A u \in Torrents \ {t} : priority'[u] = priority[u]
      /\ UNCHANGED <<have, finished, alerts, popped>>
  BY AddEffect
<1> HIDE DEF t, id
<1>3. /\ j \in DOMAIN tMap'
      /\ session'[tMap'[j].torrent] = tMap'[j].handle
      /\ \A k \in DOMAIN tMap' : tMap'[k].handle = tMap'[j].handle => k = j
  BY DEF Single, Valid, OnlyEntry
<1>4. CASE j = id
  <2>1. session[t] = NoHandle
    <3>1. ASSUME session[t] # NoHandle
          PROVE  FALSE
      <4>1. PICK i \in DOMAIN tMap : tMap[i].handle = session[t]
        BY <1>2, <3>1 DEF Bookkeeping, SessionIsMapped
      <4> QED
        BY <1>1, <1>2, <1>3, <1>4, <3>1, <4>1
    <3> QED
      BY <3>1
  <2>2. finished[t] = {} /\ priority[t] = {}
    BY <1>2, <2>1 DEF Bookkeeping, OutOfSession
  <2>3. FirstPiece \in Nat /\ FileLast \in Piece /\ have[t] \in SUBSET Piece
    BY <1>2, FirstPieceType DEF TypeOK
  <2>4. FileLast \in InitialWindow(FirstPiece, FileLast)
    BY <2>3, InitialWindowType
  <2> QED
    BY <1>1, <1>2, <1>4, <2>2, <2>4 DEF GoesOn
<1>5. CASE j # id
  <2>1. j \in DOMAIN tMap /\ tMap'[j] = tMap[j] /\ tMap[j].torrent \in Torrents
    BY <1>2, <1>3, <1>5, EntryType
  <2>2. tMap[j].torrent # t
    <3>1. ASSUME tMap[j].torrent = t
          PROVE  FALSE
      BY <1>1, <1>2, <1>3, <1>5, <2>1, <3>1
    <3> QED
      BY <3>1
  <2>3. GoesOn(j)
    BY <1>2, <1>3, <2>1, <2>2
       DEF NeverRunsDry, Single, Valid, OnlyEntry
  <2> QED
    BY <1>2, <2>1, <2>2, <2>3, StillGoesOn DEF Alerted
<1> QED
  BY <1>4, <1>5

(* A worker that handles an alert asks for the first gap of the one entry  *)
(* that has its handle, and for nothing beyond one window.                 *)
LEMMA HandleAlertKeepsDownloads ==
    ASSUME TypeOK, Bookkeeping, NeverRunsDry, NEW w \in Workers, HandleAlert(w),
           NEW j \in Single'
    PROVE  GoesOn(j)'
<1> DEFINE t == tMap[j].torrent
           first == tMap[j].fileFirstPiece
           window == Window(have[t], first, FileLast)
<1>1. PICK h \in popped[w] :
        /\ \E left \in {popped[w], popped[w] \ {h}} : popped' = [popped EXCEPT ![w] = left]
        /\ \/ Entries(h) = {} /\ UNCHANGED priority
           \/ \E i \in Entries(h) :
                priority' = [priority EXCEPT ![tMap[i].torrent] = @ \cup
                               Window(have[tMap[i].torrent], tMap[i].fileFirstPiece,
                                      FileLast)]
        /\ UNCHANGED <<session, have, finished, alerts, tMap>>
  BY DEF HandleAlert
<1>2. j \in Single /\ GoesOn(j)
  BY <1>1 DEF Single, Valid, OnlyEntry, NeverRunsDry
<1>3. /\ j \in DOMAIN tMap /\ t \in Torrents /\ first \in Nat /\ FileLast \in Piece
      /\ have[t] \in SUBSET Piece /\ session[t] = tMap[j].handle
  BY <1>2, EntryType DEF Single, Valid
<1>4. \A k \in Entries(tMap[j].handle) : k = j
  BY <1>2 DEF Entries, Single, OnlyEntry
<1>5. CASE h = tMap[j].handle
  <2>1. j \in Entries(h)
    BY <1>2, <1>5 DEF Entries, Single
  <2>2. priority'[t] = priority[t] \cup window
    BY <1>1, <1>3, <1>4, <1>5, <2>1, SMTT(30) DEF TypeOK
  <2>3. Gap(j)' = Gap(j) /\ Gap(j) = Missing(have[t], first, FileLast)
    BY <1>1 DEF Gap
  <2>4. FileLast \in have[t] /\ Gap(j) # {} => Min(Gap(j)) \in window
    BY <1>3, <2>3, WindowHasGap
  <2> QED
    BY <1>1, <1>2, <2>2, <2>3, <2>4 DEF GoesOn
<1>6. CASE h # tMap[j].handle
  <2>1. priority'[t] = priority[t]
    <3>1. ASSUME NEW i \in Entries(h)
          PROVE  tMap[i].torrent # t
      BY <1>3, <1>6, <3>1 DEF Entries, Valid
    <3> QED
      BY <1>1, <1>3, <3>1 DEF TypeOK
  <2>2. Alerted(tMap[j].handle) => Alerted(tMap[j].handle)'
    <3> SUFFICES ASSUME NEW v \in Workers, tMap[j].handle \in popped[v]
                 PROVE  tMap[j].handle \in popped'[v]
      BY <1>1 DEF Alerted
    <3> QED
      BY <1>1, <1>6 DEF TypeOK
  <2> QED
    BY <1>1, <1>2, <1>3, <2>1, <2>2, StillGoesOn
<1> QED
  BY <1>5, <1>6

(* A piece that arrives leaves its torrent with an alert, or, found by the *)
(* check of the files, with nothing downloaded yet.                        *)
LEMMA PieceKeepsDownloads ==
    ASSUME TypeOK, Bookkeeping, NeverRunsDry, NEW t \in Torrents, NEW p \in Piece,
           PieceChecked(t, p) \/ PieceFinished(t, p),
           NEW j \in Single'
    PROVE  GoesOn(j)'
<1>1. /\ UNCHANGED <<session, priority, popped, tMap>>
      /\ have' = [have EXCEPT ![t] = @ \cup {p}]
      /\ \A u \in Torrents \ {t} : have'[u] = have[u] /\ finished'[u] = finished[u]
      /\ alerts \subseteq alerts'
      /\ finished'[t] = {} \/ session[t] \in alerts'
  BY DEF PieceChecked, PieceFinished, engine, TypeOK, Bookkeeping, CheckedFirst
<1>2. j \in Single /\ GoesOn(j)
  BY <1>1 DEF Single, Valid, OnlyEntry, NeverRunsDry
<1>3. /\ j \in DOMAIN tMap /\ tMap[j].torrent \in Torrents
      /\ tMap[j].fileFirstPiece \in Nat /\ FileLast \in Piece
      /\ have[tMap[j].torrent] \in SUBSET Piece
      /\ session[tMap[j].torrent] = tMap[j].handle
  BY <1>2, EntryType DEF Single, Valid
<1>4. CASE tMap[j].torrent # t
  <2>1. Alerted(tMap[j].handle) => Alerted(tMap[j].handle)'
    BY <1>1 DEF Alerted
  <2> QED
    BY <1>1, <1>2, <1>3, <1>4, <2>1, StillGoesOn
<1>5. CASE tMap[j].torrent = t
  <2>1. have'[t] = have[t] \cup {p}
    BY <1>1 DEF TypeOK
  <2>2. finished'[t] = {} \/ Alerted(tMap[j].handle)'
    BY <1>1, <1>3, <1>5 DEF Alerted
  <2> QED
    BY <1>1, <1>2, <1>5, <2>1, <2>2 DEF GoesOn
<1> QED
  BY <1>4, <1>5

(* Every step of the engine keeps the downloads going on.                  *)
LEMMA DownloadsStep ==
    ASSUME TypeOK, Bookkeeping, NeverRunsDry, [Next]_vars
    PROVE  NeverRunsDry'
<1> SUFFICES ASSUME NEW j \in Single'
             PROVE  GoesOn(j)'
  BY DEF NeverRunsDry
<1>1. CASE UNCHANGED <<session, have, finished, priority, alerts, popped, tMap>>
  <2>1. j \in Single
    BY <1>1 DEF Single, Valid, OnlyEntry
  <2>2. GoesOn(j) /\ j \in DOMAIN tMap
    BY <2>1 DEF NeverRunsDry, Single
  <2> QED
    BY <1>1, <2>2, StillGoesOn DEF Alerted
<1>2. CASE ImportAdd
  BY <1>2, AddKeepsDownloads
<1>3. ASSUME NEW i \in Ids, GetAux(i) PROVE GoesOn(j)'
  BY <1>1, <1>3, ForgetKeepsDownloads DEF GetAux, libtorrent
<1>4. ASSUME NEW i \in Ids, CountPieces(i) PROVE GoesOn(j)'
  BY <1>1, <1>4, ForgetKeepsDownloads DEF CountPieces, libtorrent
<1>5. ASSUME NEW i \in Ids, DeleteTorrent(i) PROVE GoesOn(j)'
  BY <1>5, DeleteKeepsDownloads
<1>6. ASSUME NEW w \in Workers, PopAlerts(w) PROVE GoesOn(j)'
  <2>1. UNCHANGED <<session, have, finished, priority, tMap>>
    BY <1>6 DEF PopAlerts
  <2>2. GoesOn(j) /\ j \in DOMAIN tMap
    BY <2>1 DEF Single, Valid, OnlyEntry, NeverRunsDry
  <2>3. Alerted(tMap[j].handle) => Alerted(tMap[j].handle)'
    <3>1. popped'[w] = alerts /\ \A v \in Workers \ {w} : popped'[v] = popped[v]
      BY <1>6 DEF PopAlerts, TypeOK
    <3>2. popped[w] = {}
      BY <1>6 DEF PopAlerts
    <3>3. CASE tMap[j].handle \in alerts
      BY <2>1, <3>1, <3>3 DEF Alerted
    <3>4. ASSUME NEW v \in Workers, tMap[j].handle \in popped[v]
          PROVE  Alerted(tMap[j].handle)'
      <4>1. tMap[j].handle \in popped'[v]
        BY <3>1, <3>2, <3>4
      <4> QED
        BY <2>1, <4>1 DEF Alerted
    <3> QED
      BY <3>3, <3>4 DEF Alerted
  <2> QED
    BY <2>1, <2>2, <2>3, StillGoesOn
<1>7. ASSUME NEW w \in Workers, HandleAlert(w) PROVE GoesOn(j)'
  BY <1>7, HandleAlertKeepsDownloads
<1>8. ASSUME NEW t \in Torrents, NEW p \in Piece, PieceChecked(t, p) \/ PieceFinished(t, p)
      PROVE  GoesOn(j)'
  BY <1>8, PieceKeepsDownloads
<1>9. CASE Restart
  BY <1>9 DEF Restart, Dies, Single
<1> QED
  BY <1>1, <1>2, <1>3, <1>4, <1>5, <1>6, <1>7, <1>8, <1>9
     DEF Next, Import, ImportBegin, ImportRejected, ForgetSettings, ImportInfo,
         ImportMaxBlock, StoreMaxBlock,
         ImportPercent, ImportWrites, ImportAddFails, Callback, Libtorrent,
         StorePercent, StoreReady, vars, libtorrent, engine

(* Whatever the callers do, in whatever order alerts are popped and        *)
(* handled, a download that has begun is always asked for, or an alert     *)
(* that will ask for it is on its way (streamerok.cpp 91-99, 106-125,      *)
(* 581-595).  Types, bookkeeping and this together are inductive.          *)
THEOREM DownloadsGoOn == Spec => []NeverRunsDry
<1>1. Init => Bookkeeping /\ NeverRunsDry
  BY DEF Init, Empty, NoHandle, Bookkeeping, IdsWereIssued, HandleOfOneTorrent,
         SessionIsMapped, OutOfSession, CheckedFirst, NeverRunsDry, Single
<1>2. TypeOK /\ Bookkeeping /\ [Next]_vars => Bookkeeping'
  BY BookkeepingStep
<1>3. TypeOK /\ Bookkeeping /\ NeverRunsDry /\ [Next]_vars => NeverRunsDry'
  BY DownloadsStep
<1> QED
  BY <1>1, <1>2, <1>3, TypeInit, TypeStep, PTL DEF Spec

-----------------------------------------------------------------------------
(* The pieces of priority 7 are due, in the sense of module Delivery, to   *)
(* one of the entries of their torrent, if not the end of the file.        *)
DueTo(i, p) ==
    LET t == tMap[i].torrent
        first == tMap[i].fileFirstPiece
    IN /\ p \in first .. FileLast - 1
       /\ \A gap \in Missing(have[t], first, FileLast) : p < gap + MAX_PRIORITY_PIECES

Due(t, p) ==
    p \in {FileLast - 1, FileLast} \/ \E i \in Entries(session[t]) : DueTo(i, p)

AsksInTurn == \A t \in Torrents : \A p \in priority[t] : Due(t, p)

(* All entries with the handle of a torrent of the session are its own.    *)
LEMMA EntriesOfSession ==
    TypeOK /\ Bookkeeping =>
        \A t \in Torrents : session[t] # NoHandle =>
            /\ Entries(session[t]) = {i \in DOMAIN tMap : tMap[i].handle = session[t]}
            /\ Entries(session[t]) # {}
            /\ \A i \in Entries(session[t]) : tMap[i].torrent = t
<1> SUFFICES ASSUME TypeOK, Bookkeeping, NEW t \in Torrents, session[t] # NoHandle
             PROVE  /\ \A i \in DOMAIN tMap : tMap[i].handle = session[t]
                                                => tMap[i].torrent = t
                    /\ \E i \in DOMAIN tMap : tMap[i].handle = session[t]
  BY DEF Entries, Valid
<1>1. PICK i \in DOMAIN tMap : tMap[i].torrent = t /\ tMap[i].handle = session[t]
  BY DEF Bookkeeping, SessionIsMapped
<1> QED
  BY <1>1 DEF Bookkeeping, HandleOfOneTorrent

(* An entry to which a piece is due stays one while pieces come.           *)
LEMMA StaysDue ==
    ASSUME NEW i \in DOMAIN tMap, i \in DOMAIN tMap', tMap'[i] = tMap[i],
           have[tMap[i].torrent] \subseteq have'[tMap[i].torrent],
           NEW p, DueTo(i, p)
    PROVE  DueTo(i, p)'
BY DEF DueTo, Missing

(* What a step keeps of an entry to which a piece is due: the entry goes   *)
(* only with its torrent.                                                  *)
LEMMA SameEntriesDue ==
    ASSUME TypeOK, AsksInTurn, NEW t \in Torrents,
           session'[t] = session[t], priority'[t] = priority[t],
           have[t] \subseteq have'[t],
           \A i \in Entries(session[t]) :
              /\ tMap[i].torrent = t
              /\ i \in Entries(session[t])' /\ tMap'[i] = tMap[i],
           NEW p \in priority'[t]
    PROVE  Due(t, p)'
<1>1. CASE p \in {FileLast - 1, FileLast}
  BY <1>1 DEF Due
<1>2. ASSUME NEW i \in Entries(session[t]), DueTo(i, p)
      PROVE  Due(t, p)'
  <2>1. i \in DOMAIN tMap /\ i \in DOMAIN tMap'
    BY <1>2 DEF Entries
  <2>2. DueTo(i, p)'
    BY <1>2, <2>1, StaysDue
  <2> QED
    BY <1>2, <2>2 DEF Due
<1> QED
  BY <1>1, <1>2 DEF AsksInTurn, Due

(* The constructor of tAux asks for what is due to the new entry.          *)
LEMMA AddAsksInTurn ==
    ASSUME TypeOK, Bookkeeping, AsksInTurn, ImportAdd
    PROVE  AsksInTurn'
<1> SUFFICES ASSUME NEW t, t = importing.torrent, NEW id, id = nextId + 1
             PROVE  AsksInTurn'
  OBVIOUS
<1>1. tMap'[id] = [torrent |-> t, handle |-> session'[t], fileFirstPiece |-> FirstPiece]
  BY AddedEntry
<1>1a. /\ tMap'[id].torrent = t /\ tMap'[id].handle = session'[t]
      /\ tMap'[id].fileFirstPiece = FirstPiece
  BY <1>1
<1>2. /\ t \in Torrents
      /\ id \in Ids \ DOMAIN tMap
      /\ DOMAIN tMap' = DOMAIN tMap \cup {id}
      /\ \A i \in DOMAIN tMap : tMap'[i] = tMap[i]
      /\ session'[t] = IF session[t] = NoHandle THEN id ELSE session[t]
      /\ \A u \in Torrents \ {t} : session'[u] = session[u]
      /\ priority'[t] = priority[t] \cup InitialWindow(FirstPiece, FileLast)
      /\ \A u \in Torrents \ {t} : priority'[u] = priority[u]
      /\ UNCHANGED have
  BY AddEffect
<1>3. ASSUME NEW u \in Torrents, session'[u] = session[u], session[u] # NoHandle
      PROVE  \A i \in Entries(session[u]) : /\ tMap[i].torrent = u
                                            /\ i \in Entries(session[u])'
                                            /\ tMap'[i] = tMap[i]
  <2>1. \A i \in Entries(session[u]) : tMap[i].torrent = u
    BY <1>3, EntriesOfSession
  <2> QED
    BY <1>2, <1>3, <2>1 DEF Entries, Valid
<1>4. \A u \in Torrents : session[u] = NoHandle => priority[u] = {}
  BY DEF Bookkeeping, OutOfSession
<1>5. ASSUME NEW u \in Torrents, NEW p \in priority[u]
      PROVE  Due(u, p)'
  <2>1. session[u] # NoHandle
    BY <1>4, <1>5
  <2>2. session'[u] = session[u]
    BY <1>2, <2>1
  <2>3. PICK q : q = p /\ Due(u, q)
    BY <1>5 DEF AsksInTurn
  <2>4. CASE p \in {FileLast - 1, FileLast}
    BY <2>4 DEF Due
  <2>5. ASSUME NEW i \in Entries(session[u]), DueTo(i, p)
        PROVE  Due(u, p)'
    <3>1. /\ i \in DOMAIN tMap /\ i \in DOMAIN tMap' /\ tMap'[i] = tMap[i]
          /\ i \in Entries(session[u])'
      BY <1>2, <1>3, <2>1, <2>2, <2>5 DEF Entries
    <3>2. DueTo(i, p)'
      BY <1>2, <2>5, <3>1, StaysDue
    <3> QED
      BY <2>2, <3>1, <3>2 DEF Due
  <2> QED
    BY <2>3, <2>4, <2>5 DEF Due
<1>6. ASSUME NEW p \in InitialWindow(FirstPiece, FileLast)
      PROVE  Due(t, p)'
  <2>1. FirstPiece \in Nat /\ FileLast \in Piece /\ p \in Nat
    BY <1>6, FirstPieceType DEF InitialWindow, Piece
  <2>2. CASE p \in {FileLast - 1, FileLast}
    BY <2>2 DEF Due
  <2>3. CASE p \in FirstPiece .. FileLast - 1 /\ p < FirstPiece + MAX_PRIORITY_PIECES
    <3>1. id \in Entries(session[t])'
      BY <1>1a, <1>2 DEF Entries, Valid
    <3>2. \A gap \in Missing(have[t], FirstPiece, FileLast) :
             gap \in Int /\ FirstPiece <= gap
      BY <2>1 DEF Missing
    <3>3. \A gap \in Missing(have[t], FirstPiece, FileLast) :
             p < gap + MAX_PRIORITY_PIECES
      BY <2>1, <2>3, <3>2
    <3>4. DueTo(id, p)'
      BY <1>1a, <1>2, <2>3, <3>3 DEF DueTo
    <3> QED
      BY <3>1, <3>4 DEF Due
  <2> QED
    BY <1>6, <2>1, <2>2, <2>3 DEF InitialWindow, Piece
<1> QED
  <2>1. ASSUME NEW u \in Torrents, NEW p \in priority'[u]
        PROVE  Due(u, p)'
    BY <1>2, <1>5, <1>6, <2>1
  <2> QED
    BY <2>1 DEF AsksInTurn

(* prioritize asks for what is due to the entry it is called on.           *)
LEMMA HandleAlertAsksInTurn ==
    ASSUME TypeOK, Bookkeeping, AsksInTurn, NEW w \in Workers, HandleAlert(w)
    PROVE  AsksInTurn'
<1>1. UNCHANGED <<session, have, tMap>>
  BY DEF HandleAlert
<1>2. \A t \in Torrents, p \in Piece : Due(t, p) => Due(t, p)'
  BY <1>1 DEF Due, DueTo, Entries, Valid
<1>3. CASE UNCHANGED priority
  BY <1>1, <1>2, <1>3 DEF AsksInTurn, TypeOK
<1>4. ASSUME NEW h \in popped[w], NEW i \in Entries(h),
             priority' = [priority EXCEPT ![tMap[i].torrent] = @ \cup
                            Window(have[tMap[i].torrent], tMap[i].fileFirstPiece,
                                   FileLast)]
      PROVE  AsksInTurn'
  <2> DEFINE t == tMap[i].torrent
             first == tMap[i].fileFirstPiece
  <2>1. /\ i \in DOMAIN tMap /\ t \in Torrents /\ first \in Nat
        /\ have[t] \in SUBSET Piece /\ FileLast \in Piece
    BY <1>4, EntryType DEF Entries
  <2>2. i \in Entries(session[t])
    BY <1>4 DEF Entries, Valid
  <2>3. ASSUME NEW p \in Window(have[t], first, FileLast)
        PROVE  p \in Piece /\ Due(t, p)
    <3> DEFINE missing == Missing(have[t], first, FileLast)
    <3>1. p \in missing /\ missing \in SUBSET Nat
      BY <2>1, <2>3 DEF Window, Missing, Piece
    <3>2. p < Min(missing) + MAX_PRIORITY_PIECES
      BY <2>3 DEF Window
    <3>3. Min(missing) \in Nat /\ \A gap \in missing : Min(missing) <= gap
      BY <3>1, MinIsLeast
    <3>4. \A gap \in missing : gap \in Nat /\ p < gap + MAX_PRIORITY_PIECES
      <4>1. p \in Nat
        BY <3>1
      <4> HIDE DEF missing
      <4> QED
        BY <3>1, <3>2, <3>3, <4>1
    <3>5. p \in first .. FileLast - 1 /\ p \in Piece
      BY <2>1, <3>1 DEF Missing, Piece
    <3> QED
      BY <2>2, <3>4, <3>5 DEF Due, DueTo
  <2>4. \A u \in Torrents : \A p \in priority'[u] : p \in Piece /\ Due(u, p)
    BY <1>4, <2>1, <2>3 DEF AsksInTurn, TypeOK
  <2> QED
    BY <1>1, <1>2, <2>4 DEF AsksInTurn
<1> QED
  BY <1>3, <1>4 DEF HandleAlert

(* Every step asks only for what is due.                                   *)
LEMMA AsksInTurnStep ==
    ASSUME TypeOK, Bookkeeping, AsksInTurn, [Next]_vars
    PROVE  AsksInTurn'
<1> DEFINE Gone(i) == tMap' = Without(i) /\ ~Found(i)
<1>1. ASSUME UNCHANGED <<session, priority>>,
             \A t \in Torrents : have[t] \subseteq have'[t],
             UNCHANGED tMap \/ \E i \in Ids : Gone(i)
      PROVE  AsksInTurn'
  <2>1. \A j \in DOMAIN tMap : Valid(j) => j \in DOMAIN tMap' /\ tMap'[j] = tMap[j]
    <3>1. ASSUME NEW i \in Ids, Gone(i), NEW j \in DOMAIN tMap, Valid(j)
          PROVE  j \in DOMAIN tMap' /\ tMap'[j] = tMap[j]
      <4>1. j # i
        BY <3>1 DEF Found
      <4> QED
        BY <3>1, <4>1, WithoutType
    <3> QED
      BY <1>1, <3>1
  <2>2. ASSUME NEW t \in Torrents, NEW p \in priority[t]
        PROVE  Due(t, p)'
    <3>1. session[t] # NoHandle
      BY <2>2 DEF Bookkeeping, OutOfSession
    <3>2. \A i \in Entries(session[t]) : /\ tMap[i].torrent = t
                                         /\ i \in Entries(session[t])'
                                         /\ tMap'[i] = tMap[i]
      BY <1>1, <2>1, <3>1, EntriesOfSession DEF Entries, Valid
    <3> QED
      BY <1>1, <2>2, <3>2, SameEntriesDue
  <2> QED
    BY <1>1, <2>2 DEF AsksInTurn
<1>2. CASE ImportAdd
  BY <1>2, AddAsksInTurn
<1>3. ASSUME NEW i \in Ids, DeleteTorrent(i), Found(i)
      PROVE  AsksInTurn'
  <2>1. i \in DOMAIN tMap /\ tMap[i].torrent \in Torrents
    BY <1>3, EntryType DEF Found
  <2>2. PICK t \in Torrents : t = tMap[i].torrent
    BY <2>1
  <2>3. /\ session' = [session EXCEPT ![t] = NoHandle]
        /\ priority' = [priority EXCEPT ![t] = {}]
        /\ have' = [have EXCEPT ![t] = {}]
        /\ tMap' = Without(i)
    BY <1>3, <2>2 DEF DeleteTorrent
  <2>4. ASSUME NEW u \in Torrents, NEW p \in priority'[u]
        PROVE  Due(u, p)'
    <3>1. u # t
      BY <2>3, <2>4 DEF TypeOK
    <3>2. /\ session'[u] = session[u] /\ priority'[u] = priority[u] /\ have'[u] = have[u]
          /\ session[u] # NoHandle
      BY <2>3, <2>4, <3>1 DEF TypeOK, Bookkeeping, OutOfSession
    <3>3. ASSUME NEW j \in Entries(session[u])
          PROVE  /\ tMap[j].torrent = u
                 /\ j \in Entries(session[u])' /\ tMap'[j] = tMap[j]
      <4>1. tMap[j].torrent = u /\ tMap[j].handle = session[u] /\ j \in DOMAIN tMap
        BY <3>2, <3>3, EntriesOfSession DEF Entries
      <4>2. j # i
        BY <2>2, <3>1, <4>1
      <4>3. j \in DOMAIN tMap' /\ tMap'[j] = tMap[j]
        BY <2>3, <4>1, <4>2, WithoutType
      <4> QED
        BY <3>2, <4>1, <4>3 DEF Entries, Valid
    <3> QED
      BY <2>4, <3>2, <3>3, SameEntriesDue
  <2> QED
    BY <2>4 DEF AsksInTurn
<1>4. ASSUME NEW i \in Ids, GetAux(i) PROVE AsksInTurn'
  BY <1>1, <1>4 DEF GetAux, libtorrent
<1>5. ASSUME NEW i \in Ids, CountPieces(i) PROVE AsksInTurn'
  BY <1>1, <1>5 DEF CountPieces, libtorrent
<1>6. ASSUME NEW i \in Ids, DeleteTorrent(i) PROVE AsksInTurn'
  BY <1>1, <1>3, <1>6 DEF DeleteTorrent
<1>7. ASSUME NEW w \in Workers, HandleAlert(w) PROVE AsksInTurn'
  BY <1>7, HandleAlertAsksInTurn
<1>8. ASSUME NEW t \in Torrents, NEW p \in Piece, PieceChecked(t, p) \/ PieceFinished(t, p)
      PROVE  AsksInTurn'
  BY <1>1, <1>8 DEF PieceChecked, PieceFinished, engine, TypeOK
<1>9. CASE Restart
  BY <1>9 DEF Restart, Dies, Empty, AsksInTurn
<1> QED
  BY <1>1, <1>2, <1>4, <1>5, <1>6, <1>7, <1>8, <1>9
     DEF Next, Import, ImportBegin, ImportRejected, ForgetSettings, ImportInfo,
         ImportMaxBlock, StoreMaxBlock,
         ImportPercent, ImportWrites, ImportAddFails, Callback, PopAlerts, Libtorrent,
         StorePercent, StoreReady, vars, libtorrent, engine

(* What is wanted of a torrent changes only with its entries.              *)
LEMMA FromOf ==
    ASSUME TypeOK
    PROVE  /\ From \in [Torrents -> SUBSET (0 .. NPieces)]
           /\ \A t \in Torrents :
                From[t] = IF session[t] = NoHandle THEN {}
                          ELSE {tMap[i].fileFirstPiece : i \in Entries(session[t])}
<1>1. \A t \in Torrents : \A i \in Entries(session[t]) :
         tMap[i].fileFirstPiece \in 0 .. NPieces
  BY DEF Entries, TypeOK, tAux
<1> QED
  BY <1>1 DEF From

(* Somebody who asked for a torrent in the session is known.               *)
LEMMA FromNotEmpty ==
    ASSUME TypeOK, Bookkeeping, NEW t \in Torrents, session[t] # NoHandle
    PROVE  From[t] # {}
<1>1. PICK i : i \in Entries(session[t])
  BY EntriesOfSession
<1>2. tMap[i].fileFirstPiece \in From[t]
  BY <1>1, FromOf
<1> QED
  BY <1>2

(* A new id asks for its torrent, from its first piece on.                 *)
LEMMA AddBegins ==
    ASSUME TypeOK, Bookkeeping, ImportAdd
    PROVE  \E t \in Torrents, f \in FileFirst .. NPieces : D!Begin(t, f)
<1> SUFFICES ASSUME NEW t, t = importing.torrent, NEW id, id = nextId + 1
             PROVE  t \in Torrents /\ FirstPiece \in FileFirst .. NPieces
                    /\ D!Begin(t, FirstPiece)
  OBVIOUS
<1>1. tMap'[id] = [torrent |-> t, handle |-> session'[t], fileFirstPiece |-> FirstPiece]
  BY AddedEntry
<1>2. /\ tMap'[id].torrent = t /\ tMap'[id].handle = session'[t]
      /\ tMap'[id].fileFirstPiece = FirstPiece
  BY <1>1
<1>3. /\ t \in Torrents
      /\ id \in Ids \ DOMAIN tMap
      /\ \A i \in DOMAIN tMap : tMap[i].handle < id
      /\ DOMAIN tMap' = DOMAIN tMap \cup {id}
      /\ \A i \in DOMAIN tMap : tMap'[i] = tMap[i]
      /\ session'[t] = IF session[t] = NoHandle THEN id ELSE session[t]
      /\ \A u \in Torrents \ {t} : session'[u] = session[u]
      /\ UNCHANGED <<have, disk>>
  BY AddEffect
<1>4. FirstPiece \in FileFirst .. NPieces
  BY FirstPieceType DEF FirstPiece, TypeOK, Settings, NoCount, Piece
<1>5. ASSUME NEW u \in Torrents \ {t}
      PROVE  From'[u] = From[u]
  <2>1. CASE session[u] = NoHandle
    BY <1>3, <2>1 DEF From
  <2>2. CASE session[u] # NoHandle
    <3>1. /\ \A i \in DOMAIN tMap : tMap[i].handle = session[u] => tMap[i].torrent = u
          /\ \E i \in DOMAIN tMap : tMap[i].handle = session[u]
      BY <2>2, EntriesOfSession DEF Entries
    <3>2. session'[t] # session[u]
      <4>1. CASE session[t] = NoHandle
        BY <1>3, <3>1, <4>1 DEF TypeOK, tAux, Ids
      <4>2. CASE session[t] # NoHandle
        BY <1>3, <3>1, <4>2, EntriesOfSession DEF Entries
      <4> QED
        BY <4>1, <4>2
    <3>3. \A i \in DOMAIN tMap' : tMap'[i].handle = session[u] =>
             i \in DOMAIN tMap /\ tMap'[i] = tMap[i]
      BY <1>2, <1>3, <3>2
    <3>4. Entries(session[u])' = Entries(session[u])
      BY <1>3, <3>1, <3>3 DEF Entries, Valid
    <3> QED
      BY <1>3, <2>2, <3>3, <3>4 DEF From, Entries
  <2> QED
    BY <2>1, <2>2
<1>6. From'[t] = From[t] \cup {FirstPiece}
  <2>1. session'[t] # NoHandle
    BY <1>3 DEF NoHandle, Ids
  <2>2. id \in Entries(session[t])'
    BY <1>2, <1>3 DEF Entries, Valid
  <2>3. CASE session[t] = NoHandle
    <3>1. \A i \in DOMAIN tMap : tMap'[i].handle # session'[t]
      BY <1>3, <2>3 DEF TypeOK, tAux, Ids
    <3>2. Entries(session[t])' = {id}
      BY <1>3, <2>2, <3>1 DEF Entries
    <3> QED
      BY <1>2, <1>3, <2>1, <2>3, <3>2 DEF From
  <2>4. CASE session[t] # NoHandle
    <3>1. Entries(session[t])' = Entries(session[t]) \cup {id}
      BY <1>2, <1>3, <2>2, <2>4, EntriesOfSession DEF Entries, Valid
    <3>2. \A i \in Entries(session[t]) : tMap'[i] = tMap[i]
      BY <1>3 DEF Entries
    <3> QED
      BY <1>2, <1>3, <2>1, <2>4, <3>1, <3>2 DEF From
  <2> QED
    BY <2>3, <2>4
<1>7. From' = [From EXCEPT ![t] = @ \cup {FirstPiece}]
  <2>1. /\ From = [u \in Torrents |-> From[u]]
        /\ From' = [u \in Torrents |-> From'[u]]
    BY DEF From
  <2> QED
    BY <1>3, <1>5, <1>6, <2>1
<1> QED
  BY <1>3, <1>4, <1>7 DEF D!Begin

(* deleteTorrent ends what anybody asked for of the torrent.               *)
LEMMA DeleteStops ==
    ASSUME TypeOK, Bookkeeping, NEW i \in Ids, DeleteTorrent(i), Found(i)
    PROVE  \E t \in Torrents : D!Stop(t)
<1>1. i \in DOMAIN tMap /\ tMap[i].torrent \in Torrents
  BY EntryType DEF Found
<1>2. PICK t \in Torrents : t = tMap[i].torrent
  BY <1>1
<1>3. /\ session' = [session EXCEPT ![t] = NoHandle]
      /\ have' = [have EXCEPT ![t] = {}]
      /\ DOMAIN tMap' = DOMAIN tMap \ {i}
      /\ \A j \in DOMAIN tMap' : tMap'[j] = tMap[j]
      /\ UNCHANGED disk
  BY <1>2, WithoutType DEF DeleteTorrent
<1>4. ASSUME NEW u \in Torrents \ {t}
      PROVE  From'[u] = From[u]
  <2>1. session'[u] = session[u]
    BY <1>3 DEF TypeOK
  <2>2. CASE session[u] = NoHandle
    BY <2>1, <2>2 DEF From
  <2>3. CASE session[u] # NoHandle
    <3>1. \A j \in DOMAIN tMap : tMap[j].handle = session[u] => tMap[j].torrent = u
      BY <2>3, EntriesOfSession DEF Entries
    <3>2. Entries(session[u])' = Entries(session[u])
      BY <1>1, <1>2, <1>3, <2>1, <3>1 DEF Entries, Valid
    <3> QED
      BY <1>3, <2>1, <2>3, <3>2 DEF From, Entries
  <2> QED
    BY <2>2, <2>3
<1>5. From'[t] = {}
  BY <1>3 DEF From, TypeOK
<1>6. From' = [From EXCEPT ![t] = {}]
  <2>1. /\ From = [u \in Torrents |-> From[u]]
        /\ From' = [u \in Torrents |-> From'[u]]
    BY DEF From
  <2> QED
    BY <1>4, <1>5, <2>1
<1> QED
  BY <1>3, <1>6 DEF D!Stop

(* Forgetting an id that finds nothing is not seen from outside.           *)
LEMMA ForgetIsSilent ==
    ASSUME TypeOK, Bookkeeping, NEW i \in Ids, ~Found(i), tMap' = Without(i),
           UNCHANGED <<session, have, disk>>
    PROVE  UNCHANGED D!vars
<1>1. \A j \in DOMAIN tMap' : tMap'[j] = tMap[j]
  BY WithoutType
<1>2. DOMAIN tMap' = DOMAIN tMap \ {i}
  BY WithoutType
<1>3. ASSUME NEW t \in Torrents
      PROVE  Entries(session[t])' = Entries(session[t])
  BY <1>1, <1>2 DEF Entries, Found, Valid
<1>4. ASSUME NEW t \in Torrents
      PROVE  From'[t] = From[t]
  BY <1>1, <1>3 DEF From, Entries
<1>5. From' = From
  <2>1. /\ From = [u \in Torrents |-> From[u]]
        /\ From' = [u \in Torrents |-> From'[u]]
    BY DEF From
  <2> QED
    BY <1>4, <2>1
<1> QED
  BY <1>5 DEF D!vars

(* Each step of the engine is a step of Delivery, or is not seen there.    *)
LEMMA StepOfDelivery ==
    ASSUME TypeOK, Bookkeeping, AsksInTurn, [Next]_vars
    PROVE  [D!Next]_(D!vars)
<1>1. CASE UNCHANGED <<session, tMap, have, disk>>
  <2>1. \A t \in Torrents : Entries(session[t])' = Entries(session[t])
    BY <1>1 DEF Entries, Valid
  <2>2. From' = From
    BY <1>1, <2>1 DEF From
  <2> QED
    BY <1>1, <2>2 DEF D!vars
<1>2. ASSUME NEW t \in Torrents, ImportBegin(t) PROVE D!Clear \/ UNCHANGED D!vars
  <2>1. UNCHANGED <<session, tMap, have>>
    BY <1>2 DEF ImportBegin
  <2>2. \A u \in Torrents : Entries(session[u])' = Entries(session[u])
    BY <2>1 DEF Entries, Valid
  <2>3. From' = From
    BY <2>1, <2>2 DEF From
  <2>4. CASE UNCHANGED disk
    BY <2>1, <2>3, <2>4 DEF D!vars
  <2>5. CASE CleanOldFiles
    <3>1. /\ disk' \in [Torrents -> SUBSET Piece]
          /\ \A u \in Torrents : disk'[u] \subseteq disk[u]
      BY <2>5 DEF CleanOldFiles, TypeOK
    <3> QED
      BY <2>1, <2>3, <3>1 DEF D!Clear, D!Shrinks, D!Piece, Piece
  <2> QED
    BY <1>2, <2>4, <2>5 DEF ImportBegin
<1>3. CASE ImportAdd
  <2>1. \E t \in Torrents, f \in FileFirst .. NPieces : D!Begin(t, f)
    BY <1>3, AddBegins
  <2> QED
    BY <2>1 DEF D!Next
<1>4. ASSUME NEW i \in Ids, GetAux(i) PROVE [D!Next]_(D!vars)
  BY <1>1, <1>4, ForgetIsSilent DEF GetAux, libtorrent
<1>5. ASSUME NEW i \in Ids, CountPieces(i) PROVE [D!Next]_(D!vars)
  BY <1>1, <1>5, ForgetIsSilent DEF CountPieces, libtorrent
<1>6. ASSUME NEW i \in Ids, DeleteTorrent(i) PROVE [D!Next]_(D!vars)
  <2>1. CASE Found(i)
    <3>1. \E t \in Torrents : D!Stop(t)
      BY <1>6, <2>1, DeleteStops
    <3> QED
      BY <3>1 DEF D!Next
  <2>2. CASE ~Found(i)
    BY <1>6, <2>2, ForgetIsSilent DEF DeleteTorrent
  <2> QED
    BY <2>1, <2>2
<1>7. ASSUME NEW t \in Torrents, NEW p \in Piece, PieceChecked(t, p) \/ PieceFinished(t, p)
      PROVE  D!Find(t, p) \/ D!Deliver(t, p)
  <2>1. /\ UNCHANGED <<session, tMap>>
        /\ session[t] # NoHandle
        /\ have' = [have EXCEPT ![t] = @ \cup {p}]
    BY <1>7 DEF PieceChecked, PieceFinished, engine
  <2>2. \A u \in Torrents : Entries(session[u])' = Entries(session[u])
    BY <2>1 DEF Entries, Valid
  <2>3. From' = From
    BY <2>1, <2>2 DEF From
  <2>4. D!Gets(t, p)
    BY <2>1, <2>3, FromNotEmpty DEF D!Gets
  <2>5. CASE PieceChecked(t, p)
    BY <2>4, <2>5 DEF PieceChecked, D!Find
  <2>6. CASE PieceFinished(t, p)
    <3>1. Due(t, p) /\ p \notin have[t]
      BY <2>6 DEF PieceFinished, AsksInTurn
    <3>2. D!InTurn(t, p)
      <4>1. ASSUME NEW i \in Entries(session[t]), DueTo(i, p)
            PROVE  D!InTurn(t, p)
        <5>1. tMap[i].torrent = t
          BY <2>1, <4>1, EntriesOfSession
        <5>2. tMap[i].fileFirstPiece \in From[t]
          BY <2>1, <4>1, FromOf
        <5> QED
          BY <4>1, <5>1, <5>2 DEF DueTo, D!InTurn, D!Missing, Missing
      <4> QED
        BY <3>1, <4>1 DEF Due, D!InTurn
    <3>3. disk' \in {disk, [disk EXCEPT ![t] = @ \cup {p}]}
      BY <2>6 DEF PieceFinished
    <3> QED
      BY <2>4, <3>1, <3>2, <3>3 DEF D!Deliver
  <2> QED
    BY <1>7, <2>5, <2>6
<1>8. CASE Restart
  <2>1. From' = [t \in Torrents |-> {}]
    BY <1>8 DEF Restart, Dies, From
  <2>2. /\ disk' \in [Torrents -> SUBSET Piece]
        /\ \A t \in Torrents : disk'[t] \subseteq disk[t]
        /\ have' = [t \in Torrents |-> {}]
    <3>1. /\ disk' \in IF "loseWrites" \in Faults THEN [Torrents -> SUBSET Piece]
                        ELSE {disk}
          /\ \A t \in Torrents : disk'[t] \subseteq disk[t]
          /\ have' = Empty
      BY <1>8 DEF Restart, Dies
    <3>2. disk \in [Torrents -> SUBSET Piece]
      BY DEF TypeOK
    <3> QED
      BY <3>1, <3>2 DEF Empty
  <2>3. D!Crash
    BY <2>1, <2>2 DEF D!Crash, D!Empty, D!Shrinks, D!Piece, Piece
  <2> QED
    BY <2>3 DEF D!Next
<1> QED
  <2>1. (\E t \in Torrents, p \in Piece : D!Find(t, p) \/ D!Deliver(t, p)) => D!Next
    BY DEF D!Next, D!Piece, Piece
  <2>2. D!Clear => D!Next
    BY DEF D!Next
  <2> QED
    BY <1>1, <1>2, <1>3, <1>4, <1>5, <1>6, <1>7, <1>8, <2>1, <2>2
       DEF Next, Import, ImportRejected, ForgetSettings, ImportInfo, ImportMaxBlock,
         ImportPercent, StoreMaxBlock,
           ImportWrites, ImportAddFails, Callback, PopAlerts, HandleAlert, Libtorrent,
           StorePercent, StoreReady, vars, libtorrent, engine

(* The engine delivers what it promises: a film arrives in the order it is *)
(* watched, and nothing arrives of a film nobody asked for                 *)
(* (streamerok.cpp 84-125, 275-310, 528-546, 581-658).                     *)
THEOREM EngineDelivers == Spec => DeliverySpec
<1>1. Init => Bookkeeping /\ AsksInTurn
  BY DEF Init, Empty, NoHandle, Bookkeeping, IdsWereIssued, HandleOfOneTorrent,
         SessionIsMapped, OutOfSession, CheckedFirst, AsksInTurn
<1>2. Init => D!Init
  BY DEF Init, Empty, D!Init, D!Empty, From
<1>3. TypeOK /\ Bookkeeping /\ [Next]_vars => Bookkeeping'
  BY BookkeepingStep
<1>4. TypeOK /\ Bookkeeping /\ AsksInTurn /\ [Next]_vars => AsksInTurn'
  BY AsksInTurnStep
<1>5. TypeOK /\ Bookkeeping /\ AsksInTurn /\ [Next]_vars => [D!Next]_(D!vars)
  BY StepOfDelivery
<1> QED
  BY <1>1, <1>2, <1>3, <1>4, <1>5, TypeInit, TypeStep, PTL
     DEF Spec, DeliverySpec, D!Spec
=============================================================================
