----------------------------- MODULE Streamerok -----------------------------
(***************************************************************************)
(* The torrent engine of the app: the class Streamerok (streamerok.cpp),   *)
(* the settings it keeps in NSUserDefaults (UserDefaultHelper.m) and the   *)
(* files of the torrents folder, over a libtorrent session.                *)
(*                                                                         *)
(* Next lets any caller make any call at any time: Downloader is one such  *)
(* caller and refines this specification.  The calls are made from the     *)
(* main thread (import, delete) and from the threads of a concurrent       *)
(* dispatch queue, the Workers (alerts, status).                           *)
(***************************************************************************)
EXTENDS Pieces

CONSTANTS
    Torrents,       \* the torrents a user can pick
    Prefix,         \* torrent -> the bytes of its hash kept in the settings
    NoTorrent,      \* no torrentInfo stored
    FileFirst,      \* the pieces the selected file starts and ends in
    FileLast,
    Workers,        \* threads of the background queue
    Percents,       \* the percentages the callers store
    MaxImports,     \* bound: imports per life of the process
    Faults          \* which of the faults below can happen

(* killMidImport: the process dies between two writes of importTorrent.    *)
(* loseWrites: it dies with finished pieces still in libtorrent's cache.   *)
(* addFails: libtorrent refuses to add a torrent.                          *)
(* deleteFails: some of the old files cannot be deleted.                   *)
AllFaults == {"killMidImport", "loseWrites", "addFails", "deleteFails"}

ASSUME StreamerokAssumption ==
    /\ NoTorrent \notin {Prefix[t] : t \in Torrents}
    /\ FileFirst \in Piece /\ FileLast \in Piece /\ FileFirst <= FileLast
    /\ 0 \in Percents
    /\ MaxImports \in Nat
    /\ Faults \subseteq AllFaults

VARIABLES
    session,    \* torrent -> its handle in the libtorrent session, or NoHandle
    have,       \* torrent -> pieces it has
    finished,   \* torrent -> pieces downloaded since it was added
    priority,   \* torrent -> pieces of priority 7; the others have priority 0
    disk,       \* torrent -> pieces in its files
    alerts,     \* the handles that have a piece_finished_alert to be popped
    popped,     \* worker -> the handles of the alerts it has still to handle
    tMap,       \* id -> tAux
    nextId,
    maxCount,   \* maxDownloadedPieceFromStartCount
    defaults,   \* NSUserDefaults
    importing   \* the import that runs, or Idle

libtorrent == <<session, have, finished, priority, disk, alerts>>
engine == <<popped, tMap, nextId, maxCount, importing>>
vars == <<libtorrent, engine, defaults>>

NoHandle == 0
Ids == 1 .. MaxImports

(* A handle names one addition of a torrent: the id it was added under.    *)
tAux == [torrent : Torrents, handle : Ids, fileFirstPiece : 0 .. NPieces]

Settings == [torrentInfo : {Prefix[t] : t \in Torrents} \cup {NoTorrent},
             maxBlock : NoCount .. NPieces - 1,
             lastPercent : Percents,
             isReadySended : BOOLEAN]

(* Reading a key that is absent gives zero or NO.                          *)
NoSettings == [torrentInfo |-> NoTorrent, maxBlock |-> 0, lastPercent |-> 0,
               isReadySended |-> FALSE]

Stages == {"forget info", "forget block", "forget percent", "forget ready",
           "info", "block", "percent", "add"}
Idle == [torrent |-> NoTorrent, stage |-> "idle"]
Importing == [torrent : Torrents, stage : Stages] \cup {Idle}

TypeOK ==
    /\ session \in [Torrents -> Ids \cup {NoHandle}]
    /\ have \in [Torrents -> SUBSET Piece]
    /\ finished \in [Torrents -> SUBSET Piece]
    /\ priority \in [Torrents -> SUBSET Piece]
    /\ disk \in [Torrents -> SUBSET Piece]
    /\ alerts \subseteq Ids
    /\ popped \in [Workers -> SUBSET Ids]
    /\ DOMAIN tMap \subseteq Ids
    /\ tMap \in [DOMAIN tMap -> tAux]
    /\ nextId \in 0 .. MaxImports
    /\ maxCount \in NoCount .. NPieces - 1
    /\ defaults \in Settings
    /\ importing \in Importing
    /\ importing # Idle => nextId < MaxImports

Empty == [t \in Torrents |-> {}]

Init ==
    /\ session = [t \in Torrents |-> NoHandle]
    /\ have = Empty
    /\ finished = Empty
    /\ priority = Empty
    /\ disk = Empty
    /\ alerts = {}
    /\ popped = [w \in Workers |-> {}]
    /\ tMap = [i \in {} |-> {}]
    /\ nextId = 0
    /\ maxCount = NoCount
    /\ defaults = NoSettings
    /\ importing = Idle

-----------------------------------------------------------------------------
(* torrent_handle::is_valid: the torrent is still in the session.          *)
Valid(i) == session[tMap[i].torrent] = tMap[i].handle

(* What getAux returns for an id, when it returns something.               *)
Found(i) == i \in DOMAIN tMap /\ Valid(i)

Without(i) == [j \in DOMAIN tMap \ {i} |-> tMap[j]]

(* getAux: an entry whose handle is no longer valid is erased.             *)
GetAux(i) ==
    /\ tMap' = IF Found(i) THEN tMap ELSE Without(i)
    /\ UNCHANGED <<libtorrent, popped, nextId, maxCount, importing, defaults>>

-----------------------------------------------------------------------------
(* cleanOldFiles: the errors of the deletions are ignored.                 *)
CleanOldFiles ==
    \E kept \in SUBSET Torrents :
        /\ "deleteFails" \notin Faults => kept = {}
        /\ disk' = [t \in Torrents |-> IF t \in kept THEN disk[t] ELSE {}]

(* importTorrent, one action per write to the settings.  The first action  *)
(* resets the count of the scan and, unless the torrent is the one the     *)
(* settings are about, deletes the files of the torrents folder.           *)
ImportBegin(t) ==
    /\ importing = Idle
    /\ nextId < MaxImports
    /\ maxCount' = NoCount
    /\ IF defaults.torrentInfo = Prefix[t]
       THEN /\ importing' = [torrent |-> t, stage |-> "add"]
            /\ UNCHANGED disk
       ELSE /\ importing' = [torrent |-> t, stage |-> "forget info"]
            /\ CleanOldFiles
    /\ UNCHANGED <<session, have, finished, priority, alerts, popped, tMap,
                   nextId, defaults>>

(* A body that is no torrent: the import returns -8.                       *)
ImportRejected ==
    /\ importing = Idle
    /\ maxCount' = NoCount
    /\ UNCHANGED <<libtorrent, popped, tMap, nextId, importing, defaults>>

Stage(s) == importing.stage = s

(* The write of one setting, and the stage of the import that follows it.  *)
ImportWrites(settings, next) ==
    /\ defaults' = settings
    /\ importing' = [importing EXCEPT !.stage = next]
    /\ UNCHANGED <<libtorrent, popped, tMap, nextId, maxCount>>

ForgetSettingsBug ==
    \/ Stage("forget info")
          /\ ImportWrites([defaults EXCEPT !.torrentInfo = NoTorrent], "forget block")
    \/ Stage("forget block")
          /\ ImportWrites([defaults EXCEPT !.maxBlock = 0], "forget percent")
    \/ Stage("forget percent")
          /\ ImportWrites([defaults EXCEPT !.lastPercent = 0], "info")

(* cleanUserSettings: what a death leaves of the settings in between is    *)
(* read by the next import.                                                *)
ForgetSettings ==
    \/ Stage("forget info")
          /\ ImportWrites([defaults EXCEPT !.torrentInfo = NoTorrent], "forget block")
    \/ Stage("forget block")
          /\ ImportWrites([defaults EXCEPT !.maxBlock = 0], "forget percent")
    \/ Stage("forget percent")
          /\ ImportWrites([defaults EXCEPT !.lastPercent = 0], "forget ready")
    \/ Stage("forget ready")
          /\ ImportWrites([defaults EXCEPT !.isReadySended = FALSE], "info")

ImportInfo ==
    /\ Stage("info")
    /\ ImportWrites([defaults EXCEPT !.torrentInfo = Prefix[importing.torrent]],
                    "block")

ImportMaxBlockBug == Stage("block") /\ ImportWrites(defaults, "percent")

ImportMaxBlock ==
    /\ Stage("block")
    /\ ImportWrites([defaults EXCEPT !.maxBlock = NoCount], "percent")

ImportPercent ==
    /\ Stage("percent")
    /\ ImportWrites([defaults EXCEPT !.lastPercent = 0], "add")

(* fileFirstPiece: what the settings say was downloaded is passed over.    *)
FirstPiece ==
    IF FileFirst < defaults.maxBlock + 1 THEN defaults.maxBlock + 1 ELSE FileFirst

(* add_torrent and the constructor of tAux.  A torrent that is in the      *)
(* session already is not added again, its handle is returned.             *)
ImportAdd ==
    LET t == importing.torrent
        id == nextId + 1
        handle == IF session[t] = NoHandle THEN id ELSE session[t]
    IN /\ Stage("add")
       /\ nextId' = id
       /\ session' = [session EXCEPT ![t] = handle]
       /\ priority' = [priority EXCEPT ![t] = @ \cup InitialWindow(FirstPiece, FileLast)]
       /\ tMap' = [j \in DOMAIN tMap \cup {id} |->
                     IF j = id
                     THEN [torrent |-> t, handle |-> handle, fileFirstPiece |-> FirstPiece]
                     ELSE tMap[j]]
       /\ importing' = Idle
       /\ UNCHANGED <<have, finished, disk, alerts, popped, maxCount, defaults>>

(* The entry made for a torrent that could not be added is erased again.   *)
ImportAddFails ==
    /\ "addFails" \in Faults
    /\ Stage("add")
    /\ session[importing.torrent] = NoHandle
    /\ nextId' = nextId + 1
    /\ importing' = Idle
    /\ UNCHANGED <<libtorrent, popped, tMap, maxCount, defaults>>

-----------------------------------------------------------------------------
(* maxDownloadedPieceFromStart: the count, which an import may reset in    *)
(* between, is set and then stored and returned; 0 is returned for a       *)
(* torrent that is gone.                                                   *)
CountPieces(i) ==
    /\ IF Found(i)
       THEN maxCount' = Scan(have[tMap[i].torrent], maxCount) /\ UNCHANGED tMap
       ELSE tMap' = Without(i) /\ UNCHANGED maxCount
    /\ UNCHANGED <<libtorrent, popped, nextId, importing, defaults>>

StoreMaxBlock ==
    /\ defaults' = [defaults EXCEPT !.maxBlock = maxCount]
    /\ UNCHANGED <<libtorrent, engine>>

DeleteTorrentBug(i) ==
    /\ tMap' = Without(i)
    /\ UNCHANGED <<libtorrent, popped, nextId, maxCount, importing, defaults>>

(* deleteTorrent: the files stay, the torrent leaves the session.          *)
DeleteTorrent(i) ==
    /\ IF Found(i)
       THEN LET t == tMap[i].torrent
            IN /\ session' = [session EXCEPT ![t] = NoHandle]
               /\ have' = [have EXCEPT ![t] = {}]
               /\ finished' = [finished EXCEPT ![t] = {}]
               /\ priority' = [priority EXCEPT ![t] = {}]
       ELSE UNCHANGED <<session, have, finished, priority>>
    /\ tMap' = Without(i)
    /\ UNCHANGED <<disk, alerts, popped, nextId, maxCount, importing, defaults>>

-----------------------------------------------------------------------------
(* peridoicCallback: a worker pops all alerts, then handles them one by    *)
(* one.                                                                    *)
PopAlerts(w) ==
    /\ popped[w] = {}
    /\ popped' = [popped EXCEPT ![w] = alerts]
    /\ alerts' = {}
    /\ UNCHANGED <<session, have, finished, priority, disk, tMap, nextId,
                   maxCount, importing, defaults>>

(* The entries of a handle that prioritize has an effect on.               *)
Entries(handle) == {i \in DOMAIN tMap : tMap[i].handle = handle /\ Valid(i)}

(* handle_alert calls prioritize on one entry with the alert's handle, the *)
(* first the hash map yields, and drops the alert if there is none.  It    *)
(* looks at nothing else of an alert, so that only the handles are kept;   *)
(* the worker may have more alerts of the same handle to handle.           *)
HandleAlert(w) ==
    \E h \in popped[w] : \E left \in {popped[w], popped[w] \ {h}} :
        /\ popped' = [popped EXCEPT ![w] = left]
        /\ \/ Entries(h) = {} /\ UNCHANGED priority
           \/ \E i \in Entries(h) :
                LET t == tMap[i].torrent
                IN priority' = [priority EXCEPT ![t] = @ \cup
                        Window(have[t], tMap[i].fileFirstPiece, FileLast)]
        /\ UNCHANGED <<session, have, finished, disk, alerts, tMap, nextId,
                       maxCount, importing, defaults>>

-----------------------------------------------------------------------------
(* libtorrent checks the files of a torrent it was given; what it finds    *)
(* there it has, and posts no alert for.                                   *)
PieceChecked(t, p) ==
    /\ session[t] # NoHandle
    /\ p \in disk[t] \ have[t]
    /\ have' = [have EXCEPT ![t] = @ \cup {p}]
    /\ UNCHANGED <<session, finished, priority, disk, alerts, engine, defaults>>

(* After the check it downloads the pieces whose priority is not 0 and     *)
(* posts an alert for each.  The piece may miss the disk if the files were *)
(* deleted while the torrent was open.                                     *)
PieceFinished(t, p) ==
    /\ session[t] # NoHandle
    /\ disk[t] \subseteq have[t]
    /\ p \in priority[t] \ have[t]
    /\ have' = [have EXCEPT ![t] = @ \cup {p}]
    /\ finished' = [finished EXCEPT ![t] = @ \cup {p}]
    /\ alerts' = alerts \cup {session[t]}
    /\ \/ disk' = [disk EXCEPT ![t] = @ \cup {p}]
       \/ have[t] # disk[t] /\ UNCHANGED disk
    /\ UNCHANGED <<session, priority, engine, defaults>>

(* The process dies and is started again: the settings and the files       *)
(* remain, but for what the cache had not written.                         *)
Dies ==
    /\ session' = [t \in Torrents |-> NoHandle]
    /\ have' = Empty
    /\ finished' = Empty
    /\ priority' = Empty
    /\ alerts' = {}
    /\ popped' = [w \in Workers |-> {}]
    /\ tMap' = [i \in {} |-> {}]
    /\ nextId' = 0
    /\ maxCount' = NoCount
    /\ importing' = Idle
    /\ disk' \in IF "loseWrites" \in Faults THEN [Torrents -> SUBSET Piece] ELSE {disk}
    /\ \A t \in Torrents :
          /\ disk'[t] \subseteq disk[t]
          /\ disk[t] \ disk'[t] \subseteq finished[t]
    /\ UNCHANGED defaults

MayDie == "killMidImport" \in Faults \/ importing = Idle

Restart == MayDie /\ Dies

(* What the callers store themselves: the percentage and that the film can *)
(* be watched (Downloader.mm 147, MainViewController.m 373).               *)
StorePercent(v) ==
    /\ defaults' = [defaults EXCEPT !.lastPercent = v]
    /\ UNCHANGED <<libtorrent, engine>>

StoreReady ==
    /\ defaults' = [defaults EXCEPT !.isReadySended = TRUE]
    /\ UNCHANGED <<libtorrent, engine>>

-----------------------------------------------------------------------------
Import ==
    \/ \E t \in Torrents : ImportBegin(t)
    \/ ImportRejected
    \/ ForgetSettings
    \/ ImportInfo
    \/ ImportMaxBlock
    \/ ImportPercent
    \/ ImportAdd
    \/ ImportAddFails

Libtorrent ==
    \E t \in Torrents, p \in Piece : PieceChecked(t, p) \/ PieceFinished(t, p)

Callback(w) == PopAlerts(w) \/ HandleAlert(w)

Next ==
    \/ Import
    \/ \E i \in Ids : GetAux(i) \/ CountPieces(i) \/ DeleteTorrent(i)
    \/ StoreMaxBlock
    \/ \E w \in Workers : Callback(w)
    \/ Libtorrent
    \/ Restart
    \/ \E v \in Percents : StorePercent(v)
    \/ StoreReady

Spec == Init /\ [][Next]_vars

-----------------------------------------------------------------------------
(* What the ids and handles in tMap stand for.                             *)
IdsWereIssued ==
    \A i \in DOMAIN tMap : i <= nextId /\ tMap[i].handle <= nextId

HandleOfOneTorrent ==
    \A i, j \in DOMAIN tMap :
        tMap[i].handle = tMap[j].handle => tMap[i].torrent = tMap[j].torrent

(* No torrent is in the session without an id it can be deleted by.        *)
SessionIsMapped ==
    \A t \in Torrents : session[t] # NoHandle =>
        \E i \in DOMAIN tMap : tMap[i].torrent = t /\ tMap[i].handle = session[t]

OutOfSession ==
    \A t \in Torrents : session[t] = NoHandle =>
        have[t] = {} /\ finished[t] = {} /\ priority[t] = {}

CheckedFirst == \A t \in Torrents : finished[t] # {} => disk[t] \subseteq have[t]

(* The map of the engine and the session agree: every torrent of the       *)
(* session can be deleted by an id, a handle is never given to two         *)
(* torrents nor an id used twice, whatever is imported while what is       *)
(* deleted or dies, and an entry whose torrent was deleted through another *)
(* id is never taken for one that is there (streamerok.cpp 279-309,        *)
(* 528-546).                                                               *)
Bookkeeping ==
    /\ IdsWereIssued
    /\ HandleOfOneTorrent
    /\ SessionIsMapped
    /\ OutOfSession
    /\ CheckedFirst

OnlyEntry(i) == \A j \in DOMAIN tMap : tMap[j].handle = tMap[i].handle => j = i

(* The entries prioritize works for: no other id shares the torrent.       *)
Single == {i \in DOMAIN tMap : Valid(i) /\ OnlyEntry(i)}

Gap(i) == Missing(have[tMap[i].torrent], tMap[i].fileFirstPiece, FileLast)

(* An alert of the handle is on its way to handle_alert.                   *)
Alerted(handle) ==
    handle \in alerts \cup UNION {popped[w] : w \in Workers}

GoesOn(i) ==
    LET t == tMap[i].torrent
    IN /\ FileLast \in have[t] \cup priority[t]
       /\ FileLast \in have[t] /\ finished[t] # {} /\ Gap(i) # {}
            => Alerted(tMap[i].handle) \/ Min(Gap(i)) \in priority[t]

(* A download never runs dry: until the file is complete, the last piece   *)
(* or, once that is there, the first gap is asked for, or an alert that    *)
(* will ask for it is on its way.  Only alerts keep a download going, so   *)
(* one that has downloaded nothing since it was added is left out: if the  *)
(* check of its files found every piece the constructor of tAux asked for, *)
(* nothing is ever requested again (streamerok.cpp 91-99, 106-125,         *)
(* 581-595).                                                               *)
NeverRunsDry == \A i \in Single : GoesOn(i)

(* What those who asked for a torrent of the session wanted of it.         *)
From ==
    [t \in Torrents |->
        IF session[t] = NoHandle THEN {}
        ELSE {tMap[i].fileFirstPiece : i \in Entries(session[t])}]

D == INSTANCE Delivery WITH from <- From

(* The engine keeps the promise of module Delivery: behind the ids,        *)
(* handles, priorities and alerts, a film arrives in the order it is       *)
(* watched, however many ids share its torrent and in whatever order the   *)
(* alerts are handled, and nothing arrives of a film that nobody asked     *)
(* for or that was deleted (streamerok.cpp 84-125, 275-310, 528-546,       *)
(* 581-658).                                                               *)
DeliverySpec == D!Spec
=============================================================================
