----------------------------- MODULE Downloader -----------------------------
(***************************************************************************)
(* The download of the film on screen: the class Downloader, the calls     *)
(* MainViewController makes to it, and the engine of Streamerok.           *)
(*                                                                         *)
(* Two kinds of threads meet here.  The main thread (`main') imports and   *)
(* cancels torrents and owns the screen.  Every tick of the timer runs on  *)
(* a thread of a concurrent queue (`tick'): the alerts without a lock,     *)
(* then Downloader.periodicCall under @synchronized(self) (`lock').  Only  *)
(* cancelDownload takes that lock on the main thread; the rest of what the *)
(* main thread does to the same fields runs next to the ticks.             *)
(*                                                                         *)
(* Every action is one action of Streamerok, or leaves the engine alone.   *)
(***************************************************************************)
EXTENDS Streamerok

CONSTANTS
    NoFile,     \* no torrent file fetched yet
    Garbage,    \* a fetched file that is no torrent
    EmptyBody,  \* a fetched file of length 0
    Bodies,     \* what the fetched files of this instance hold
    Free,       \* no worker holds the lock
    Races       \* which of the two races below can happen

(* overlap: a fetch may complete while an earlier film is on screen.       *)
(* lateTick: a tick may be under way while the main thread cancels or      *)
(* begins a download.                                                      *)
AllRaces == {"overlap", "lateTick"}

(* A percentage is kept as the number of pieces it was computed from; one  *)
(* more than all of them stands for the infinity of a division by zero,    *)
(* and NaN, the result of 0/0, is less than every other.                   *)
Infinity == NPieces + 1
Unset == -1
NaN == -2

ASSUME DownloaderAssumption ==
    /\ Percents = 0 .. Infinity
    /\ Bodies \subseteq Torrents \cup {Garbage, EmptyBody}
    /\ Garbage \notin Torrents /\ EmptyBody \notin Torrents \cup {Garbage}
    /\ NoFile \notin Bodies
    /\ Free \notin Workers
    /\ Races \subseteq AllRaces

VARIABLES
    tInfo,          \* the id of the torrent, or what importTorrent returned
    percent,
    isReadySended,
    timer,          \* streamerokTimer is scheduled
    lock,           \* the owner of @synchronized(self)
    tick,           \* worker -> the tick it runs
    main,           \* what the main thread is doing
    readyBlocks,    \* blocks of the ready handler on the main queue
    screen,         \* what the user sees
    file            \* keyLastTorrentFilePath: the file fetched last

fields == <<tInfo, percent, isReadySended, timer>>
ui == <<readyBlocks, screen, file>>
appVars == <<vars, fields, lock, tick, main, ui>>

NotATorrent == -8
NotAdded == -10
Results == Ids \cup {0, NotATorrent, NotAdded}

TickSteps == {"none", "callback", "alerts", "lock", "info", "scan", "store",
              "percent", "aux", "ready", "post", "sync", "stop"}

(* The locals of a tick: dl.piecesTotal, maxDownloadedPick and the id aux  *)
(* points to the entry of, or 0 for the null pointer.                      *)
NoTick == [pc |-> "none", total |-> 0, max |-> 0, aux |-> 0]

AtRest == [pc |-> "idle", arg |-> 0]

MainStates ==
    [pc : {"idle", "importing", "reset", "cancel"}, arg : {0}]
      \cup [pc : {"import"}, arg : Bodies]
      \cup [pc : {"assign"}, arg : Results]

(* An offer is a resume view on its own, without the site.                 *)
Screens == {"browse", "progress", "player", "offer", "blank"}

AppTypeOK ==
    /\ TypeOK
    /\ tInfo \in Results
    /\ percent \in Unset .. Infinity
    /\ isReadySended \in BOOLEAN
    /\ timer \in BOOLEAN
    /\ lock \in Workers \cup {Free}
    /\ tick \in [Workers -> [pc : TickSteps, total : {0, NPieces},
                             max : NoCount .. NPieces - 1, aux : Ids \cup {0}]]
    /\ main \in MainStates
    /\ readyBlocks \in Nat
    /\ screen \in Screens
    /\ file \in Bodies \cup {NoFile}

AppInit ==
    /\ Init
    /\ tInfo = 0
    /\ percent = 0
    /\ isReadySended = FALSE
    /\ timer = FALSE
    /\ lock = Free
    /\ tick = [w \in Workers |-> NoTick]
    /\ main = AtRest
    /\ readyBlocks = 0
    /\ screen = "browse"
    /\ file = NoFile

-----------------------------------------------------------------------------
(* The main thread.                                                        *)
MainIdle == main.pc = "idle"

NoTickUnderWay == \A w \in Workers : tick[w].pc = "none"

(* The user or the network acts: the main thread takes it up when idle.    *)
Event == MainIdle /\ ("lateTick" \in Races \/ NoTickUnderWay)

(* What is left on screen s when the site is hidden, or was not there: an  *)
(* old resume view may lie under the site.                                 *)
WithoutSite(s) == IF s = "browse" THEN {"blank", "offer"} ELSE {s}

(* MainViewController.downloadTorrentFromFile: nothing is downloaded if    *)
(* the stored percentage says that is done, and screens are what may be    *)
(* left then.  The bound MaxImports is kept here, so that an import that   *)
(* began can end.                                                          *)
Start(body, screens) ==
    nextId < MaxImports /\
    IF defaults.lastPercent >= NPieces
    THEN screen' \in screens /\ UNCHANGED main
    ELSE /\ screen' = IF "player" \in screens THEN "player" ELSE "progress"
         /\ main' = [pc |-> "import", arg |-> body]

(* downloadComplete, on the main queue: behind the ready blocks, unless    *)
(* the fetch was begun before them.                                        *)
FetchComplete(body) ==
    /\ Event
    /\ "overlap" \in Races \/ (screen = "browse" /\ readyBlocks = 0)
    /\ file' = body
    /\ Start(body, WithoutSite(screen))
    /\ UNCHANGED <<vars, fields, lock, tick, readyBlocks>>

(* The buttons of the resume view, which goes away.  resumeLastFilm: a     *)
(* film that could be watched before is played at once.                    *)
Resume ==
    /\ Event
    /\ screen \in {"browse", "offer"} /\ file # NoFile
    /\ Start(file, {IF defaults.isReadySended THEN "player" ELSE "blank"})
    /\ UNCHANGED <<vars, fields, lock, tick, readyBlocks, file>>

OpenWeb ==
    /\ Event
    /\ screen = "offer"
    /\ screen' = "blank"
    /\ UNCHANGED <<vars, fields, lock, tick, main, readyBlocks, file>>

(* The import runs on the main thread; the ticks do not wait for it.       *)
Returns(r) == main' = [pc |-> "assign", arg |-> r]

ImportCall ==
    /\ main.pc = "import"
    /\ \/ /\ main.arg \in Torrents
          /\ ImportBegin(main.arg)
          /\ main' = [pc |-> "importing", arg |-> 0]
       \/ /\ main.arg = Garbage
          /\ ImportRejected
          /\ Returns(NotATorrent)
       \/ /\ main.arg = EmptyBody
          /\ Returns(0)
          /\ UNCHANGED vars
    /\ UNCHANGED <<fields, lock, tick, ui>>

ImportStep ==
    /\ main.pc = "importing"
    /\ \/ (ForgetSettings \/ ImportInfo \/ ImportMaxBlock \/ ImportPercent) /\ UNCHANGED main
       \/ ImportAdd /\ Returns(nextId')
       \/ ImportAddFails /\ Returns(NotAdded)
    /\ UNCHANGED <<fields, lock, tick, ui>>

(* tInfo is assigned, and after an error the method returns.               *)
Assign ==
    /\ main.pc = "assign"
    /\ tInfo' = main.arg
    /\ main' = IF main.arg < 0 THEN AtRest ELSE [pc |-> "reset", arg |-> 0]
    /\ UNCHANGED <<vars, percent, isReadySended, timer, lock, tick, ui>>

ResetBug ==
    /\ main.pc = "reset"
    /\ isReadySended' = FALSE
    /\ timer' = TRUE
    /\ main' = AtRest
    /\ UNCHANGED <<vars, percent, tInfo, lock, tick, ui>>

(* The fields of the download before are reset, and the timer is made.     *)
Reset ==
    /\ main.pc = "reset"
    /\ percent' = Unset
    /\ isReadySended' = FALSE
    /\ timer' = TRUE
    /\ main' = AtRest
    /\ UNCHANGED <<vars, tInfo, lock, tick, ui>>

(* closeVideoPlayer and progressBarWantsToClose: the screen changes first, *)
(* then cancelDownload waits for the lock.                                 *)
Close ==
    /\ Event
    /\ screen \in {"player", "progress"}
    /\ screen' = "browse"
    /\ main' = [pc |-> "cancel", arg |-> 0]
    /\ UNCHANGED <<vars, fields, lock, tick, readyBlocks, file>>

CancelKeepsTimerBug ==
    /\ main.pc = "cancel"
    /\ lock = Free
    /\ DeleteTorrent(tInfo)
    /\ main' = AtRest
    /\ UNCHANGED <<timer, tInfo, percent, isReadySended, lock, tick, ui>>

CancelKeepsTorrentBug ==
    /\ main.pc = "cancel"
    /\ lock = Free
    /\ timer' = FALSE
    /\ main' = AtRest
    /\ UNCHANGED <<vars, tInfo, percent, isReadySended, lock, tick, ui>>

CancelClearsSettingsBug ==
    /\ main.pc = "cancel"
    /\ lock = Free
    /\ timer' = FALSE
    /\ defaults' = NoSettings
    /\ main' = AtRest
    /\ UNCHANGED <<libtorrent, engine, tInfo, percent, isReadySended, lock, tick, ui>>

Cancel ==
    /\ main.pc = "cancel"
    /\ lock = Free
    /\ timer' = FALSE
    /\ DeleteTorrent(tInfo)
    /\ main' = AtRest
    /\ UNCHANGED <<tInfo, percent, isReadySended, lock, tick, ui>>

(* The block of the ready handler: that the film can be watched is stored, *)
(* and the player opened if it is not open.                                *)
RunReadyBlock ==
    /\ MainIdle
    /\ readyBlocks > 0
    /\ readyBlocks' = readyBlocks - 1
    /\ screen' = "player"
    /\ StoreReady
    /\ UNCHANGED <<fields, lock, tick, main, file>>

-----------------------------------------------------------------------------
(* A tick.  The timer fires while the main run loop turns.                 *)
At(w, s) == tick[w].pc = s
Goto(w, s) == tick' = [tick EXCEPT ![w].pc = s]

TimerFires(w) ==
    /\ timer /\ MainIdle
    /\ At(w, "none")
    /\ Goto(w, "callback")
    /\ UNCHANGED <<vars, fields, lock, main, ui>>

(* peridoicCallback, before the lock is taken.                             *)
TickPops(w) ==
    /\ At(w, "callback")
    /\ PopAlerts(w)
    /\ Goto(w, "alerts")
    /\ UNCHANGED <<fields, lock, main, ui>>

TickHandles(w) ==
    /\ At(w, "alerts")
    /\ HandleAlert(w)
    /\ UNCHANGED <<fields, lock, tick, main, ui>>

TickReachesLock(w) ==
    /\ At(w, "alerts")
    /\ popped[w] = {}
    /\ Goto(w, "lock")
    /\ UNCHANGED <<vars, fields, lock, main, ui>>

TickLocks(w) ==
    /\ At(w, "lock")
    /\ lock = Free
    /\ lock' = w
    /\ Goto(w, "info")
    /\ UNCHANGED <<vars, fields, main, ui>>

(* getTorrentInfo: all zeros if the torrent is gone.                       *)
TickReadsInfo(w) ==
    /\ At(w, "info")
    /\ GetAux(tInfo)
    /\ tick' = [tick EXCEPT ![w].pc = "scan",
                            ![w].total = IF Found(tInfo) THEN NPieces ELSE 0]
    /\ UNCHANGED <<fields, lock, main, ui>>

(* maxDownloadedPieceFromStart: 0 if the torrent is gone.                  *)
TickScans(w) ==
    /\ At(w, "scan")
    /\ CountPieces(tInfo)
    /\ tick' = [tick EXCEPT ![w].pc = IF Found(tInfo) THEN "store" ELSE "percent",
                            ![w].max = 0]
    /\ UNCHANGED <<fields, lock, main, ui>>

TickStores(w) ==
    /\ At(w, "store")
    /\ StoreMaxBlock
    /\ tick' = [tick EXCEPT ![w].pc = "percent", ![w].max = maxCount]
    /\ UNCHANGED <<fields, lock, main, ui>>

CurrentPercent(max, total) ==
    IF total # 0 THEN max + 1 ELSE IF max + 1 = 0 THEN NaN ELSE Infinity

(* Only an increase is kept and stored.                                    *)
TickKeepsPercent(w) ==
    LET current == CurrentPercent(tick[w].max, tick[w].total)
    IN /\ At(w, "percent")
       /\ Goto(w, "aux")
       /\ IF current > percent
          THEN percent' = current /\ StorePercent(current)
          ELSE UNCHANGED <<vars, percent>>
       /\ UNCHANGED <<tInfo, isReadySended, timer, lock, main, ui>>

CanBeWatchedBug(i) == FileLast \in have[tMap[i].torrent]

(* What canGetUrl answers for the torrent an id was found for.             *)
CanBeWatched(i) ==
    CanGetUrl(have[tMap[i].torrent], tMap[i].fileFirstPiece, FileLast)

(* getAux, whose answer is kept: the reset may come before it is used.     *)
TickFindsAux(w) ==
    /\ At(w, "aux")
    /\ GetAux(tInfo)
    /\ tick' = [tick EXCEPT ![w].pc = "ready",
                            ![w].aux = IF Found(tInfo) THEN tInfo ELSE 0]
    /\ UNCHANGED <<fields, lock, main, ui>>

(* The pointer is used without a test: see TickCrashes.                    *)
TickTestsReady(w) ==
    /\ At(w, "ready")
    /\ isReadySended \/ tick[w].aux # 0
    /\ tick' = [tick EXCEPT ![w].pc = "post", ![w].aux = 0]
    /\ LET sendsReady == ~isReadySended /\ CanBeWatched(tick[w].aux)
       IN /\ isReadySended' = (isReadySended \/ sendsReady)
          /\ readyBlocks' = IF sendsReady THEN readyBlocks + 1 ELSE readyBlocks
    /\ UNCHANGED <<vars, tInfo, percent, timer, lock, main, screen, file>>

(* The observer of ntfProgress in the player waits for the main thread;    *)
(* the one in the progress view does not.                                  *)
TickPosts(w) ==
    /\ At(w, "post")
    /\ Goto(w, IF screen = "player" THEN "sync" ELSE "stop")
    /\ UNCHANGED <<vars, fields, lock, main, ui>>

TickSyncs(w) ==
    /\ At(w, "sync")
    /\ MainIdle
    /\ Goto(w, "stop")
    /\ UNCHANGED <<vars, fields, lock, main, ui>>

TickStopsBug(w) ==
    /\ At(w, "stop")
    /\ IF percent >= NPieces
       THEN lock = Free /\ timer' = FALSE /\ DeleteTorrent(tInfo)
       ELSE UNCHANGED <<vars, timer>>
    /\ lock' = Free
    /\ tick' = [tick EXCEPT ![w] = NoTick]
    /\ UNCHANGED <<tInfo, percent, isReadySended, main, ui>>

(* cancelDownload once everything is downloaded; the lock is recursive.    *)
TickStops(w) ==
    /\ At(w, "stop")
    /\ IF percent >= NPieces
       THEN timer' = FALSE /\ DeleteTorrent(tInfo)
       ELSE UNCHANGED <<vars, timer>>
    /\ lock' = Free
    /\ tick' = [tick EXCEPT ![w] = NoTick]
    /\ UNCHANGED <<tInfo, percent, isReadySended, main, ui>>

-----------------------------------------------------------------------------
(* The process dies and the user starts it again.                          *)
AppStarts ==
    /\ Dies
    /\ tInfo' = 0
    /\ percent' = 0
    /\ isReadySended' = FALSE
    /\ timer' = FALSE
    /\ lock' = Free
    /\ tick' = [w \in Workers |-> NoTick]
    /\ main' = AtRest
    /\ readyBlocks' = 0
    /\ screen' = "browse"
    /\ UNCHANGED file

Relaunch == MayDie /\ AppStarts

(* A tick is about to use the null pointer getAux returned.                *)
UsesNull(w) == At(w, "ready") /\ ~isReadySended /\ tick[w].aux = 0

TickCrashes(w) == UsesNull(w) /\ AppStarts

EngineRuns == Libtorrent /\ UNCHANGED <<fields, lock, tick, main, ui>>

Tick(w) ==
    \/ TickPops(w) \/ TickHandles(w) \/ TickReachesLock(w) \/ TickLocks(w)
    \/ TickReadsInfo(w) \/ TickScans(w) \/ TickStores(w) \/ TickKeepsPercent(w)
    \/ TickFindsAux(w) \/ TickTestsReady(w)
    \/ TickPosts(w) \/ TickSyncs(w) \/ TickStops(w)

MainSteps == ImportCall \/ ImportStep \/ Assign \/ Reset \/ Cancel

AppNext ==
    \/ \E b \in Bodies : FetchComplete(b)
    \/ Resume \/ OpenWeb \/ Close
    \/ MainSteps \/ RunReadyBlock
    \/ \E w \in Workers : TimerFires(w) \/ Tick(w) \/ TickCrashes(w)
    \/ EngineRuns
    \/ Relaunch

AppSpec == AppInit /\ [][AppNext]_appVars

(* The queue runs the blocks given to it, the main run loop turns while    *)
(* the app is in front, and a torrent has peers for the pieces it wants.   *)
(* The user does nothing in particular.                                    *)
AppFairness ==
    /\ WF_appVars(MainSteps)
    /\ WF_appVars(RunReadyBlock)
    /\ \A w \in Workers : WF_appVars(TimerFires(w)) /\ WF_appVars(Tick(w) \/ TickCrashes(w))
    /\ \A t \in Torrents, p \in Piece :
          /\ WF_appVars(PieceChecked(t, p) /\ EngineRuns)
          /\ WF_appVars(PieceFinished(t, p) /\ EngineRuns)

FairAppSpec == AppSpec /\ AppFairness

(* What closing a film waits for: the main thread and the ticks go on.     *)
FairThreads ==
    /\ AppSpec
    /\ WF_appVars(MainSteps)
    /\ \A w \in Workers : WF_appVars(Tick(w) \/ TickCrashes(w))

-----------------------------------------------------------------------------
(* Nothing is downloaded behind the user's back: when the site is shown,   *)
(* or nothing, no torrent is left in the session, whatever tick was under  *)
(* way when the film was closed (MainViewController.m 239-248, 422-426,    *)
(* Downloader.mm 201-208).                                                 *)
NoOrphan ==
    MainIdle /\ screen \in {"browse", "offer", "blank"}
        => \A t \in Torrents : session[t] = NoHandle

(* While the timer runs for a torrent, the torrent is there: the ticks     *)
(* have a torrent to report on (Downloader.mm 64-84, 184-189, 201-208).    *)
ActiveHasTorrent == MainIdle /\ timer /\ tInfo > 0 => Found(tInfo)

(* The percentage shown and stored is that of pieces which are there, of   *)
(* the torrent being downloaded (Downloader.mm 69, 139-149).               *)
PercentIsReal ==
    MainIdle /\ timer /\ tInfo > 0 /\ percent > 0 =>
        /\ percent <= NPieces
        /\ Found(tInfo) => HasPrefix(have[tMap[tInfo].torrent], percent - 1)

(* What a later import will pass over is on disk: the pieces of the file   *)
(* up to the stored maxBlock, for the torrent the settings are about       *)
(* (streamerok.cpp 95-97, 226-235, 335).                                   *)
ResumeIsSound ==
    importing = Idle =>
        \A t \in Torrents : defaults.torrentInfo = Prefix[t] =>
            \A p \in FileFirst .. defaults.maxBlock : p \in disk[t]

(* What a resumed film is played from is on disk: if the settings say the  *)
(* film can be watched, its first pieces and its last are there            *)
(* (MainViewController.m 185-187, 371-376, Downloader.mm 167-178).         *)
ReadyIsOnDisk ==
    importing = Idle /\ defaults.isReadySended =>
        \A t \in Torrents : defaults.torrentInfo = Prefix[t] =>
            CanGetUrl(disk[t], FileFirst, FileLast)

(* The player is only opened on a film whose first pieces and last piece   *)
(* are on disk, however long the block that opens it, or the user, waited  *)
(* (MainViewController.m 184-189, 229-232, 367-379).                       *)
PlayerHasFilm ==
    [][screen # "player" /\ screen' = "player"
          => \E t \in Torrents : CanGetUrl(disk[t], FileFirst, FileLast)]_appVars

(* The engine, driven by the app, behaves as Streamerok says.              *)
EngineSpec == Spec

(* Main thread and a tick wait for each other: the main thread for the     *)
(* lock, the tick, which holds it, for the main thread.                    *)
Hung == main.pc = "cancel" /\ \E w \in Workers : At(w, "sync")

(* Closing a film returns unless the two wait for each other, which they   *)
(* do if the film is closed between the post of a tick and its answer      *)
(* (VDLPlaybackViewController.m 82-89, Downloader.mm 181, 201-208).        *)
CloseReturns == main.pc = "cancel" ~> main.pc # "cancel" \/ Hung

(* A film that downloads can be watched in the end: the player opens,      *)
(* unless the user closes the progress view or the process dies.           *)
Downloading ==
    /\ screen = "progress" /\ MainIdle /\ timer
    /\ Found(tInfo) /\ finished[tMap[tInfo].torrent] # {}
Watchable == Downloading ~> screen # "progress"

(* MainViewController.m 349: the early return is for what is "downloaded". *)
RefusedIsDownloaded ==
    [][screen = "browse" /\ screen' \in {"blank", "offer"} =>
          \E t \in Torrents : file' = t /\ disk[t] = Piece]_appVars

(* Downloader.mm 184-188: at 100 percent the tick is to "stop download",   *)
(* so once every piece is there the timer ends.                            *)
Complete == MainIdle /\ timer /\ Found(tInfo) /\ have[tMap[tInfo].torrent] = Piece
CompleteIsStopped == Complete ~> ~timer
=============================================================================
