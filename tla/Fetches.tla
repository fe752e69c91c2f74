------------------------------ MODULE Fetches -------------------------------
(***************************************************************************)
(* What the site makes the app fetch (WebView.m, Dwnl.m), the files this   *)
(* leaves, and the start screen that offers to resume a film               *)
(* (MainViewController.m, ResumeViewController.m).                         *)
(*                                                                         *)
(* For a film the site sends commands: its title is stored at once; its    *)
(* subtitles and its torrent are fetched, each on its own, and come in any *)
(* order or not at all.  Its poster, on which nothing depends, is left     *)
(* out.  The download itself is that of module Downloader; here it begins, *)
(* may be watched, and is cancelled.                                       *)
(***************************************************************************)
EXTENDS Integers, FiniteSets

CONSTANTS
    Films,          \* each with a torrent file of its own name
    NoFilm,
    Zip,            \* film -> subtitle files in its archive; 0: it has none
    Slots,          \* bound: torrent fetches at a time
    Races,          \* which of the races below can happen
    Faults          \* which of the faults below can happen

(* again: the user picks a film whose torrent is being fetched.            *)
(* meanwhile: the user picks a film while that of another is fetched.      *)
(* resume: the user resumes a film during a fetch.                         *)
(* late: the user picks a film before the subtitles of the one before have *)
(* come.  early: the site asks for a torrent before it sends the rest.     *)
AllRaces == {"again", "meanwhile", "resume", "late", "early"}

(* dies: the process dies during a fetch; diesMidImport: between the       *)
(* settings of main screen and engine.  offline: the site is not there.    *)
AllFaults == {"fetchFails", "dies", "diesMidImport", "offline"}

Commands == {"title", "subs", "download"}

ASSUME FetchesAssumption ==
    /\ NoFilm \notin Films
    /\ Zip \in [Films -> Nat]
    /\ Races \subseteq AllRaces /\ Faults \subseteq AllFaults

VARIABLES
    chosen,         \* the film the site sends commands for
    left,           \* the commands it has still to send
    slot,           \* the fetches of torrent files
    archives,       \* films whose subtitles are being fetched
    file,           \* film -> its torrent file in the torrents folder
    videos,         \* films whose first pieces are in that folder
    beside,         \* the subtitle file next to the video
    srt,            \* the subtitle files in the documents folder
    title,          \* keyStoredTitle
    lastFile,       \* keyLastTorrentFilePath
    torrentInfo,    \* DEFAULTS_TORRENT_INFO_KEY
    ready,          \* keyIsReadySended
    main,           \* the film the main thread is about to import
    torrent,        \* the film the app takes to be downloaded
    session,        \* the films that are
    screen,
    playing,        \* the film of the open player
    resumeView      \* the view that offers to resume a film

site == <<chosen, left>>
fetches == <<slot, archives>>
folder == <<file, videos, beside>>
settings == <<title, lastFile, torrentInfo, ready>>
app == <<main, torrent, session, screen, playing, resumeView>>
vars == <<site, fetches, folder, srt, settings, app>>

MaybeFilm == Films \cup {NoFilm}

Subtitles == [film : Films, n : Nat]
NoSubs == [film |-> NoFilm, n |-> 0]
Archive(f) == [film : {f}, n : 1 .. Zip[f]]

FreeSlot == [film |-> NoFilm, step |-> "free"]

NoView == [title |-> NoFilm, old |-> FALSE]

TypeOK ==
    /\ chosen \in MaybeFilm /\ left \subseteq Commands
    /\ slot \in [Slots -> [film : MaybeFilm,
                           step : {"free", "asked", "open", "spoilt", "done", "failed"}]]
    /\ archives \subseteq Films
    /\ file \in [Films -> {"absent", "partial", "whole"}]
    /\ videos \subseteq Films
    /\ beside \in Subtitles \cup {NoSubs}
    /\ srt \subseteq Subtitles
    /\ title \in MaybeFilm /\ lastFile \in MaybeFilm /\ torrentInfo \in MaybeFilm
    /\ ready \in BOOLEAN
    /\ main \in MaybeFilm /\ torrent \in MaybeFilm /\ session \subseteq Films
    /\ screen \in {"site", "blank", "progress", "player"}
    /\ playing \in MaybeFilm
    /\ resumeView \in {NoView} \cup [title : Films, old : BOOLEAN]

Init ==
    /\ chosen = NoFilm /\ left = {}
    /\ slot = [s \in Slots |-> FreeSlot]
    /\ archives = {}
    /\ file = [f \in Films |-> "absent"] /\ videos = {} /\ beside = NoSubs
    /\ srt = {}
    /\ title = NoFilm /\ lastFile = NoFilm /\ torrentInfo = NoFilm /\ ready = FALSE
    /\ main = NoFilm /\ torrent = NoFilm /\ session = {}
    /\ screen = "site" /\ playing = NoFilm
    /\ resumeView = NoView

MainIdle == main = NoFilm

Fetching == {slot[s].film : s \in Slots} \ {NoFilm}

Quiet == Fetching = {} /\ left = {}

-----------------------------------------------------------------------------
(* The site, in the web view.                                              *)
Choose(f) ==
    /\ MainIdle /\ screen = "site" /\ left = {}
    /\ f \in Fetching => "again" \in Races
    /\ Fetching \subseteq {f} \/ "meanwhile" \in Races
    /\ archives \subseteq {f} \/ "late" \in Races
    /\ \E s \in Slots : slot[s] = FreeSlot
    /\ chosen' = f /\ left' = Commands
    /\ UNCHANGED <<fetches, folder, srt, settings, app>>

(* webView:shouldStartLoadWithRequest: with one of the commands.           *)
Command(c) ==
    /\ MainIdle /\ c \in left
    /\ left' = left \ {c}
    /\ UNCHANGED <<chosen, folder, lastFile, torrentInfo, ready, app>>

StoreTitle ==
    /\ Command("title")
    /\ title' = chosen
    /\ UNCHANGED <<fetches, srt>>

DeletesOldSrtBug == UNCHANGED srt

(* Of the old subtitles only the file that is found first goes.            *)
DeletesOldSrt ==
    \/ srt = {} /\ UNCHANGED srt
    \/ \E old \in srt : srt' = srt \ {old}

DownloadSubs ==
    /\ Command("subs")
    /\ DeletesOldSrt
    /\ archives' = IF Zip[chosen] = 0 THEN archives ELSE archives \cup {chosen}
    /\ UNCHANGED <<slot, title>>

(* The torrent files it deletes first are not in the folder it looks into. *)
DownloadFile ==
    /\ Command("download")
    /\ left = {"download"} \/ "early" \in Races
    /\ \E s \in Slots :
          /\ slot[s] = FreeSlot
          /\ slot' = [slot EXCEPT ![s] = [film |-> chosen, step |-> "asked"]]
    /\ UNCHANGED <<archives, srt, title>>

-----------------------------------------------------------------------------
(* A fetch of a torrent file writes into the file as the data comes.       *)
FetchMoves(s, from, to) ==
    /\ slot[s].step = from
    /\ slot' = [slot EXCEPT ![s].step = to]
    /\ UNCHANGED <<site, archives, videos, beside, srt, settings, app>>

(* The file is emptied or deleted under the fetch that writes into it.     *)
Spoilt(s) == IF slot[s].step = "open" THEN [slot[s] EXCEPT !.step = "spoilt"] ELSE slot[s]

StartsAnewBug(f) == file[f] = "absent"

(* The stream does not append: it begins at the start of the file.         *)
StartsAnew(f) == TRUE

(* The answer begins: the file is made, or emptied.                        *)
FetchOpens(s) ==
    LET f == slot[s].film
    IN /\ slot[s].step = "asked"
       /\ slot' = [r \in Slots |->
             IF r = s
             THEN [film |-> f, step |-> IF StartsAnew(f) THEN "open" ELSE "spoilt"]
             ELSE IF slot[r].film = f THEN Spoilt(r) ELSE slot[r]]
       /\ file' = [file EXCEPT ![f] = "partial"]
       /\ UNCHANGED <<site, archives, videos, beside, srt, settings, app>>

(* It ends, and what it has written is the whole file if nobody spoilt it. *)
FetchEnds(s) ==
    \/ /\ FetchMoves(s, "open", "done")
       /\ file' = [file EXCEPT ![slot[s].film] = "whole"]
    \/ /\ FetchMoves(s, "spoilt", "done")
       /\ UNCHANGED file

FetchFails(s) ==
    /\ "fetchFails" \in Faults
    /\ \E from \in {"asked", "open", "spoilt"} : FetchMoves(s, from, "failed")
    /\ UNCHANGED file

Released(s) == slot' = [slot EXCEPT ![s] = FreeSlot]

(* downloadComplete:, in its block on the main queue, up to the import.    *)
DownloadComplete(s) ==
    /\ MainIdle /\ slot[s].step = "done"
    /\ Released(s)
    /\ lastFile' = slot[s].film
    /\ main' = slot[s].film
    /\ UNCHANGED <<site, archives, folder, srt, title, torrentInfo, ready,
                   torrent, session, screen, playing, resumeView>>

(* downloadFailed: hides the site.                                         *)
DownloadFailed(s) ==
    /\ MainIdle /\ slot[s].step = "failed"
    /\ Released(s)
    /\ screen' = IF screen = "site" THEN "blank" ELSE screen
    /\ UNCHANGED <<site, archives, folder, srt, settings, main, torrent,
                   session, playing, resumeView>>

(* The archive is stored, unpacked into the documents folder and deleted.  *)
SubsEnd(f, arrive) ==
    /\ MainIdle /\ f \in archives
    /\ arrive \/ "fetchFails" \in Faults
    /\ archives' = archives \ {f}
    /\ srt' = IF arrive THEN srt \cup Archive(f) ELSE srt
    /\ UNCHANGED <<site, slot, folder, settings, app>>

-----------------------------------------------------------------------------
KeepsReadyBug(f) ==
    /\ file' = [g \in Films |-> IF g = f THEN file[g] ELSE "absent"]
    /\ slot' = [s \in Slots |-> IF slot[s].film # f THEN Spoilt(s) ELSE slot[s]]
    /\ videos' = {} /\ beside' = NoSubs
    /\ UNCHANGED ready

SparesNothingBug(f) ==
    /\ file' = [g \in Films |-> "absent"]
    /\ slot' = [s \in Slots |-> IF slot[s].film # f THEN Spoilt(s) ELSE slot[s]]
    /\ videos' = {} /\ beside' = NoSubs
    /\ ready' = FALSE

(* cleanOldFiles, and cleanUserSettings: only the torrent file itself is   *)
(* spared, and a fetch goes on writing into a file that has no name.       *)
CleanOldFiles(f) ==
    /\ file' = [g \in Films |-> IF g = f THEN file[g] ELSE "absent"]
    /\ slot' = [s \in Slots |-> IF slot[s].film # f THEN Spoilt(s) ELSE slot[s]]
    /\ videos' = {} /\ beside' = NoSubs
    /\ ready' = FALSE

(* downloadTorrentFromFile: a file that is not whole is refused, and the   *)
(* torrent that may run is forgotten.                                      *)
Import ==
    /\ ~MainIdle
    /\ main' = NoFilm
    /\ screen' = IF screen = "player" THEN screen ELSE "progress"
    /\ \/ /\ file[main] # "whole"
          /\ torrent' = NoFilm
          /\ UNCHANGED <<session, slot, folder, torrentInfo, ready>>
       \/ /\ file[main] = "whole"
          /\ torrent' = main /\ session' = session \cup {main}
          /\ torrentInfo' = main
          /\ IF torrentInfo # main THEN CleanOldFiles(main)
             ELSE UNCHANGED <<slot, folder, ready>>
    /\ UNCHANGED <<site, archives, srt, title, lastFile, playing, resumeView>>

(* startToViewplayer plays the first video there is; playMediaFromURL puts *)
(* subtitles beside it, if the first file it finds is one and there are    *)
(* none yet.                                                               *)
StartToViewplayer ==
    /\ screen' = "player"
    /\ playing' \in videos'
    /\ \/ UNCHANGED beside
       \/ beside = NoSubs /\ beside' \in srt

(* libtorrent writes the first pieces of a film.                           *)
FirstPieces(f) ==
    /\ f \in session
    /\ videos' = videos \cup {f}
    /\ UNCHANGED <<site, fetches, file, beside, srt, settings, app>>

(* The first pieces are there: the ready handler.                          *)
ReadyToView ==
    /\ MainIdle /\ torrent \in videos /\ screen \in {"progress", "player"}
    /\ ready' = TRUE
    /\ UNCHANGED videos
    /\ IF screen = "player" THEN UNCHANGED <<screen, playing, beside>> ELSE StartToViewplayer
    /\ UNCHANGED <<site, fetches, file, srt, title, lastFile, torrentInfo, main,
                   torrent, session, resumeView>>

-----------------------------------------------------------------------------
OpenStartsViewBug(there) ==
    /\ screen' \in {"site"} \cup {s \in {"blank"} : "offline" \in Faults}
    /\ resumeView' = [there EXCEPT !.old = TRUE]

(* openStartsView: the site comes to the front.  A resume view that is     *)
(* already there stays as it is, and under the site; a new one reads the   *)
(* title.                                                                  *)
OpenStartsView(there) ==
    /\ screen' \in {"site"} \cup {s \in {"blank"} : "offline" \in Faults}
    /\ resumeView' = IF there # NoView THEN [there EXCEPT !.old = TRUE]
                     ELSE [title |-> title, old |-> FALSE]

(* closeVideoPlayer: and progressBarWantsToClose.                          *)
Close ==
    /\ MainIdle /\ screen \in {"progress", "player"}
    /\ OpenStartsView(resumeView)
    /\ session' = session \ {torrent}
    /\ torrent' = NoFilm /\ playing' = NoFilm
    /\ UNCHANGED <<site, fetches, folder, srt, settings, main>>

UsableBug == resumeView # NoView /\ screen \in {"blank", "site"}

(* The buttons of the resume view can be pressed.                          *)
Usable ==
    /\ resumeView # NoView
    /\ screen = "blank" \/ (screen = "site" /\ ~resumeView.old)

MayResume == MainIdle /\ Usable /\ (Quiet \/ "resume" \in Races)

(* btnResumePressed: and resumeLastFilm, up to the import.                 *)
Resume ==
    /\ MayResume
    /\ resumeView' = NoView
    /\ main' = lastFile
    /\ UNCHANGED videos
    /\ IF ready THEN StartToViewplayer ELSE UNCHANGED <<screen, playing, beside>>
    /\ UNCHANGED <<site, fetches, file, srt, settings, torrent, session>>

(* btnWebPressed:                                                          *)
OpenWeb ==
    /\ MainIdle /\ Usable
    /\ resumeView' = NoView
    /\ UNCHANGED <<site, fetches, folder, srt, settings, main, torrent, session,
                   screen, playing>>

(* The process dies, and the user starts it again.                         *)
MayDie ==
    /\ Quiet \/ "dies" \in Faults
    /\ MainIdle \/ "diesMidImport" \in Faults

Relaunch ==
    /\ MayDie
    /\ left' = {} /\ chosen' = NoFilm
    /\ slot' = [s \in Slots |-> FreeSlot] /\ archives' = {}
    /\ main' = NoFilm /\ torrent' = NoFilm /\ session' = {} /\ playing' = NoFilm
    /\ OpenStartsView(NoView)
    /\ UNCHANGED <<folder, srt, settings>>

-----------------------------------------------------------------------------
Network(s) == FetchOpens(s) \/ FetchEnds(s) \/ FetchFails(s)

Told(s) == DownloadComplete(s) \/ DownloadFailed(s)

SendsCommand == StoreTitle \/ DownloadSubs \/ DownloadFile

Next ==
    \/ \E f \in Films : Choose(f)
    \/ SendsCommand
    \/ \E s \in Slots : Network(s) \/ Told(s)
    \/ \E f \in Films, arrive \in BOOLEAN : SubsEnd(f, arrive)
    \/ \E f \in Films : FirstPieces(f)
    \/ Import \/ ReadyToView
    \/ Close \/ Resume \/ OpenWeb
    \/ Relaunch

Spec == Init /\ [][Next]_vars

(* The site sends what it has begun, each fetch ends, and the main thread  *)
(* runs its blocks.  Nothing is assumed of the user.                       *)
FairFetches ==
    /\ Spec
    /\ WF_vars(SendsCommand) /\ WF_vars(Import)
    /\ \A s \in Slots : WF_vars(Network(s)) /\ WF_vars(Told(s))

-----------------------------------------------------------------------------
(* The film offered to be resumed is the one that would be, although its   *)
(* title was stored when it was picked, its torrent file when it had come, *)
(* and the view reads the title only once (ResumeViewController.m 94-97,   *)
(* MainViewController.m 184-191, 324-330, 433-440).                        *)
ResumesWhatItShows == MayResume => resumeView.title = lastFile

(* The torrent file of the film to resume is whole once no fetch is under  *)
(* way, also if the film was picked again while it was fetched (Dwnl.m     *)
(* 39-45, StreamerokHelper.m 63-75).                                       *)
LastFileIsWhole == MainIdle /\ Quiet /\ lastFile # NoFilm => file[lastFile] = "whole"

(* Subtitles next to the video are its own (WebView.m 146-166,             *)
(* VDLPlaybackViewController.m 155-182).                                   *)
SubsAreOfTheFilm == beside # NoSubs => videos = {beside.film}

(* A film that was picked is imported, also if it was picked twice, unless *)
(* the user picks a film once more (Dwnl.m 45, 60-68).                     *)
PickedIsImported ==
    \A f \in Films :
        left = {} /\ f \in Fetching ~> left # {} \/ (main = f /\ file[f] = "whole")

(* A film that is resumed as one that can be watched is the one in the     *)
(* folder, and its torrent the one imported: the settings of the main      *)
(* screen and those of the engine agree (MainViewController.m 184-191,     *)
(* 229-231, 326-328, 373, streamerok.cpp 226-235).                         *)
PlaysResumed == MainIdle /\ ready => torrentInfo = lastFile /\ videos = {lastFile}
=============================================================================
