-------------------------------- MODULE Views --------------------------------
(***************************************************************************)
(* What the user sees of a film and touches: the progress view while its   *)
(* first pieces come (ProgressViewViewController.m), the controls, the     *)
(* subtitles and the status bar of the player                              *)
(* (VDLPlaybackViewController.m), and the site before and after            *)
(* (MainViewController.m).                                                 *)
(*                                                                         *)
(* What is played and when is module Playback.  All of this runs on the    *)
(* main thread, but for the ticks, which compute what the progress view    *)
(* shows and leave it to blocks of the main queue.                         *)
(***************************************************************************)
EXTENDS Naturals, Sequences

CONSTANTS
    Workers,            \* threads of the background queue
    Tracks,             \* subtitle tracks, the one that disables them included
    NoTrack,            \* no track chosen yet
    StartPieces,        \* so many pieces' worth of bytes count as the start
    BlocksPerPercent,
    MaxPieces,          \* bound: pieces of a film that come while it is watched
    MaxPosts            \* bound: blocks of the progress view on the main queue

ASSUME ViewsAssumption ==
    /\ StartPieces \in Nat \ {0} /\ BlocksPerPercent \in Nat \ {0}
    /\ MaxPieces \in Nat /\ MaxPosts \in Nat
    /\ NoTrack \notin Tracks

VARIABLES
    screen,
    panel,      \* the controls with the play button are shown
    timeBar,    \* so is the bar with the time and the only buttons that close
    statusBar,  \* so is the status bar of the system
    idle,       \* _idleTimer is scheduled
    closing,    \* a call of closePlayback waits for its delay
    vlc,        \* "none", "active" or "over": ended, stopped or failed
    tracks,     \* the subtitle tracks VLC knows
    sheet,      \* the titles on the sheet of subtitles, none if it is not shown
    current,    \* the subtitle track chosen
    down,       \* pieces' worth of bytes that came since the film was begun
    blocks,     \* maxDownloadedPieceFromStart + 1
    reading,    \* worker -> the percentage computed in the tick it runs, or None
    posts,      \* percentages in blocks of the main queue, for the progress view
    bar         \* the percentage the progress view shows

bars == <<panel, timeBar, statusBar>>
film == <<vlc, tracks, sheet, current>>
player == <<bars, idle, closing, film>>
download == <<down, blocks>>
progress == <<download, reading, posts, bar>>
vars == <<screen, player, progress>>

Larger(a, b) == IF a < b THEN b ELSE a
Smaller(a, b) == IF a < b THEN a ELSE b

Cap == 95       \* percents the start of a film counts for at most

PercentOfBug(d, b) == Larger((d * 100) \div StartPieces, b \div BlocksPerPercent)

(* updateProgress: the share of the start that has come, or the blocks, in *)
(* whole percents.                                                         *)
PercentOf(d, b) == Larger(Smaller(Cap, (d * 100) \div StartPieces), b \div BlocksPerPercent)

Percents == 0 .. Larger(Cap, MaxPieces)
None == Larger(Cap, MaxPieces) + 1

TypeOK ==
    /\ screen \in {"site", "progress", "player"}
    /\ panel \in BOOLEAN /\ timeBar \in BOOLEAN /\ statusBar \in BOOLEAN
    /\ idle \in BOOLEAN /\ closing \in BOOLEAN
    /\ vlc \in {"none", "active", "over"}
    /\ tracks \in Seq(Tracks) /\ sheet \in Seq(Tracks)
    /\ current \in Tracks \cup {NoTrack}
    /\ down \in 0 .. MaxPieces /\ blocks \in 0 .. MaxPieces
    /\ reading \in [Workers -> Percents \cup {None}]
    /\ posts \in Seq(Percents)
    /\ bar \in Percents

NoReading == [w \in Workers |-> None]

Init ==
    /\ screen = "site"
    /\ panel = FALSE /\ timeBar = FALSE /\ statusBar = TRUE
    /\ idle = FALSE /\ closing = FALSE
    /\ vlc = "none" /\ tracks = <<>> /\ sheet = <<>> /\ current = NoTrack
    /\ down = 0 /\ blocks = 0 /\ reading = NoReading /\ posts = <<>> /\ bar = 0

-----------------------------------------------------------------------------
(* The progress view.                                                      *)

(* downloadTorrentFromFile: a new view, and the counts start anew.         *)
Begin ==
    /\ screen = "site"
    /\ screen' = "progress"
    /\ down' = 0 /\ blocks' = 0 /\ bar' = 0
    /\ UNCHANGED <<player, reading, posts>>

(* Pieces come in any order; those the check of the files finds are not    *)
(* downloaded.                                                             *)
PieceThere ==
    /\ screen # "site"
    /\ down' \in down .. Smaller(down + 1, MaxPieces)
    /\ blocks' \in blocks .. MaxPieces
    /\ UNCHANGED <<screen, player, reading, posts, bar>>

TickReadsBug(w) ==
    /\ screen # "site"
    /\ reading[w] = None /\ Len(posts) < MaxPosts
    /\ reading' = [reading EXCEPT ![w] = PercentOf(down, blocks)]
    /\ UNCHANGED <<screen, player, download, posts, bar>>

(* periodicCall computes and posts under a lock.                           *)
TickReads(w) ==
    /\ screen # "site"
    /\ reading = NoReading /\ Len(posts) < MaxPosts
    /\ reading' = [reading EXCEPT ![w] = PercentOf(down, blocks)]
    /\ UNCHANGED <<screen, player, download, posts, bar>>

(* The progress view, if it is there, leaves the rest to the main queue.   *)
TickPosts(w) ==
    /\ reading[w] # None
    /\ reading' = [reading EXCEPT ![w] = None]
    /\ posts' = IF screen = "progress" THEN Append(posts, reading[w]) ELSE posts
    /\ UNCHANGED <<screen, player, download, bar>>

UpdateProgress ==
    /\ posts # <<>>
    /\ bar' = Head(posts)
    /\ posts' = Tail(posts)
    /\ UNCHANGED <<screen, player, download, reading>>

(* The view is gone: blocks that wait for it show nothing.                 *)
HideProgressView == posts' = <<>>

(* progressBarWantsToClose: cancelDownload waits for the tick that has the *)
(* lock.                                                                   *)
CloseProgress ==
    /\ screen = "progress"
    /\ reading = NoReading
    /\ screen' = "site"
    /\ HideProgressView
    /\ UNCHANGED <<player, download, reading, bar>>

-----------------------------------------------------------------------------
(* The player.                                                             *)

(* startToViewplayer and playMediaFromURL, with the views of the xib.      *)
StartToViewplayer ==
    /\ screen' = "player"
    /\ panel' = TRUE /\ timeBar' = TRUE
    /\ idle' = FALSE /\ closing' = FALSE
    /\ vlc' = "active" /\ tracks' = <<>> /\ sheet' = <<>> /\ current' = NoTrack
    /\ HideProgressView
    /\ UNCHANGED <<statusBar, bar>>

(* The ready handler of a film that downloads.                             *)
ReadyToView ==
    /\ screen = "progress"
    /\ StartToViewplayer
    /\ UNCHANGED <<download, reading>>

(* resumeLastFilm: the player first, then the import.                      *)
Resume ==
    /\ screen = "site"
    /\ StartToViewplayer
    /\ down' = 0 /\ blocks' = 0
    /\ UNCHANGED reading

(* A touch reaches the player unless the sheet covers it.                  *)
Touchable == screen = "player" /\ sheet = <<>>

ToggleControlsVisibleBug ==
    /\ panel' = ~panel /\ statusBar' = ~panel
    /\ UNCHANGED timeBar

ToggleControlsVisible == panel' = ~panel /\ timeBar' = ~panel /\ statusBar' = ~panel

(* nextResponder and the actions of the controls: the idle timer starts,   *)
(* or starts again.                                                        *)
Touch ==
    /\ Touchable
    /\ idle' = TRUE
    /\ UNCHANGED <<screen, bars, closing, film, progress>>

Tap ==
    /\ Touchable
    /\ ToggleControlsVisible
    /\ idle' = TRUE
    /\ UNCHANGED <<screen, closing, film, progress>>

IdleTimerExceeded ==
    /\ idle
    /\ idle' = FALSE
    /\ IF panel THEN ToggleControlsVisible ELSE UNCHANGED bars
    /\ UNCHANGED <<screen, closing, film, progress>>

(* VLC finds the tracks of the film and the file with the subtitles.       *)
TrackAppears(t) ==
    /\ vlc = "active"
    /\ \A i \in 1 .. Len(tracks) : tracks[i] # t
    /\ tracks' = Append(tracks, t)
    /\ UNCHANGED <<screen, bars, idle, closing, vlc, sheet, current, progress>>

(* The film ends, is stopped or fails, after which VLC knows no tracks.    *)
(* mediaPlayerStateChanged.                                                *)
StateChanged ==
    /\ vlc # "none"
    /\ vlc' = "over" /\ tracks' = <<>>
    /\ closing' = TRUE
    /\ UNCHANGED <<screen, bars, idle, sheet, current, progress>>

(* closePlayback, when its delay is over.                                  *)
ClosePlayback ==
    /\ closing
    /\ closing' = FALSE
    /\ timeBar' = FALSE
    /\ UNCHANGED <<screen, panel, statusBar, idle, film, progress>>

SwitchSubtitleTrack ==
    /\ Touchable /\ panel
    /\ idle' = TRUE
    /\ sheet' = IF Len(tracks) > 1 THEN tracks ELSE sheet
    /\ UNCHANGED <<screen, bars, closing, vlc, tracks, current, progress>>

(* The sheet goes away, whatever is clicked.                               *)
Clicked ==
    /\ sheet' = <<>>
    /\ UNCHANGED <<screen, bars, idle, closing, vlc, tracks, progress>>

ClickBug(b) ==
    /\ b <= Len(tracks)
    /\ current' = IF b > 1 THEN tracks[b - 1] ELSE tracks[b]
    /\ Clicked

(* actionSheet:clickedButtonAtIndex: asks VLC for the tracks of now.       *)
Click(b) ==
    /\ b # Len(tracks) + 1
    /\ current' = IF b <= Len(tracks) THEN tracks[b] ELSE current
    /\ Clicked

Cancel ==
    /\ sheet # <<>>
    /\ Clicked
    /\ UNCHANGED current

ViewWillDisappearBug ==
    /\ vlc' = "none" /\ tracks' = <<>>
    /\ timeBar' = FALSE /\ statusBar' = TRUE
    /\ UNCHANGED idle

ViewWillDisappear ==
    /\ vlc' = "none" /\ tracks' = <<>>
    /\ idle' = FALSE
    /\ timeBar' = FALSE /\ statusBar' = TRUE

(* btnClosePressed and closeVideoPlayer; what still waits for the closed   *)
(* player finds no view that is shown.                                     *)
Close ==
    /\ Touchable /\ timeBar
    /\ reading = NoReading
    /\ screen' = "site"
    /\ ViewWillDisappear
    /\ closing' = FALSE
    /\ UNCHANGED <<panel, sheet, current, progress>>

-----------------------------------------------------------------------------
Starts ==
    /\ screen' = "site"
    /\ panel' = FALSE /\ timeBar' = FALSE /\ statusBar' = TRUE
    /\ idle' = FALSE /\ closing' = FALSE
    /\ vlc' = "none" /\ tracks' = <<>> /\ sheet' = <<>> /\ current' = NoTrack
    /\ down' = 0 /\ blocks' = 0 /\ reading' = NoReading /\ posts' = <<>> /\ bar' = 0

(* The test of a click lets the index one behind the last track through,   *)
(* which ends the process; the user starts it again.                       *)
ClickCrashes(b) == b = Len(tracks) + 1 /\ Starts

Next ==
    \/ Begin \/ PieceThere \/ UpdateProgress \/ CloseProgress
    \/ \E w \in Workers : TickReads(w) \/ TickPosts(w)
    \/ ReadyToView \/ Resume
    \/ Touch \/ Tap \/ IdleTimerExceeded
    \/ \E t \in Tracks : TrackAppears(t)
    \/ StateChanged \/ ClosePlayback
    \/ SwitchSubtitleTrack
    \/ \E b \in 1 .. Len(sheet) : Click(b) \/ ClickCrashes(b)
    \/ Cancel \/ Close

Spec == Init /\ [][Next]_vars

-----------------------------------------------------------------------------
(* The status bar goes with the controls, and is there whenever the player *)
(* is not: no timer of a player that was closed takes it away from the     *)
(* site (VDLPlaybackViewController.m 257-266, 388-416).                    *)
StatusBarFollows == statusBar = (screen = "player" => panel)

(* A user who goes on tapping gets the button that closes the player, also *)
(* after the film has ended or failed and closePlayback has taken the      *)
(* button away and left the other controls (210-215, 337-350, 388-394).    *)
CanBeClosed == []<><<Tap>>_vars => []<>(screen = "player" => timeBar)

(* A click on a title chooses the track it names, though VLC may have      *)
(* found more since the sheet was made (438-470).  Left out is a film that *)
(* has ended or failed meanwhile: it has no tracks, and a click is ignored *)
(* or ends the process.                                                    *)
PicksTheTrack ==
    [][\A b \in 1 .. Len(sheet) :
          Click(b) /\ vlc = "active" => current' = sheet[b]]_vars

(* The percentage a progress view shows never falls and is never ahead of  *)
(* what has come, though ticks on several threads compute it, from two     *)
(* counts, and blocks of the main queue show it later                      *)
(* (ProgressViewViewController.m 41-50, 118-131, Downloader.mm 110-181).   *)
ProgressIsReal ==
    [][screen = "progress" /\ screen' = "progress"
          => bar <= bar' /\ bar' <= PercentOf(down', blocks')]_vars
=============================================================================
