------------------------------ MODULE Playback ------------------------------
(***************************************************************************)
(* The player on a film that is still being downloaded                     *)
(* (VDLPlaybackViewController.m): it buffers when less than a minute is    *)
(* ahead, goes on when more is there, and keeps seeks within what is       *)
(* there.  The last part is how the main screen opens and closes it.       *)
(*                                                                         *)
(* Time is counted in pieces: the film has NPieces of them, and is the     *)
(* only file of its torrent, as the percentages the player is told are     *)
(* those of the torrent.  One film is downloaded, closed and resumed.      *)
(***************************************************************************)
EXTENDS Pieces

CONSTANTS
    SafetyTime,     \* safetyTimeSeconds
    Reserve,        \* the half percent a seek keeps clear of
    Ahead,          \* changes of the time that may wait for the main thread
    MaxEvents,      \* bound: changes of the time that wait, with those of seeks
    MaxDrags,       \* bound: delayed seeks that may wait
    User,           \* what the user does: a subset of Gestures
    Late,           \* percentages a late tick of another film may post
    NoTick

Gestures == {"press", "drag", "close"}

ASSUME PlaybackAssumption ==
    /\ NPieces > 1
    /\ SafetyTime \in Nat \ {0}
    /\ MIN_START_PIECES > 1
    /\ Reserve \in Nat \ {0}
    /\ Ahead \in Nat \ {0} /\ MaxEvents \in Nat /\ Ahead < MaxEvents
    /\ MaxDrags \in Nat
    /\ User \subseteq Gestures
    /\ Late \subseteq Nat
    /\ NoTick \notin Int

VARIABLES
    disk,           \* how far the film is in its file without a gap
    have,           \* pieces of the torrent up to the first gap before the last
    tail,           \* its last piece is there
    count,          \* maxDownloadedPieceFromStartCount
    percent,        \* Downloader.percent
    stored,         \* DEFAULTS_PERCENT_KEY
    ready,          \* keyIsReadySended
    running,        \* the torrent is in the session
    tick,           \* the percentage a tick posts and waits to deliver
    open,           \* movieView: the player is on screen
    vlc,            \* what VLC does
    length,         \* of the media; VLC does not know it at first
    pos,            \* the time VLC has played up to
    events,         \* changes of `time' that wait for the main thread
    status,
    downloaded_,
    slider,         \* positionSlider.value
    scheduled,      \* calls of _setPositionForReal that wait for their delay
    setPosition,
    closing,        \* a call of closePlayback: waits for its delay
    outrun          \* history: VLC may have got past isSafe

download == <<disk, have, tail, count, percent, stored, ready, running>>
player == <<vlc, length, pos, events>>
controls == <<slider, scheduled, setPosition, closing>>
view == <<status, downloaded_>>
vars == <<download, tick, open, player, controls, view, outrun>>

Flags ==
    /\ tail \in BOOLEAN /\ ready \in BOOLEAN /\ running \in BOOLEAN
    /\ open \in BOOLEAN /\ setPosition \in BOOLEAN /\ closing \in BOOLEAN
    /\ outrun \in BOOLEAN

TypeOK ==
    /\ disk \in 0 .. NPieces /\ have \in 0 .. NPieces - 1
    /\ count \in NoCount .. NPieces - 1
    /\ percent \in -1 .. NPieces /\ stored \in 0 .. NPieces
    /\ tick \in {NoTick} \cup 0 .. NPieces \cup Late
    /\ vlc \in {"none", "opening", "playing", "paused", "ended", "error"}
    /\ length \in {0, NPieces}
    /\ pos \in 0 .. NPieces
    /\ events \in 0 .. MaxEvents
    /\ status \in {"Playing", "Paused", "Buffering"}
    /\ downloaded_ \in Nat
    /\ slider \in 0 .. NPieces
    /\ scheduled \in 0 .. MaxDrags
    /\ Flags

Init ==
    /\ disk = 0 /\ have = 0 /\ tail = FALSE /\ count = NoCount
    /\ percent = -1 /\ stored = 0 /\ ready = FALSE /\ running = TRUE
    /\ tick = NoTick
    /\ open = FALSE
    /\ vlc = "none" /\ length = 0 /\ pos = 0 /\ events = 0
    /\ status = "Playing" /\ downloaded_ = 0
    /\ slider = 0 /\ scheduled = 0 /\ setPosition = FALSE /\ closing = FALSE
    /\ outrun = FALSE

Larger(a, b) == IF a < b THEN b ELSE a

-----------------------------------------------------------------------------
(* The torrent.  Its last piece is asked for first and the others in       *)
(* order; on a resumed film the pieces come from the check of its file.    *)
Bitfield == 0 .. have - 1 \cup {i \in {NPieces - 1} : tail}

Complete == have = NPieces - 1 /\ tail

Prefix(h, t) == IF h = NPieces - 1 /\ t THEN NPieces ELSE h

PieceThere ==
    /\ running
    /\ \/ have < NPieces - 1 /\ have' = have + 1 /\ UNCHANGED tail
       \/ ~tail /\ tail' = TRUE /\ UNCHANGED have
    /\ disk' = Larger(disk, Prefix(have', tail'))
    /\ UNCHANGED <<count, percent, stored, ready, running, tick, open, player,
                   controls, view, outrun>>

(* A tick posts the percentage it has found, and the observer waits for    *)
(* the main thread to take it.                                             *)
TickPosts ==
    LET current == Scan(Bitfield, count) + 1
    IN /\ running /\ tick = NoTick
       /\ count' = Scan(Bitfield, count)
       /\ percent' = Larger(percent, current)
       /\ stored' = IF current > percent THEN current ELSE stored
       /\ tick' = current
       /\ UNCHANGED <<disk, have, tail, ready, running, open, player, controls, view, outrun>>

(* A tick fired for the film before reads no torrent, or another one.      *)
LateTickPosts ==
    /\ tick = NoTick
    /\ tick' \in Late
    /\ UNCHANGED <<download, open, player, controls, view, outrun>>

-----------------------------------------------------------------------------
(* VLC: its pause is a toggle, and play does nothing to a film that plays. *)
Paused(v) == IF v = "playing" THEN "paused" ELSE IF v = "paused" THEN "playing" ELSE v
Played(v) == IF v = "paused" THEN "playing" ELSE v

VlcStarts ==
    /\ vlc = "opening"
    /\ vlc' = "playing"
    /\ UNCHANGED <<download, tick, open, length, pos, events, controls, view, outrun>>

VlcKnowsLength ==
    /\ vlc \in {"opening", "playing", "paused"} /\ length = 0
    /\ length' = NPieces
    /\ UNCHANGED <<download, tick, open, vlc, pos, events, controls, view, outrun>>

(* VLC plays on, unless the main thread has fallen behind.  It outruns the *)
(* main thread if a change of the time still waits to be looked at.        *)
VlcPlays ==
    /\ vlc = "playing"
    /\ events < Ahead /\ pos < NPieces
    /\ pos' = pos + 1
    /\ events' = events + 1
    /\ outrun' = (outrun \/ events > 0)
    /\ UNCHANGED <<download, tick, open, vlc, length, controls, view>>

(* mediaPlayerStateChanged:                                                *)
StateChanged(state) == closing' = (closing \/ state \in {"ended", "error"})

VlcStops(state) ==
    /\ vlc' = state
    /\ StateChanged(state)
    /\ UNCHANGED <<download, tick, open, length, pos, events, slider, scheduled,
                   setPosition, view, outrun>>

VlcEnds == vlc = "playing" /\ pos = NPieces /\ VlcStops("ended")

VlcFails == vlc \in {"opening", "playing"} /\ VlcStops("error")

(* closePlayback: hides the bar with the time, and no more.                *)
ClosePlayback ==
    /\ closing
    /\ closing' = FALSE
    /\ UNCHANGED <<download, tick, open, player, slider, scheduled, setPosition, view, outrun>>

-----------------------------------------------------------------------------
IsSafe(d, time) == length # 0 /\ time + SafetyTime < d

isSafe == IsSafe(downloaded_, pos)

(* observeValueForKeyPath: a change of the time.                           *)
TimeChanged ==
    /\ open /\ events > 0
    /\ events' = events - 1
    /\ slider' = pos
    /\ \/ isSafe /\ UNCHANGED <<vlc, status>>
       \/ ~isSafe /\ vlc' = Paused(vlc) /\ status' = "Buffering"
    /\ UNCHANGED <<download, tick, open, length, pos, scheduled, setPosition, closing,
                   downloaded_, outrun>>

IsLessBug(d) == d <= downloaded_
IsLess(d) == d < downloaded_

GoesOnBug == status' = "Playing" /\ UNCHANGED vlc
GoesOn == status' = "Playing" /\ vlc' = Played(vlc)

(* setDownloaded:, on the main thread for a tick that waits there.         *)
TickDelivers ==
    /\ tick # NoTick
    /\ tick' = NoTick
    /\ \/ /\ ~open \/ IsLess(tick)
          /\ UNCHANGED <<vlc, view>>
       \/ /\ open /\ ~IsLess(tick)
          /\ downloaded_' = tick
          /\ IF status = "Buffering" /\ IsSafe(tick, pos)
             THEN GoesOn
             ELSE UNCHANGED <<vlc, status>>
    /\ UNCHANGED <<download, open, length, pos, events, controls, outrun>>

-----------------------------------------------------------------------------
(* positionSliderAction:                                                   *)
Drag(value) ==
    /\ "drag" \in User /\ open
    /\ scheduled < MaxDrags
    /\ slider' = value
    /\ scheduled' = scheduled + 1
    /\ setPosition' = FALSE
    /\ UNCHANGED <<download, tick, open, player, closing, view, outrun>>

FarthestSeekBug == downloaded_ + Reserve
FarthestSeek == downloaded_ - Reserve

(* VLC tells of the new time, once it plays the film.                      *)
SetPosition(value) ==
    /\ setPosition' = TRUE
    /\ \/ /\ vlc \in {"playing", "paused"} /\ events < MaxEvents
          /\ pos' = value
          /\ events' = events + 1
       \/ /\ vlc \notin {"playing", "paused"}
          /\ UNCHANGED <<pos, events>>

(* _setPositionForReal, when its delay is over.                            *)
SeekFires ==
    /\ open /\ scheduled > 0
    /\ scheduled' = scheduled - 1
    /\ \/ /\ setPosition
          /\ UNCHANGED <<vlc, pos, events, slider, setPosition, status>>
       \/ /\ ~setPosition /\ slider > FarthestSeek
          /\ slider' = Larger(0, FarthestSeek)
          /\ vlc' = Paused(vlc) /\ status' = "Buffering"
          /\ SetPosition(slider')
       \/ /\ ~setPosition /\ slider <= FarthestSeek
          /\ IF status = "Buffering" THEN GoesOn ELSE UNCHANGED <<vlc, status>>
          /\ SetPosition(slider)
          /\ UNCHANGED slider
    /\ UNCHANGED <<download, tick, open, length, closing, downloaded_, outrun>>

(* playandPause: it plays after it has paused; VLC may carry out a pause   *)
(* in the background.  A film that buffers is started by it all the same.  *)
PressPlay ==
    /\ "press" \in User /\ open
    /\ \/ /\ vlc = "playing"
          /\ status' = "Paused"
          /\ vlc' \in {"playing", "paused"}
       \/ /\ vlc # "playing"
          /\ vlc' = Played(vlc)
          /\ UNCHANGED status
    /\ outrun' = (outrun \/ status = "Buffering")
    /\ UNCHANGED <<download, tick, open, length, pos, events, controls, downloaded_>>

-----------------------------------------------------------------------------
(* playMediaFromURL:                                                       *)
PlayMedia ==
    /\ vlc' = "opening" /\ length' = 0 /\ pos' = 0 /\ events' = 0
    /\ status' = "Playing"

(* viewWillDisappear: stops VLC and no longer observes it.                 *)
ViewWillDisappear == vlc' = "none" /\ events' = 0

(* The main screen makes a new player, which plays the file.               *)
StartToViewplayer(value) ==
    /\ open' = TRUE
    /\ PlayMedia
    /\ downloaded_' = Larger(0, value)
    /\ slider' = 0 /\ scheduled' = 0 /\ setPosition' = FALSE /\ closing' = FALSE
    /\ outrun' = FALSE

(* The ready handler of a tick that finds the first pieces and the last.   *)
ReadyToView ==
    /\ running /\ ~ready
    /\ CanGetUrl(Bitfield, 0, NPieces - 1)
    /\ ready' = TRUE
    /\ StartToViewplayer(percent)
    /\ UNCHANGED <<disk, have, tail, count, percent, stored, running, tick>>

(* btnClosePressed: and closeVideoPlayer:.  While a tick waits for the     *)
(* main thread this hangs: see Hung of module Downloader.                  *)
Close ==
    /\ "close" \in User /\ open
    /\ tick = NoTick
    /\ open' = FALSE /\ ViewWillDisappear
    /\ running' = FALSE /\ have' = 0 /\ tail' = FALSE
    /\ UNCHANGED <<disk, count, percent, stored, ready, tick, length, pos, controls, view, outrun>>

(* resumeLastFilm: the player first, then the import.  After a restart of  *)
(* the app there is no Downloader to ask for the percentage.               *)
Resume ==
    /\ ~open /\ ~running /\ ready
    /\ \E value \in {percent, stored} : StartToViewplayer(value)
    /\ running' = TRUE /\ count' = NoCount /\ percent' = -1
    /\ UNCHANGED <<disk, have, tail, stored, ready, tick>>

-----------------------------------------------------------------------------
Next ==
    \/ PieceThere \/ TickPosts \/ LateTickPosts \/ TickDelivers
    \/ VlcStarts \/ VlcKnowsLength \/ VlcPlays \/ VlcEnds \/ VlcFails
    \/ TimeChanged \/ ClosePlayback
    \/ \E value \in 0 .. NPieces : Drag(value)
    \/ SeekFires \/ PressPlay
    \/ ReadyToView \/ Close \/ Resume

Spec == Init /\ [][Next]_vars

(* The timer goes on and the main thread takes what its ticks post.        *)
FairPlayback ==
    /\ Spec
    /\ WF_vars(TickPosts) /\ WF_vars(TickDelivers)

-----------------------------------------------------------------------------
(* The film is never played beyond what is in its file or what a late tick *)
(* of another film said of it, wherever the user seeks, whichever pause is *)
(* undone by the next one and however the film is closed and resumed.      *)
(* Excepted is a player that outran the checks: VLC played on while a      *)
(* change of the time waited for the main thread, or the user started a    *)
(* film that buffered (VDLPlaybackViewController.m 195-208, 304-325,       *)
(* 352-380, 492-535).                                                      *)
PlaysWhatIsThere ==
    /\ outrun \/ pos <= Larger(disk, downloaded_)
    /\ downloaded_ <= disk \/ downloaded_ \in Late

(* A film that VLC holds waits for data or for the user: with the status   *)
(* Playing no percentage would ever start it again (502-509).              *)
NeverStalls == status = "Playing" => vlc # "paused"

EnoughIsThere ==
    /\ open /\ status = "Buffering" /\ length # 0
    /\ pos + SafetyTime < have /\ downloaded_ <= have /\ ~Complete

(* A film that buffers goes on once a minute more is there, also if not    *)
(* another piece comes (492-516).  A resumed film waits until the check of *)
(* its file has come as far as the percentage stored before.               *)
BufferingEnds ==
    EnoughIsThere ~> status # "Buffering" \/ ~open \/ Complete \/ pos + SafetyTime >= have
=============================================================================
