# A verification project for popcornTime (iOS)

The app shows a web site of films, fetches the torrent file the user picks,
downloads the film with libtorrent in the order it is watched, and opens a
player on the half-downloaded file. This directory holds TLA+ modules for the
part that decides *what is downloaded, when the player may open, and what is
remembered across restarts*, configurations that check them with TLC on small
instances, and proofs checked with TLAPS for instances of any size.

Paths below are relative to `src/popcornTime/`.

## 1. The system

| Part | Code | State | Operations | Talks to |
|---|---|---|---|---|
| Piece selection | `torrentDownload/c_code/streamerok.cpp` 53-140, 313-337 | priorities of the pieces, `maxDownloadedPieceFromStartCount` | constructor of `tAux`, `prioritize`, `canGetUrl`, the scan | libtorrent (`have_piece`, `piece_priority`), whose threads go on completing pieces |
| Engine (`Streamerok`) | `streamerok.cpp`, `streamerok.h` | `tMap` (id to handle and first piece), `nextId`, the scan's count | `importTorrent`, `getAux`, `deleteTorrent`, `peridoicCallback`/`handle_alert`, `getTorrentInfo` | libtorrent session, settings, torrents folder; called by `Downloader` |
| Settings | `UserDefaultHelper.m`, `StreamerokHelper.m` | hash, `maxBlock`, percentage, ready flag; files | read, write, clean | engine, `Downloader`, main screen |
| `Downloader` | `torrentDownload/Downloader.mm` | `tInfo`, `percent`, `isReadySended`, the timer | `download...`, `cancelDownload`, a tick at once and every three seconds (`streamerokCallback`, `periodicCall`) | engine; main screen through blocks on the main queue; player and progress view through `ntfProgress` |
| Main screen | `MainViewController.m` | which view is shown, `keyLastTorrentFilePath` | `downloadComplete`, `downloadTorrentFromFile`, `resumeLastFilm`, `startToViewplayer`, `closeVideoPlayer`, `progressBarWantsToClose`, `downloadFailed` | all of the above |
| Player | `video/VDLPlaybackViewController.m` | playing / paused / buffering, position, what is downloaded; controls, idle timer, sheet of subtitles, status bar | progress observer, seeking, buffering, controls, subtitles | VLC, main screen |
| Web view and fetches | `web/WebView.m`, `web/Dwnl.m` | fetches under way, torrent files, subtitles, the film's title | the `popcorn://` commands, one fetch each | main screen |
| Resume view | `ResumeViewController.m` | the title it read when it was made; whether the site covers it | two buttons | main screen |
| Progress view | `progress/ProgressViewViewController.m` | the percentage of its bar | progress observer, a button | `Downloader`, main screen |
| Shell | `AppDelegate.mm`, `main.mm` | nothing that matters here | | main screen |

Threads: the main thread owns the views and runs the imports and the
cancellations. The timer fires on the main run loop, but every tick is handed
to a *concurrent* global queue (`Downloader.mm` 89-94), so several ticks may be
under way; each first handles libtorrent's alerts without a lock, then runs
`periodicCall` inside `@synchronized(self)`. On the main thread only
`cancelDownload` takes that lock. Fetches complete on queues of AFNetworking,
and reach the main screen through the main queue.

What is hard here:

* **Downloads live on alerts.** Only the alert of a finished piece asks for
  further pieces. One alert dropped, or handled at the wrong moment, and the
  film stops for ever (`streamerok.cpp` 581-595).
* **Ticks outlive their film.** A tick fired before the timer was invalidated
  runs after the cancellation, against a torrent that is gone or the next one.
* **Fields are reset without the lock** next to a tick that reads them.
* **Settings and files are two stores** written one value at a time, while
  libtorrent holds finished pieces in a cache; the process may die in between.
* **The main thread waits for a tick, and a tick for the main thread**
  (`Downloader.mm` 203, `VDLPlaybackViewController.m` 84).
* **VLC's pause is a toggle**, and the player calls it from callbacks that come
  late, twice, or after a seek (`VDLPlaybackViewController.m` 368, 317).
* **One film is four things in four places**: its title, its torrent file, its
  subtitles and the video, each stored when it comes, each cleaned by another
  rule, and told apart by nothing (`WebView.m` 86-167, `StreamerokHelper.m` 63-78).
* **What is on screen outlives what it shows**: the idle timer of a player, the
  sheet of its subtitles, blocks of a progress view
  (`VDLPlaybackViewController.m` 410, 467, `ProgressViewViewController.m` 43).
* **Edges of the arithmetic**: a torrent that is gone has zero pieces, and the
  percentage is divided by them; the scan keeps its count when it finds no gap.

What makes each part correct:

* Piece selection: asks for the first gap, for no more than a window, in
  order; never says a film can be watched when its first pieces are missing.
* Engine: map and session agree, a download that began goes on, and a film
  arrives in the order it is watched, only films asked for.
* Settings: what they say was downloaded is on disk.
* File selection: the file downloaded is the film, and its pieces are exactly
  those that hold a byte of it.
* Player: plays only what is in the file; a film that is held is held because
  of missing data or by the user, and goes on when the data is there.
* Controls and progress view: the player can be closed, the status bar is there
  when the player is not, a click on a track chooses it, the percentage never
  falls nor runs ahead.
* Fetches and resume view: the film offered is the one resumed, its torrent file
  is whole, the subtitles beside the video are its own.
* `Downloader` and main screen: nothing downloads behind the site; the
  percentage is that of the film on screen; the player opens on a film that is
  there; closing returns; a film that downloads is shown in the end.

The hazards are listed one by one, with the line where each bites and the
properties about it, in `PROJECT.json`.

## 2. The modules

`Pieces` <- `PieceLoops`; `Pieces` <- `Streamerok` <- `Downloader`; `Pieces` <-
`Playback`; `FileSelection`, `Fetches` and `Views` stand alone. `Delivery` is the
abstract specification of the engine: `Downloader` implements `Streamerok`, and
`Streamerok` implements `Delivery`. The
`...Proofs` modules extend the module they are about, the `MC...` modules give
TLC its instances. A definition named `...Bug` is a definition of the model with
a plausible mistake in it; no model uses it. Each property below was seen to
fail when one of them takes the place of the definition it is named after.

**`Pieces`** has the constants of a torrent and closed forms of the loops: the
`InitialWindow` the constructor of `tAux` asks for, the `Window` of
`prioritize`, `CanGetUrl`, the `Scan` of `maxDownloadedPieceFromStart`. A
bitfield is a set of pieces.

**`PieceLoops`** steps through those three loops an iteration at a time while
`PieceArrives` completes pieces, as libtorrent's threads do. `prioritize` and
`canGetUrl` look at a piece when they reach it, the scan and the test of the
last piece look at a copy; this is where the difference shows. It justifies the
use of the closed forms, as single steps, in `Streamerok`.

**`Streamerok`** is the engine, with its settings, its files and what it relies
on of libtorrent. Its `Next` lets *any* caller make any call at any time.

| Variable | Code |
|---|---|
| `session`, `have`, `priority` | handles in the libtorrent session, `status().pieces`, pieces with priority 7 |
| `finished` | pieces downloaded since the torrent was added: only these posted an alert |
| `disk` | what the files in the torrents folder hold |
| `alerts`, `popped` | alerts in libtorrent's queue; those a thread has popped and has still to handle |
| `tMap`, `nextId`, `maxCount` | members of `Streamerok` |
| `defaults` | the four keys of NSUserDefaults; an absent key reads as zero |
| `importing` | where in `importTorrent` the main thread is |

`importTorrent` is one action up to the deletion of the old files
(`ImportBegin`), one per setting removed or written (`ForgetSettings`,
`ImportInfo`, `ImportMaxBlock`, `ImportPercent`) and one for adding (`ImportAdd`,
`ImportAddFails`), because a tick can run or the process die between any two of
them. Look-ups are actions, because `getAux` erases an entry whose handle is no
longer valid (`GetAux`, `CountPieces`, `DeleteTorrent`). The scan sets its count
(`CountPieces`), which an import may reset before it is stored and returned
(`StoreMaxBlock`). A tick pops all
alerts at once and handles them one by one (`PopAlerts`, `HandleAlert`).
`PieceChecked`, `PieceFinished` and `Restart` are libtorrent and the system.

**`Delivery`** is what the engine is for, without ids, handles, priorities,
alerts, threads and settings. Its state is `from` (the pieces from which those
who asked for a torrent want it), `have` and `disk`. A torrent is asked for
(`Begin`) or given up (`Stop`), a piece is found in the files (`Find`) or arrives
(`Deliver`), files are deleted (`Clear`) and the process dies (`Crash`). A piece
only arrives of a torrent somebody asked for, and only `InTurn`: one of the two
pieces at the end of the film, or one of the window at the first gap. The
mapping computes `from` from `tMap` and `session` (`From` in `Streamerok`); `have`
and `disk` are those of the engine.

**`Downloader`** composes the engine with the class `Downloader` and with what
`MainViewController`, the player and the progress view do around it. Every
action is an action of `Streamerok` together with a change of the app's own
state. The main thread is `main` (an import or a cancellation has several
steps, and the thread takes no other event meanwhile); a tick is `tick[w]` for a
thread `w`, from the alerts (`TickPops`, `TickHandles`) over the lock
(`TickLocks`), the status (`TickReadsInfo`, `TickScans`, `TickStores`,
`TickKeepsPercent`), the readiness (`TickFindsAux`, `TickTestsReady`) and the
notification (`TickPosts`, `TickSyncs`) to `TickStops`. A film refused because of
the stored percentage leaves nothing on screen (`blank`) or an old resume view
that was under the site (`offer`), whose buttons can still be pressed (`Resume`,
`OpenWeb`). The ready handler is a block that waits on the main
queue (`readyBlocks`, `RunReadyBlock`). A tick that uses the null pointer
`getAux` returns for a torrent that is gone ends the process (`TickCrashes`).

`Races` and `Faults` say what may go wrong, so that a property can be checked
where it holds, and its limits stated:

* `lateTick`: ticks may be under way while the main thread cancels or begins a
  download. Without it the user acts between two ticks.
* `overlap`: a fetch may complete while an earlier film is on screen.
* `killMidImport`, `loseWrites`: the process may die inside `importTorrent`, or
  with finished pieces still in libtorrent's cache.
* `addFails`: libtorrent may refuse a torrent.
* `deleteFails`: some of the old files may stay (`StreamerokHelper.m` 71 ignores
  the error).

Left out of these modules, because nothing here depends on it: `lastSendedBlock`,
`calculatedPercent`, `downloadedAlready`, the texts and rates shown, the title
and the poster. The fields that `Downloader.mm` 67-86 resets are reset in one
step. A tick tests and sets `isReadySended` (167-172) in one step, with the
answer of `getAux` it kept from the step before; line 335 of `streamerok.cpp`
stores the count and line 336 returns it in one step. `add_torrent` and the insertion in `tMap` are one step: the alert of a
piece finished in between would be dropped, but no peer has answered by then.
A torrent is its pieces and the first and last piece of the selected file, the
constants `FileFirst` and `FileLast`; `FileSelection` says where they come from.

**`FileSelection`** is the loop of `importTorrent` over the files of a torrent
(`streamerok.cpp` 245-277), one file at a time (`ConsiderFile`), and what the
constructor of `tAux` computes from the file it ends with (`fileFirstPiece`,
`fileLastPiece`). libtorrent lays the files out one behind the other (`AddFile`)
and refuses a torrent without a byte (`Parsed`). A file is its size, whether it
is padding and whether it has the name asked for; the largest number of 64 bits
is the constant `MaxSize`. A selection that leaves the torrent, which the test of
line 269 means to catch and does not, ends in `outOfRange`: the test is
`longestIndex < 0 && longestIndex >= num_files` (`NoFileSelected`), which no index
satisfies, so that a torrent in which every file with a byte is padding goes on
with `file_at(-1)` and is never answered with the -9 of "no file selected".

**`Playback`** is the player on a film that is still being downloaded, with just
enough of the download, the main screen and VLC around it to open, close and
resume it. Time is counted in pieces: `NPieces` of them make up the film, which
is the only file of its torrent, because the percentages the player is told are
those of the torrent.

| Variable | Code |
|---|---|
| `disk`, `have`, `tail` | pieces in the file, in the torrent up to its first gap, and the last piece; a resumed torrent begins with none until libtorrent has checked the file |
| `count`, `percent`, `stored`, `ready` | the scan's count, `Downloader.percent`, the two settings |
| `tick` | the percentage of a tick that waits in `observeValueForKeyPath` for the main thread |
| `vlc`, `length`, `pos`, `events` | VLC: its state, the length it knows, the time it has played up to, the changes of the time that wait |
| `status`, `downloaded_`, `slider`, `setPosition` | members of the view controller |
| `scheduled`, `closing` | calls of `_setPositionForReal` and `closePlayback` that wait for their delay |

VLC is external: `pause` is a toggle (`MobileVLCKit/VLCMediaPlayer.h` 479),
`play` does nothing to a film that plays, and it tells of each change of the
time on the main thread. `Ahead` bounds how far the main thread may fall behind
it, `User` what the user does, `Late` the percentages that ticks of another film
may post. Closing is only possible while no tick waits for the main thread: the
other case is `Hung` in `Downloader`.

**`Fetches`** is what happens before and around a download: the commands of the
site, the fetches they begin, the files these leave, the settings that name them,
and the start screen with its resume view.

| Variable | Code |
|---|---|
| `chosen`, `left` | the film picked on the site, and the commands its page has still to send |
| `slot`, `archives` | the fetches of torrent files (`Dwnl.m` 30-76) and of subtitles (100-124) |
| `file`, `videos`, `beside` | the torrents folder: torrent files, videos, the subtitles next to the video |
| `srt` | the subtitle files in the documents folder |
| `title`, `lastFile`, `torrentInfo`, `ready` | four settings, written by four classes |
| `main`, `torrent`, `session` | an import that waits in its block, `tInfo`, libtorrent's session |
| `screen`, `playing`, `resumeView` | what is shown; a resume view keeps its title, and may lie under the site |

A fetch opens its file when the answer begins, and then starts at the beginning of
it, whoever else writes there (`FetchOpens`); what is spoilt under a fetch stays
so (`Spoilt`). `DownloadComplete` and `Import` are two steps of one block of the
main thread, with `MainIdle` false in between, because the settings of the main
screen are written in the first and those of the engine in the second. `Import`
contains `CleanOldFiles`. What the site sends and when, that fetches end or fail,
and that pieces come are external. `Races` and `Faults` say what may happen, as
in `Downloader`:

* `again`, `meanwhile`, `resume`: while a torrent is fetched the user picks the
  same film again, another one, or resumes the last one;
* `late`: a film is picked before the subtitles of the one before have come;
  `early`: the site asks for the torrent before it sends the rest;
* `fetchFails`, `offline`; `dies`, `diesMidImport`: the process dies during a
  fetch, or between the settings.

Left out: the poster, on which nothing depends; the command `json`, which only
answers the page; the percentage that refuses a film (`MainViewController.m`
347), which is that of `Downloader`. The torrent files of two films have two
names, and so have their subtitles. An orphan in the session (see `NoOrphan`) goes on
writing, and may put its film back into the folder.

**`Views`** is what the user sees and touches of a film: the progress view, the
controls of the player, its sheet of subtitles, the status bar.

| Variable | Code |
|---|---|
| `screen` | site, progress view or player |
| `panel`, `timeBar`, `statusBar` | `controllerPanel` and `timeBar` not hidden (both close buttons are in `timeBar`), the status bar of the system |
| `idle`, `closing` | `_idleTimer`; a call of `closePlayback` that waits for its delay |
| `vlc`, `tracks`, `current` | VLC: its state, the subtitle tracks it knows, the one chosen |
| `sheet` | the titles on `_subtitleActionSheet` |
| `down`, `blocks` | what the download has had since it began, the result of the scan plus one |
| `reading`, `posts`, `bar` | the percentage a tick has computed, blocks of the main queue, the bar of the progress view |

A tick computes under the lock (`TickReads`) and posts (`TickPosts`); a block of
the main queue shows what it was given (`UpdateProgress`). Closing waits for the
lock. `Tap` toggles the controls, any touch restarts the idle timer, which hides
them again (`IdleTimerExceeded`). The sheet is made from the tracks of one moment
(`SwitchSubtitleTrack`) and a click looks at those of another (`Click`), of which
VLC may have found more (`TrackAppears`) or, once the film is over, have none
(`StateChanged`). The index one behind the last ends the process
(`ClickCrashes`). Bytes are counted in pieces; ticks of a film that is gone are
those of `Downloader` and not in this module.

## 3. What TLC checks

Passing runs:

| Run | Question | Instance | Size |
|---|---|---|---|
| `piece_loops` | Do the loops do what the closed forms say, whatever arrives meanwhile, and do they return? | 5 pieces, windows of 2, every bitfield, first and last piece, every count of a scan | 5 s |
| `engine` | Does a download go on, and deliver what `Delivery` promises, under any caller, with deaths at any time and refused torrents? | 1 torrent of 5 pieces, windows of 2, 2 imports, `killMidImport`, `loseWrites`, `addFails` | 309 thousand states |
| `app` | Is what the timer, the percentage, the settings and the player say true? Is a film that downloads shown in the end? | 2 films, a refused and an empty file, restarts; 4 pieces, 2 to begin; `addFails` | 252 thousand states |
| `late_ticks` | Does a torrent go on downloading behind the site? Does closing a film return? Does the app drive the engine as `Streamerok` says? | 1 film, a refused file, 2 threads, `lateTick`, `killMidImport` | 532 thousand states |
| `file_selection` | Is the right file selected, with the right pieces? | up to 3 files of 0, 1, 4 or 5 bytes, pieces of 3 | 26 thousand states |
| `playback` | Does a film that buffers go on? | 4 pieces, one of them the margin; seeks, films closed and resumed | 264 thousand states |
| `playback_races` | Is only played what is there? Is VLC ever left holding a film that counts as playing? | 4 pieces, late ticks, seeks, play button, 2 waiting changes of the time | 3.7 million states |
| `fetches` | Is the film offered the one resumed, whole, with its own subtitles? Is a film that was picked imported? | 2 films, one with subtitles, 2 fetches at a time, `again` | 9 thousand states |
| `views` | Can the player be closed, is the status bar right, does a click choose the track it names, is the percentage real? | 3 tracks, 2 threads, 3 pieces, 2 blocks waiting | 533 thousand states |
| `fetch_races` | Is a film resumed as one that can be watched the one in the folder? | 2 films, two subtitle files in an archive, `late`, `early`, fetches that fail, deaths, no site | 111 thousand states |

Why these bounds show something. Five pieces and windows of two give windows
inside the file, at its end and cut by the last piece, gaps before, in and
behind a window. Two imports are enough for a torrent imported again after a
restart, after a cancellation, or while it is in the session, where two ids
share a handle. Two threads are enough
for one tick to overtake another between popping and handling. Two films are
enough for one to find the settings and files of the other. `MaxImports` is the
only bound put on the engine and the app: it counts the imports of one life of the process,
which can be restarted any number of times. Sizes of 0, 1, 4 and 5 bytes and
pieces of 3 make files that are empty, lie inside a piece, share one with the
next file, begin or end on a border, and, with 5 the largest size, a film as
large as the one named; two films and a pad file between them need three files.
Four pieces with one as margin leave room for a position that is safe, at the
margin and beyond it. `MaxFiles`, `MaxDrags` and `MaxEvents` bound the
files, the seeks and the changes of the time that wait; films are opened, closed
and resumed without bound. `MaxPieces` and `MaxPosts` bound the pieces of a film
in `Views`, which may be begun and closed any number of times, and the blocks
that wait: with two of them and a tick under way three percentages are in flight.
Three tracks are enough for one to be found while the others are on the sheet. Two films are what a mix-up needs, and two slots what a
fetch needs to be overtaken by another of the same file; with the races of
`fetch_races` only one can be under way. Alerts are a set of handles, which
loses nothing: `handle_alert` looks at nothing else of an alert, and a thread
that handles one may keep it, as if there had been more. No run enables
`deleteFails`: it needs a second torrent, at a size that exceeds what a run can
hold; the theorems about the engine, `AppDelivers` and those about what is on disk
cover it.

What the properties say:

* `PieceLoops`: `FirstGapRequested` (no gap is left behind), `RequestsTheWindow`
  and `ScanStopsAtGap` (agreement with `Pieces`), `RequestsOneWindow`,
  `ReadyIsSound`, `CallReturns`.
* `Streamerok`: `NeverRunsDry` (until the file is complete the last piece or the
  first gap is asked for, or an alert that will ask for it is on its way),
  `DeliverySpec` (the refinement of `Delivery`), `Bookkeeping` (every torrent of the session can be deleted by an
  id, no handle names two torrents, what is out of the session has no pieces).
* `Downloader`: `NoOrphan`, `ActiveHasTorrent`, `PercentIsReal`,
  `ResumeIsSound`, `ReadyIsOnDisk`, `PlayerHasFilm`, `Watchable`,
  `CloseReturns`, and `EngineSpec`, the refinement of `Streamerok`.
* `FileSelection`: `SelectsFilm` (the first file with the given name, else the
  first of the largest, never padding), `CoversFile` (the pieces from
  `fileFirstPiece` to `fileLastPiece` are those that hold a byte of it).
* `Playback`: `PlaysWhatIsThere` (VLC is never beyond what the file holds or
  what a late tick said of it, until it outruns the checks, see below),
  `NeverStalls` (a film with the status Playing is not held by VLC: nothing
  would start it again), `BufferingEnds` (a film that buffers goes on once
  enough is there, though no other piece comes).
* `Views`: `StatusBarFollows` (it goes with the controls, and is there when the
  player is not), `CanBeClosed` (a user who goes on tapping gets the close
  button, also after the film has ended or failed), `PicksTheTrack` (a click
  chooses the track it names, though the tracks are read again),
  `ProgressIsReal` (the percentage shown never falls and is never ahead).
* `Fetches`: `ResumesWhatItShows` (the film offered is the one that would be
  resumed), `LastFileIsWhole` (so is its torrent file, once nothing is fetched),
  `SubsAreOfTheFilm`, `PickedIsImported`, `PlaysResumed` (the film resumed as one
  that can be watched is the only one in the folder and the one imported).

Where they stop holding. These limits are facts about the code, found with the
same modules:

* `NeverRunsDry` and `Watchable` speak of a download that has finished a piece
  since it was added. If the check of a resumed torrent finds every piece the
  constructor of `tAux` asked for, no alert comes and nothing more is asked for.
* `ActiveHasTorrent`, `PercentIsReal`, `ReadyIsOnDisk`, `ResumeIsSound`, `PlayerHasFilm` and
  `Watchable` fail with `lateTick`: a tick of the film before mixes its
  percentage, or its count, with the next film's. `ReadyIsOnDisk`,
  `PlayerHasFilm` and `Watchable` also fail with `overlap`, where a second film
  is imported while the first goes on writing; `ActiveHasTorrent` and
  `PercentIsReal` hold with it, and are proved for it.
* `ResumeIsSound` and `ReadyIsOnDisk` fail with `killMidImport` (the hash is
  stored before `maxBlock`, whose absence reads as piece 0) and with
  `loseWrites`.
* `NoOrphan` fails with `overlap`: one `Downloader` serves all films, and a
  second import forgets the id of the first. That the engine is driven as
  specified holds with `overlap` too, and is proved for it.
* `CloseReturns` excepts the state `Hung`, in which the main thread waits for
  the lock and the tick that holds it for the main thread. It is reachable; the
  property says that nothing else keeps closing from returning.
* An empty body makes `importTorrent` return 0, which `Downloader.mm` 65 takes
  for a torrent: the timer runs for an id that was never given, and a tick that
  gets to line 169 ends the process (`TickCrashes`).
* `PlaysWhatIsThere` excepts what it cannot say, through the history variable
  `outrun`. It is set when VLC plays on while a change of the time still waits
  for the main thread (the second of two waiting changes calls VLC's pause again,
  and the film it has just held plays on), or when the play button starts a film
  that buffers; both are reachable, and the film then runs into what is not there.
  It is reset when the player opens a film. All other presses, seeks and late
  ticks are within the property; a late tick moves the limit to what it said.
* `BufferingEnds` fails with a percentage in `Late` above the film's own: smaller
  ones are ignored after it. For the same reason it speaks of a resumed film only once the check
  of its file has come as far as the percentage the player was opened with. It
  leaves out the complete film, which buffers a minute before its end all the
  same and waits for a percentage that cannot be reached: the last minute is
  never played.
* After an error of VLC the player stays open: `closePlayback` only hides the bar
  with the time, and with it both close buttons (its dismissal is commented out,
  `VDLPlaybackViewController.m` 212), though line 341 says "distruct view
  controller on error". The other controls stay, so the first tap hides them and
  the second brings all of them back: `CanBeClosed` needs more than one tap.
* `PicksTheTrack` leaves out a film that is over: VLC then knows no tracks, and a
  click on the sheet is ignored or, with the index that `<=` in line 467 lets
  through, ends the process.
* `ProgressIsReal` is about the percentage of one film. A film of more than 500
  pieces can show more than 100 (a block per five counts one percent), and a tick
  of a film that is gone, which has no pieces, makes a new progress view show 95
  or NaN.
* `CoversFile` leaves out an empty file with the name asked for, whose last byte
  lies before its first.
* `PlaysResumed` relies on old files being deleted: a video that stays in the
  folder may be the one `MainViewController.m` 231 plays.
* While a closed player is kept alive by a delayed `closePlayback` (2 seconds)
  it still observes the ticks, and `Hung` can also happen then.
* `ResumesWhatItShows` fails when a fetch fails or the process dies during one
  (`fetchFails`, `dies`: the title is already that of the new film), with `early`,
  `meanwhile` and `resume`, and with `offline`: a resume view that was left open
  under the site shows again, with the title it once read.
* `LastFileIsWhole` fails with `meanwhile`, and with `fetchFails` and `dies`:
  picking the film to resume once more empties its torrent file first.
* `SubsAreOfTheFilm` fails with every race but `again`, with every fault but
  `offline`, and with two subtitle files in an archive, of which
  `popcorn://subs` deletes the one it finds first.
* `PickedIsImported` fails with `meanwhile` (the import of the first film deletes
  the file of the second while it is fetched), `resume`, `fetchFails` and `dies`.
* `PlaysResumed` fails with `again`, `meanwhile` and `resume`, by which an import
  may be refused after the film to resume was stored, or an orphan stay in the
  session, and with `diesMidImport`.

Fairness. `PieceLoops`: a loop that can go on does. `FairAppSpec`: the main
thread goes on with what it began and runs the blocks of its queue, the
timer fires and a tick that can go on does (the queue runs the blocks given to
it), and libtorrent checks the files and, as the torrent has peers, completes
each piece it was asked for. `FairThreads`, of the run `late_ticks`, is less: the
main thread and the ticks go on, and neither the timer nor libtorrent need do
anything. `FairPlayback`: the timer fires and the main thread takes the
percentages that wait for it; pieces need not come, and VLC need not play.
`FairFetches`: the page sends the commands
it began to send, each fetch ends, and the main thread runs its blocks. Nothing is
assumed of the user, who may never act or act again and again, nor of the
system, which need not kill the app. All of it is weak fairness.

Runs that show a disagreement between the code and what is written about it:

| Run | Written | The code |
|---|---|---|
| `refused_film` | `MainViewController.m` 349: "downloaded" | a tick after the cancellation divides by zero pieces and stores an infinite percentage, and the next film is refused with nothing on screen |
| `complete_film` | `Downloader.mm` 186: "stop download", at 100 percent | the scan moves its count only to the piece before a gap (`streamerok.cpp` 329-334): with no gap left it stays short of the last piece (`ScanStaysShort`), so 100 percent is never reached, and the timer and the torrent of a film that is there go on for ever. The test for what is "downloaded" in `MainViewController.m` 347-349 counts on the same percentage |

## 4. What is proved

For every number of pieces, torrents, threads and imports, every window, every
file in a torrent, and all races and faults (but where it says otherwise), from
the assumptions named in the modules only (`NPiecesAssumption`,
`StreamerokAssumption`, `DownloaderAssumption`, `FileSelectionAssumption`,
`PlaybackAssumption`, `FetchesAssumption`, `ViewsAssumption`):

* **`PiecesProofs`**: lemmas about the closed forms (`MinIsLeast`, `ScanType`,
  `ScanStaysShort`, `ScanKeepsPrefix`, `WindowFollowsGap`, `WindowHasGap`).
* **`PieceLoopsProofs`**: `TypeCorrect`, `ReadyCorrect`, `OneWindow`,
  `NoGapLeftBehind`, `WindowExact`, `ScanCorrect`. The invariant is `LoopInv`:
  each loop has passed over only what it has a right to, and, for `prioritize`,
  everything asked for lies in the window that starts at some piece asked for
  and the budget left covers the rest of that window (`WindowFrom`). The last
  clause is what the properties lack: without it the loop could stop because the
  budget is spent, with a gap left in the window.
* **`StreamerokProofs`**: `TypeCorrect`, `BooksAreKept`, `DownloadsGoOn`,
  `EngineDelivers`. `NeverRunsDry` is not inductive: when a
  torrent is imported or deleted one must know that no stale entry has the
  same handle, and that a torrent out of the session has no piece. That is
  `Bookkeeping`, and `TypeOK /\ Bookkeeping /\ NeverRunsDry` is inductive. When a
  piece arrives, either the first gap stays asked for or the piece that closed
  it has posted an alert.
  `EngineDelivers` is the refinement of `Delivery`. What it adds to
  `Bookkeeping` is `AsksInTurn`: every piece with priority 7 is at the end of
  the film or in a window at or before the first gap of some entry that shares
  the torrent's handle (`Due`). Pieces only arrive, so a first gap only moves
  forward and what was due stays due (`StaysDue`); an alert asks for the window at
  the gap of that moment. Each step then maps to `Begin`, `Stop`, `Find`,
  `Deliver`, `Clear`, `Crash` or a stutter (`StepOfDelivery`); a second id for a
  torrent is a `Begin`, and deleting either id is a `Stop`, as it invalidates both.
* **`DownloaderProofs`**: for any number of torrents, threads and pieces.
  - *The engine in the app* (`AppTypeCorrect`, `AppRefinesEngine`,
    `AppNeverRunsDry`, `AppDelivers`). Each step of the app is a step of the
    engine, leaves it alone, or is the death of a tick (`StepOfEngine`); the
    theorems of the engine then hold in the app. The refinement needs two facts
    about types: a look-up of an id that was never given (0, -8, -10) changes
    nothing, and what a tick stores is a percentage, never the NaN of 0/0, which
    is greater than nothing. A tick can end the process while the main thread
    imports, which the engine allows with `killMidImport` only. So the theorems
    assume that this is among the `Faults`, or that no tick is late: then none is
    under way while the main thread is busy, whatever fetches overlap (`Waits`),
    and the engine is in an import exactly when the main thread is
    (`ImportRuns`).
  - *Sessions* (`NothingBehindTheBack`, `TimerHasTorrent`). The first proves
    `NoOrphan` without `overlap`, late ticks or not. Its invariant `OneFilm` says
    that the id the main thread holds (`tInfo`, or the result of an import it has
    not assigned yet) deletes whatever is in the session, and that an import
    begins with an empty session: so a tick that deletes an id of the film before
    takes nothing away (`LookUpKeepsHold`), and a cancellation empties the
    session (`DeleteEmpties`). `TimerHasTorrent` proves `ActiveHasTorrent` without
    `lateTick`; fetches may overlap, so that a second film is imported, refused
    or found empty under the timer of the first, and the process may die at any
    step. Its invariant `Engaged` looks into the import: from the moment an id is
    returned, and until the fields are reset, it finds its torrent, as does the
    id it replaces as long as the timer runs. Late ticks break it.
  - *Percentages* (`PercentIsTrue`: `PercentIsReal`, without `lateTick`, any faults
    and overlapping fetches). `PercentIsReal` looks at the percentage only; what
    it lacks is where the percentage comes from. `Counted`: the pieces up to the
    count of the engine, from which the next scan starts, are those of the film
    the timer runs for, and the count is reset while an import that will replace
    it is under way (`Adds`). `TicksCount`: so are those a tick has scanned and
    not yet kept, for all ticks under way. `ScanKeepsPrefix` takes the count from
    one scan to the next; the film keeps its pieces or is gone (`FilmStays`).
  - *What is on disk* (`ResumePassesOverDisk`, `ReadyFilmIsThere`,
    `PlayerOpensOnFilm`: `ResumeIsSound`, `ReadyIsOnDisk` and the action property
    `PlayerHasFilm`). All assume `Undisturbed`: no races, neither `killMidImport`
    nor `loseWrites`, and prefixes of hashes that tell torrents apart. Refused
    torrents and old files that are not deleted are allowed; the run `app` meets
    the assumption. The invariant `OnDisk` relates settings, files, session, the
    import under way and the blocks that wait: the torrent in the session is the
    one of the settings and of the file fetched last, with every piece before its
    first one on disk (`OpenIsStored`); what is imported is that file
    (`ImportsFile`); the stored `maxBlock` counts pieces on disk except between
    the two writes of an import that reset it (`BlockOnDisk`); and a film that is
    stored as ready, or for which a block waits, can be watched from its files
    (`ReadyOnDisk`). `maxBlock` alone is not enough: it is a scan of the torrent
    that begins above the pieces an earlier `maxBlock` passed over, so that these
    have to be on disk as well.
  - *The lock* (`HungForGood`). A tick that needs the lock has it (`LockHeld`). So
    once the main thread waits for a tick that waits for the main thread, no step
    but the death of the process changes that, with any races and faults and
    whatever other ticks and alerts do; this is what `CloseReturns` excepts, and
    it is a real deadlock.

* **`FileSelectionProofs`**: `TypeCorrect`, `FilmCorrect`, `PiecesCorrect`. The
  invariant `SelectionInv` says of the files passed so far that none of them is a
  film, or the first named one is taken, or the first of the largest, and that
  the files lie one behind the other within the torrent. The pieces are then a
  matter of division. `FileFirst` and `FileLast` of the engine are any two pieces
  in order; `PiecesCorrect` is why that is so.
* **`PlaybackProofs`**: `TypeCorrect`, `NeverStallsCorrect`, `PlaysCorrect`. The
  last one is for any late ticks, any user and any number of changes of the time
  that wait: what the property cannot say is in `outrun`, not in an assumption.
  `PercentagesInv` says that every percentage of the film on its way, of the
  scan, in the settings or in a tick, is at most what the file holds
  (`ScanOfPrefix`), `ToldInv` that the player was told no more than that or than a
  late tick. `WithinKnown` is what `PlaysWhatIsThere` lacks: until VLC outruns the
  checks, a film that plays keeps clear of the end of what is known, and
  whenever VLC may play on before the next change of the time is handled
  (`Anchored`), there is a piece to play. `PlaybackInv` is their conjunction with
  the types.
* **`FetchesProofs`**: for any films, archives and number of fetches.
  - `TypeCorrect` for all races and faults.
  - `PlaysResumedCorrect` assumes `Settled` in its statement: none of `again`,
    `meanwhile`, `resume` and `diesMidImport`, each of which breaks it. Four facts
    make it inductive: at most one film is asked for or fetched, and none while
    one is imported (`OneFetch`); hence nobody spoils what a fetch writes
    (`FetchedIsWhole`); hence an import that begins with a file just fetched is
    not refused, and the two settings agree again when it ends (`SettingsAgree`);
    and nothing is in the session while the site is shown, so no other film comes
    into the folder (`OnlyTheFilm`). `ResumeInv` is their conjunction with the
    types.
  - `LastFileWhole` (`LastFileIsWhole`) allows what that one excludes, a film
    picked again while it is fetched, and assumes `OneAtATime`: neither
    `meanwhile` nor `resume`, neither `fetchFails` nor `dies`. Fetches now spoil each
    other, and a file is emptied while the settings name it. All fetches are of
    one film, and so is an import (`OneBusy`); and the file of every film that is
    fetched or resumed is whole, or one of its fetches will still write all of it
    (`AllWritten`): a fetch that empties a file is the one that is not spoilt.
  The run `fetches` meets `OneAtATime`, the run `fetch_races` meets `Settled`.

* **`ViewsProofs`**: `TypeCorrect`, `StatusBarCorrect`, `PicksCorrect`,
  `ProgressCorrect`. `OfThePlayer` says that no idle timer, sheet or VLC outlives
  the player, so nothing toggles the bars of the site. `SheetInv`: the titles on
  the sheet are the first of the tracks VLC knows, as long as it plays; so
  reading them again does no harm. For the percentage, `OneTick` says that the
  lock lets one tick compute at a time, and `InQueue` and `Behind` that the bar,
  the blocks in their order, the percentage under way and that of now follow each
  other; `PercentGrows` is why a percentage computed later is not smaller.

Every invariant, and every action property that is not about liveness, which a
passing run checks is the subject of a theorem, but for two: `ResumesWhatItShows`
and `SubsAreOfTheFilm`, which hold only while fetches arrive in turn and intact,
stay with TLC. TLC only, too: liveness (`CallReturns`, `Watchable`,
`CloseReturns`, `BufferingEnds`, `PickedIsImported`, `CanBeClosed`), which depends
on fairness or on what a user goes on doing, and is out of this prover's reach.
`HungForGood` is proved and is no property of a run.

## 5. Not modelled

* A hash map torn by two threads: actions on `tMap` interleave as wholes.
* The variant for Cydia. With `CYDIA_VERSION` (`PathManager.m` 17-27) the
  torrents folder lies inside the documents folder, and the recursive
  enumerator of `WebView.m` 151 may then delete the subtitle beside the video
  instead of the old one. The Xcode project and its prefix header never define
  it, and `DeletesOldSrt` is the build they make.
* Two reads at two moments where it makes no difference: a tick reads the bytes
  that came (`Downloader.mm` 114) before it scans (139), and `TickReads` of `Views`
  reads both counts at once: both only grow, so that what was read earlier is
  no more than what is there.
* Comparing hashes by the size of a pointer (`UserDefaultHelper.m` 99): `Prefix`
  is a constant for it; the runs take it to be injective.
* Films that are one file of several: the percentages are then of the torrent,
  and the player compares them with the film. `Playback` takes the film to be
  the only file.
* The sheet of audio tracks, which no button of the xib opens, and the view shown
  while VLC loads. `isDownloadRunning` (`MainViewController.m` 390-397), whose
  reset nothing calls.
* The poster, the percentage shown of a fetch and the command `json`; two films
  whose torrent files have the same name.
* Layout, rotation, texts; `lib.cpp`, which nothing calls, and whose only global is
  commented out (line 49); the test target, which
  is a template; libtorrent, boost, openssl, VLC, AFNetworking, SSZipArchive,
  Reachability, YLProgressBar, which are other projects.

## 6. Plan

Done: `Pieces`, `PieceLoops`, `Streamerok`, `Downloader`, in this order because
the film stops, or the wrong film is shown, if these are wrong; then
`FileSelection`, `Playback` and `Fetches`; then `Delivery`, the promise of the
engine, and `Views`; their runs and the proofs above.

Next, in order of what depends on it:

1. Proofs: what the liveness properties rest on, as measures that the steps of a
   loop, a tick or a fetch decrease; what holds on disk when fetches overlap.
2. `Playback` and `Views` composed with `Downloader`, so that the percentages, the
   late ticks and the hang are those of the detailed model; an abstract player
   that is given percentages and keeps within them, as what both implement.
3. `Fetches` composed with `Downloader`, so that what runs behind the site, late
   ticks and the stored percentage meet films fetched meanwhile.
