----------------------------- MODULE ViewsProofs -----------------------------
(***************************************************************************)
(* Proofs about Views, for any threads and tracks, and any number of       *)
(* pieces, blocks and posts.                                               *)
(***************************************************************************)
EXTENDS Views, TLAPS

USE ViewsAssumption

(* A whole number of parts is no more than the parts, and grows with them. *)
LEMMA Division ==
    ASSUME NEW a \in Nat, NEW b \in Nat, NEW n \in Nat \ {0}
    PROVE  /\ a \div n \in Nat /\ a \div n <= a
           /\ a <= b => a \div n <= b \div n
BY SMTT(30)

(* What is computed for the progress view is a percentage.                 *)
LEMMA PercentType ==
    ASSUME NEW d \in 0 .. MaxPieces, NEW b \in 0 .. MaxPieces
    PROVE  PercentOf(d, b) \in Percents
<1>1. (d * 100) \div StartPieces \in Nat
  BY Division
<1>2. b \div BlocksPerPercent \in Nat /\ b \div BlocksPerPercent <= MaxPieces
  BY Division
<1> QED
  BY <1>1, <1>2 DEF PercentOf, Percents, Larger, Smaller, Cap

(* It grows with both counts.                                              *)
LEMMA PercentGrows ==
    ASSUME NEW d \in Nat, NEW b \in Nat, NEW more \in Nat, NEW further \in Nat,
           d <= more, b <= further
    PROVE  PercentOf(d, b) <= PercentOf(more, further)
<1>1. /\ (d * 100) \div StartPieces \in Nat
      /\ (more * 100) \div StartPieces \in Nat
      /\ (d * 100) \div StartPieces <= (more * 100) \div StartPieces
  BY Division
<1>2. /\ b \div BlocksPerPercent \in Nat
      /\ further \div BlocksPerPercent \in Nat
      /\ b \div BlocksPerPercent <= further \div BlocksPerPercent
  BY Division
<1> QED
  BY <1>1, <1>2 DEF PercentOf, Larger, Smaller, Cap

(* What the progress view is made of has its types.                        *)
ProgressOK ==
    /\ down \in 0 .. MaxPieces /\ blocks \in 0 .. MaxPieces
    /\ reading \in [Workers -> Percents \cup {None}]
    /\ posts \in Seq(Percents)
    /\ bar \in Percents

BarsOK ==
    /\ panel \in BOOLEAN /\ timeBar \in BOOLEAN /\ statusBar \in BOOLEAN
    /\ idle \in BOOLEAN /\ closing \in BOOLEAN

FilmOK ==
    /\ screen \in {"site", "progress", "player"}
    /\ vlc \in {"none", "active", "over"}
    /\ tracks \in Seq(Tracks) /\ sheet \in Seq(Tracks)
    /\ current \in Tracks \cup {NoTrack}

(* The types of the views are those of the three parts above.              *)
LEMMA Types == TypeOK <=> ProgressOK /\ BarsOK /\ FilmOK
BY DEF TypeOK, ProgressOK, BarsOK, FilmOK

(* The values the progress view starts with.                               *)
LEMMA StartTypes ==
    /\ 0 \in 0 .. MaxPieces /\ 0 \in Percents
    /\ NoReading \in [Workers -> Percents \cup {None}]
    /\ <<>> \in Seq(Percents) /\ <<>> \in Seq(Tracks)
BY DEF Percents, NoReading, Larger, Cap

(* Every step keeps the types of the progress view.                        *)
LEMMA ProgressTypes == ProgressOK /\ [Next]_vars => ProgressOK'
<1> SUFFICES ASSUME ProgressOK, [Next]_vars PROVE ProgressOK'
  OBVIOUS
<1> USE DEF ProgressOK
<1>1. CASE Begin
  BY <1>1, StartTypes DEF Begin
<1>2. CASE PieceThere
  BY <1>2 DEF PieceThere, Smaller
<1>3. CASE UpdateProgress
  BY <1>3 DEF UpdateProgress, download
<1>4. ASSUME NEW w \in Workers, TickReads(w) PROVE ProgressOK'
  BY <1>4, PercentType DEF TickReads, download
<1>5. ASSUME NEW w \in Workers, TickPosts(w) PROVE ProgressOK'
  BY <1>5 DEF TickPosts, download
<1>6. CASE CloseProgress
  BY <1>6, StartTypes DEF CloseProgress, HideProgressView, download
<1>7. CASE ReadyToView \/ Resume
  BY <1>7, StartTypes DEF ReadyToView, Resume, StartToViewplayer, HideProgressView, download
<1>8. CASE \E b \in 1 .. Len(sheet) : ClickCrashes(b)
  BY <1>8, StartTypes DEF ClickCrashes, Starts, NoReading
<1>9. CASE UNCHANGED progress
  BY <1>9 DEF progress, download
<1> QED
  BY <1>1, <1>2, <1>3, <1>4, <1>5, <1>6, <1>7, <1>8, <1>9
     DEF Next, vars, Touch, Tap, IdleTimerExceeded, TrackAppears, StateChanged,
         ClosePlayback, SwitchSubtitleTrack, Click, Clicked, Cancel, Close

(* The tracks and the sheet stay lists of tracks.                          *)
LEMMA FilmTypes == FilmOK /\ [Next]_vars => FilmOK'
<1> SUFFICES ASSUME FilmOK, [Next]_vars PROVE FilmOK'
  OBVIOUS
<1> USE StartTypes DEF FilmOK
<1>1. CASE Begin \/ CloseProgress
  BY <1>1 DEF Begin, CloseProgress, player, film
<1>2. CASE \/ PieceThere \/ UpdateProgress \/ UNCHANGED vars
           \/ \E w \in Workers : TickReads(w) \/ TickPosts(w)
  BY <1>2 DEF PieceThere, UpdateProgress, TickReads, TickPosts, vars, player, film
<1>3. CASE ReadyToView \/ Resume
  BY <1>3 DEF ReadyToView, Resume, StartToViewplayer
<1>4. CASE Touch \/ Tap \/ IdleTimerExceeded \/ ClosePlayback
  BY <1>4 DEF Touch, Tap, IdleTimerExceeded, ClosePlayback, film
<1>5. CASE \E t \in Tracks : TrackAppears(t)
  BY <1>5 DEF TrackAppears
<1>6. CASE StateChanged
  BY <1>6 DEF StateChanged
<1>7. CASE SwitchSubtitleTrack
  BY <1>7 DEF SwitchSubtitleTrack
<1>8. ASSUME NEW b \in 1 .. Len(sheet), Click(b) PROVE FilmOK'
  <2>1. Len(sheet) \in Nat /\ Len(tracks) \in Nat
    OBVIOUS
  <2>2. b <= Len(tracks) => tracks[b] \in Tracks
    BY <2>1
  <2> QED
    BY <1>8, <2>2 DEF Click, Clicked
<1>9. CASE Cancel
  BY <1>9 DEF Cancel, Clicked
<1>10. CASE Close
  BY <1>10 DEF Close, ViewWillDisappear
<1>11. CASE \E b \in 1 .. Len(sheet) : ClickCrashes(b)
  BY <1>11 DEF ClickCrashes, Starts
<1> QED
  BY <1>1, <1>2, <1>3, <1>4, <1>5, <1>6, <1>7, <1>8, <1>9, <1>10, <1>11 DEF Next

(* The flags stay flags.                                                   *)
LEMMA BarTypes == BarsOK /\ [Next]_vars => BarsOK'
<1> SUFFICES ASSUME BarsOK, [Next]_vars PROVE BarsOK'
  OBVIOUS
<1> USE DEF BarsOK
<1>1. CASE \/ Begin \/ PieceThere \/ UpdateProgress \/ CloseProgress \/ UNCHANGED vars
           \/ \E w \in Workers : TickReads(w) \/ TickPosts(w)
  BY <1>1 DEF Begin, PieceThere, UpdateProgress, CloseProgress, TickReads, TickPosts,
              vars, player, bars
<1>2. CASE ReadyToView \/ Resume
  BY <1>2 DEF ReadyToView, Resume, StartToViewplayer
<1>3. CASE Touch \/ Tap \/ IdleTimerExceeded
  BY <1>3 DEF Touch, Tap, IdleTimerExceeded, ToggleControlsVisible, bars
<1>4. CASE StateChanged \/ ClosePlayback \/ SwitchSubtitleTrack
  BY <1>4 DEF StateChanged, ClosePlayback, SwitchSubtitleTrack, bars
<1>5. CASE \/ Cancel
           \/ \E t \in Tracks : TrackAppears(t)
           \/ \E b \in 1 .. Len(sheet) : Click(b)
  BY <1>5 DEF Cancel, TrackAppears, Click, Clicked, bars
<1>6. CASE Close
  BY <1>6 DEF Close, ViewWillDisappear
<1>7. CASE \E b \in 1 .. Len(sheet) : ClickCrashes(b)
  BY <1>7 DEF ClickCrashes, Starts
<1> QED
  BY <1>1, <1>2, <1>3, <1>4, <1>5, <1>6, <1>7 DEF Next

(* The views keep their types: no percentage above 95 that is not one of   *)
(* blocks, no track that VLC does not know                                 *)
(* (ProgressViewViewController.m 118-131, VDLPlaybackViewController.m      *)
(* 438-477).                                                               *)
THEOREM TypeCorrect == Spec => []TypeOK
<1>1. Init => TypeOK
  BY StartTypes DEF Init, TypeOK
<1>2. TypeOK /\ [Next]_vars => TypeOK'
  <2> SUFFICES ASSUME TypeOK, [Next]_vars PROVE TypeOK'
    OBVIOUS
  <2>1. ProgressOK' /\ BarsOK' /\ FilmOK'
    BY Types, ProgressTypes, BarTypes, FilmTypes
  <2> QED
    BY <2>1 DEF TypeOK, ProgressOK, BarsOK, FilmOK
<1> QED
  BY <1>1, <1>2, PTL DEF Spec

-----------------------------------------------------------------------------
(* A timer runs, and a sheet is up, only over the player that is shown.    *)
OfThePlayer ==
    /\ screen # "player" => ~idle /\ vlc = "none" /\ sheet = <<>>
    /\ screen = "player" => vlc # "none"

ControlsInv == StatusBarFollows /\ OfThePlayer

(* The app starts on the site, with its status bar.                        *)
LEMMA ControlsStart == Init => ControlsInv
BY DEF Init, ControlsInv, StatusBarFollows, OfThePlayer

(* The steps of the progress view touch nothing of the player.             *)
LEMMA ProgressLeavesControls ==
    ASSUME ControlsInv,
           Begin \/ PieceThere \/ UpdateProgress \/ CloseProgress
             \/ \E w \in Workers : TickReads(w) \/ TickPosts(w)
    PROVE  ControlsInv'
BY DEF ControlsInv, StatusBarFollows, OfThePlayer, Begin, PieceThere, UpdateProgress,
       CloseProgress, TickReads, TickPosts, player, bars, film

(* The steps of the player keep the status bar with the controls, and no   *)
(* timer goes on after it has closed.                                      *)
LEMMA PlayerKeepsControls ==
    ASSUME ControlsInv, TypeOK,
           \/ ReadyToView \/ Resume \/ Touch \/ Tap \/ IdleTimerExceeded
           \/ StateChanged \/ ClosePlayback \/ SwitchSubtitleTrack \/ Cancel \/ Close
           \/ \E t \in Tracks : TrackAppears(t)
           \/ \E b \in 1 .. Len(sheet) : Click(b) \/ ClickCrashes(b)
    PROVE  ControlsInv'
<1> USE DEF ControlsInv, StatusBarFollows, OfThePlayer
<1>1. CASE ReadyToView \/ Resume
  BY <1>1 DEF ReadyToView, Resume, StartToViewplayer
<1>2. CASE Touch
  BY <1>2 DEF Touch, Touchable, bars, film
<1>3. CASE Tap
  BY <1>3 DEF Tap, Touchable, ToggleControlsVisible, film, TypeOK
<1>4. CASE IdleTimerExceeded
  BY <1>4 DEF IdleTimerExceeded, ToggleControlsVisible, bars, film, TypeOK
<1>5. CASE StateChanged \/ ClosePlayback
  BY <1>5 DEF StateChanged, ClosePlayback, bars, film
<1>6. CASE SwitchSubtitleTrack
  BY <1>6 DEF SwitchSubtitleTrack, Touchable, bars
<1>7. CASE Cancel \/ \E b \in 1 .. Len(sheet) : Click(b)
  BY <1>7 DEF Cancel, Click, Clicked, bars
<1>8. CASE Close
  BY <1>8 DEF Close, Touchable, ViewWillDisappear
<1>9. CASE \E t \in Tracks : TrackAppears(t)
  BY <1>9 DEF TrackAppears, bars
<1>10. CASE \E b \in 1 .. Len(sheet) : ClickCrashes(b)
  BY <1>10 DEF ClickCrashes, Starts
<1> QED
  BY <1>1, <1>2, <1>3, <1>4, <1>5, <1>6, <1>7, <1>8, <1>9, <1>10

(* The status bar goes with the controls of the player that is shown, and  *)
(* is there whenever none is: the timer of a player never outlives it      *)
(* (VDLPlaybackViewController.m 257-266, 388-416).                         *)
THEOREM StatusBarCorrect == Spec => []StatusBarFollows
<1>1. TypeOK /\ ControlsInv /\ [Next]_vars => ControlsInv'
  <2>1. ASSUME ControlsInv, UNCHANGED vars PROVE ControlsInv'
    BY <2>1 DEF ControlsInv, StatusBarFollows, OfThePlayer, vars, player, bars, film
  <2> QED
    BY <2>1, ProgressLeavesControls, PlayerKeepsControls DEF Next
<1>2. ControlsInv => StatusBarFollows
  BY DEF ControlsInv
<1> QED
  BY <1>1, <1>2, ControlsStart, TypeCorrect, PTL DEF Spec

-----------------------------------------------------------------------------
(* While VLC has the film, the tracks of the sheet are the first it knows. *)
SheetInv ==
    vlc = "active" =>
        /\ Len(sheet) <= Len(tracks)
        /\ \A i \in 1 .. Len(sheet) : tracks[i] = sheet[i]

(* A track found while the sheet is up comes behind those it shows.        *)
LEMMA SheetStep == TypeOK /\ SheetInv /\ [Next]_vars => SheetInv'
<1> SUFFICES ASSUME FilmOK, SheetInv, [Next]_vars PROVE SheetInv'
  BY Types
<1> USE DEF SheetInv
<1>1. CASE \/ Begin \/ PieceThere \/ UpdateProgress \/ CloseProgress \/ UNCHANGED vars
           \/ Touch \/ Tap \/ IdleTimerExceeded \/ ClosePlayback
           \/ \E w \in Workers : TickReads(w) \/ TickPosts(w)
  BY <1>1 DEF Begin, PieceThere, UpdateProgress, CloseProgress, TickReads, TickPosts,
              Touch, Tap, IdleTimerExceeded, ClosePlayback, vars, player, film
<1>2. CASE ReadyToView \/ Resume
  BY <1>2 DEF ReadyToView, Resume, StartToViewplayer
<1>3. ASSUME NEW t \in Tracks, TrackAppears(t) PROVE SheetInv'
  <2>1. /\ vlc = "active" /\ UNCHANGED <<vlc, sheet>>
        /\ tracks' = Append(tracks, t)
        /\ tracks \in Seq(Tracks) /\ sheet \in Seq(Tracks)
    BY <1>3 DEF TrackAppears, FilmOK
  <2>2. /\ Len(tracks') = Len(tracks) + 1
        /\ \A i \in 1 .. Len(tracks) : tracks'[i] = tracks[i]
    BY <2>1
  <2>3. Len(sheet) \in Nat /\ Len(tracks) \in Nat /\ Len(sheet) <= Len(tracks)
    BY <2>1
  <2> QED
    BY <2>1, <2>2, <2>3
<1>4. CASE StateChanged \/ Close
  BY <1>4 DEF StateChanged, Close, ViewWillDisappear
<1>5. CASE SwitchSubtitleTrack
  BY <1>5 DEF SwitchSubtitleTrack, FilmOK
<1>6. CASE Cancel \/ \E b \in 1 .. Len(sheet) : Click(b)
  BY <1>6 DEF Cancel, Click, Clicked, FilmOK
<1>7. CASE \E b \in 1 .. Len(sheet) : ClickCrashes(b)
  BY <1>7 DEF ClickCrashes, Starts
<1> QED
  BY <1>1, <1>2, <1>3, <1>4, <1>5, <1>6, <1>7 DEF Next

(* A click on a title chooses the track it names, unless the film is over, *)
(* for any tracks found while the sheet is up (VDLPlaybackViewController.m *)
(* 438-470).                                                               *)
THEOREM PicksCorrect == Spec => PicksTheTrack
<1>1. Init => SheetInv
  BY DEF Init, SheetInv
<1>2. TypeOK /\ SheetInv /\ [Next]_vars =>
        [\A b \in 1 .. Len(sheet) : Click(b) /\ vlc = "active" => current' = sheet[b]]_vars
  <2> SUFFICES ASSUME TypeOK, SheetInv, NEW b \in 1 .. Len(sheet), Click(b), vlc = "active"
               PROVE  current' = sheet[b]
    OBVIOUS
  <2>1. Len(sheet) \in Nat /\ Len(tracks) \in Nat
    BY DEF TypeOK
  <2> QED
    BY <2>1 DEF SheetInv, Click
<1> QED
  BY <1>1, <1>2, SheetStep, TypeCorrect, PTL DEF Spec, PicksTheTrack

-----------------------------------------------------------------------------
(* One tick at a time has something to post, and none without a film.      *)
OneTick ==
    /\ screen = "site" => reading = NoReading
    /\ screen # "progress" => posts = <<>>
    /\ \A v, w \in Workers : reading[v] # None /\ reading[w] # None => v = w

(* A percentage that waits behind others is no smaller than they are.      *)
InQueue(now) ==
    /\ bar <= now
    /\ \A i \in 1 .. Len(posts) : bar <= posts[i] /\ posts[i] <= now
    /\ \A i, j \in 1 .. Len(posts) : i <= j => posts[i] <= posts[j]

(* Nor is the one a tick is about to post.                                 *)
Behind(now) ==
    \A w \in Workers : reading[w] # None =>
        /\ bar <= reading[w] /\ reading[w] <= now
        /\ \A i \in 1 .. Len(posts) : posts[i] <= reading[w]

OrderInv ==
    /\ OneTick
    /\ screen = "progress" => InQueue(PercentOf(down, blocks)) /\ Behind(PercentOf(down, blocks))

(* No percentage is taken for none.                                        *)
LEMMA NoneIsNone == None \notin Percents /\ Percents \subseteq Nat
BY DEF None, Percents, Larger, Cap

(* A tick at a time is kept by every step.                                 *)
LEMMA OneTickStep == ProgressOK /\ OneTick /\ [Next]_vars => OneTick'
<1> SUFFICES ASSUME ProgressOK, OneTick, [Next]_vars PROVE OneTick'
  OBVIOUS
<1> USE DEF OneTick
<1>0. \A w \in Workers : NoReading[w] = None
  BY DEF NoReading
<1>1. CASE Begin \/ CloseProgress
  BY <1>1 DEF Begin, CloseProgress, HideProgressView
<1>2. CASE PieceThere
  BY <1>2 DEF PieceThere
<1>3. CASE UpdateProgress
  BY <1>3 DEF UpdateProgress
<1>4. ASSUME NEW w \in Workers, TickReads(w) PROVE OneTick'
  <2>1. \A v \in Workers : v # w => reading'[v] = None
    BY <1>0, <1>4 DEF TickReads, ProgressOK
  <2> QED
    BY <1>4, <2>1 DEF TickReads
<1>5. ASSUME NEW w \in Workers, TickPosts(w) PROVE OneTick'
  <2>1. \A v \in Workers : reading'[v] = IF v = w THEN None ELSE reading[v]
    BY <1>5 DEF TickPosts, ProgressOK
  <2>2. screen # "site"
    BY <1>0, <1>5 DEF TickPosts
  <2> QED
    BY <1>5, <2>1, <2>2 DEF TickPosts
<1>6. CASE ReadyToView \/ Resume
  BY <1>6 DEF ReadyToView, Resume, StartToViewplayer, HideProgressView
<1>7. CASE Close
  BY <1>7 DEF Close, Touchable, progress
<1>8. CASE \E b \in 1 .. Len(sheet) : ClickCrashes(b)
  <2>1. reading' = NoReading /\ posts' = <<>> /\ screen' = "site"
    BY <1>8 DEF ClickCrashes, Starts
  <2>2. NoReading' = NoReading
    BY DEF NoReading, None, Larger, Cap
  <2> QED
    BY <1>0, <2>1, <2>2 DEF None, Larger, Cap
<1>9. CASE UNCHANGED <<screen, progress>>
  BY <1>9 DEF progress
<1> QED
  BY <1>1, <1>2, <1>3, <1>4, <1>5, <1>6, <1>7, <1>8, <1>9
     DEF Next, vars, Touch, Tap, IdleTimerExceeded, TrackAppears, StateChanged,
         ClosePlayback, SwitchSubtitleTrack, Click, Clicked, Cancel

(* On the progress view the order is kept by every step.                   *)
LEMMA OrderStep ==
    ASSUME ProgressOK, OrderInv, [Next]_vars, screen' = "progress"
    PROVE  /\ (InQueue(PercentOf(down, blocks)) /\ Behind(PercentOf(down, blocks)))'
           /\ screen = "progress" => bar <= bar' /\ bar' <= PercentOf(down', blocks')
<1> DEFINE Now == PercentOf(down, blocks)
<1> USE NoneIsNone
<1>t. /\ Now \in Nat /\ bar \in Nat
      /\ posts \in Seq(Percents) /\ Len(posts) \in Nat
      /\ \A i \in 1 .. Len(posts) : posts[i] \in Nat
      /\ \A w \in Workers : reading[w] # None => reading[w] \in Nat
  <2>1. Now \in Nat
    BY PercentType DEF ProgressOK
  <2>2. bar \in Nat /\ posts \in Seq(Percents) /\ Len(posts) \in Nat
    BY DEF ProgressOK
  <2>3. \A i \in 1 .. Len(posts) : posts[i] \in Nat
    <3> SUFFICES ASSUME NEW i \in 1 .. Len(posts) PROVE posts[i] \in Nat
      OBVIOUS
    <3>1. posts[i] \in Percents
      BY <2>2, SMT
    <3> QED
      BY <3>1
  <2>4. \A w \in Workers : reading[w] # None => reading[w] \in Nat
    BY DEF ProgressOK
  <2> QED
    BY <2>1, <2>2, <2>3, <2>4
<1>1. CASE Begin
  <2>1. /\ bar' = 0 /\ down' = 0 /\ blocks' = 0
        /\ reading' = NoReading /\ posts' = <<>>
    BY <1>1 DEF Begin, OrderInv, OneTick
  <2>2. Now' \in Nat
    BY <2>1, PercentType, StartTypes
  <2>3. screen # "progress"
    BY <1>1 DEF Begin
  <2> QED
    BY <2>1, <2>2, <2>3 DEF InQueue, Behind, NoReading, None, Larger, Cap
<1> SUFFICES ASSUME ~Begin PROVE (InQueue(Now) /\ Behind(Now))'
                                 /\ bar <= bar' /\ bar' <= Now'
  BY <1>1
<1>2. screen = "progress" /\ InQueue(Now) /\ Behind(Now)
  <2>1. screen = "progress"
    BY DEF Next, vars, PieceThere, UpdateProgress, CloseProgress, TickReads, TickPosts,
           ReadyToView, Resume, StartToViewplayer, Touch, Touchable, Tap,
           IdleTimerExceeded, TrackAppears, StateChanged, ClosePlayback,
           SwitchSubtitleTrack, Click, Clicked, Cancel, Close, ClickCrashes, Starts
  <2> QED
    BY <2>1 DEF OrderInv
<1>3. CASE PieceThere
  <2>1. Now <= Now' /\ Now' \in Nat
    <3>1. /\ down \in Nat /\ blocks \in Nat /\ down' \in Nat /\ blocks' \in Nat
          /\ down <= down' /\ blocks <= blocks'
      BY <1>3 DEF PieceThere, ProgressOK, Smaller
    <3>2. down' \in 0 .. MaxPieces /\ blocks' \in 0 .. MaxPieces
      BY <1>3 DEF PieceThere, ProgressOK, Smaller
    <3> QED
      BY <3>1, <3>2, PercentGrows, PercentType
  <2>2. UNCHANGED <<reading, posts, bar, None>>
    BY <1>3 DEF PieceThere, None, Larger, Cap
  <2> QED
    BY <1>t, <1>2, <2>1, <2>2 DEF InQueue, Behind
<1>4. CASE UpdateProgress
  <2>1. /\ posts # <<>> /\ bar' = posts[1] /\ posts' = Tail(posts)
        /\ UNCHANGED <<down, blocks, reading, None, Now>>
    BY <1>4 DEF UpdateProgress, download, None, Larger, Cap
  <2>2. Len(posts) >= 1 /\ Len(posts') = Len(posts) - 1
        /\ \A i \in 1 .. Len(posts') : posts'[i] = posts[i + 1]
    BY <1>t, <2>1
  <2>3. bar <= bar' /\ bar' <= Now' /\ bar' \in Nat
    BY <1>t, <1>2, <2>1, <2>2 DEF InQueue
  <2>4. InQueue(Now)'
    BY <1>t, <1>2, <2>1, <2>2, <2>3 DEF InQueue
  <2>5. Behind(Now)'
    BY <1>t, <1>2, <2>1, <2>2, <2>3 DEF Behind
  <2> QED
    BY <2>3, <2>4, <2>5
<1>5. ASSUME NEW w \in Workers, TickReads(w)
      PROVE  (InQueue(Now) /\ Behind(Now))' /\ bar <= bar' /\ bar' <= Now'
  <2>1. UNCHANGED <<down, blocks, posts, bar, None, Now>>
    BY <1>5 DEF TickReads, download, None, Larger, Cap
  <2>2. \A v \in Workers : reading'[v] = IF v = w THEN Now ELSE None
    BY <1>5 DEF TickReads, ProgressOK, NoReading
  <2> QED
    BY <1>t, <1>2, <2>1, <2>2 DEF InQueue, Behind
<1>6. ASSUME NEW w \in Workers, TickPosts(w)
      PROVE  (InQueue(Now) /\ Behind(Now))' /\ bar <= bar' /\ bar' <= Now'
  <2>1. UNCHANGED <<down, blocks, bar, None, Now>> /\ reading[w] # None
        /\ posts' = Append(posts, reading[w])
    BY <1>2, <1>6 DEF TickPosts, download, None, Larger, Cap
  <2>2. \A v \in Workers : reading'[v] = None
    BY <1>6 DEF TickPosts, ProgressOK, OrderInv, OneTick
  <2>3. /\ Len(posts') = Len(posts) + 1
        /\ \A i \in 1 .. Len(posts) : posts'[i] = posts[i]
        /\ posts'[Len(posts')] = reading[w]
    BY <1>t, <2>1
  <2>4. /\ bar <= reading[w] /\ reading[w] <= Now /\ reading[w] \in Nat
        /\ \A i \in 1 .. Len(posts) : posts[i] <= reading[w]
    BY <1>t, <1>2, <2>1 DEF Behind
  <2>5. InQueue(Now)'
    <3>1. \A i \in 1 .. Len(posts') : i \in 1 .. Len(posts) \/ i = Len(posts')
      BY <1>t, <2>3
    <3> QED
      BY <1>t, <1>2, <2>1, <2>3, <2>4, <3>1 DEF InQueue
  <2>6. Behind(Now)'
    BY <2>1, <2>2 DEF Behind
  <2>7. bar <= bar' /\ bar' <= Now'
    BY <1>t, <1>2, <2>1 DEF InQueue
  <2> QED
    BY <2>5, <2>6, <2>7
<1>7. CASE UNCHANGED progress
  BY <1>t, <1>2, <1>7 DEF progress, download, InQueue, Behind, None, Larger, Cap
<1> QED
  BY <1>2, <1>3, <1>4, <1>5, <1>6, <1>7
     DEF Next, vars, CloseProgress, ReadyToView, Resume, StartToViewplayer, Touch, Tap,
         IdleTimerExceeded, TrackAppears, StateChanged, ClosePlayback,
         SwitchSubtitleTrack, Click, Clicked, Cancel, Close, ClickCrashes, Starts

(* The percentage shown never falls and is never ahead of what has come,   *)
(* for any threads and any number of blocks that wait                      *)
(* (ProgressViewViewController.m 41-50, 118-131, Downloader.mm 110-181).   *)
THEOREM ProgressCorrect == Spec => ProgressIsReal
<1>1. Init => OrderInv
  BY DEF Init, OrderInv, OneTick, NoReading
<1>2. TypeOK /\ OrderInv /\ [Next]_vars => OrderInv'
  BY Types, OneTickStep, OrderStep DEF OrderInv
<1>3. TypeOK /\ OrderInv /\ [Next]_vars =>
        [screen = "progress" /\ screen' = "progress"
           => bar <= bar' /\ bar' <= PercentOf(down', blocks')]_vars
  BY Types, OrderStep
<1> QED
  BY <1>1, <1>2, <1>3, TypeCorrect, PTL DEF Spec, ProgressIsReal
=============================================================================
