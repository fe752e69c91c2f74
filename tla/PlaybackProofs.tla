--------------------------- MODULE PlaybackProofs ---------------------------
(***************************************************************************)
(* The player, for films of any number of pieces, any margin and any       *)
(* number of seeks that wait.                                              *)
(***************************************************************************)
EXTENDS Playback, PiecesProofs

USE NPiecesAssumption, PlaybackAssumption

(* The bitfield is one of this torrent.                                    *)
LEMMA BitfieldType == have \in 0 .. NPieces - 1 => Bitfield \in SUBSET Piece
BY DEF Bitfield, Piece

(* TypeOK without the flags.                                               *)
Numbers ==
    /\ disk \in 0 .. NPieces /\ have \in 0 .. NPieces - 1
    /\ count \in NoCount .. NPieces - 1
    /\ percent \in -1 .. NPieces /\ stored \in 0 .. NPieces
    /\ tick \in {NoTick} \cup 0 .. NPieces \cup Late
    /\ vlc \in {"none", "opening", "playing", "paused", "ended", "error"}
    /\ length \in {0, NPieces}
    /\ pos \in 0 .. NPieces
    /\ events \in 0 .. MaxEvents
    /\ status \in {"Playing", "Paused", "Buffering"}
    /\ downloaded_ \in Nat
    /\ slider \in 0 .. NPieces
    /\ scheduled \in 0 .. MaxDrags

(* Before anything has come in the types hold.                             *)
LEMMA TypeInit == Init => TypeOK
<1> SUFFICES ASSUME Init PROVE TypeOK
  OBVIOUS
<1>1. Numbers
  BY DEF Init, Numbers, NoCount
<1>2. Flags
  BY DEF Init, Flags
<1> QED
  BY <1>1, <1>2 DEF TypeOK, Numbers

(* Every step keeps the flags.                                             *)
LEMMA FlagStep == Flags /\ [Next]_vars => Flags'
<1> SUFFICES ASSUME Flags, [Next]_vars PROVE Flags'
  OBVIOUS
<1> USE DEF Flags, PlayMedia, ViewWillDisappear, download, player, controls, view
<1>1. CASE PieceThere \/ TickPosts \/ LateTickPosts \/ TickDelivers
  BY <1>1, Zenon DEF PieceThere, TickPosts, LateTickPosts, TickDelivers
<1>2. CASE VlcStarts \/ VlcKnowsLength \/ VlcPlays \/ TimeChanged \/ ClosePlayback
  BY <1>2, Zenon DEF VlcStarts, VlcKnowsLength, VlcPlays, TimeChanged, ClosePlayback
<1>3. CASE VlcEnds \/ VlcFails
  BY <1>3, Zenon DEF VlcEnds, VlcFails, VlcStops, StateChanged
<1>4. ASSUME NEW value \in 0 .. NPieces, Drag(value)
      PROVE  Flags'
  BY <1>4, Zenon DEF Drag
<1>5. CASE SeekFires \/ PressPlay
  BY <1>5, Zenon DEF SeekFires, SetPosition, PressPlay
<1>6. CASE ReadyToView \/ Close \/ Resume
  BY <1>6, Zenon DEF ReadyToView, Close, Resume, StartToViewplayer
<1>7. CASE UNCHANGED vars
  BY <1>7, Zenon DEF vars
<1> QED
  BY <1>1, <1>2, <1>3, <1>4, <1>5, <1>6, <1>7 DEF Next

(* Every step keeps the numbers in their ranges.                           *)
LEMMA NumberStep == Numbers /\ [Next]_vars => Numbers'
<1> SUFFICES ASSUME Numbers, [Next]_vars PROVE Numbers'
  OBVIOUS
<1> USE DEF Numbers, Larger, PlayMedia, ViewWillDisappear, download, player, controls, view
<1>1. CASE PieceThere
  BY <1>1 DEF PieceThere, Prefix
<1>2. CASE TickPosts
  <2>1. Scan(Bitfield, count) \in NoCount .. NPieces - 1
    BY BitfieldType, ScanType
  <2> QED
    BY <1>2, <2>1 DEF TickPosts, NoCount
<1>3. CASE LateTickPosts
  BY <1>3 DEF LateTickPosts
<1>4. CASE TickDelivers
  <2>1. tick \in Nat
    <3>1. tick # NoTick /\ tick \in {NoTick} \cup 0 .. NPieces \cup Late
      BY <1>4, Zenon DEF TickDelivers
    <3>2. tick \in 0 .. NPieces \/ tick \in Late
      BY <3>1, Zenon
    <3>3. Late \subseteq Nat /\ 0 .. NPieces \subseteq Nat
      OBVIOUS
    <3> QED
      BY <3>2, <3>3, Zenon
  <2>2. downloaded_' \in Nat
    BY <1>4, <2>1 DEF TickDelivers
  <2>3. /\ vlc' \in {"none", "opening", "playing", "paused", "ended", "error"}
        /\ status' \in {"Playing", "Paused", "Buffering"}
    BY <1>4 DEF TickDelivers, GoesOn, Played
  <2> QED
    BY <1>4, <2>2, <2>3 DEF TickDelivers
<1>5. CASE VlcStarts \/ VlcKnowsLength \/ VlcPlays
  BY <1>5 DEF VlcStarts, VlcKnowsLength, VlcPlays
<1>6. CASE VlcEnds \/ VlcFails \/ ClosePlayback
  BY <1>6 DEF VlcEnds, VlcFails, VlcStops, ClosePlayback
<1>7. CASE TimeChanged
  BY <1>7 DEF TimeChanged, Paused
<1>8. ASSUME NEW value \in 0 .. NPieces, Drag(value)
      PROVE  Numbers'
  BY <1>8 DEF Drag
<1>9. CASE SeekFires
  <2>1. slider' \in 0 .. NPieces
    BY <1>9 DEF SeekFires, FarthestSeek
  <2>2. pos' \in 0 .. NPieces /\ events' \in 0 .. MaxEvents
    BY <1>9, <2>1 DEF SeekFires, SetPosition
  <2>3. /\ vlc' \in {"none", "opening", "playing", "paused", "ended", "error"}
        /\ status' \in {"Playing", "Paused", "Buffering"}
    BY <1>9 DEF SeekFires, GoesOn, Played, Paused
  <2> QED
    BY <1>9, <2>1, <2>2, <2>3 DEF SeekFires
<1>10. CASE PressPlay
  BY <1>10 DEF PressPlay, Played
<1>11. CASE ReadyToView
  BY <1>11 DEF ReadyToView, StartToViewplayer
<1>12. CASE Close
  BY <1>12 DEF Close
<1>13. CASE Resume
  BY <1>13 DEF Resume, StartToViewplayer, NoCount
<1>14. CASE UNCHANGED vars
  BY <1>14 DEF vars
<1> QED
  BY <1>1, <1>2, <1>3, <1>4, <1>5, <1>6, <1>7, <1>8, <1>9, <1>10, <1>11, <1>12, <1>13,
     <1>14 DEF Next

(* So every step keeps the types.                                          *)
LEMMA TypeStep == TypeOK /\ [Next]_vars => TypeOK'
<1>1. TypeOK <=> Numbers /\ Flags
  BY DEF TypeOK, Numbers
<1>2. TypeOK' <=> Numbers' /\ Flags'
  BY DEF TypeOK, Numbers
<1> QED
  BY <1>1, <1>2, FlagStep, NumberStep

(* No seek, no percentage and no change of the time leaves its range.      *)
THEOREM TypeCorrect == Spec => []TypeOK
BY TypeInit, TypeStep, PTL DEF Spec

-----------------------------------------------------------------------------
(* With the status Playing VLC is never left holding the film, whatever    *)
(* the user presses and whichever ticks come late.                         *)
THEOREM NeverStallsCorrect == Spec => []NeverStalls
<1>1. Init => NeverStalls
  BY DEF Init, NeverStalls
<1>2. NeverStalls /\ [Next]_vars => NeverStalls'
  <2> SUFFICES ASSUME NeverStalls, [Next]_vars PROVE NeverStalls'
    OBVIOUS
  <2> USE DEF NeverStalls, PlayMedia, ViewWillDisappear, player, view
  <2>1. CASE PieceThere \/ TickPosts \/ LateTickPosts
    BY <2>1 DEF PieceThere, TickPosts, LateTickPosts
  <2>2. CASE TickDelivers
    BY <2>2 DEF TickDelivers, GoesOn, Played
  <2>3. CASE VlcStarts \/ VlcKnowsLength \/ VlcPlays \/ VlcEnds \/ VlcFails
    BY <2>3 DEF VlcStarts, VlcKnowsLength, VlcPlays, VlcEnds, VlcFails, VlcStops
  <2>4. CASE TimeChanged \/ ClosePlayback
    BY <2>4 DEF TimeChanged, ClosePlayback
  <2>5. ASSUME NEW value \in 0 .. NPieces, Drag(value) PROVE NeverStalls'
    BY <2>5 DEF Drag
  <2>6. CASE SeekFires
    BY <2>6 DEF SeekFires, GoesOn, Played
  <2>7. CASE PressPlay
    BY <2>7 DEF PressPlay, Played
  <2>8. CASE ReadyToView \/ Close \/ Resume
    BY <2>8 DEF ReadyToView, Close, Resume, StartToViewplayer
  <2>9. CASE UNCHANGED vars
    BY <2>9 DEF vars
  <2> QED
    BY <2>1, <2>2, <2>3, <2>4, <2>5, <2>6, <2>7, <2>8, <2>9 DEF Next
<1> QED
  BY <1>1, <1>2, PTL DEF Spec

-----------------------------------------------------------------------------
(* What the percentages of this film say is in its file.                   *)
PercentagesInv ==
    /\ Prefix(have, tail) <= disk
    /\ running => count + 1 <= Prefix(have, tail)
    /\ percent <= disk /\ stored <= disk
    /\ ready => disk > 1

(* What the player was told is in the file, or a late tick said it.        *)
ToldInv ==
    /\ tick # NoTick => tick <= disk \/ tick \in Late
    /\ downloaded_ <= disk \/ downloaded_ \in Late

Known == Larger(disk, downloaded_)

(* VLC may play on before the main thread looks at a change of the time,   *)
(* and the next pause, a toggle, may start it.                             *)
Anchored ==
    \/ vlc = "playing" /\ events = 0
    \/ vlc = "paused" /\ events > 0
    \/ events > 1

(* Why VLC stays within what is known.  While it is not said to buffer it  *)
(* keeps clear of the end of it, by two pieces if no change of the time    *)
(* waits: a press may pause it and the next change, which pauses a film    *)
(* that is close to the end, start it again.                               *)
WithinKnown ==
    /\ pos <= Known
    /\ open /\ status # "Buffering" /\ vlc \in {"playing", "paused"} =>
          /\ pos < Known
          /\ events = 0 => pos + 1 < Known
    /\ open /\ Anchored => pos < Known

Screen ==
    /\ open => ready
    /\ ~open => vlc = "none" /\ events = 0
    /\ vlc = "opening" => pos = 0 /\ events = 0

PlaybackInv ==
    /\ TypeOK
    /\ PercentagesInv
    /\ ToldInv
    /\ Screen
    /\ outrun \/ WithinKnown

(* The count of a scan stays within the pieces without a gap: the scan     *)
(* stops before the first gap, or finds none (streamerok.cpp 322-334).     *)
LEMMA ScanOfPrefix ==
    ASSUME TypeOK, count + 1 <= Prefix(have, tail)
    PROVE  Scan(Bitfield, count) + 1 <= Prefix(have, tail)
<1> DEFINE gaps == Gaps(Bitfield, count)
<1>1. /\ have \in 0 .. NPieces - 1 /\ count \in -1 .. NPieces - 1 /\ tail \in BOOLEAN
      /\ ScanStart(count) \in Nat /\ NPieces \in Nat
  BY DEF TypeOK, Flags, NoCount, ScanStart
<1>2. Prefix(have, tail) \in 1 .. NPieces \/ (have = 0 /\ Prefix(have, tail) = 0)
  BY <1>1 DEF Prefix
<1>3. CASE gaps = {}
  <2>1. Scan(Bitfield, count) = ScanStart(count)
    BY <1>3 DEF Scan
  <2>2. have # 0
    <3> SUFFICES ASSUME have = 0 PROVE FALSE
      OBVIOUS
    <3>1. count = -1 /\ ScanStart(count) = 0
      BY <1>1 DEF Prefix, ScanStart
    <3>2. 0 \in gaps
      BY <1>1, <3>1 DEF Gaps, Bitfield
    <3> QED
      BY <1>3, <3>2
  <2> QED
    BY <1>1, <1>2, <2>1, <2>2 DEF ScanStart
<1>4. CASE gaps # {}
  <2>1. gaps \in SUBSET Nat
    BY <1>1 DEF Gaps
  <2>2. Min(gaps) \in gaps /\ \A i \in gaps : Min(gaps) <= i
    BY <1>4, <2>1, MinIsLeast
  <2>3. Scan(Bitfield, count) = Min(gaps) - 1 /\ Min(gaps) \in Nat
    BY <1>4, <2>1, <2>2 DEF Scan
  <2>4. ~Complete
    BY <1>1, <2>2 DEF Complete, Gaps, Bitfield
  <2>5. Prefix(have, tail) = have
    BY <2>4 DEF Prefix, Complete
  <2>6. have \in gaps
    BY <1>1, <2>4, <2>5 DEF Gaps, Bitfield, Complete, ScanStart
  <2> QED
    BY <1>1, <2>2, <2>3, <2>5, <2>6
<1> QED
  BY <1>3, <1>4

(* A film that can be watched has two pieces from its start.               *)
LEMMA FirstPiecesThere ==
    ASSUME TypeOK, CanGetUrl(Bitfield, 0, NPieces - 1)
    PROVE  Prefix(have, tail) > 1
<1>1. have \in 0 .. NPieces - 1 /\ NPieces \in Nat /\ NPieces > 1 /\ MIN_START_PIECES > 1
      /\ MIN_START_PIECES \in Nat
  BY DEF TypeOK
<1>2. 0 \in Bitfield /\ NPieces - 1 \in Bitfield
  BY <1>1 DEF CanGetUrl
<1>3. CASE NPieces = 2
  BY <1>1, <1>2, <1>3 DEF Bitfield, Prefix
<1>4. CASE NPieces > 2
  <2>1. 1 \in Bitfield
    BY <1>1, <1>4 DEF CanGetUrl
  <2>2. have > 1
    BY <1>1, <1>4, <2>1 DEF Bitfield
  <2> QED
    BY <1>1, <2>2 DEF Prefix
<1> QED
  BY <1>1, <1>3, <1>4

(* Before anything has come in the invariant holds.                        *)
LEMMA PlaybackInit == Init => PlaybackInv
BY TypeInit DEF Init, PlaybackInv, PercentagesInv, ToldInv, Screen, WithinKnown, Known, Larger,
                Anchored, Prefix, NoCount

(* The percentages of the film stay within the file, which only grows, and *)
(* so does what the player was told, but for what a late tick says.        *)
LEMMA PercentagesStep ==
    ASSUME PlaybackInv, [Next]_vars
    PROVE  PercentagesInv' /\ ToldInv' /\ disk <= disk'
<1> USE DEF PercentagesInv, ToldInv, PlayMedia, ViewWillDisappear, download, player, controls, view
<1>0. TypeOK /\ PercentagesInv /\ ToldInv /\ TypeOK'
  BY TypeStep DEF PlaybackInv
<1>n. /\ disk \in Nat /\ have \in 0 .. NPieces - 1 /\ percent \in Int /\ stored \in Nat
      /\ downloaded_ \in Nat /\ count \in Int /\ NPieces \in Nat
      /\ Prefix(have, tail) \in Nat
  BY <1>0 DEF TypeOK, Prefix, NoCount
<1>t. tick # NoTick => tick \in Nat
  <2>1. tick # NoTick => tick \in 0 .. NPieces \/ tick \in Late
    BY <1>0, Zenon DEF TypeOK
  <2>2. Late \subseteq Nat /\ 0 .. NPieces \subseteq Nat
    OBVIOUS
  <2> QED
    BY <2>1, <2>2, Zenon
<1>1. CASE PieceThere
  <2>1. Prefix(have', tail') \in Nat /\ Prefix(have, tail) <= Prefix(have', tail')
    BY <1>1, <1>n, <1>0 DEF PieceThere, Prefix, TypeOK
  <2>2. disk' = Larger(disk, Prefix(have', tail')) /\ disk' \in Nat
    BY <1>1, <1>n, <2>1 DEF PieceThere, Larger
  <2>3. UNCHANGED <<count, percent, stored, downloaded_, tick, ready, running>>
    BY <1>1 DEF PieceThere
  <2> QED
    BY <1>0, <1>n, <1>t, <2>1, <2>2, <2>3 DEF Larger
<1>2. CASE TickPosts
  <2>1. Scan(Bitfield, count) + 1 <= Prefix(have, tail) /\ Scan(Bitfield, count) \in Int
    BY <1>0, <1>2, ScanOfPrefix, ScanType, BitfieldType DEF TickPosts, TypeOK, NoCount
  <2> QED
    BY <1>0, <1>2, <1>n, <2>1 DEF TickPosts, Larger
<1>3. CASE LateTickPosts
  BY <1>0, <1>3, <1>n DEF LateTickPosts
<1>4. CASE TickDelivers
  BY <1>0, <1>4, <1>n DEF TickDelivers
<1>5. CASE VlcStarts \/ VlcKnowsLength \/ VlcPlays \/ VlcEnds \/ VlcFails
  BY <1>0, <1>5, <1>n DEF VlcStarts, VlcKnowsLength, VlcPlays, VlcEnds, VlcFails, VlcStops
<1>6. CASE TimeChanged \/ ClosePlayback \/ SeekFires \/ PressPlay
  BY <1>0, <1>6, <1>n DEF TimeChanged, ClosePlayback, SeekFires, PressPlay
<1>7. ASSUME NEW value \in 0 .. NPieces, Drag(value)
      PROVE  PercentagesInv' /\ ToldInv' /\ disk <= disk'
  BY <1>0, <1>7, <1>n DEF Drag
<1>8. CASE ReadyToView
  <2>1. Prefix(have, tail) > 1
    BY <1>0, <1>8, FirstPiecesThere DEF ReadyToView
  <2> QED
    BY <1>0, <1>8, <1>n, <2>1 DEF ReadyToView, StartToViewplayer, Larger
<1>9. CASE Close
  BY <1>0, <1>9, <1>n DEF Close, Prefix
<1>10. CASE Resume
  BY <1>0, <1>10, <1>n DEF Resume, StartToViewplayer, Larger, NoCount
<1>11. CASE UNCHANGED vars
  BY <1>0, <1>11, <1>n DEF vars
<1> QED
  BY <1>1, <1>2, <1>3, <1>4, <1>5, <1>6, <1>7, <1>8, <1>9, <1>10, <1>11 DEF Next

(* The player is on screen only for a film that was ready, and VLC is at   *)
(* the start when it opens one.                                            *)
LEMMA ScreenStep ==
    ASSUME TypeOK, Screen, [Next]_vars
    PROVE  Screen'
<1> USE DEF Screen, PlayMedia, ViewWillDisappear, download, player, controls, view
<1>1. CASE PieceThere \/ TickPosts \/ LateTickPosts
  BY <1>1 DEF PieceThere, TickPosts, LateTickPosts
<1>2. CASE TickDelivers
  BY <1>2 DEF TickDelivers, GoesOn, Played
<1>3. CASE VlcStarts \/ VlcKnowsLength \/ VlcPlays \/ VlcEnds \/ VlcFails
  BY <1>3 DEF VlcStarts, VlcKnowsLength, VlcPlays, VlcEnds, VlcFails, VlcStops
<1>4. CASE TimeChanged \/ ClosePlayback
  BY <1>4 DEF TimeChanged, ClosePlayback, Paused
<1>5. ASSUME NEW value \in 0 .. NPieces, Drag(value) PROVE Screen'
  BY <1>5 DEF Drag
<1>6. CASE SeekFires
  BY <1>6 DEF SeekFires, SetPosition, GoesOn, Played, Paused
<1>7. CASE PressPlay
  BY <1>7 DEF PressPlay, Played
<1>8. CASE ReadyToView \/ Close \/ Resume
  BY <1>8 DEF ReadyToView, Close, Resume, StartToViewplayer
<1>9. CASE UNCHANGED vars
  BY <1>9 DEF vars
<1> QED
  BY <1>1, <1>2, <1>3, <1>4, <1>5, <1>6, <1>7, <1>8, <1>9 DEF Next

(* Unless VLC outruns the main thread, every step leaves it within what is *)
(* known.                                                                  *)
LEMMA WithinKnownStep ==
    ASSUME PlaybackInv, [Next]_vars
    PROVE  outrun' \/ WithinKnown'
<1> USE DEF PlayMedia, ViewWillDisappear, download, player, controls, view
<1>0. /\ PercentagesInv' /\ disk <= disk' /\ Screen' /\ Screen /\ TypeOK
      /\ outrun \/ WithinKnown
  BY PercentagesStep, ScreenStep DEF PlaybackInv
<1>n. /\ disk \in Nat /\ disk' \in Nat /\ pos \in Nat /\ pos' \in Nat /\ events \in Nat
      /\ events' \in Nat /\ downloaded_ \in Nat /\ downloaded_' \in Nat /\ slider \in Nat
      /\ Known \in Nat /\ Known' \in Nat
      /\ length \in {0, NPieces} /\ NPieces \in Nat
  BY TypeStep DEF PlaybackInv, TypeOK, Known, Larger
<1>k. Known = Larger(disk, downloaded_) /\ Known' = Larger(disk', downloaded_')
  BY DEF Known
<1>f. open => Known > 1
  BY <1>n DEF PlaybackInv, PercentagesInv, Screen, Known, Larger
<1>s. /\ isSafe => pos + 1 < Known
      /\ \A d \in Nat : IsSafe(d, pos) => pos + 1 < d
  BY <1>n DEF isSafe, IsSafe, Known, Larger
<1> USE DEF WithinKnown, Anchored
<1>1. CASE PieceThere \/ TickPosts \/ LateTickPosts
  <2>1. UNCHANGED <<open, vlc, pos, events, status, downloaded_, outrun>>
    BY <1>1 DEF PieceThere, TickPosts, LateTickPosts
  <2>2. Known <= Known'
    BY <1>0, <1>n, <1>k, <2>1 DEF Larger
  <2> QED
    BY <1>0, <1>n, <2>1, <2>2
<1>2. CASE TickDelivers
  <2>1. UNCHANGED <<open, pos, events, disk, outrun>> /\ downloaded_ <= downloaded_'
    BY <1>2, <1>n DEF TickDelivers, IsLess
  <2>2. Known <= Known' /\ downloaded_' <= Known'
    BY <1>n, <1>k, <2>1 DEF Larger
  <2>3. CASE UNCHANGED <<vlc, status>>
    BY <1>0, <1>n, <2>1, <2>2, <2>3
  <2>4. CASE GoesOn /\ open /\ IsSafe(downloaded_', pos)
    BY <1>0, <1>n, <1>s, <2>1, <2>2, <2>4
  <2> QED
    BY <1>2, <2>3, <2>4 DEF TickDelivers
<1>3. CASE VlcStarts
  BY <1>0, <1>n, <1>f, <1>k, <1>3 DEF VlcStarts, Screen
<1>4. CASE VlcKnowsLength \/ VlcFails \/ VlcEnds \/ ClosePlayback
  BY <1>0, <1>n, <1>k, <1>4 DEF VlcKnowsLength, VlcFails, VlcEnds, VlcStops, ClosePlayback
<1>5. CASE VlcPlays
  <2>1. CASE outrun'
    BY <2>1
  <2>2. CASE ~outrun'
    <3>0. ~outrun /\ ~(events > 0)
      BY <1>5, <2>2, Zenon DEF VlcPlays
    <3>1. ~outrun /\ events = 0 /\ vlc = "playing" /\ open
      BY <1>0, <1>5, <1>n, <3>0 DEF VlcPlays, Screen
    <3>2. pos' = pos + 1 /\ events' = 1 /\ UNCHANGED <<open, vlc, status, disk, downloaded_>>
      BY <1>5, <3>1 DEF VlcPlays
    <3> QED
      BY <1>0, <1>n, <1>k, <3>1, <3>2
  <2> QED
    BY <2>1, <2>2
<1>6. CASE TimeChanged
  <2>1. /\ open /\ events > 0 /\ events' = events - 1
        /\ UNCHANGED <<open, pos, disk, downloaded_, outrun>>
    BY <1>6 DEF TimeChanged
  <2>2. CASE isSafe /\ UNCHANGED <<vlc, status>>
    BY <1>0, <1>n, <1>k, <1>s, <2>1, <2>2
  <2>3. CASE vlc' = Paused(vlc) /\ status' = "Buffering"
    BY <1>0, <1>n, <1>k, <2>1, <2>3 DEF Paused
  <2> QED
    BY <1>6, <2>2, <2>3 DEF TimeChanged
<1>7. ASSUME NEW value \in 0 .. NPieces, Drag(value)
      PROVE  outrun' \/ WithinKnown'
  BY <1>0, <1>n, <1>k, <1>7 DEF Drag
<1>8. CASE SeekFires
  <2>1. open /\ UNCHANGED <<open, disk, downloaded_, outrun>> /\ Known' = Known
    BY <1>8, <1>k DEF SeekFires
  <2>2. CASE setPosition
    BY <1>0, <1>8, <1>n, <2>1, <2>2 DEF SeekFires
  <2>3. CASE ~setPosition /\ vlc \in {"playing", "paused"}
    <3>1. pos' <= FarthestSeek \/ pos' = 0
      BY <1>8, <1>n, <2>3 DEF SeekFires, SetPosition, FarthestSeek, Larger
    <3>2. FarthestSeek \in Int /\ FarthestSeek < Known
      BY <1>n, <1>k DEF FarthestSeek, Larger
    <3>3. pos' < Known /\ events' = events + 1
      BY <1>8, <1>n, <1>f, <2>1, <2>3, <3>1, <3>2 DEF SeekFires, SetPosition
    <3>4. pos' <= Known' /\ pos' < Known' /\ events' # 0
      BY <1>n, <2>1, <3>3
    <3> QED
      BY <3>4, Zenon
  <2>4. CASE ~setPosition /\ vlc \notin {"playing", "paused"}
    <3>1. UNCHANGED <<vlc, pos, events>>
      BY <1>8, <2>4 DEF SeekFires, SetPosition, GoesOn, Played, Paused
    <3> QED
      BY <1>0, <1>n, <2>1, <2>4, <3>1
  <2> QED
    BY <2>2, <2>3, <2>4
<1>9. CASE PressPlay
  <2>1. CASE outrun'
    BY <2>1
  <2>2. CASE ~outrun'
    <3>1. ~outrun /\ status # "Buffering" /\ open
      BY <1>9, <2>2 DEF PressPlay
    <3>2. /\ UNCHANGED <<open, pos, events, disk, downloaded_>>
          /\ vlc' = vlc \/ vlc \in {"playing", "paused"}
      BY <1>9 DEF PressPlay, Played
    <3> QED
      BY <1>0, <1>n, <1>k, <3>1, <3>2
  <2> QED
    BY <2>1, <2>2
<1>10. CASE ReadyToView \/ Resume
  <2>1. pos' = 0 /\ events' = 0 /\ vlc' = "opening" /\ open'
    BY <1>10 DEF ReadyToView, Resume, StartToViewplayer
  <2> QED
    BY <1>n, <2>1
<1>11. CASE Close
  BY <1>0, <1>n, <1>k, <1>11 DEF Close
<1>12. CASE UNCHANGED vars
  BY <1>0, <1>n, <1>k, <1>12 DEF vars
<1> QED
  BY <1>1, <1>2, <1>3, <1>4, <1>5, <1>6, <1>7, <1>8, <1>9, <1>10, <1>11, <1>12 DEF Next

(* The film is never played beyond what is in its file or was said to be   *)
(* by a late tick, unless VLC outruns the checks, with any late ticks, any *)
(* presses and seeks and any number of changes of the time that wait       *)
(* (VDLPlaybackViewController.m 195-208, 304-325, 352-380, 492-535).       *)
THEOREM PlaysCorrect == Spec => []PlaysWhatIsThere
<1>1. PlaybackInv /\ [Next]_vars => PlaybackInv'
  BY TypeStep, PercentagesStep, ScreenStep, WithinKnownStep DEF PlaybackInv
<1>2. PlaybackInv => PlaysWhatIsThere
  BY DEF PlaybackInv, ToldInv, WithinKnown, Known, PlaysWhatIsThere
<1> QED
  BY <1>1, <1>2, PlaybackInit, PTL DEF Spec
=============================================================================
