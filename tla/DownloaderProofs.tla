-------------------------- MODULE DownloaderProofs --------------------------
(***************************************************************************)
(* The app drives the engine as Streamerok specifies, with any number of   *)
(* films, torrents and threads; what was proved of the engine therefore    *)
(* holds in the app.  What its user sees, and what a later start relies    *)
(* on, is true as far as the theorems' assumptions on Races and Faults go. *)
(***************************************************************************)
EXTENDS Downloader, StreamerokProofs

USE NPiecesAssumption, StreamerokAssumption, DownloaderAssumption

(* What the app keeps next to the engine has its types.                    *)
FieldsOK ==
    /\ tInfo \in Results
    /\ percent \in Unset .. Infinity
    /\ isReadySended \in BOOLEAN
    /\ timer \in BOOLEAN

ThreadsOK ==
    /\ lock \in Workers \cup {Free}
    /\ tick \in [Workers -> [pc : TickSteps, total : {0, NPieces},
                             max : NoCount .. NPieces - 1, aux : Ids \cup {0}]]
    /\ main \in MainStates

UiOK ==
    /\ readyBlocks \in Nat
    /\ screen \in Screens
    /\ file \in Bodies \cup {NoFile}

(* The types of the app are those of the engine and the three parts above. *)
LEMMA AppTypes == AppTypeOK <=> TypeOK /\ FieldsOK /\ ThreadsOK /\ UiOK
BY DEF AppTypeOK, FieldsOK, ThreadsOK, UiOK

(* Looking up or deleting an id that is none leaves the engine alone.      *)
LEMMA NoIdNoEffect ==
    ASSUME TypeOK, NEW i, i \notin Ids, GetAux(i) \/ DeleteTorrent(i)
             \/ CountPieces(i)
    PROVE  UNCHANGED vars
<1>1. i \notin DOMAIN tMap
  BY DEF TypeOK
<1>2. Without(i) = tMap
  <2>1. DOMAIN tMap \ {i} = DOMAIN tMap
    BY <1>1
  <2>2. tMap = [j \in DOMAIN tMap |-> tMap[j]]
    BY DEF TypeOK
  <2> QED
    BY <2>1, <2>2 DEF Without
<1> QED
  BY <1>1, <1>2 DEF GetAux, DeleteTorrent, CountPieces, Found,
                    vars, libtorrent, engine

(* So every look-up the app makes is a step of the engine or none.         *)
LEMMA LookUpIsStep ==
    ASSUME TypeOK, NEW i, GetAux(i) \/ DeleteTorrent(i) \/ CountPieces(i)
    PROVE  [Next]_vars
<1>1. CASE i \in Ids
  BY <1>1 DEF Next
<1>2. CASE i \notin Ids
  BY <1>2, NoIdNoEffect
<1> QED
  BY <1>1, <1>2

(* What a tick stores is a percentage.                                     *)
LEMMA PercentType ==
    ASSUME FieldsOK, NEW max \in NoCount .. NPieces - 1, NEW total \in {0, NPieces},
           CurrentPercent(max, total) > percent
    PROVE  CurrentPercent(max, total) \in 0 .. Infinity
BY DEF FieldsOK, CurrentPercent, Infinity, Unset, NaN, NoCount

(* The values the fields start with.                                       *)
LEMMA StartTypes ==
    /\ 0 \in Results /\ 0 \in Unset .. Infinity
    /\ "browse" \in Screens /\ AtRest \in MainStates
    /\ [w \in Workers |-> NoTick]
         \in [Workers -> [pc : TickSteps, total : {0, NPieces},
                          max : NoCount .. NPieces - 1, aux : Ids \cup {0}]]
<1>1. NoTick \in [pc : TickSteps, total : {0, NPieces}, max : NoCount .. NPieces - 1,
                  aux : Ids \cup {0}]
  BY DEF NoTick, NoCount, TickSteps
<1>2. 0 \in Results /\ 0 \in Unset .. Infinity
  BY DEF Results, Unset, Infinity
<1>3. "browse" \in Screens /\ AtRest \in MainStates
  BY DEF Screens, AtRest, MainStates
<1> QED
  BY <1>1, <1>2, <1>3

(* Every step of the app is one step of the engine or leaves it alone, but *)
(* for a tick that crashes in the middle of an import.                     *)
LEMMA StepOfEngine ==
    ASSUME AppTypeOK, [AppNext]_appVars
    PROVE  [Next]_vars \/ \E w \in Workers : TickCrashes(w) /\ Dies
<1> USE AppTypes
<1>1. ASSUME NEW b \in Bodies, FetchComplete(b) PROVE [Next]_vars
  BY <1>1 DEF FetchComplete
<1>2. CASE Resume \/ OpenWeb \/ Close
  BY <1>2 DEF Resume, OpenWeb, Close
<1>3. CASE ImportCall
  BY <1>3 DEF ImportCall, Next, Import
<1>4. CASE ImportStep
  BY <1>4 DEF ImportStep, Next, Import
<1>5. CASE Assign \/ Reset
  BY <1>5 DEF Assign, Reset
<1>6. CASE Cancel
  BY <1>6, LookUpIsStep DEF Cancel
<1>7. CASE RunReadyBlock
  BY <1>7 DEF RunReadyBlock, Next
<1>8. ASSUME NEW w \in Workers, TimerFires(w) \/ Tick(w) PROVE [Next]_vars
  <2>1. CASE TimerFires(w) \/ TickReachesLock(w) \/ TickLocks(w) \/ TickPosts(w)
             \/ TickSyncs(w)
    BY <2>1 DEF TimerFires, TickReachesLock, TickLocks, TickPosts, TickSyncs
  <2>2. CASE TickPops(w) \/ TickHandles(w)
    BY <2>2 DEF TickPops, TickHandles, Next, Callback
  <2>3. CASE TickReadsInfo(w) \/ TickScans(w) \/ TickFindsAux(w) \/ TickStops(w)
    BY <2>3, LookUpIsStep DEF TickReadsInfo, TickScans, TickFindsAux, TickStops
  <2>4. CASE TickKeepsPercent(w)
    <3>1. tick[w].max \in NoCount .. NPieces - 1 /\ tick[w].total \in {0, NPieces}
      BY DEF ThreadsOK
    <3>2. CASE UNCHANGED vars
      BY <3>2
    <3>3. CASE /\ CurrentPercent(tick[w].max, tick[w].total) > percent
               /\ StorePercent(CurrentPercent(tick[w].max, tick[w].total))
      BY <3>1, <3>3, PercentType DEF Next
    <3> QED
      BY <2>4, <3>2, <3>3 DEF TickKeepsPercent
  <2>5. CASE TickStores(w) \/ TickTestsReady(w)
    BY <2>5 DEF TickStores, TickTestsReady, Next
  <2> QED
    BY <1>8, <2>1, <2>2, <2>3, <2>4, <2>5 DEF Tick
<1>9. ASSUME NEW w \in Workers, TickCrashes(w) PROVE TickCrashes(w) /\ Dies
  BY <1>9 DEF TickCrashes, AppStarts
<1>10. CASE EngineRuns
  BY <1>10 DEF EngineRuns, Next
<1>11. CASE Relaunch
  BY <1>11 DEF Relaunch, AppStarts, Next, Restart
<1>12. CASE UNCHANGED appVars
  BY <1>12 DEF appVars
<1> QED
  BY <1>1, <1>2, <1>3, <1>4, <1>5, <1>6, <1>7, <1>8, <1>9, <1>10, <1>11, <1>12
     DEF AppNext, MainSteps

(* The steps of the main thread keep the types of what the app keeps.      *)
LEMMA MainKeepsTypes ==
    ASSUME AppTypeOK,
           MainSteps \/ Resume \/ OpenWeb \/ Close \/ RunReadyBlock
             \/ \E b \in Bodies : FetchComplete(b)
    PROVE  FieldsOK' /\ ThreadsOK' /\ UiOK'
<1> USE AppTypes
<1>0. AtRest \in MainStates
      /\ [pc |-> "cancel", arg |-> 0] \in MainStates
      /\ [pc |-> "reset", arg |-> 0] \in MainStates
      /\ [pc |-> "importing", arg |-> 0] \in MainStates
      /\ \A b \in Bodies : [pc |-> "import", arg |-> b] \in MainStates
  BY DEF MainStates, AtRest
<1>s. /\ "browse" \in Screens /\ "progress" \in Screens
      /\ "player" \in Screens /\ "blank" \in Screens /\ "offer" \in Screens
  BY DEF Screens
<1>1. CASE \E b \in Bodies : FetchComplete(b)
  BY <1>0, <1>1, <1>s DEF FetchComplete, Start, WithoutSite, FieldsOK, ThreadsOK, UiOK,
                          fields, MainIdle
<1>2. CASE Resume
  <2>1. file \in Bodies
    BY <1>2 DEF Resume, UiOK
  <2> QED
    BY <1>0, <1>2, <1>s, <2>1 DEF Resume, Start, FieldsOK, ThreadsOK, UiOK, fields
<1>3. CASE OpenWeb \/ Close
  BY <1>0, <1>3, <1>s DEF OpenWeb, Close, FieldsOK, ThreadsOK, UiOK, fields
<1>4. CASE RunReadyBlock
  BY <1>4, <1>s DEF RunReadyBlock, FieldsOK, ThreadsOK, UiOK, fields
<1>5. CASE ImportCall
  <2>1. NotATorrent \in Results /\ 0 \in Results
    BY DEF Results
  <2>2. main' \in MainStates
    <3>1. /\ [pc |-> "assign", arg |-> NotATorrent] \in MainStates
          /\ [pc |-> "assign", arg |-> 0] \in MainStates
      BY <2>1 DEF MainStates
    <3>2. \/ main' = [pc |-> "importing", arg |-> 0]
          \/ main' = [pc |-> "assign", arg |-> NotATorrent]
          \/ main' = [pc |-> "assign", arg |-> 0]
      BY <1>5 DEF ImportCall, Returns
    <3> QED
      BY <1>0, <3>1, <3>2
  <2> QED
    BY <1>5, <2>2 DEF ImportCall, FieldsOK, ThreadsOK, UiOK, fields, ui
<1>6. CASE ImportStep
  <2>1. ImportAdd => nextId' \in Results
    BY DEF ImportAdd, TypeOK, Stage, Idle, Ids, Results
  <2>2. NotAdded \in Results
    BY DEF Results
  <2>3. main \in MainStates
    BY DEF ThreadsOK
  <2>4. \/ main' = main
        \/ ImportAdd /\ main' = [pc |-> "assign", arg |-> nextId']
        \/ main' = [pc |-> "assign", arg |-> NotAdded]
    BY <1>6 DEF ImportStep, Returns
  <2>5. main' \in MainStates
    <3>1. [pc |-> "assign", arg |-> NotAdded] \in MainStates
      BY <2>2 DEF MainStates
    <3>2. CASE ImportAdd /\ main' = [pc |-> "assign", arg |-> nextId']
      <4>1. [pc |-> "assign", arg |-> nextId'] \in MainStates
        BY <2>1, <3>2 DEF MainStates
      <4> QED
        BY <3>2, <4>1
    <3> QED
      BY <2>3, <2>4, <3>1, <3>2
  <2> QED
    BY <1>6, <2>5 DEF ImportStep, FieldsOK, ThreadsOK, UiOK, fields, ui
<1>7. CASE Assign
  <2>1. main.arg \in Results
    BY <1>7 DEF Assign, ThreadsOK, MainStates
  <2>2. main' \in MainStates
    BY <1>0, <1>7 DEF Assign
  <2> QED
    BY <1>7, <2>1, <2>2 DEF Assign, FieldsOK, ThreadsOK, UiOK, ui
<1>8. CASE Reset
  <2>1. Unset \in Unset .. Infinity
    BY DEF Unset, Infinity
  <2> QED
    BY <1>0, <1>8, <2>1 DEF Reset, FieldsOK, ThreadsOK, UiOK, ui
<1>9. CASE Cancel
  BY <1>0, <1>9 DEF Cancel, FieldsOK, ThreadsOK, UiOK, ui
<1> QED
  BY <1>1, <1>2, <1>3, <1>4, <1>5, <1>6, <1>7, <1>8, <1>9 DEF MainSteps

(* The steps of a tick keep the types of what the app keeps.               *)
LEMMA TickKeepsTypes ==
    ASSUME AppTypeOK, NEW w \in Workers, TimerFires(w) \/ Tick(w)
    PROVE  FieldsOK' /\ ThreadsOK' /\ UiOK'
<1> USE AppTypes
<1> DEFINE Ticks == [pc : TickSteps, total : {0, NPieces}, max : NoCount .. NPieces - 1,
                  aux : Ids \cup {0}]
<1>1. tick \in [Workers -> Ticks] /\ tick[w] \in Ticks
  BY DEF ThreadsOK
<1>2. ASSUME NEW s \in TickSteps, Goto(w, s)
      PROVE  tick' \in [Workers -> Ticks]
  BY <1>1, <1>2 DEF Goto
<1> USE DEF TickSteps
<1>3. CASE TimerFires(w)
  BY <1>2, <1>3 DEF TimerFires, FieldsOK, ThreadsOK, UiOK, fields, ui
<1>4. CASE TickPops(w)
  BY <1>2, <1>4 DEF TickPops, FieldsOK, ThreadsOK, UiOK, fields, ui
<1>5. CASE TickHandles(w)
  BY <1>5 DEF TickHandles, FieldsOK, ThreadsOK, UiOK, fields, ui
<1>6. CASE TickReachesLock(w)
  BY <1>2, <1>6 DEF TickReachesLock, FieldsOK, ThreadsOK, UiOK, fields, ui
<1>7. CASE TickLocks(w)
  BY <1>2, <1>7 DEF TickLocks, FieldsOK, ThreadsOK, UiOK, fields, ui
<1>8. CASE TickReadsInfo(w)
  <2>1. tick' \in [Workers -> Ticks]
    BY <1>1, <1>8 DEF TickReadsInfo
  <2> QED
    BY <1>8, <2>1 DEF TickReadsInfo, FieldsOK, ThreadsOK, UiOK, fields, ui
<1>9. CASE TickScans(w)
  <2>1. 0 \in NoCount .. NPieces - 1
    BY DEF NoCount
  <2>2. PICK s \in TickSteps : tick' = [tick EXCEPT ![w].pc = s, ![w].max = 0]
    BY <1>9 DEF TickScans
  <2>3. tick' \in [Workers -> Ticks]
    BY <1>1, <2>1, <2>2
  <2> QED
    BY <1>9, <2>3 DEF TickScans, FieldsOK, ThreadsOK, UiOK, fields, ui
<1>15. CASE TickStores(w)
  <2>1. maxCount \in NoCount .. NPieces - 1
    BY DEF TypeOK
  <2>2. tick' \in [Workers -> Ticks]
    BY <1>1, <1>15, <2>1 DEF TickStores
  <2> QED
    BY <1>15, <2>2 DEF TickStores, FieldsOK, ThreadsOK, UiOK, fields, ui
<1>16. CASE TickFindsAux(w)
  <2>1. Found(tInfo) => tInfo \in Ids
    BY EntryType DEF Found
  <2>2. tick' \in [Workers -> Ticks]
    BY <1>1, <1>16, <2>1 DEF TickFindsAux
  <2> QED
    BY <1>16, <2>2 DEF TickFindsAux, FieldsOK, ThreadsOK, UiOK, fields, ui
<1>10. CASE TickKeepsPercent(w)
  <2>1. percent' \in Unset .. Infinity
    <3>1. CASE CurrentPercent(tick[w].max, tick[w].total) > percent
      <4>1. CurrentPercent(tick[w].max, tick[w].total) \in 0 .. Infinity
        BY <1>1, <3>1, PercentType
      <4> QED
        BY <1>10, <3>1, <4>1 DEF TickKeepsPercent, Unset, Infinity
    <3>2. CASE ~(CurrentPercent(tick[w].max, tick[w].total) > percent)
      BY <1>10, <3>2 DEF TickKeepsPercent, FieldsOK
    <3> QED
      BY <3>1, <3>2
  <2> QED
    BY <1>2, <1>10, <2>1 DEF TickKeepsPercent, FieldsOK, ThreadsOK, UiOK, ui
<1>11. CASE TickTestsReady(w)
  <2>1. isReadySended' \in BOOLEAN /\ readyBlocks' \in Nat
    BY <1>11 DEF TickTestsReady, FieldsOK, UiOK
  <2>2. tick' \in [Workers -> Ticks]
    BY <1>1, <1>11 DEF TickTestsReady
  <2> QED
    BY <1>11, <2>1, <2>2 DEF TickTestsReady, FieldsOK, ThreadsOK, UiOK
<1>12. CASE TickPosts(w)
  BY <1>2, <1>12 DEF TickPosts, FieldsOK, ThreadsOK, UiOK, fields, ui
<1>13. CASE TickSyncs(w)
  BY <1>2, <1>13 DEF TickSyncs, FieldsOK, ThreadsOK, UiOK, fields, ui
<1>14. CASE TickStops(w)
  <2>1. NoTick \in Ticks
    BY DEF NoTick, NoCount
  <2>2. tick' \in [Workers -> Ticks]
    BY <1>1, <1>14, <2>1 DEF TickStops
  <2> QED
    BY <1>14, <2>2 DEF TickStops, FieldsOK, ThreadsOK, UiOK, ui
<1> QED
  BY <1>3, <1>4, <1>5, <1>6, <1>7, <1>8, <1>9, <1>10, <1>11, <1>12, <1>13, <1>14,
     <1>15, <1>16
     DEF Tick

(* Every step of the app keeps the types.                                  *)
LEMMA AppTypeStep == AppTypeOK /\ [AppNext]_appVars => AppTypeOK'
<1> SUFFICES ASSUME AppTypeOK, [AppNext]_appVars
             PROVE  AppTypeOK'
  OBVIOUS
<1>1. TypeOK'
  <2>1. TypeOK
    BY AppTypes
  <2>2. Dies => TypeOK'
    BY <2>1, DeathType
  <2> QED
    BY <2>1, <2>2, StepOfEngine, TypeStep
<1>2. FieldsOK' /\ ThreadsOK' /\ UiOK'
  <2>1. CASE AppStarts
    BY <2>1, StartTypes, AppTypes DEF AppStarts, FieldsOK, ThreadsOK, UiOK
  <2>2. CASE EngineRuns \/ UNCHANGED appVars
    BY <2>2, AppTypes DEF EngineRuns, appVars, fields, ui, FieldsOK, ThreadsOK, UiOK
  <2> QED
    BY <2>1, <2>2, MainKeepsTypes, TickKeepsTypes DEF AppNext, TickCrashes, Relaunch
<1> QED
  BY <1>1, <1>2 DEF AppTypeOK, FieldsOK, ThreadsOK, UiOK

(* The app starts with its types.                                          *)
LEMMA AppTypeInit == AppInit => AppTypeOK
<1> SUFFICES ASSUME AppInit PROVE AppTypeOK
  OBVIOUS
<1>1. TypeOK
  BY TypeInit DEF AppInit
<1>2. FieldsOK /\ ThreadsOK /\ UiOK
  BY StartTypes DEF AppInit, FieldsOK, ThreadsOK, UiOK
<1> QED
  BY <1>1, <1>2, AppTypes

-----------------------------------------------------------------------------
(* The fields, the threads and the screens of the app keep their types:    *)
(* among them, that no tick reads a count beyond the pieces, and that only *)
(* percentages are stored (Downloader.mm 64-87, 108-191, 201-208).         *)
THEOREM AppTypeCorrect == AppSpec => []AppTypeOK
BY AppTypeInit, AppTypeStep, PTL DEF AppSpec

-----------------------------------------------------------------------------
(* What a step of a tick leaves alone, and what else it may do: look up or *)
(* delete the torrent of tInfo.                                            *)
LEMMA TickEffect ==
    ASSUME NEW w \in Workers, TimerFires(w) \/ Tick(w)
    PROVE  /\ UNCHANGED <<main, tInfo, screen, file, importing, disk>>
           /\ \/ UNCHANGED <<session, have, tMap, timer>>
              \/ (GetAux(tInfo) \/ CountPieces(tInfo)) /\ UNCHANGED timer
              \/ TickStops(w) /\ DeleteTorrent(tInfo) /\ ~timer'
<1>1. CASE TimerFires(w) \/ TickPops(w) \/ TickHandles(w) \/ TickReachesLock(w)
           \/ TickLocks(w)
  BY <1>1 DEF TimerFires, TickPops, PopAlerts, TickHandles, HandleAlert,
              TickReachesLock, TickLocks, vars, libtorrent, engine, fields, ui
<1>2. CASE TickReadsInfo(w) \/ TickFindsAux(w)
  BY <1>2 DEF TickReadsInfo, TickFindsAux, GetAux, libtorrent, fields, ui
<1>3. CASE TickScans(w)
  BY <1>3 DEF TickScans, CountPieces, libtorrent, fields, ui
<1>4. CASE TickStores(w) \/ TickKeepsPercent(w) \/ TickTestsReady(w)
  BY <1>4 DEF TickStores, StoreMaxBlock, TickKeepsPercent, StorePercent, TickTestsReady,
              vars, libtorrent, engine, fields, ui
<1>5. CASE TickPosts(w) \/ TickSyncs(w)
  BY <1>5 DEF TickPosts, TickSyncs, vars, libtorrent, engine, fields, ui
<1>6. CASE TickStops(w)
  BY <1>6 DEF TickStops, DeleteTorrent, vars, libtorrent, engine, ui
<1> QED
  BY <1>1, <1>2, <1>3, <1>4, <1>5, <1>6 DEF Tick

-----------------------------------------------------------------------------
(* What makes NoOrphan inductive: whatever torrent is in the session, the  *)
(* id it can be deleted by is the one the main thread holds.               *)
NoneOpen == \A t \in Torrents : session[t] = NoHandle

Holds(i) ==
    \A t \in Torrents : session[t] # NoHandle =>
        i \in DOMAIN tMap /\ tMap[i].torrent = t /\ tMap[i].handle = session[t]

Current == IF main.pc = "assign" THEN main.arg ELSE tInfo

OneFilm ==
    /\ Holds(Current)
    /\ main.pc \in {"import", "importing"} => NoneOpen
    /\ main.pc \in {"import", "importing", "assign", "reset"}
         => screen \in {"progress", "player"}
    /\ NoOrphan

(* What the main thread holds is not lost by a look-up or a deletion.      *)
LEMMA LookUpKeepsHold ==
    ASSUME TypeOK, NEW i, NEW c, Holds(c),
           GetAux(i) \/ DeleteTorrent(i) \/ CountPieces(i)
    PROVE  Holds(c)' /\ (NoneOpen => NoneOpen')
<1>1. CASE /\ session' = session
           /\ tMap' = tMap \/ (~Found(i) /\ tMap' = Without(i))
  <2>1. ASSUME NEW t \in Torrents, session'[t] # NoHandle
        PROVE  c \in DOMAIN tMap' /\ tMap'[c].torrent = t /\ tMap'[c].handle = session'[t]
    <3>1. c \in DOMAIN tMap /\ tMap[c].torrent = t /\ tMap[c].handle = session[t]
      BY <1>1, <2>1 DEF Holds
    <3>2. Found(c)
      BY <3>1 DEF Found, Valid
    <3>3. CASE tMap' = tMap
      BY <1>1, <3>1, <3>3
    <3>4. CASE ~Found(i) /\ tMap' = Without(i)
      <4>1. c # i
        BY <3>2, <3>4
      <4> QED
        BY <1>1, <3>1, <3>4, <4>1 DEF Without
    <3> QED
      BY <1>1, <3>3, <3>4
  <2> QED
    BY <1>1, <2>1 DEF Holds, NoneOpen
<1>2. CASE DeleteTorrent(i) /\ Found(i)
  <2>1. /\ session' = [session EXCEPT ![tMap[i].torrent] = NoHandle]
        /\ tMap' = Without(i)
        /\ session \in [Torrents -> Ids \cup {NoHandle}]
    BY <1>2 DEF DeleteTorrent, TypeOK
  <2>2. ASSUME NEW t \in Torrents, session'[t] # NoHandle
        PROVE  c \in DOMAIN tMap' /\ tMap'[c].torrent = t /\ tMap'[c].handle = session'[t]
    <3>1. t # tMap[i].torrent /\ session'[t] = session[t]
      BY <2>1, <2>2
    <3>2. c \in DOMAIN tMap /\ tMap[c].torrent = t /\ tMap[c].handle = session[t]
      BY <2>2, <3>1 DEF Holds
    <3>3. c # i
      BY <3>1, <3>2
    <3> QED
      BY <2>1, <3>1, <3>2, <3>3 DEF Without
  <2>3. NoneOpen => NoneOpen'
    BY <2>1 DEF NoneOpen
  <2> QED
    BY <2>2, <2>3 DEF Holds
<1> QED
  BY <1>1, <1>2
     DEF GetAux, DeleteTorrent, CountPieces, libtorrent

(* Deleting what the main thread holds leaves nothing in the session.      *)
LEMMA DeleteEmpties ==
    ASSUME TypeOK, NEW i, Holds(i), DeleteTorrent(i)
    PROVE  NoneOpen'
<1>1. CASE Found(i)
  <2>1. /\ session' = [session EXCEPT ![tMap[i].torrent] = NoHandle]
        /\ session \in [Torrents -> Ids \cup {NoHandle}]
    BY <1>1 DEF DeleteTorrent, TypeOK
  <2> QED
    BY <2>1 DEF Holds, NoneOpen
<1>2. CASE ~Found(i)
  <2>1. session' = session
    BY <1>2 DEF DeleteTorrent
  <2>2. NoneOpen
    BY <1>2 DEF Holds, NoneOpen, Found, Valid
  <2> QED
    BY <2>1, <2>2 DEF NoneOpen
<1> QED
  BY <1>1, <1>2

(* The steps of the main thread keep it.                                   *)
LEMMA MainKeepsFilm ==
    ASSUME AppTypeOK, OneFilm, "overlap" \notin Races,
           MainSteps \/ Resume \/ OpenWeb \/ Close \/ RunReadyBlock
             \/ \E b \in Bodies : FetchComplete(b)
    PROVE  OneFilm'
<1> USE AppTypes
<1>1. CASE Resume \/ OpenWeb \/ \E b \in Bodies : FetchComplete(b)
  <2>1. /\ UNCHANGED <<session, tMap, tInfo>>
        /\ main.pc = "idle" /\ screen \in {"browse", "offer"}
        /\ \/ UNCHANGED main /\ screen' \in {"blank", "offer", "player"}
           \/ /\ main'.pc = "import"
              /\ screen' \in {"progress", "player"}
    BY <1>1 DEF Resume, OpenWeb, FetchComplete, Start, WithoutSite, Event, MainIdle, vars,
                libtorrent, engine, fields
  <2>2. NoneOpen
    BY <2>1 DEF OneFilm, NoOrphan, NoneOpen, MainIdle
  <2>3. Holds(Current)' /\ NoneOpen'
    BY <2>1, <2>2 DEF Holds, NoneOpen
  <2> QED
    BY <2>1, <2>3 DEF OneFilm, NoOrphan, NoneOpen, MainIdle
<1>2. CASE Close
  <2>1. /\ UNCHANGED <<session, tMap, tInfo>>
        /\ main.pc = "idle" /\ main'.pc = "cancel"
    BY <1>2 DEF Close, Event, MainIdle, vars, libtorrent, engine, fields
  <2> QED
    BY <2>1 DEF OneFilm, Current, Holds, NoOrphan, MainIdle
<1>3. CASE RunReadyBlock
  <2>1. /\ UNCHANGED <<session, tMap, tInfo, main>>
        /\ main.pc = "idle" /\ screen' = "player"
    BY <1>3 DEF RunReadyBlock, StoreReady, MainIdle, libtorrent, engine, fields
  <2> QED
    BY <2>1 DEF OneFilm, Current, Holds, NoOrphan, MainIdle
<1>4. CASE ImportCall
  <2>1. /\ UNCHANGED <<session, tMap, tInfo, screen>>
        /\ main.pc = "import" /\ main'.pc \in {"importing", "assign"}
    <3>1. UNCHANGED <<session, tMap>>
      BY <1>4 DEF ImportCall, ImportBegin, ImportRejected, vars, libtorrent, engine
    <3> QED
      BY <1>4, <3>1 DEF ImportCall, Returns, fields, ui
  <2>2. Holds(Current)' /\ NoneOpen'
    BY <2>1 DEF OneFilm, Holds, NoneOpen
  <2> QED
    BY <2>1, <2>2 DEF OneFilm, NoOrphan, MainIdle
<1>5. CASE ImportStep
  <2>1. main.pc = "importing" /\ UNCHANGED <<tInfo, screen>>
    BY <1>5 DEF ImportStep, fields, ui
  <2>2. NoneOpen /\ screen \in {"progress", "player"}
    BY <2>1 DEF OneFilm
  <2>3. CASE UNCHANGED <<session, tMap, main>>
    BY <2>1, <2>2, <2>3 DEF OneFilm, Holds, NoneOpen, NoOrphan, MainIdle
  <2>4. CASE ImportAddFails /\ Returns(NotAdded)
    <3>1. UNCHANGED <<session, tMap>> /\ main'.pc = "assign"
      BY <2>4 DEF ImportAddFails, Returns, libtorrent
    <3> QED
      BY <2>1, <2>2, <3>1 DEF OneFilm, Holds, NoneOpen, NoOrphan, MainIdle
  <2>5. CASE ImportAdd /\ Returns(nextId')
    <3>1. PICK t \in Torrents :
             /\ session' = [session EXCEPT ![t] = nextId + 1]
             /\ nextId' \in DOMAIN tMap'
             /\ tMap'[nextId'].torrent = t
             /\ tMap'[nextId'].handle = nextId + 1
      <4>1. importing.torrent \in Torrents
        <5>1. "add" \in Stages
          BY DEF Stages
        <5> QED
          BY <2>5, <5>1, StageOfImport DEF ImportAdd
      <4> QED
        BY <2>2, <2>5, <4>1 DEF ImportAdd, NoneOpen
    <3>2. session \in [Torrents -> Ids \cup {NoHandle}]
      BY DEF TypeOK
    <3>3. main'.pc = "assign" /\ main'.arg = nextId'
      BY <2>5 DEF Returns
    <3>4. \A u \in Torrents : session'[u] # NoHandle =>
             /\ nextId' \in DOMAIN tMap'
             /\ tMap'[nextId'].torrent = u
             /\ tMap'[nextId'].handle = session'[u]
      BY <2>2, <3>1, <3>2 DEF NoneOpen
    <3>5. Holds(Current)'
      BY <3>3, <3>4 DEF Holds, Current
    <3> QED
      BY <2>1, <2>2, <3>3, <3>5 DEF OneFilm, NoOrphan, MainIdle
  <2> QED
    BY <1>5, <2>3, <2>4, <2>5
       DEF ImportStep, ForgetSettings, ImportInfo, ImportMaxBlock, ImportPercent,
           ImportWrites, libtorrent
<1>6. CASE Assign
  <2>1. /\ UNCHANGED <<session, tMap, screen>>
        /\ main.pc = "assign" /\ tInfo' = main.arg
        /\ main'.pc \in {"idle", "reset"}
    BY <1>6 DEF Assign, AtRest, vars, libtorrent, engine, ui
  <2> QED
    BY <2>1 DEF OneFilm, Current, Holds, NoOrphan, MainIdle
<1>7. CASE Reset
  <2>1. /\ UNCHANGED <<session, tMap, tInfo, screen>>
        /\ main.pc = "reset" /\ main'.pc = "idle"
    BY <1>7 DEF Reset, AtRest, vars, libtorrent, engine, ui
  <2> QED
    BY <2>1 DEF OneFilm, Current, Holds, NoOrphan, MainIdle
<1>8. CASE Cancel
  <2>1. /\ main.pc = "cancel" /\ main'.pc = "idle"
        /\ DeleteTorrent(tInfo)
    BY <1>8 DEF Cancel, AtRest
  <2>2. NoneOpen'
    BY <2>1, DeleteEmpties DEF OneFilm, Current
  <2> QED
    BY <2>1, <2>2 DEF OneFilm, Holds, NoneOpen, NoOrphan, MainIdle
<1> QED
  BY <1>1, <1>2, <1>3, <1>4, <1>5, <1>6, <1>7, <1>8 DEF MainSteps

(* So do the ticks, however late they come.                                *)
LEMMA TickKeepsFilm ==
    ASSUME AppTypeOK, OneFilm, NEW w \in Workers, TimerFires(w) \/ Tick(w)
    PROVE  OneFilm'
<1> USE AppTypes
<1>1. UNCHANGED <<main, screen, tInfo>>
  BY TickEffect
<1>2. Holds(Current)' /\ (NoneOpen => NoneOpen')
  <2>1. CASE UNCHANGED <<session, tMap>>
    BY <1>1, <2>1 DEF OneFilm, Current, Holds, NoneOpen
  <2>2. CASE GetAux(tInfo) \/ DeleteTorrent(tInfo) \/ CountPieces(tInfo)
    <3>1. Holds(Current)
      BY DEF OneFilm
    <3>2. \A c : Holds(c) => Holds(c)' /\ (NoneOpen => NoneOpen')
      BY <2>2, LookUpKeepsHold
    <3>3. Current' = Current
      BY <1>1 DEF Current
    <3> QED
      BY <3>1, <3>2, <3>3 DEF Holds
  <2> QED
    BY <2>1, <2>2, TickEffect
<1> QED
  BY <1>1, <1>2 DEF OneFilm, NoneOpen, NoOrphan, MainIdle

(* It holds as long as no fetch completes while a film is on screen.       *)
LEMMA OneFilmHolds ==
    ASSUME "overlap" \notin Races
    PROVE  AppSpec => []OneFilm
<1>1. AppInit => OneFilm
  BY DEF AppInit, Init, OneFilm, Holds, NoneOpen, NoOrphan, AtRest
<1>2. AppTypeOK /\ OneFilm /\ [AppNext]_appVars => OneFilm'
  <2> SUFFICES ASSUME AppTypeOK, OneFilm, [AppNext]_appVars PROVE OneFilm'
    OBVIOUS
  <2>1. CASE AppStarts
    BY <2>1 DEF AppStarts, Dies, OneFilm, Holds, NoneOpen, NoOrphan, AtRest
  <2>2. CASE EngineRuns \/ UNCHANGED appVars
    <3>1. UNCHANGED <<session, tMap, main, screen, tInfo>>
      BY <2>2 DEF EngineRuns, Libtorrent, PieceChecked, PieceFinished, appVars, vars,
                  libtorrent, engine, fields, ui
    <3> QED
      BY <3>1 DEF OneFilm, Current, Holds, NoneOpen, NoOrphan, MainIdle
  <2> QED
    BY <1>1, <2>1, <2>2, MainKeepsFilm, TickKeepsFilm DEF AppNext, TickCrashes, Relaunch
<1> QED
  BY <1>1, <1>2, AppTypeCorrect, PTL DEF AppSpec

(* Nothing is downloaded behind the user's back, whatever tick is under    *)
(* way when a film is closed, as long as no fetch completes while another  *)
(* film is on screen (MainViewController.m 239-248, 422-426,               *)
(* Downloader.mm 201-208).                                                 *)
THEOREM NothingBehindTheBack ==
    ASSUME "overlap" \notin Races
    PROVE  AppSpec => []NoOrphan
<1>1. OneFilm => NoOrphan
  BY DEF OneFilm
<1> QED
  BY <1>1, OneFilmHolds, PTL

-----------------------------------------------------------------------------
(* What a tick does with its own step and with the main thread.            *)
LEMMA TickMoves ==
    ASSUME AppTypeOK, NEW w \in Workers, Tick(w)
    PROVE  /\ tick[w].pc # "none" /\ UNCHANGED main
           /\ \A v \in Workers : v # w => tick'[v] = tick[v]
<1>1. tick \in [Workers -> [pc : TickSteps, total : {0, NPieces},
                            max : NoCount .. NPieces - 1, aux : Ids \cup {0}]]
  BY AppTypes DEF ThreadsOK
<1>2. tick[w].pc # "none" /\ UNCHANGED main
  BY DEF Tick, TickPops, TickHandles, TickReachesLock, TickLocks, TickReadsInfo,
         TickScans,
         TickStores, TickKeepsPercent, TickFindsAux, TickTestsReady, TickPosts, TickSyncs,
         TickStops, At
<1>3. \A v \in Workers : v # w => tick'[v] = tick[v]
  BY <1>1 DEF Tick, TickPops, TickHandles, TickReachesLock, TickLocks, TickReadsInfo,
              TickScans,
         TickStores, TickKeepsPercent, TickFindsAux, TickTestsReady, TickPosts, TickSyncs,
         TickStops, Goto
<1> QED
  BY <1>2, <1>3

(* A tick that needs the lock has it, with any races and faults.           *)
Inside == {"info", "scan", "store", "percent", "aux", "ready", "post", "sync", "stop"}

LockHeld == \A w \in Workers : lock = w <=> tick[w].pc \in Inside

(* Every step leaves the lock with the tick that took it.                  *)
LEMMA LockHeldStep ==
    ASSUME AppTypeOK, LockHeld, [AppNext]_appVars
    PROVE  LockHeld'
<1>1. tick \in [Workers -> [pc : TickSteps, total : {0, NPieces},
                            max : NoCount .. NPieces - 1, aux : Ids \cup {0}]]
  BY AppTypes DEF ThreadsOK
<1>2. ASSUME NEW w \in Workers, TimerFires(w) \/ Tick(w) PROVE LockHeld'
  <2>1. CASE TimerFires(w) \/ TickPops(w) \/ TickHandles(w) \/ TickReachesLock(w)
    BY <1>1, <2>1 DEF TimerFires, TickPops, TickHandles, TickReachesLock, At, Goto,
                      LockHeld, Inside
  <2>2. CASE TickLocks(w) \/ TickStops(w)
    BY <1>1, <2>2 DEF TickLocks, TickStops, At, Goto, LockHeld, Inside, NoTick
  <2>3. CASE \/ TickReadsInfo(w) \/ TickScans(w) \/ TickStores(w) \/ TickFindsAux(w)
             \/ TickTestsReady(w)
    BY <1>1, <2>3 DEF TickReadsInfo, TickScans, TickStores, TickFindsAux, TickTestsReady,
                      At, LockHeld, Inside, fields, ui
  <2>4. CASE TickKeepsPercent(w) \/ TickPosts(w) \/ TickSyncs(w)
    BY <1>1, <2>4 DEF TickKeepsPercent, TickPosts, TickSyncs, At, Goto, LockHeld, Inside
  <2> QED
    BY <1>2, <2>1, <2>2, <2>3, <2>4 DEF Tick
<1>3. CASE AppStarts
  BY <1>3 DEF AppStarts, NoTick, LockHeld, Inside
<1>4. CASE \/ Resume \/ OpenWeb \/ Close \/ MainSteps \/ RunReadyBlock \/ EngineRuns
           \/ UNCHANGED appVars \/ \E b \in Bodies : FetchComplete(b)
  <2>1. UNCHANGED <<lock, tick>>
    BY <1>4 DEF Resume, OpenWeb, Close, MainSteps, ImportCall, ImportStep, Assign, Reset, Cancel,
                RunReadyBlock, EngineRuns, FetchComplete, appVars
  <2> QED
    BY <2>1 DEF LockHeld
<1> QED
  BY <1>2, <1>3, <1>4 DEF AppNext, TickCrashes, Relaunch

(* Closing a film that waits for a tick which waits for the main thread    *)
(* never returns: only the death of the process ends it, whatever ticks    *)
(* and alerts go on meanwhile (VDLPlaybackViewController.m 82-89,          *)
(* Downloader.mm 181, 201-208).                                            *)
THEOREM HungForGood == AppSpec => [][Hung => Hung' \/ AppStarts]_appVars
<1>1. ASSUME AppTypeOK, LockHeld, [AppNext]_appVars, Hung PROVE Hung' \/ AppStarts
  <2>1. PICK w \in Workers : main.pc = "cancel" /\ tick[w].pc = "sync"
    BY <1>1 DEF Hung, At
  <2>2. lock # Free /\ ~MainIdle
    BY <1>1, <2>1 DEF LockHeld, Inside, MainIdle
  <2>3. CASE Resume \/ OpenWeb \/ Close \/ RunReadyBlock \/ \E b \in Bodies : FetchComplete(b)
    BY <2>2, <2>3 DEF Resume, OpenWeb, Close, RunReadyBlock, FetchComplete, Event
  <2>4. CASE MainSteps
    BY <2>1, <2>2, <2>4 DEF MainSteps, ImportCall, ImportStep, Assign, Reset, Cancel
  <2>5. ASSUME NEW v \in Workers, TimerFires(v) PROVE Hung'
    BY <2>2, <2>5 DEF TimerFires
  <2>6. ASSUME NEW v \in Workers, Tick(v) PROVE Hung'
    <3>1. v # w
      BY <2>1, <2>2, <2>6 DEF Tick, TickPops, TickHandles, TickReachesLock, TickLocks,
            TickReadsInfo, TickScans,
         TickStores, TickKeepsPercent, TickFindsAux, TickTestsReady, TickPosts, TickSyncs,
         TickStops, At
    <3> QED
      BY <1>1, <2>1, <2>6, <3>1, TickMoves DEF Hung, At
  <2>7. CASE EngineRuns \/ UNCHANGED appVars
    BY <1>1, <2>7 DEF EngineRuns, appVars, Hung, At
  <2> QED
    BY <1>1, <2>3, <2>4, <2>5, <2>6, <2>7 DEF AppNext, TickCrashes, Relaunch
<1>2. AppInit => LockHeld
  BY DEF AppInit, LockHeld, NoTick, Inside
<1>3. AppTypeOK /\ LockHeld /\ [AppNext]_appVars =>
        LockHeld' /\ [Hung => Hung' \/ AppStarts]_appVars
  BY <1>1, LockHeldStep
<1> QED
  BY <1>2, <1>3, AppTypeCorrect, PTL DEF AppSpec

-----------------------------------------------------------------------------
(* The main thread does nothing that takes several steps beside a tick.    *)
Waits == ~MainIdle => NoTickUnderWay

(* So it is as long as the user acts between two ticks, and fetches end    *)
(* between two ticks.                                                      *)
LEMMA WaitsHolds ==
    ASSUME "lateTick" \notin Races
    PROVE  AppSpec => []Waits
<1>1. AppInit => Waits
  BY DEF AppInit, Waits, AtRest, MainIdle
<1>2. ASSUME AppTypeOK, Waits, [AppNext]_appVars PROVE Waits'
  <2>1. CASE Resume \/ OpenWeb \/ Close \/ \E b \in Bodies : FetchComplete(b)
    <3>1. NoTickUnderWay /\ UNCHANGED tick
      BY <2>1 DEF Resume, OpenWeb, Close, FetchComplete, Event
    <3> QED
      BY <3>1 DEF Waits, NoTickUnderWay
  <2>2. CASE MainSteps
    <3>1. ~MainIdle /\ UNCHANGED tick
      BY <2>2 DEF MainSteps, ImportCall, ImportStep, Assign, Reset, Cancel, MainIdle
    <3> QED
      BY <1>2, <3>1 DEF Waits, NoTickUnderWay
  <2>3. ASSUME NEW w \in Workers, TimerFires(w) \/ Tick(w) PROVE Waits'
    <3>1. MainIdle /\ UNCHANGED main
      BY <1>2, <2>3, TickMoves DEF Waits, TimerFires, NoTickUnderWay
    <3> QED
      BY <3>1 DEF Waits, MainIdle
  <2>4. CASE AppStarts
    BY <2>4 DEF AppStarts, AtRest, Waits, MainIdle
  <2>5. CASE RunReadyBlock \/ EngineRuns \/ UNCHANGED appVars
    BY <1>2, <2>5 DEF RunReadyBlock, EngineRuns, appVars, Waits, MainIdle, NoTickUnderWay
  <2> QED
    BY <1>2, <2>1, <2>2, <2>3, <2>4, <2>5 DEF AppNext, TickCrashes, Relaunch
<1> QED
  BY <1>1, <1>2, AppTypeCorrect, PTL DEF AppSpec

-----------------------------------------------------------------------------
(* The engine is in the middle of an import as long as the main thread is. *)
ImportRuns == main.pc = "importing" <=> importing # Idle

(* Both begin it and end it in the same step.                              *)
LEMMA ImportRunsStep ==
    ASSUME AppTypeOK, ImportRuns, [AppNext]_appVars
    PROVE  ImportRuns'
<1> USE AppTypes DEF ImportRuns
<1>1. CASE ImportCall
  <2>1. CASE main.arg \in Torrents /\ ImportBegin(main.arg)
             /\ main' = [pc |-> "importing", arg |-> 0]
    BY <2>1, BeginIsNotIdle
  <2>2. CASE ImportRejected /\ Returns(NotATorrent)
    BY <1>1, <2>2 DEF ImportCall, ImportRejected, Returns
  <2>3. CASE UNCHANGED vars /\ Returns(0)
    BY <1>1, <2>3 DEF ImportCall, Returns, vars, engine
  <2> QED
    BY <1>1, <2>1, <2>2, <2>3 DEF ImportCall
<1>2. CASE ImportStep
  <2>1. CASE ImportAdd /\ Returns(nextId')
    BY <2>1 DEF ImportAdd, Returns
  <2>2. CASE ImportAddFails /\ Returns(NotAdded)
    BY <2>2 DEF ImportAddFails, Returns
  <2>3. CASE /\ ForgetSettings \/ ImportInfo \/ ImportMaxBlock \/ ImportPercent
             /\ UNCHANGED main
    <3>1. importing \in Importing /\ Idle.stage = "idle" /\ importing.stage # "idle"
      BY <2>3 DEF TypeOK, Idle, ForgetSettings, ImportInfo, ImportMaxBlock, ImportPercent,
                  Stage
    <3>2. importing \in [torrent : Torrents, stage : Stages]
      BY <3>1 DEF Importing
    <3>3. importing'.stage # "idle"
      BY <2>3, <3>2 DEF ForgetSettings, ImportInfo, ImportMaxBlock, ImportPercent,
                        ImportWrites
    <3> QED
      BY <1>2, <2>3, <3>1, <3>3 DEF ImportStep
  <2> QED
    BY <1>2, <2>1, <2>2, <2>3 DEF ImportStep
<1>3. CASE Assign \/ Reset \/ Cancel
  BY <1>3 DEF Assign, Reset, Cancel, DeleteTorrent, AtRest, vars, engine
<1>4. CASE \/ Resume \/ OpenWeb \/ Close \/ RunReadyBlock
           \/ \E b \in Bodies : FetchComplete(b)
  BY <1>4 DEF Resume, OpenWeb, Close, RunReadyBlock, FetchComplete, Start, Event, MainIdle,
              StoreReady, vars, engine
<1>5. ASSUME NEW w \in Workers, TimerFires(w) \/ Tick(w) PROVE ImportRuns'
  BY <1>5, TickEffect
<1>6. CASE AppStarts
  BY <1>6 DEF AppStarts, Dies, AtRest
<1>7. CASE EngineRuns \/ UNCHANGED appVars
  BY <1>7 DEF EngineRuns, Libtorrent, PieceChecked, PieceFinished, appVars, vars, engine
<1> QED
  BY <1>1, <1>2, <1>3, <1>4, <1>5, <1>6, <1>7 DEF AppNext, MainSteps, TickCrashes, Relaunch

(* So it is with any races and faults.                                     *)
LEMMA ImportRunsHolds == AppSpec => []ImportRuns
<1>1. AppInit => ImportRuns
  BY DEF AppInit, Init, ImportRuns, AtRest
<1> QED
  BY <1>1, ImportRunsStep, AppTypeCorrect, PTL DEF AppSpec

(* The app uses the engine as Streamerok lets any caller use it, however   *)
(* fetches overlap; a tick under way when a film was closed can crash in   *)
(* the middle of an import, where the process must be one that may die     *)
(* (Downloader.mm 64-87, 108-191, 201-208).                                *)
THEOREM AppRefinesEngine ==
    ASSUME "killMidImport" \in Faults \/ "lateTick" \notin Races
    PROVE  AppSpec => EngineSpec
<1>1. AppInit => Init
  BY DEF AppInit
<1>2. CASE "killMidImport" \in Faults
  <2>1. AppTypeOK /\ [AppNext]_appVars => [Next]_vars
    BY <1>2, StepOfEngine DEF Next, Restart, MayDie
  <2> QED
    BY <1>1, <2>1, AppTypeCorrect, PTL DEF AppSpec, Spec, EngineSpec
<1>3. CASE "lateTick" \notin Races
  <2>1. ASSUME AppTypeOK, Waits, ImportRuns, [AppNext]_appVars PROVE [Next]_vars
    <3>1. CASE \E w \in Workers : TickCrashes(w)
      <4>1. importing = Idle
        BY <2>1, <3>1 DEF TickCrashes, UsesNull, At, NoTickUnderWay, Waits, MainIdle,
                          ImportRuns
      <4> QED
        BY <3>1, <4>1 DEF TickCrashes, AppStarts, Next, Restart, MayDie
    <3>2. CASE ~\E w \in Workers : TickCrashes(w)
      BY <2>1, <3>2, StepOfEngine
    <3> QED
      BY <3>1, <3>2
  <2>2. AppTypeOK /\ Waits /\ ImportRuns /\ [AppNext]_appVars => [Next]_vars
    BY <2>1
  <2>3. AppSpec => []Waits
    BY <1>3, WaitsHolds
  <2> QED
    BY <1>1, <2>2, <2>3, ImportRunsHolds, AppTypeCorrect, PTL
       DEF AppSpec, Spec, EngineSpec
<1> QED
  BY <1>2, <1>3

(* In the app no download that has begun runs dry                          *)
(* (streamerok.cpp 91-99, 106-125, 581-595).                               *)
THEOREM AppNeverRunsDry ==
    ASSUME "killMidImport" \in Faults \/ "lateTick" \notin Races
    PROVE  AppSpec => []NeverRunsDry
BY AppRefinesEngine, DownloadsGoOn, PTL DEF EngineSpec

(* In the app films arrive in the order they are watched, and of no film   *)
(* but those asked for (Downloader.mm 64-87, 201-208,                      *)
(* streamerok.cpp 84-125, 275-310, 581-658).                               *)
THEOREM AppDelivers ==
    ASSUME "killMidImport" \in Faults \/ "lateTick" \notin Races
    PROVE  AppSpec => DeliverySpec
BY AppRefinesEngine, EngineDelivers, PTL DEF EngineSpec

-----------------------------------------------------------------------------
(* The map of the engine is in order in the app.                           *)
LEMMA AppKeepsBooks ==
    ASSUME "lateTick" \notin Races
    PROVE  AppSpec => []Bookkeeping
BY AppRefinesEngine, BooksAreKept, PTL DEF EngineSpec

(* What makes ActiveHasTorrent inductive when ticks end before the user    *)
(* acts: what an import returns is there when the timer is made, and as    *)
(* long as it runs.                                                        *)
Engaged ==
    /\ main.pc = "assign" /\ main.arg > 0 => Found(main.arg)
    /\ (timer \/ main.pc = "reset") /\ tInfo > 0 => Found(tInfo)

(* A torrent is found as long as the engine's map and session stay.        *)
LEMMA StaysFound ==
    ASSUME NEW i, UNCHANGED <<session, tMap>>
    PROVE  Found(i)' <=> Found(i)
BY DEF Found, Valid

(* An import that ends has made an entry to be found, and loses none.      *)
FoundNext(i) ==
    /\ i \in DOMAIN tMap'
    /\ session'[tMap'[i].torrent] = tMap'[i].handle

LEMMA FoundAfter ==
    ASSUME NEW i
    PROVE  FoundNext(i) => Found(i)'
BY DEF FoundNext, Found, Valid

LEMMA AddFinds ==
    ASSUME TypeOK, Bookkeeping, ImportAdd
    PROVE  /\ FoundNext(nextId + 1) /\ nextId' = nextId + 1
           /\ \A i : Found(i) => FoundNext(i) /\ tMap'[i] = tMap[i]
<1> DEFINE t == importing.torrent
           id == nextId + 1
<1>1. /\ id \in Ids \ DOMAIN tMap
      /\ DOMAIN tMap' = DOMAIN tMap \cup {id}
      /\ \A i \in DOMAIN tMap : tMap'[i] = tMap[i]
      /\ tMap'[id].torrent = t /\ tMap'[id].handle = session'[t]
      /\ session'[t] = IF session[t] = NoHandle THEN id ELSE session[t]
      /\ \A u \in Torrents \ {t} : session'[u] = session[u]
      /\ nextId' = id
  <2>1. tMap'[id] = [torrent |-> t, handle |-> session'[t], fileFirstPiece |-> FirstPiece]
    BY AddedEntry
  <2>2. /\ id \in Ids \ DOMAIN tMap
        /\ DOMAIN tMap' = DOMAIN tMap \cup {id}
        /\ \A i \in DOMAIN tMap : tMap'[i] = tMap[i]
    BY AddEffect
  <2>3. /\ session'[t] = IF session[t] = NoHandle THEN id ELSE session[t]
        /\ \A u \in Torrents \ {t} : session'[u] = session[u]
        /\ nextId' = id
    BY AddEffect
  <2> QED
    BY <2>1, <2>2, <2>3
<1> HIDE DEF t, id
<1>2. FoundNext(id)
  BY <1>1 DEF FoundNext
<1>3. ASSUME NEW i, Found(i) PROVE FoundNext(i) /\ tMap'[i] = tMap[i]
  <2>1. i \in DOMAIN tMap /\ session[tMap[i].torrent] = tMap[i].handle
    BY <1>3 DEF Found, Valid
  <2>2. tMap[i].torrent \in Torrents /\ tMap[i].handle # NoHandle
    BY <2>1, EntryType
  <2>3. session'[tMap[i].torrent] = tMap[i].handle
    BY <1>1, <2>1, <2>2
  <2> QED
    BY <1>1, <2>1, <2>3 DEF FoundNext
<1> QED
  BY <1>1, <1>2, <1>3 DEF id

(* The steps of the main thread keep the timer and its torrent together.   *)
LEMMA MainKeepsTimer ==
    ASSUME AppTypeOK, Bookkeeping, Engaged,
           MainSteps \/ Resume \/ OpenWeb \/ Close \/ RunReadyBlock
             \/ \E b \in Bodies : FetchComplete(b)
    PROVE  Engaged'
<1>1. CASE \/ Resume \/ OpenWeb \/ Close \/ RunReadyBlock
           \/ \E b \in Bodies : FetchComplete(b)
  <2>1. /\ UNCHANGED <<session, tMap, tInfo, timer>>
        /\ main'.pc \in {"idle", "import", "cancel"}
    BY <1>1 DEF Resume, OpenWeb, Close, RunReadyBlock, StoreReady, FetchComplete, Start,
                Event, MainIdle, vars, libtorrent, engine, fields
  <2> QED
    BY <2>1, StaysFound DEF Engaged
<1>2. CASE ImportCall
  <2>1. /\ UNCHANGED <<session, tMap, tInfo, timer>>
    BY <1>2 DEF ImportCall, ImportBegin, ImportRejected, vars, libtorrent, engine, fields
  <2>2. main'.pc = "importing" \/ (main'.pc = "assign" /\ ~(main'.arg > 0))
    BY <1>2 DEF ImportCall, Returns, NotATorrent
  <2> QED
    BY <2>1, <2>2, StaysFound DEF Engaged
<1>3. CASE ImportStep
  <2>1. main.pc = "importing" /\ UNCHANGED <<tInfo, timer>>
    BY <1>3 DEF ImportStep, fields
  <2>2. CASE UNCHANGED <<session, tMap, main>>
    BY <2>1, <2>2, StaysFound DEF Engaged
  <2>3. CASE ImportAddFails /\ Returns(NotAdded)
    BY <2>1, <2>3, StaysFound DEF ImportAddFails, Returns, NotAdded, libtorrent, Engaged
  <2>4. CASE ImportAdd /\ Returns(nextId')
    <3>1. main'.pc = "assign" /\ main'.arg = nextId'
      BY <2>4 DEF Returns
    <3>2. /\ FoundNext(nextId + 1) /\ nextId' = nextId + 1
          /\ Found(tInfo) => FoundNext(tInfo)
      BY <2>4, AddFinds, AppTypes
    <3>3. FoundNext(main'.arg) /\ (Found(tInfo) => FoundNext(tInfo'))
      BY <2>1, <3>1, <3>2
    <3> QED
      BY <2>1, <3>1, <3>3 DEF Engaged, FoundNext, Found, Valid
  <2> QED
    BY <1>3, <2>2, <2>3, <2>4
       DEF ImportStep, ForgetSettings, ImportInfo, ImportMaxBlock, ImportPercent,
           ImportWrites, libtorrent
<1>4. CASE Assign
  <2>1. /\ UNCHANGED <<session, tMap>>
        /\ main.pc = "assign" /\ tInfo' = main.arg
        /\ main'.pc \in {"idle", "reset"}
    BY <1>4 DEF Assign, AtRest, vars, libtorrent, engine
  <2> QED
    BY <2>1 DEF Engaged, Found, Valid
<1>5. CASE Reset
  <2>1. /\ UNCHANGED <<session, tMap, tInfo>>
        /\ main.pc = "reset" /\ main'.pc = "idle"
    BY <1>5 DEF Reset, AtRest, vars, libtorrent, engine
  <2> QED
    BY <2>1, StaysFound DEF Engaged
<1>6. CASE Cancel
  BY <1>6 DEF Cancel, AtRest, Engaged
<1> QED
  BY <1>1, <1>2, <1>3, <1>4, <1>5, <1>6 DEF MainSteps

(* A tick runs while the main thread rests.                                *)
LEMMA TickWhileIdle ==
    ASSUME AppTypeOK, Waits, NEW w \in Workers, TimerFires(w) \/ Tick(w)
    PROVE  MainIdle /\ main' = main
BY TickMoves, TickEffect DEF Waits, TimerFires, NoTickUnderWay

(* So do the ticks: the one that deletes the torrent stops the timer.      *)
LEMMA TickKeepsTimer ==
    ASSUME AppTypeOK, Waits, Engaged, NEW w \in Workers, TimerFires(w) \/ Tick(w)
    PROVE  Engaged'
<1>1. main' = main /\ main.pc = "idle" /\ tInfo' = tInfo
  BY TickWhileIdle, TickEffect DEF MainIdle
<1>2. \/ ~timer'
      \/ timer' = timer /\ (Found(tInfo) => Found(tInfo)')
  <2>1. CASE UNCHANGED <<session, tMap, timer>>
    BY <1>1, <2>1 DEF Found, Valid
  <2>2. CASE (GetAux(tInfo) \/ CountPieces(tInfo)) /\ UNCHANGED timer
    BY <1>1, <2>2 DEF GetAux, CountPieces, Found, Valid, libtorrent
  <2> QED
    BY <2>1, <2>2, TickEffect
<1> QED
  BY <1>1, <1>2 DEF Engaged

(* It holds as long as the ticks end before the user acts.                 *)
LEMMA EngagedHolds ==
    ASSUME "lateTick" \notin Races
    PROVE  AppSpec => []Engaged
<1>1. AppInit => Engaged
  BY DEF AppInit, Engaged, AtRest
<1>2. AppTypeOK /\ Bookkeeping /\ Waits /\ Engaged /\ [AppNext]_appVars => Engaged'
  <2> SUFFICES ASSUME AppTypeOK, Bookkeeping, Waits, Engaged, [AppNext]_appVars
               PROVE  Engaged'
    OBVIOUS
  <2>1. CASE AppStarts
    BY <2>1 DEF AppStarts, AtRest, Engaged
  <2>2. CASE EngineRuns \/ UNCHANGED appVars
    <3>1. UNCHANGED <<session, tMap, main, tInfo, timer>>
      BY <2>2 DEF EngineRuns, Libtorrent, PieceChecked, PieceFinished, appVars, vars,
                  libtorrent, engine, fields
    <3> QED
      BY <3>1 DEF Engaged, Found, Valid
  <2> QED
    BY <2>1, <2>2, MainKeepsTimer, TickKeepsTimer DEF AppNext, TickCrashes, Relaunch
<1>3. (AppSpec => []Bookkeeping) /\ (AppSpec => []Waits)
  BY AppKeepsBooks, WaitsHolds
<1> QED
  BY <1>1, <1>2, <1>3, AppTypeCorrect, PTL DEF AppSpec

(* While the timer runs for a torrent, the torrent is there, also when a   *)
(* fetch completes while a film is on screen and its import is refused,    *)
(* begins the same film again or fails, as long as the ticks end before    *)
(* the user acts (Downloader.mm 64-84, 184-189, 201-208).                  *)
THEOREM TimerHasTorrent ==
    ASSUME "lateTick" \notin Races
    PROVE  AppSpec => []ActiveHasTorrent
<1>1. Engaged => ActiveHasTorrent
  BY DEF Engaged, ActiveHasTorrent
<1> QED
  BY <1>1, EngagedHolds, PTL


-----------------------------------------------------------------------------
(* What makes PercentIsReal inductive.  Of the torrent the ticks ask       *)
(* about, the pieces up to the count the next scan starts from are there;  *)
(* while another is added nothing has been counted.                        *)
Film == tMap[tInfo].torrent

Adds == main.pc = "importing" \/ (main.pc = "assign" /\ main.arg > 0)

Counted ==
    /\ Adds => maxCount = NoCount
    /\ Found(tInfo) => HasPrefix(have[Film], maxCount)

(* So are those of the percentage, and of the one a tick has computed; the *)
(* percentage of the film before is gone when the timer is made.           *)
Ticking == timer /\ tInfo > 0 /\ main.pc # "reset"

TicksCount ==
    Ticking =>
        /\ percent <= NPieces /\ HasPrefix(have[Film], percent - 1)
        /\ \A w \in Workers :
              /\ tick[w].pc \in {"scan", "store", "percent"} => tick[w].total = NPieces
              /\ tick[w].pc = "percent" => HasPrefix(have[Film], tick[w].max)

(* The film has kept its pieces, or is gone.                               *)
FilmStays ==
    /\ tInfo' = tInfo
    /\ FoundNext(tInfo) =>
          Found(tInfo) /\ tMap'[tInfo] = tMap[tInfo] /\ have[Film] \subseteq have'[Film]

(* What is found is what was found, in the primed state too.               *)
LEMMA FoundThen ==
    ASSUME tInfo' = tInfo
    PROVE  FoundNext(tInfo) <=> Found(tInfo)'
BY DEF FoundNext, Found, Valid

(* So it is when the film is looked up or deleted, and when pieces arrive. *)
LEMMA LookUpKeepsPieces ==
    ASSUME tInfo' = tInfo,
           GetAux(tInfo) \/ CountPieces(tInfo) \/ DeleteTorrent(tInfo)
    PROVE  FilmStays
<1>1. CASE UNCHANGED <<session, have, tMap>>
  BY <1>1 DEF FilmStays, FoundNext, Found, Valid
<1>2. CASE tMap' = Without(tInfo)
  BY <1>2 DEF FilmStays, FoundNext, Without
<1>3. CASE Found(tInfo) /\ (GetAux(tInfo) \/ CountPieces(tInfo))
  BY <1>1, <1>3 DEF GetAux, CountPieces, libtorrent
<1> QED
  BY <1>1, <1>2, <1>3 DEF GetAux, CountPieces, DeleteTorrent, libtorrent

(* What was counted stays counted.                                         *)
LEMMA CountStays ==
    ASSUME FilmStays, Counted, maxCount' = maxCount, Adds' => Adds
    PROVE  Counted'
<1>1. ASSUME FoundNext(tInfo) PROVE HasPrefix(have'[tMap'[tInfo'].torrent], maxCount')
  <2>1. HasPrefix(have[Film], maxCount) /\ have[Film] \subseteq have'[Film]
        /\ tMap'[tInfo'].torrent = Film
    BY <1>1 DEF FilmStays, Counted, Film
  <2> QED
    BY <2>1 DEF HasPrefix
<1>2. Found(tInfo)' => FoundNext(tInfo)
  BY FoundThen DEF FilmStays
<1> QED
  BY <1>1, <1>2 DEF Counted, Film

LEMMA TicksStay ==
    ASSUME FilmStays, Engaged', TicksCount, Ticking' => Ticking, percent' = percent,
           \A w \in Workers :
              /\ tick'[w].pc \in {"scan", "store", "percent"} /\ Ticking
                    => tick'[w].total = NPieces
              /\ tick'[w].pc = "percent" /\ Ticking /\ Found(tInfo)
                    => HasPrefix(have[Film], tick'[w].max)
    PROVE  TicksCount'
<1> SUFFICES ASSUME Ticking' PROVE TicksCount'
  BY DEF TicksCount
<1>1. FoundNext(tInfo)
  BY FoundThen DEF FilmStays, Engaged, Ticking
<1>2. /\ Found(tInfo) /\ have[Film] \subseteq have'[Film]
      /\ Film' = Film
  BY <1>1 DEF FilmStays, Film
<1>3. percent' <= NPieces /\ HasPrefix(have'[Film'], percent' - 1)
  BY <1>2 DEF TicksCount, HasPrefix
<1>4. ASSUME NEW w \in Workers
      PROVE  /\ tick'[w].pc \in {"scan", "store", "percent"} => tick'[w].total = NPieces
             /\ tick'[w].pc = "percent" => HasPrefix(have'[Film'], tick'[w].max)
  BY <1>2, <1>4 DEF HasPrefix
<1> QED
  BY <1>3, <1>4 DEF TicksCount

(* The steps of the main thread count nothing.                             *)
LEMMA MainKeepsCount ==
    ASSUME AppTypeOK, Bookkeeping, Waits, Engaged, Engaged', Counted, TicksCount,
           MainSteps \/ Resume \/ OpenWeb \/ Close \/ RunReadyBlock
             \/ \E b \in Bodies : FetchComplete(b)
    PROVE  Counted' /\ TicksCount'
<1>1. CASE \/ Resume \/ OpenWeb \/ Close \/ RunReadyBlock
           \/ \E b \in Bodies : FetchComplete(b)
  <2>1. /\ UNCHANGED <<session, have, tMap, maxCount, tInfo, percent, timer, tick>>
        /\ main.pc = "idle" /\ main'.pc \in {"idle", "import", "cancel"}
    BY <1>1 DEF Resume, OpenWeb, Close, RunReadyBlock, StoreReady, FetchComplete, Start,
                Event, MainIdle, vars, libtorrent, engine, fields
  <2> QED
    BY <2>1 DEF Counted, Adds, TicksCount, Ticking, Film, Found, Valid
<1>2. CASE ImportCall
  <2>1. /\ UNCHANGED <<session, have, tMap, tInfo, percent, timer, tick>>
        /\ main.pc = "import"
    BY <1>2 DEF ImportCall, ImportBegin, ImportRejected, vars, libtorrent, engine, fields
  <2>2. \/ maxCount' = NoCount
        \/ maxCount' = maxCount /\ ~Adds'
    <3>1. CASE ImportBegin(main.arg) \/ ImportRejected
      BY <3>1 DEF ImportBegin, ImportRejected
    <3>2. CASE main' = [pc |-> "assign", arg |-> 0] /\ UNCHANGED vars
      BY <3>2 DEF Adds, vars, engine
    <3> QED
      BY <1>2, <3>1, <3>2 DEF ImportCall, Returns
  <2>3. Counted'
    BY <2>1, <2>2 DEF Counted, Film, Found, Valid, HasPrefix, NoCount
  <2> QED
    BY <2>1, <2>3 DEF TicksCount, Ticking, Film
<1>3. CASE ImportStep
  <2>1. /\ UNCHANGED <<have, tInfo, percent, timer, tick, maxCount>>
        /\ main.pc = "importing"
    BY <1>3 DEF ImportStep, ForgetSettings, ImportInfo, ImportMaxBlock, ImportPercent,
                ImportWrites, ImportAdd, ImportAddFails, libtorrent, fields
  <2>2. maxCount' = NoCount
    BY <2>1 DEF Counted, Adds
  <2>3. Counted'
    BY <2>2 DEF Counted, HasPrefix, NoCount
  <2>4. Found(tInfo) => tMap'[tInfo] = tMap[tInfo]
    <3>1. CASE tMap' = tMap
      BY <3>1
    <3>2. CASE ImportAdd
      BY <3>2, AppTypes, AddFinds
    <3> QED
      BY <1>3, <3>1, <3>2 DEF ImportStep, ForgetSettings, ImportInfo, ImportMaxBlock,
                              ImportPercent, ImportWrites, ImportAddFails
  <2>5. Ticking => Found(tInfo)
    BY DEF Engaged, Ticking
  <2> QED
    BY <2>1, <2>3, <2>4, <2>5 DEF TicksCount, Ticking, Film
<1>4. CASE Assign
  <2>1. /\ UNCHANGED <<session, have, tMap, maxCount>>
        /\ main.pc = "assign" /\ tInfo' = main.arg
        /\ IF main.arg < 0 THEN main'.pc = "idle" ELSE main'.pc = "reset"
    BY <1>4 DEF Assign, AtRest, vars, libtorrent, engine
  <2>2. ~Ticking' /\ ~Adds'
    <3>1. main.arg \in Results
      BY <2>1, AppTypes DEF ThreadsOK, MainStates
    <3> QED
      BY <2>1, <3>1 DEF Ticking, Adds, Results, Ids, NotATorrent, NotAdded
  <2>3. Found(tInfo)' => maxCount' = NoCount
    <3>1. Found(tInfo)' => tInfo' \in Ids
      BY <2>1, AppTypes DEF Found, TypeOK
    <3> QED
      BY <2>1, <3>1 DEF Counted, Adds, Ids
  <2>4. Counted'
    BY <2>2, <2>3 DEF Counted, HasPrefix, NoCount
  <2> QED
    BY <2>2, <2>4 DEF TicksCount
<1>5. CASE Reset
  <2>1. /\ UNCHANGED <<session, have, tMap, maxCount, tInfo, tick>>
        /\ percent' = Unset /\ main.pc = "reset" /\ main'.pc = "idle"
    BY <1>5 DEF Reset, AtRest, vars, libtorrent, engine
  <2>2. \A w \in Workers : tick[w].pc = "none"
    BY <2>1 DEF Waits, MainIdle, NoTickUnderWay
  <2>3. Counted'
    BY <2>1 DEF Counted, Adds, Film, Found, Valid
  <2>4. TicksCount'
    BY <2>1, <2>2 DEF TicksCount, HasPrefix, Unset
  <2> QED
    BY <2>3, <2>4
<1>6. CASE Cancel
  <2>1. FilmStays
    BY <1>6, LookUpKeepsPieces DEF Cancel
  <2>2. maxCount' = maxCount /\ ~Adds' /\ ~Ticking'
    BY <1>6 DEF Cancel, DeleteTorrent, AtRest, Adds, Ticking
  <2> QED
    BY <2>1, <2>2, CountStays DEF TicksCount
<1> QED
  BY <1>1, <1>2, <1>3, <1>4, <1>5, <1>6 DEF MainSteps

(* A tick counts what is there.                                            *)
LEMMA TickKeepsCount ==
    ASSUME AppTypeOK, Waits, Engaged, Engaged', Counted, TicksCount,
           NEW w \in Workers, TimerFires(w) \/ Tick(w)
    PROVE  Counted' /\ TicksCount'
<1>1. main' = main /\ main.pc = "idle" /\ tInfo' = tInfo
  BY TickWhileIdle, TickEffect DEF MainIdle
<1>2. FilmStays /\ (timer' => timer)
  <2>1. CASE UNCHANGED <<session, have, tMap, timer>>
    BY <1>1, <2>1 DEF FilmStays, FoundNext, Found, Valid
  <2> QED
    BY <1>1, <2>1, LookUpKeepsPieces, TickEffect
<1>3. (Ticking' => Ticking) /\ ~Adds /\ ~Adds' /\ (Ticking => Found(tInfo))
  BY <1>1, <1>2 DEF Ticking, Adds, Engaged
<1>4. tick \in [Workers -> [pc : TickSteps, total : {0, NPieces},
                            max : NoCount .. NPieces - 1, aux : Ids \cup {0}]]
  BY AppTypes DEF ThreadsOK
<1>5. \A v \in Workers : v # w => tick'[v] = tick[v]
  BY <1>4, TickMoves DEF TimerFires, Goto
<1>6. maxCount \in NoCount .. NPieces - 1
  BY AppTypes DEF TypeOK
<1>7. CASE TickScans(w)
  <2>1. CASE ~Found(tInfo)
    <3>1. maxCount' = maxCount
      BY <1>7, <2>1 DEF TickScans, CountPieces
    <3> QED
      BY <1>2, <1>3, <2>1, <3>1, CountStays DEF TicksCount
  <2>2. CASE Found(tInfo)
    <3>1. /\ UNCHANGED <<session, have, tMap, percent>>
          /\ maxCount' = Scan(have[Film], maxCount)
          /\ tick[w].pc = "scan"
          /\ tick' = [tick EXCEPT ![w].pc = "store", ![w].max = 0]
      BY <1>7, <2>2 DEF TickScans, CountPieces, Film, At, libtorrent, fields
    <3>2. HasPrefix(have[Film], Scan(have[Film], maxCount))
      <4>1. have[Film] \in SUBSET Piece
        BY <2>2, EntryType, AppTypes DEF Film, Found, TypeOK
      <4> QED
        BY <1>6, <2>2, <4>1, ScanKeepsPrefix DEF Counted
    <3>3. Counted'
      BY <1>1, <1>3, <3>1, <3>2 DEF Counted, Film
    <3>4. tick'[w].pc = "store" /\ tick'[w].total = tick[w].total
      BY <1>4, <3>1
    <3>5. TicksCount'
      BY <1>2, <1>3, <1>5, <3>1, <3>4, TicksStay DEF TicksCount
    <3> QED
      BY <3>3, <3>5
  <2> QED
    BY <2>1, <2>2
<1>8. CASE ~TickScans(w)
  <2>1. maxCount' = maxCount
    BY <1>8 DEF TimerFires, Tick, TickPops, TickHandles, TickReachesLock, TickLocks,
                TickReadsInfo, TickStores, TickKeepsPercent, TickFindsAux, TickTestsReady,
                TickPosts, TickSyncs, TickStops, PopAlerts, HandleAlert, GetAux,
                StoreMaxBlock, StorePercent, DeleteTorrent, vars, engine
  <2>2. Counted'
    BY <1>2, <1>3, <2>1, CountStays
  <2>3. CASE TickReadsInfo(w)
    <3>1. /\ percent' = percent
          /\ tick'[w].pc = "scan" /\ (Found(tInfo) => tick'[w].total = NPieces)
      BY <1>4, <2>3 DEF TickReadsInfo, fields
    <3> QED
      BY <1>2, <1>3, <1>5, <2>2, <3>1, TicksStay DEF TicksCount
  <2>4. CASE TickStores(w)
    <3>1. /\ percent' = percent /\ tick[w].pc = "store"
          /\ tick'[w].pc = "percent" /\ tick'[w].total = tick[w].total
          /\ tick'[w].max = maxCount
      BY <1>4, <2>4 DEF TickStores, At, fields
    <3> QED
      BY <1>2, <1>3, <1>5, <2>2, <3>1, TicksStay DEF TicksCount, Counted
  <2>5. CASE TickKeepsPercent(w)
    <3>1. /\ UNCHANGED <<session, have, tMap, timer>> /\ tick[w].pc = "percent"
          /\ tick'[w].pc = "aux"
      BY <1>4, <2>5 DEF TickKeepsPercent, At, Goto, StorePercent, vars, libtorrent, engine
    <3>2. ASSUME Ticking PROVE percent' <= NPieces /\ HasPrefix(have[Film], percent' - 1)
      <4>1. tick[w].max \in NoCount .. NPieces - 1 /\ tick[w].total = NPieces
            /\ HasPrefix(have[Film], tick[w].max)
            /\ percent <= NPieces /\ HasPrefix(have[Film], percent - 1)
        BY <1>4, <3>1, <3>2 DEF TicksCount
      <4>2. CurrentPercent(tick[w].max, tick[w].total) = tick[w].max + 1
        BY <4>1 DEF CurrentPercent
      <4>3. percent' = percent \/ percent' = tick[w].max + 1
        BY <2>5, <4>2 DEF TickKeepsPercent
      <4>4. tick[w].max + 1 <= NPieces /\ (tick[w].max + 1) - 1 = tick[w].max
        BY <4>1 DEF NoCount
      <4> QED
        BY <4>1, <4>3, <4>4
    <3>3. TicksCount'
      BY <1>1, <1>3, <1>5, <3>1, <3>2 DEF TicksCount, Film
    <3> QED
      BY <2>2, <3>3
  <2>6. CASE \/ TimerFires(w) \/ TickPops(w) \/ TickHandles(w) \/ TickReachesLock(w)
             \/ TickLocks(w) \/ TickFindsAux(w) \/ TickTestsReady(w) \/ TickPosts(w)
             \/ TickSyncs(w) \/ TickStops(w)
    <3>1. /\ percent' = percent
          /\ tick'[w].pc \notin {"scan", "store", "percent"} \/ tick' = tick
      BY <1>4, <2>6
         DEF TimerFires, TickPops, TickHandles, TickReachesLock, TickLocks, TickFindsAux,
             TickTestsReady, TickPosts, TickSyncs, TickStops, NoTick, Goto, fields
    <3> QED
      BY <1>2, <1>3, <1>5, <2>2, <3>1, TicksStay DEF TicksCount
  <2> QED
    BY <1>8, <2>3, <2>4, <2>5, <2>6 DEF Tick
<1> QED
  BY <1>7, <1>8

(* Both hold as long as the ticks end before the user acts.                *)
LEMMA CountHolds ==
    ASSUME "lateTick" \notin Races
    PROVE  AppSpec => [](Counted /\ TicksCount)
<1>1. AppInit => Counted /\ TicksCount
  BY DEF AppInit, Init, AtRest, Counted, Adds, TicksCount, Ticking, Found
<1>2. ASSUME AppTypeOK, Bookkeeping, Waits, Engaged, Engaged', Counted, TicksCount,
             [AppNext]_appVars
      PROVE  Counted' /\ TicksCount'
  <2>1. CASE AppStarts
    <3>1. tInfo' = 0 /\ tMap' = [i \in {} |-> {}] /\ ~timer' /\ main' = AtRest
      BY <2>1 DEF AppStarts, Dies
    <3> QED
      BY <3>1 DEF Counted, Adds, TicksCount, Ticking, AtRest, Found
  <2>2. CASE EngineRuns \/ UNCHANGED appVars
    <3>1. UNCHANGED <<session, tMap, maxCount, percent, timer, tick, main, tInfo>>
      BY <2>2 DEF EngineRuns, Libtorrent, PieceChecked, PieceFinished, appVars, vars,
                  libtorrent, engine, fields
    <3>2. \A t \in Torrents : have[t] \subseteq have'[t]
      <4>1. \/ have' = have
            \/ \E t \in Torrents, p \in Piece : have' = [have EXCEPT ![t] = @ \cup {p}]
        BY <2>2 DEF EngineRuns, Libtorrent, PieceChecked, PieceFinished, appVars, vars,
                    libtorrent
      <4>2. have \in [Torrents -> SUBSET Piece]
        BY <1>2, AppTypes DEF TypeOK
      <4> QED
        BY <4>1, <4>2
    <3>3. FilmStays
      BY <1>2, <3>1, <3>2, AppTypes, EntryType DEF FilmStays, FoundNext, Found, Valid, Film
    <3>4. (Ticking' => Ticking) /\ (Adds' => Adds)
      BY <3>1 DEF Ticking, Adds
    <3>5. TicksCount'
      BY <1>2, <3>1, <3>3, <3>4, TicksStay DEF TicksCount
    <3> QED
      BY <1>2, <3>1, <3>3, <3>4, <3>5, CountStays
  <2> QED
    BY <1>2, <2>1, <2>2, MainKeepsCount, TickKeepsCount DEF AppNext, TickCrashes, Relaunch
<1>3. (AppSpec => []Bookkeeping) /\ (AppSpec => []Waits) /\ (AppSpec => []Engaged)
  BY AppKeepsBooks, WaitsHolds, EngagedHolds
<1> QED
  BY <1>1, <1>2, <1>3, AppTypeCorrect, PTL DEF AppSpec

(* The percentage shown and stored is that of pieces which are there, of   *)
(* the torrent being downloaded, however many ticks overlap and whatever   *)
(* else is fetched and imported meanwhile, as long as the ticks end before *)
(* the user acts (Downloader.mm 69, 139-149, 201-208,                      *)
(* MainViewController.m 345-363).                                          *)
THEOREM PercentIsTrue ==
    ASSUME "lateTick" \notin Races
    PROVE  AppSpec => []PercentIsReal
<1>1. TicksCount => PercentIsReal
  BY DEF TicksCount, Ticking, Film, PercentIsReal, MainIdle
<1> QED
  BY <1>1, CountHolds, PTL

-----------------------------------------------------------------------------
(* A torrent is found as long as it is in the session.                     *)
LEMMA FoundIsOpen ==
    ASSUME TypeOK, NEW i, Found(i)
    PROVE  tMap[i].torrent \in Torrents /\ session[tMap[i].torrent] # NoHandle
BY DEF TypeOK, tAux, Found, Valid, Ids, NoHandle

(* While the main thread rests, it is the one the ticks ask about.         *)
LEMMA OpenIsFound ==
    ASSUME OneFilm, main.pc # "assign", NEW t \in Torrents, session[t] # NoHandle
    PROVE  Found(tInfo) /\ Film = t /\ Current = tInfo
BY DEF OneFilm, Holds, Current, Found, Valid, Film

(* What a tick has found is there until it has used it.                    *)
Knows ==
    \A w \in Workers :
        /\ tick[w].pc = "store" => Found(tInfo)
        /\ tick[w].aux # 0 => tick[w].pc = "ready" /\ tick[w].aux = tInfo /\ Found(tInfo)

(* A tick finds its torrent under the lock it keeps.                       *)
LEMMA TickKnows ==
    ASSUME AppTypeOK, LockHeld, Waits, Knows, NEW w \in Workers, TimerFires(w) \/ Tick(w)
    PROVE  Knows'
<1>1. tick \in [Workers -> [pc : TickSteps, total : {0, NPieces},
                            max : NoCount .. NPieces - 1, aux : Ids \cup {0}]]
  BY AppTypes DEF ThreadsOK
<1>2. tInfo' = tInfo
  BY TickEffect
<1>3. \A v \in Workers : v # w => tick'[v] = tick[v]
  BY <1>1, TickMoves DEF TimerFires, Goto
<1>4. CASE TickStops(w)
  <2>1. \A v \in Workers : v # w => tick[v].pc \notin Inside
    <3>1. tick[w].pc \in Inside
      BY <1>4 DEF TickStops, At, Inside
    <3> QED
      BY <3>1 DEF LockHeld
  <2>2. tick'[w] = NoTick
    BY <1>1, <1>4 DEF TickStops
  <2> QED
    BY <1>3, <2>1, <2>2 DEF Knows, NoTick, Inside
<1>5. CASE ~TickStops(w)
  <2>1. Found(tInfo) => Found(tInfo)'
    <3>1. CASE UNCHANGED <<session, tMap>>
      BY <1>2, <3>1 DEF Found, Valid
    <3>2. CASE GetAux(tInfo) \/ CountPieces(tInfo)
      BY <1>2, <3>2 DEF GetAux, CountPieces, Found, Valid, libtorrent
    <3> QED
      BY <1>5, <3>1, <3>2, TickEffect
  <2>2. /\ tick'[w].pc = "store" => Found(tInfo)
        /\ tick'[w].aux # 0
             => tick'[w].pc = "ready" /\ tick'[w].aux = tInfo /\ Found(tInfo)
    <3>1. CASE TickScans(w)
      BY <1>1, <3>1 DEF TickScans, At, Knows
    <3>2. CASE TickFindsAux(w)
      <4>1. tick'[w].pc = "ready" /\ tick'[w].aux = IF Found(tInfo) THEN tInfo ELSE 0
        BY <1>1, <3>2 DEF TickFindsAux
      <4> QED
        BY <4>1
    <3>3. CASE TickTestsReady(w) \/ TickHandles(w)
      BY <1>1, <3>3 DEF TickTestsReady, TickHandles, At, Knows
    <3>4. CASE \/ TimerFires(w) \/ TickPops(w) \/ TickReachesLock(w) \/ TickLocks(w)
               \/ TickReadsInfo(w) \/ TickStores(w) \/ TickKeepsPercent(w)
               \/ TickPosts(w) \/ TickSyncs(w)
      <4>1. /\ tick[w].pc # "ready" /\ tick'[w].aux = tick[w].aux
            /\ tick'[w].pc # "store"
        BY <1>1, <3>4 DEF TimerFires, TickPops, TickReachesLock, TickLocks, TickReadsInfo,
                          TickStores, TickKeepsPercent, TickPosts, TickSyncs, At, Goto
      <4> QED
        BY <4>1 DEF Knows
    <3> QED
      BY <1>5, <3>1, <3>2, <3>3, <3>4 DEF Tick
  <2> QED
    BY <1>2, <1>3, <2>1, <2>2 DEF Knows
<1> QED
  BY <1>4, <1>5

(* So it is as long as the ticks end before the user acts.                 *)
LEMMA KnowsHolds ==
    ASSUME "lateTick" \notin Races
    PROVE  AppSpec => [](LockHeld /\ Knows)
<1>1. AppInit => LockHeld /\ Knows
  BY DEF AppInit, LockHeld, Knows, NoTick, Inside
<1>2. ASSUME AppTypeOK, LockHeld, Waits, Knows, [AppNext]_appVars PROVE Knows'
  <2>1. CASE MainSteps
    <3>1. NoTickUnderWay /\ tick' = tick
      BY <1>2, <2>1 DEF Waits, MainSteps, ImportCall, ImportStep, Assign, Reset, Cancel,
                        MainIdle
    <3> QED
      BY <1>2, <3>1 DEF Knows, NoTickUnderWay
  <2>2. CASE \/ Resume \/ OpenWeb \/ Close \/ RunReadyBlock \/ EngineRuns
             \/ UNCHANGED appVars \/ \E b \in Bodies : FetchComplete(b)
    <3>1. UNCHANGED <<session, tMap, tInfo, tick>>
      BY <2>2 DEF Resume, OpenWeb, Close, RunReadyBlock, StoreReady, EngineRuns,
                  Libtorrent, PieceChecked, PieceFinished, FetchComplete, appVars, vars,
                  libtorrent, engine, fields
    <3> QED
      BY <1>2, <3>1 DEF Knows, Found, Valid
  <2>3. CASE AppStarts
    BY <2>3 DEF AppStarts, Knows, NoTick
  <2> QED
    BY <1>2, <2>1, <2>2, <2>3, TickKnows DEF AppNext, TickCrashes, Relaunch
<1>3. AppSpec => []Waits
  BY WaitsHolds
<1>4. AppTypeOK /\ LockHeld /\ Waits /\ Knows /\ [AppNext]_appVars => LockHeld' /\ Knows'
  BY <1>2, LockHeldStep
<1> QED
  BY <1>1, <1>3, <1>4, AppTypeCorrect, PTL DEF AppSpec

-----------------------------------------------------------------------------
(* What makes ResumeIsSound, ReadyIsOnDisk and PlayerHasFilm inductive.    *)
(* The torrent that is open is the one of the file fetched last and of the *)
(* settings, and what its import passed over is on disk.                   *)
Stored(t) == defaults.torrentInfo = Prefix[t]

FilmFirst == tMap[Current].fileFirstPiece

OpenIsStored ==
    \A t \in Torrents : session[t] # NoHandle =>
        /\ file = t /\ Stored(t)
        /\ FileFirst <= FilmFirst
        /\ \A p \in FileFirst .. FilmFirst - 1 : p \in disk[t]

(* What is imported is the file fetched last; no block of the ready        *)
(* handler is left when the import is of another film than the settings,   *)
(* which are about no film while they are removed.                         *)
Forgetting == {"forget block", "forget percent", "forget ready", "info"}

ImportsFile ==
    /\ main.pc = "import" => main.arg = file
    /\ main.pc = "importing" => importing.torrent = file
    /\ importing.stage \in {"block", "percent", "add"} => Stored(importing.torrent)
    /\ importing.stage \in Forgetting => defaults.torrentInfo = NoTorrent
    /\ importing.stage \in {"forget info", "block", "percent"} \cup Forgetting
          => readyBlocks = 0

(* The settings are about files that are there, but between the writes of  *)
(* an import.                                                              *)
Playable(t) == CanGetUrl(disk[t], FileFirst, FileLast)

BlockOnDisk ==
    importing.stage \notin {"forget info", "block"} =>
        \A t \in Torrents : Stored(t) =>
            \A p \in FileFirst .. defaults.maxBlock : p \in disk[t]

ReadyOnDisk ==
    /\ defaults.isReadySended =>
          \/ defaults.torrentInfo # NoTorrent
          \/ importing.stage \in Forgetting \ {"info"}
    /\ defaults.isReadySended /\ importing.stage # "forget info" =>
          \A t \in Torrents : Stored(t) => Playable(t)
    /\ readyBlocks > 0 => file \in Torrents /\ Stored(file) /\ Playable(file)

(* The files are deleted only while nothing is open.                       *)
HaveOnDisk == \A t \in Torrents : have[t] \subseteq disk[t]

OnDisk == OpenIsStored /\ ImportsFile /\ BlockOnDisk /\ ReadyOnDisk /\ HaveOnDisk

(* No two torrents are taken for one another by the settings.              *)
OnePrefix == \A t, u \in Torrents : Prefix[t] = Prefix[u] => t = u

(* A step that leaves the settings, the files and the import alone and     *)
(* opens nothing keeps it.                                                 *)
LEMMA SettingsStay ==
    ASSUME OnDisk,
           UNCHANGED <<file, readyBlocks, importing, disk>>,
           defaults'.torrentInfo = defaults.torrentInfo,
           defaults'.maxBlock = defaults.maxBlock,
           defaults'.isReadySended = defaults.isReadySended,
           main'.pc \in {"import", "importing"} => main' = main,
           \A t \in Torrents : have'[t] \subseteq have[t],
           \A t \in Torrents : session'[t] # NoHandle =>
               session[t] # NoHandle /\ FilmFirst' = FilmFirst
    PROVE  OnDisk'
<1> USE DEF OnDisk, Stored
<1>1. OpenIsStored'
  BY DEF OpenIsStored
<1>2. ImportsFile'
  BY DEF ImportsFile
<1>3. BlockOnDisk' /\ HaveOnDisk'
  BY DEF BlockOnDisk, HaveOnDisk
<1>4. ReadyOnDisk'
  BY DEF ReadyOnDisk, Playable
<1> QED
  BY <1>1, <1>2, <1>3, <1>4

(* A film that can be watched of what was downloaded can be watched with   *)
(* what its import passed over.                                            *)
LEMMA WatchedIsPlayable ==
    ASSUME TypeOK, OnDisk, NEW t \in Torrents, session[t] # NoHandle,
           CanGetUrl(have[t], FilmFirst, FileLast), FilmFirst \in Nat
    PROVE  Playable(t)
<1>1. /\ FileFirst <= FilmFirst
      /\ \A p \in FileFirst .. FilmFirst - 1 : p \in disk[t]
      /\ have[t] \subseteq disk[t]
  BY DEF OnDisk, OpenIsStored, HaveOnDisk
<1>2. FileFirst \in Nat /\ FileLast \in Nat /\ MIN_START_PIECES \in Nat
  BY DEF Piece
<1>3. ASSUME NEW i \in FileFirst .. FileLast - 1, i < FileFirst + MIN_START_PIECES
      PROVE  i \in disk[t]
  <2>1. CASE i < FilmFirst
    BY <1>1, <1>2, <2>1
  <2>2. CASE ~(i < FilmFirst)
    BY <1>1, <1>2, <1>3, <2>2 DEF CanGetUrl
  <2> QED
    BY <2>1, <2>2
<1> QED
  BY <1>1, <1>3 DEF Playable, CanGetUrl

(* What an import begins with.                                             *)
LEMMA BeginEffect ==
    ASSUME NEW t, ImportBegin(t)
    PROVE  /\ UNCHANGED <<session, have, defaults>> /\ importing = Idle
           /\ importing'.torrent = t
           /\ Stored(t) => importing'.stage = "add" /\ disk' = disk
           /\ ~Stored(t) => importing'.stage = "forget info"
<1>1. UNCHANGED <<session, have, defaults>> /\ importing = Idle
  BY DEF ImportBegin
<1>2. CASE Stored(t)
  <2>1. importing' = [torrent |-> t, stage |-> "add"] /\ disk' = disk
    BY <1>2 DEF ImportBegin, Stored
  <2> QED
    BY <1>1, <1>2, <2>1
<1>3. CASE ~Stored(t)
  <2>1. importing' = [torrent |-> t, stage |-> "forget info"]
    BY <1>3 DEF ImportBegin, Stored
  <2> QED
    BY <1>1, <1>3, <2>1
<1> QED
  BY <1>2, <1>3

(* The import writes the settings only while nothing is open, and in an    *)
(* order that leaves them right at every write.                            *)
LEMMA ImportKeepsDisk ==
    ASSUME AppTypeOK, Bookkeeping, OneFilm, ImportRuns, OnDisk, OnePrefix,
           ImportCall \/ ImportStep
    PROVE  OnDisk'
<1> USE AppTypes DEF OnDisk
<1>0. /\ NoneOpen /\ UNCHANGED <<file, readyBlocks>>
      /\ FileFirst \in Nat /\ defaults \in Settings
      /\ \A t \in Torrents : Prefix[t] # NoTorrent
  BY DEF ImportCall, ImportStep, OneFilm, ui, Piece, TypeOK
<1>1. \A t \in Torrents : have[t] = {}
  BY <1>0 DEF NoneOpen, Bookkeeping, OutOfSession
<1>2. ASSUME NEW t \in Torrents, main.pc = "import", main.arg = t, ImportBegin(t),
             main' = [pc |-> "importing", arg |-> 0]
      PROVE  OnDisk'
  <2>1. /\ UNCHANGED <<session, have, defaults>> /\ file = t /\ importing = Idle
        /\ importing'.torrent = t
    <3>1. importing'.torrent = t /\ UNCHANGED <<session, have, defaults>> /\ importing = Idle
      BY <1>2, BeginEffect
    <3>2. file = t
      BY <1>2 DEF ImportsFile
    <3> QED
      BY <3>1, <3>2
  <2>2. OpenIsStored' /\ HaveOnDisk'
    BY <1>0, <1>1, <2>1 DEF NoneOpen, OpenIsStored, HaveOnDisk
  <2>3. CASE Stored(t)
    <3>1. importing'.stage = "add" /\ disk' = disk
      BY <1>2, <2>3, BeginEffect
    <3>2. ImportsFile' /\ BlockOnDisk' /\ ReadyOnDisk'
      BY <1>0, <1>2, <2>1, <2>3, <3>1
         DEF ImportsFile, BlockOnDisk, ReadyOnDisk, Stored, Playable, Idle, Forgetting
    <3> QED
      BY <2>2, <3>2
  <2>4. CASE ~Stored(t)
    <3>1. importing'.stage = "forget info"
      BY <1>2, <2>4, BeginEffect
    <3>2. readyBlocks = 0
      <4>1. readyBlocks \in Nat /\ ~(readyBlocks > 0)
        BY <2>1, <2>4 DEF ReadyOnDisk, UiOK
      <4> QED
        BY <4>1
    <3>3. ImportsFile' /\ BlockOnDisk'
      BY <1>0, <1>2, <2>1, <3>1, <3>2 DEF ImportsFile, BlockOnDisk, Forgetting
    <3>4. defaults.isReadySended => defaults.torrentInfo # NoTorrent
      BY <2>1 DEF ReadyOnDisk, Idle, Forgetting
    <3>5. ~(readyBlocks' > 0) /\ defaults' = defaults
      BY <1>0, <2>1, <3>2
    <3>6. ReadyOnDisk'
      BY <3>1, <3>4, <3>5, Zenon DEF ReadyOnDisk
    <3> QED
      BY <2>2, <3>3, <3>6
  <2> QED
    BY <2>3, <2>4
<1>3. CASE (ImportRejected \/ UNCHANGED vars) /\ main'.pc = "assign"
  <2>1. UNCHANGED <<session, have, disk, defaults, importing>>
    BY <1>3 DEF ImportRejected, vars, libtorrent, engine
  <2> QED
    BY <1>0, <1>3, <2>1, SettingsStay DEF NoneOpen
<1>4. CASE ForgetSettings /\ UNCHANGED main
  <2>1. /\ UNCHANGED <<session, have, disk>>
        /\ importing.stage \in {"forget info"} \cup Forgetting
        /\ importing'.torrent = importing.torrent
        /\ importing'.stage \in Forgetting
        /\ defaults'.torrentInfo = NoTorrent
        /\ importing'.stage = "info" => ~defaults'.isReadySended
    BY <1>0, <1>4, ZenonT(60)
       DEF ForgetSettings, ImportWrites, Stage, libtorrent, TypeOK, Importing,
           Idle, Settings, Forgetting, ImportsFile
  <2>2. OpenIsStored' /\ HaveOnDisk'
    BY <1>0, <1>1, <2>1 DEF NoneOpen, OpenIsStored, HaveOnDisk
  <2>3. readyBlocks = 0
    BY <2>1 DEF ImportsFile
  <2>4. ImportsFile'
    BY <1>0, <1>4, <2>1, <2>3 DEF ImportsFile, Forgetting
  <2>5. \A u \in Torrents : ~Stored(u)'
    BY <1>0, <2>1 DEF Stored
  <2>6. BlockOnDisk'
    BY <2>5 DEF BlockOnDisk
  <2>7. ReadyOnDisk'
    <3>1. ~(readyBlocks' > 0)
      BY <1>0, <2>3
    <3>2. defaults'.isReadySended => importing'.stage \in Forgetting \ {"info"}
      BY <2>1
    <3> QED
      BY <2>5, <3>1, <3>2, Zenon DEF ReadyOnDisk
  <2> QED
    BY <2>2, <2>4, <2>6, <2>7
<1>8. CASE ImportInfo /\ UNCHANGED main
  <2> DEFINE t == importing.torrent
  <2>1. /\ UNCHANGED <<session, have, disk>> /\ importing.stage = "info"
        /\ importing'.stage = "block" /\ importing'.torrent = t
        /\ defaults'.torrentInfo = Prefix[t]
        /\ defaults'.isReadySended = defaults.isReadySended
        /\ t \in Torrents
    BY <1>0, <1>8 DEF ImportInfo, ImportWrites, Stage, libtorrent, TypeOK, Importing, Idle,
                      Settings
  <2> HIDE DEF t
  <2>2. OpenIsStored' /\ HaveOnDisk'
    BY <1>0, <1>1, <2>1 DEF NoneOpen, OpenIsStored, HaveOnDisk
  <2>3. readyBlocks = 0 /\ ~defaults.isReadySended
    BY <2>1 DEF ImportsFile, ReadyOnDisk, Forgetting
  <2>4. ImportsFile' /\ BlockOnDisk' /\ ReadyOnDisk'
    BY <1>0, <1>8, <2>1, <2>3
       DEF ImportsFile, BlockOnDisk, ReadyOnDisk, Stored, Forgetting, t
  <2> QED
    BY <2>2, <2>4
<1>5. CASE (ImportMaxBlock \/ ImportPercent) /\ UNCHANGED main
  <2>1. /\ UNCHANGED <<session, have, disk>>
        /\ importing.stage \in {"block", "percent"}
        /\ importing'.torrent = importing.torrent
        /\ importing'.stage \in {"percent", "add"}
        /\ importing'.stage = "percent" => defaults'.maxBlock = NoCount
        /\ importing'.stage = "add" => /\ defaults'.maxBlock = defaults.maxBlock
                                       /\ importing.stage = "percent"
        /\ defaults'.torrentInfo = defaults.torrentInfo
        /\ defaults'.isReadySended = defaults.isReadySended
    BY <1>0, <1>5 DEF ImportMaxBlock, ImportPercent, ImportWrites, Stage, libtorrent,
                      TypeOK, Importing, Idle, Settings
  <2>2. OpenIsStored' /\ HaveOnDisk'
    BY <1>0, <1>1, <2>1 DEF NoneOpen, OpenIsStored, HaveOnDisk
  <2>3. readyBlocks = 0 /\ Stored(importing.torrent)
    BY <2>1 DEF ImportsFile
  <2>4. ImportsFile'
    BY <1>0, <1>5, <2>1, <2>3 DEF ImportsFile, Stored, Forgetting
  <2>5. BlockOnDisk'
    <3>1. CASE importing'.stage = "percent"
      <4>1. FileFirst .. defaults'.maxBlock = {}
        BY <1>0, <2>1, <3>1 DEF NoCount
      <4> QED
        BY <4>1 DEF BlockOnDisk
    <3>2. CASE importing'.stage = "add"
      <4>1. importing.stage \notin {"forget info", "block"}
        BY <2>1, <3>2
      <4> QED
        BY <1>0, <2>1, <3>2, <4>1 DEF BlockOnDisk, Stored
    <3> QED
      BY <2>1, <3>1, <3>2
  <2>6. ReadyOnDisk'
    <3>1. importing.stage # "forget info" /\ importing.stage \notin Forgetting
      BY <2>1 DEF Forgetting
    <3>2. \A u \in Torrents : Playable(u)' = Playable(u) /\ Stored(u)' = Stored(u)
      BY <2>1 DEF Playable, Stored
    <3> QED
      BY <1>0, <2>1, <2>3, <3>1, <3>2 DEF ReadyOnDisk
  <2> QED
    BY <2>2, <2>4, <2>5, <2>6
<1>6. CASE main.pc = "importing" /\ ImportAdd /\ Returns(nextId')
  <2> DEFINE t == importing.torrent
             id == nextId + 1
  <2>1. /\ t \in Torrents
        /\ \A u \in Torrents \ {t} : session'[u] = session[u]
        /\ tMap'[id].fileFirstPiece = FirstPiece
        /\ UNCHANGED <<have, disk, defaults>>
    <3>1. ImportAdd
      BY <1>6
    <3>2. tMap'[id] = [torrent |-> t, handle |-> session'[t],
                       fileFirstPiece |-> FirstPiece]
      BY <3>1, AddedEntry
    <3>3. t \in Torrents /\ \A u \in Torrents \ {t} : session'[u] = session[u]
      BY <3>1, AddEffect
    <3> QED
      BY <3>1, <3>2, <3>3 DEF ImportAdd
  <2>2. /\ importing.stage = "add" /\ importing' = Idle
        /\ FilmFirst' = FirstPiece /\ main'.pc = "assign"
    <3>1. main'.pc = "assign" /\ main'.arg = nextId' /\ nextId' = id
      BY <1>6 DEF ImportAdd, Returns
    <3> QED
      BY <1>6, <2>1, <3>1 DEF ImportAdd, Stage, FilmFirst, Current
  <2> HIDE DEF t, id
  <2>3. file = t /\ Stored(t)
    BY <1>6, <2>2 DEF ImportsFile, t
  <2>4. \A p \in FileFirst .. defaults.maxBlock : p \in disk[t]
    BY <2>1, <2>2, <2>3 DEF BlockOnDisk
  <2>5. /\ FileFirst <= FirstPiece
        /\ \A p \in FileFirst .. FirstPiece - 1 : p \in disk[t]
    BY <1>0, <2>4 DEF FirstPiece, Settings, NoCount
  <2>6. OpenIsStored'
    BY <1>0, <2>1, <2>2, <2>3, <2>5 DEF OpenIsStored, NoneOpen, Stored
  <2>7. ImportsFile' /\ BlockOnDisk' /\ ReadyOnDisk' /\ HaveOnDisk'
    BY <1>0, <2>1, <2>2 DEF ImportsFile, BlockOnDisk, ReadyOnDisk, HaveOnDisk, Stored,
                            Playable, Idle, Forgetting
  <2> QED
    BY <2>6, <2>7
<1>7. CASE main.pc = "importing" /\ ImportAddFails /\ Returns(NotAdded)
  <2>1. /\ importing.stage = "add" /\ importing' = Idle /\ main'.pc = "assign"
        /\ UNCHANGED <<session, have, disk, defaults>>
    BY <1>7 DEF ImportAddFails, Stage, Returns, libtorrent
  <2>2. OpenIsStored' /\ HaveOnDisk'
    BY <1>0, <2>1 DEF OpenIsStored, NoneOpen, HaveOnDisk
  <2>3. ImportsFile' /\ BlockOnDisk' /\ ReadyOnDisk'
    BY <1>0, <2>1 DEF ImportsFile, BlockOnDisk, ReadyOnDisk, Stored, Playable, Idle,
                      Forgetting
  <2> QED
    BY <2>2, <2>3
<1> QED
  BY <1>2, <1>3, <1>4, <1>5, <1>6, <1>7, <1>8 DEF ImportCall, ImportStep, Returns

(* So do the other steps of the main thread.                               *)
LEMMA MainKeepsDisk ==
    ASSUME AppTypeOK, Bookkeeping, OneFilm, ImportRuns, OnDisk, OnePrefix, Races = {},
           MainSteps \/ Resume \/ OpenWeb \/ Close \/ RunReadyBlock
             \/ \E b \in Bodies : FetchComplete(b)
    PROVE  OnDisk'
<1> USE AppTypes
<1>1. CASE ImportCall \/ ImportStep
  BY <1>1, ImportKeepsDisk
<1>2. CASE Resume \/ OpenWeb \/ \E b \in Bodies : FetchComplete(b)
  <2>1. /\ UNCHANGED <<session, have, disk, defaults, importing, readyBlocks>>
        /\ main.pc = "idle" /\ screen \in {"browse", "offer"}
        /\ main' = main \/ (main'.pc = "import" /\ main'.arg = file')
        /\ file' = file \/ readyBlocks = 0
    BY <1>2 DEF Resume, OpenWeb, FetchComplete, Start, Event, MainIdle, vars, libtorrent, engine
  <2>2. NoneOpen /\ importing = Idle
    BY <2>1 DEF OneFilm, NoOrphan, NoneOpen, MainIdle, ImportRuns
  <2>3. OpenIsStored' /\ HaveOnDisk'
    BY <2>1, <2>2 DEF OnDisk, OpenIsStored, HaveOnDisk, NoneOpen
  <2>4. ImportsFile' /\ BlockOnDisk' /\ ReadyOnDisk'
    BY <2>1, <2>2 DEF OnDisk, ImportsFile, BlockOnDisk, ReadyOnDisk, Stored, Playable, Idle,
                            Forgetting
  <2> QED
    BY <2>3, <2>4 DEF OnDisk
<1>3. CASE Close \/ Assign \/ Reset
  <2>1. /\ UNCHANGED <<session, have, disk, defaults, importing, readyBlocks, file, tMap>>
        /\ main'.pc \notin {"import", "importing", "assign"}
        /\ Current' = Current
    BY <1>3 DEF Close, Assign, Reset, Event, MainIdle, AtRest, vars, libtorrent, engine,
                fields, ui, Current
  <2>2. FilmFirst' = FilmFirst
    BY <2>1 DEF FilmFirst
  <2> QED
    BY <2>1, <2>2, SettingsStay
<1>4. CASE RunReadyBlock
  <2>1. /\ UNCHANGED <<session, have, disk, importing, file, tMap, tInfo, main>>
        /\ main.pc = "idle" /\ readyBlocks > 0 /\ readyBlocks' = readyBlocks - 1
        /\ readyBlocks \in Nat
        /\ defaults'.torrentInfo = defaults.torrentInfo
        /\ defaults'.maxBlock = defaults.maxBlock
    BY <1>4 DEF RunReadyBlock, StoreReady, MainIdle, libtorrent, engine, fields, UiOK,
                TypeOK, Settings
  <2>2. importing = Idle /\ file \in Torrents /\ Stored(file) /\ Playable(file)
    BY <2>1 DEF ImportRuns, OnDisk, ReadyOnDisk
  <2>3. Current' = Current
    BY <2>1 DEF Current
  <2>4. OpenIsStored' /\ HaveOnDisk'
    BY <2>1, <2>3 DEF OnDisk, OpenIsStored, HaveOnDisk, Stored, FilmFirst
  <2>5. ImportsFile' /\ BlockOnDisk'
    BY <2>1, <2>2 DEF OnDisk, ImportsFile, BlockOnDisk, Stored, Idle, Forgetting
  <2>6. defaults'.torrentInfo # NoTorrent
    BY <2>1, <2>2 DEF Stored
  <2>7. \A t \in Torrents : Stored(t) => t = file
    BY <2>2 DEF Stored, OnePrefix
  <2>8. ReadyOnDisk'
    BY <2>1, <2>2, <2>6, <2>7 DEF OnDisk, ReadyOnDisk, Stored, Playable
  <2> QED
    BY <2>4, <2>5, <2>8 DEF OnDisk
<1>5. CASE Cancel
  <2>1. /\ UNCHANGED <<disk, importing, defaults, readyBlocks, file>>
        /\ DeleteTorrent(tInfo) /\ main.pc = "cancel" /\ main'.pc = "idle"
    BY <1>5 DEF Cancel, DeleteTorrent, AtRest, ui
  <2>2. NoneOpen'
    BY <2>1, DeleteEmpties DEF OneFilm, Current
  <2>3. \A t \in Torrents : have'[t] \subseteq have[t]
    BY <2>1 DEF DeleteTorrent, TypeOK
  <2> QED
    BY <2>1, <2>2, <2>3, SettingsStay DEF NoneOpen
<1> QED
  BY <1>1, <1>2, <1>3, <1>4, <1>5 DEF MainSteps

(* What a tick stores of the film is on disk.                              *)
LEMMA TickKeepsDisk ==
    ASSUME AppTypeOK, OneFilm, Waits, ImportRuns, Counted, Knows, OnDisk, OnePrefix,
           NEW w \in Workers, TimerFires(w) \/ Tick(w)
    PROVE  OnDisk'
<1> USE AppTypes
<1>1. main.pc = "idle" /\ importing = Idle
  BY TickWhileIdle DEF ImportRuns, MainIdle
<1>2. /\ UNCHANGED <<main, tInfo, file, importing, disk>>
      /\ main'.pc \notin {"import", "importing"}
      /\ Current = tInfo /\ Current' = Current
  BY <1>1, TickEffect DEF Current
<1>3. defaults \in Settings
  BY DEF TypeOK
<1>4. /\ \A t \in Torrents : have'[t] \subseteq have[t]
      /\ \A t \in Torrents : session'[t] # NoHandle =>
            session[t] # NoHandle /\ FilmFirst' = FilmFirst
  <2>1. CASE UNCHANGED <<session, have, tMap>>
    BY <1>2, <2>1 DEF FilmFirst
  <2>2. CASE GetAux(tInfo) \/ CountPieces(tInfo)
    <3>1. UNCHANGED <<session, have>> /\ (Found(tInfo) => tMap' = tMap)
      BY <2>2 DEF GetAux, CountPieces, libtorrent
    <3> QED
      BY <1>1, <1>2, <3>1, OpenIsFound DEF FilmFirst
  <2>3. CASE DeleteTorrent(tInfo)
    <3>1. NoneOpen'
      BY <1>2, <2>3, DeleteEmpties DEF OneFilm
    <3>2. \A t \in Torrents : have'[t] \subseteq have[t]
      BY <2>3 DEF DeleteTorrent, TypeOK
    <3> QED
      BY <3>1, <3>2 DEF NoneOpen
  <2> QED
    BY <2>1, <2>2, <2>3, TickEffect
<1>5. CASE TickStores(w)
  <2> DEFINE t == Film
             n == maxCount
  <2>1. /\ UNCHANGED <<session, have, tMap, readyBlocks>>
        /\ defaults'.torrentInfo = defaults.torrentInfo
        /\ defaults'.maxBlock = n
        /\ defaults'.isReadySended = defaults.isReadySended
    BY <1>3, <1>5 DEF TickStores, StoreMaxBlock, libtorrent, engine, ui, Settings
  <2>2. Found(tInfo)
    BY <1>5 DEF TickStores, At, Knows
  <2>3. t \in Torrents /\ session[t] # NoHandle
    BY <2>2, FoundIsOpen DEF Film
  <2>4. HasPrefix(have[t], n) /\ n \in NoCount .. NPieces - 1
    BY <2>2 DEF Counted, TypeOK
  <2> HIDE DEF t, n
  <2>5. Stored(t)
    BY <2>3 DEF OnDisk, OpenIsStored
  <2>6. \A u \in Torrents : Stored(u) => u = t
    BY <2>3, <2>5 DEF Stored, OnePrefix
  <2>7. \A p \in FileFirst .. n : p \in disk[t]
    BY <2>3, <2>4 DEF HasPrefix, OnDisk, HaveOnDisk, Piece, NoCount
  <2>8. BlockOnDisk'
    BY <1>2, <2>1, <2>6, <2>7 DEF BlockOnDisk, Stored
  <2>9. OpenIsStored' /\ HaveOnDisk'
    BY <1>2, <2>1 DEF OnDisk, OpenIsStored, HaveOnDisk, Stored, FilmFirst
  <2>10. ImportsFile' /\ ReadyOnDisk'
    BY <1>1, <1>2, <2>1
       DEF OnDisk, ImportsFile, ReadyOnDisk, Stored, Playable, Idle, Forgetting
  <2> QED
    BY <2>8, <2>9, <2>10 DEF OnDisk
<1>6. CASE TickTestsReady(w) /\ readyBlocks' # readyBlocks
  <2>1. /\ UNCHANGED <<session, have, defaults, tMap>>
        /\ readyBlocks' = readyBlocks + 1
        /\ tick[w].aux # 0 /\ CanBeWatched(tick[w].aux)
    BY <1>6 DEF TickTestsReady, vars, libtorrent, engine
  <2>2. Found(tInfo) /\ tick[w].aux = tInfo
    BY <2>1 DEF Knows
  <2>3. PICK t \in Torrents : t = tMap[tInfo].torrent /\ session[t] # NoHandle
    BY <2>2, FoundIsOpen
  <2>4. CanGetUrl(have[t], FilmFirst, FileLast) /\ FilmFirst \in Nat
    <3>1. FilmFirst = tMap[tInfo].fileFirstPiece
      BY <1>2 DEF FilmFirst
    <3>2. tMap[tInfo].fileFirstPiece \in Nat
      BY <2>2 DEF Found, TypeOK, tAux
    <3> QED
      BY <2>1, <2>2, <2>3, <3>1, <3>2 DEF CanBeWatched
  <2>5. file = t /\ Stored(t) /\ Playable(t)
    BY <2>3, <2>4, WatchedIsPlayable DEF OnDisk, OpenIsStored
  <2>6. OpenIsStored' /\ HaveOnDisk'
    BY <1>2, <2>1 DEF OnDisk, OpenIsStored, HaveOnDisk, Stored, FilmFirst
  <2>7. ImportsFile' /\ BlockOnDisk'
    BY <1>1, <1>2, <2>1
       DEF OnDisk, ImportsFile, BlockOnDisk, Stored, Idle, Forgetting
  <2>8. ReadyOnDisk'
    BY <1>1, <1>2, <2>1, <2>5 DEF OnDisk, ReadyOnDisk, Stored, Playable
  <2> QED
    BY <2>6, <2>7, <2>8 DEF OnDisk
<1>7. CASE ~TickStores(w) /\ readyBlocks' = readyBlocks
  <2>1. \/ defaults' = defaults
        \/ \E v : StorePercent(v)
    BY <1>7 DEF TimerFires, Tick, TickPops, TickHandles, TickReachesLock, TickLocks,
                TickReadsInfo, TickScans, TickKeepsPercent, TickFindsAux, TickTestsReady,
                TickPosts, TickSyncs, TickStops, PopAlerts, HandleAlert, GetAux,
                CountPieces, DeleteTorrent, vars
  <2>2. /\ defaults'.torrentInfo = defaults.torrentInfo
        /\ defaults'.maxBlock = defaults.maxBlock
        /\ defaults'.isReadySended = defaults.isReadySended
    BY <1>3, <2>1 DEF StorePercent, Settings
  <2> QED
    BY <1>2, <1>4, <1>7, <2>2, SettingsStay
<1>8. readyBlocks' # readyBlocks => TickTestsReady(w)
  BY DEF TimerFires, Tick, TickPops, TickHandles, TickReachesLock, TickLocks,
         TickReadsInfo, TickScans, TickStores, TickKeepsPercent, TickFindsAux, TickPosts,
         TickSyncs, TickStops, ui
<1> QED
  BY <1>5, <1>6, <1>7, <1>8

(* libtorrent writes what it downloads: while the files of a film stay,    *)
(* nothing it has misses the disk.                                         *)
LEMMA LibtorrentKeepsDisk ==
    ASSUME AppTypeOK, OnDisk, EngineRuns
    PROVE  OnDisk'
<1> USE AppTypes
<1>1. /\ UNCHANGED <<session, tMap, tInfo, main, file, importing, defaults, readyBlocks>>
      /\ \A t \in Torrents : disk[t] \subseteq disk'[t] /\ have'[t] \subseteq disk'[t]
  <2>1. UNCHANGED <<session, tMap, tInfo, main, file, importing, defaults, readyBlocks>>
    BY DEF EngineRuns, Libtorrent, PieceChecked, PieceFinished, engine, fields, ui
  <2>2. PICK t \in Torrents, p \in Piece : PieceChecked(t, p) \/ PieceFinished(t, p)
    BY DEF EngineRuns, Libtorrent
  <2>3. \A u \in Torrents : have[u] \subseteq disk[u]
    BY DEF OnDisk, HaveOnDisk
  <2>4. have \in [Torrents -> SUBSET Piece] /\ disk \in [Torrents -> SUBSET Piece]
    BY DEF TypeOK
  <2>5. /\ have'[t] = have[t] \cup {p} /\ \A u \in Torrents \ {t} : have'[u] = have[u]
        /\ p \in disk'[t] /\ \A u \in Torrents : disk[u] \subseteq disk'[u]
    <3>1. CASE PieceChecked(t, p)
      BY <2>4, <3>1 DEF PieceChecked
    <3>2. CASE PieceFinished(t, p)
      <4>1. have[t] = disk[t]
        BY <2>3, <3>2 DEF PieceFinished
      <4>2. /\ disk' = [disk EXCEPT ![t] = @ \cup {p}]
            /\ have' = [have EXCEPT ![t] = @ \cup {p}]
        BY <3>2, <4>1 DEF PieceFinished
      <4> QED
        BY <2>4, <4>2
    <3> QED
      BY <2>2, <3>1, <3>2
  <2> HIDE AppTypes
  <2>6. ASSUME NEW u \in Torrents PROVE have'[u] \subseteq disk'[u]
    <3>1. have[u] \subseteq disk'[u]
      BY <2>3, <2>5
    <3> QED
      BY <2>5, <3>1
  <2> QED
    BY <2>1, <2>5, <2>6
<1>2. Current' = Current
  BY <1>1 DEF Current
<1>3. \A t \in Torrents : Playable(t) => Playable(t)'
  BY <1>1 DEF Playable, CanGetUrl
<1>4. OpenIsStored' /\ HaveOnDisk'
  BY <1>1, <1>2 DEF OnDisk, OpenIsStored, HaveOnDisk, Stored, FilmFirst
<1>5. ImportsFile' /\ BlockOnDisk'
  BY <1>1 DEF OnDisk, ImportsFile, BlockOnDisk, Stored, Forgetting
<1>6. ReadyOnDisk'
  BY <1>1, <1>3 DEF OnDisk, ReadyOnDisk, Stored
<1> QED
  BY <1>4, <1>5, <1>6 DEF OnDisk

(* What the proof takes for granted: no fetch completes while a film is on *)
(* screen, the ticks end before the user acts, the process dies neither    *)
(* between two writes of an import nor with pieces in a cache, and the     *)
(* settings tell the torrents apart.  Torrents may fail to be added and    *)
(* old files to be deleted.                                                *)
Undisturbed ==
    /\ Races = {}
    /\ "killMidImport" \notin Faults /\ "loseWrites" \notin Faults
    /\ OnePrefix

(* A death, or the crash of a tick, finds no import under way.             *)
LEMMA DeathKeepsDisk ==
    ASSUME AppTypeOK, Waits, ImportRuns, OnDisk, Undisturbed,
           Relaunch \/ \E w \in Workers : TickCrashes(w)
    PROVE  OnDisk'
<1> USE AppTypes
<1>1. importing = Idle
  BY DEF Relaunch, MayDie, Undisturbed, TickCrashes, UsesNull, At, Waits, NoTickUnderWay,
         MainIdle, ImportRuns
<1>2. /\ disk' = disk /\ defaults' = defaults /\ importing' = Idle
      /\ \A t \in Torrents : session'[t] = NoHandle /\ have'[t] = {}
      /\ main'.pc = "idle" /\ readyBlocks' = 0
  BY DEF Relaunch, TickCrashes, AppStarts, Dies, Undisturbed, Empty, AtRest
<1>3. OpenIsStored' /\ HaveOnDisk'
  BY <1>2 DEF OpenIsStored, HaveOnDisk
<1>4. ImportsFile' /\ BlockOnDisk' /\ ReadyOnDisk'
  BY <1>1, <1>2 DEF OnDisk, ImportsFile, BlockOnDisk, ReadyOnDisk, Stored, Playable, Idle,
                    Forgetting
<1> QED
  BY <1>3, <1>4 DEF OnDisk

(* All of it is kept.                                                      *)
DiskInv ==
    /\ AppTypeOK /\ Bookkeeping /\ OneFilm /\ Waits /\ ImportRuns
    /\ Counted /\ Knows /\ OnDisk

(* No step of the app takes away what the settings are about.              *)
LEMMA OnDiskStep ==
    ASSUME Undisturbed, DiskInv, [AppNext]_appVars
    PROVE  OnDisk'
<1> USE DEF DiskInv
<1>1. CASE UNCHANGED appVars
  <2>1. UNCHANGED <<session, have, disk, tMap, tInfo, main, file, importing, defaults,
                    readyBlocks>>
    BY <1>1 DEF appVars, vars, libtorrent, engine, fields, ui
  <2>2. Current' = Current
    BY <2>1 DEF Current
  <2>3. OpenIsStored' /\ HaveOnDisk'
    BY <2>1, <2>2 DEF OnDisk, OpenIsStored, HaveOnDisk, Stored, FilmFirst
  <2>4. ImportsFile' /\ BlockOnDisk' /\ ReadyOnDisk'
    BY <2>1 DEF OnDisk, ImportsFile, BlockOnDisk, ReadyOnDisk, Stored, Playable, Forgetting
  <2> QED
    BY <2>3, <2>4 DEF OnDisk
<1> QED
  BY <1>1, MainKeepsDisk, TickKeepsDisk, LibtorrentKeepsDisk, DeathKeepsDisk
     DEF AppNext, Undisturbed

(* All of it holds while nothing disturbs the app.                         *)
LEMMA DiskInvHolds ==
    ASSUME Undisturbed
    PROVE  AppSpec => []DiskInv
<1>1. AppInit => OnDisk
  <2> SUFFICES ASSUME AppInit PROVE OnDisk
    OBVIOUS
  <2>1. OpenIsStored /\ HaveOnDisk
    BY DEF AppInit, Init, Empty, OpenIsStored, HaveOnDisk
  <2>2. ImportsFile /\ BlockOnDisk /\ ReadyOnDisk
    BY DEF AppInit, Init, AtRest, Idle, NoSettings, ImportsFile, BlockOnDisk, ReadyOnDisk,
           Stored, Forgetting
  <2> QED
    BY <2>1, <2>2 DEF OnDisk
<1>2. DiskInv /\ [AppNext]_appVars => OnDisk'
  BY OnDiskStep
<1>3. AppSpec => []Bookkeeping
  BY AppKeepsBooks DEF Undisturbed
<1>4. /\ AppSpec => []OneFilm
      /\ AppSpec => []Waits
      /\ AppSpec => [](Counted /\ TicksCount)
      /\ AppSpec => [](LockHeld /\ Knows)
  BY OneFilmHolds, WaitsHolds, CountHolds, KnowsHolds DEF Undisturbed
<1> QED
  BY <1>1, <1>2, <1>3, <1>4, ImportRunsHolds, AppTypeCorrect, PTL DEF AppSpec, DiskInv

(* What a later import passes over is on disk, for the torrent the         *)
(* settings are about, at every write of every import and whenever the     *)
(* process dies between them (streamerok.cpp 95-97, 226-235, 335).         *)
THEOREM ResumePassesOverDisk ==
    ASSUME Undisturbed
    PROVE  AppSpec => []ResumeIsSound
<1>1. DiskInv => ResumeIsSound
  BY DEF DiskInv, OnDisk, BlockOnDisk, Stored, ResumeIsSound, Idle
<1> QED
  BY <1>1, DiskInvHolds, PTL

(* If the settings say that the film can be watched, its first pieces and  *)
(* its last are on disk (MainViewController.m 185-187, 371-376,            *)
(* Downloader.mm 167-178).                                                 *)
THEOREM ReadyFilmIsThere ==
    ASSUME Undisturbed
    PROVE  AppSpec => []ReadyIsOnDisk
<1>1. DiskInv => ReadyIsOnDisk
  BY DEF DiskInv, OnDisk, ReadyOnDisk, Stored, Playable, ReadyIsOnDisk, Idle
<1> QED
  BY <1>1, DiskInvHolds, PTL

(* The player is only opened on a film whose first pieces and last piece   *)
(* are on disk, however long the block that opens it, or the user, waited  *)
(* (MainViewController.m 184-189, 229-232, 367-379).                       *)
THEOREM PlayerOpensOnFilm ==
    ASSUME Undisturbed
    PROVE  AppSpec => PlayerHasFilm
<1>1. ASSUME DiskInv, [AppNext]_appVars, screen # "player", screen' = "player"
      PROVE  \E t \in Torrents : Playable(t)
  <2> USE DEF DiskInv
  <2>1. CASE RunReadyBlock
    BY <1>1, <2>1 DEF RunReadyBlock, OnDisk, ReadyOnDisk
  <2>2. CASE Resume
    <3>1. defaults.isReadySended /\ importing = Idle
      BY <1>1, <2>2 DEF Resume, Start, Event, MainIdle, ImportRuns
    <3>2. defaults.torrentInfo # NoTorrent /\ defaults \in Settings
      BY <1>1, <3>1 DEF OnDisk, ReadyOnDisk, AppTypeOK, TypeOK, Idle, Forgetting
    <3>3. PICK t \in Torrents : Stored(t)
      BY <3>2 DEF Settings, Stored
    <3> QED
      BY <1>1, <3>1, <3>3 DEF OnDisk, ReadyOnDisk, Idle
  <2>3. ASSUME NEW b \in Bodies, FetchComplete(b) PROVE FALSE
    BY <1>1, <2>3 DEF FetchComplete, Start, WithoutSite
  <2>4. ASSUME NEW w \in Workers, TimerFires(w) \/ Tick(w) PROVE screen' = screen
    BY <2>4, TickEffect
  <2>5. CASE MainSteps \/ EngineRuns \/ UNCHANGED appVars
    BY <1>1, <2>5 DEF MainSteps, ImportCall, ImportStep, Assign, Reset, Cancel, EngineRuns,
                      appVars, ui
  <2>6. CASE OpenWeb \/ Close \/ AppStarts
    BY <1>1, <2>6 DEF OpenWeb, Close, AppStarts
  <2> QED
    BY <1>1, <2>1, <2>2, <2>3, <2>4, <2>5, <2>6 DEF AppNext, TickCrashes, Relaunch
<1>2. DiskInv /\ [AppNext]_appVars =>
        [screen # "player" /\ screen' = "player"
           => \E t \in Torrents : CanGetUrl(disk[t], FileFirst, FileLast)]_appVars
  BY <1>1 DEF Playable
<1> QED
  BY <1>2, DiskInvHolds, PTL DEF AppSpec, PlayerHasFilm
=============================================================================
