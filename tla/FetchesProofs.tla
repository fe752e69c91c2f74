--------------------------- MODULE FetchesProofs ----------------------------
(***************************************************************************)
(* What the site makes the app fetch, for any films, archives and number   *)
(* of fetches.                                                             *)
(***************************************************************************)
EXTENDS Fetches, TLAPS

USE FetchesAssumption

(* TypeOK without the flags; commands are sent for a film.                 *)
Types ==
    /\ chosen \in MaybeFilm /\ left \subseteq Commands
    /\ left = {} \/ chosen \in Films
    /\ slot \in [Slots -> [film : MaybeFilm,
                           step : {"free", "asked", "open", "spoilt", "done", "failed"}]]
    /\ archives \subseteq Films
    /\ file \in [Films -> {"absent", "partial", "whole"}]
    /\ videos \subseteq Films
    /\ beside \in Subtitles \cup {NoSubs}
    /\ srt \subseteq Subtitles
    /\ title \in MaybeFilm /\ lastFile \in MaybeFilm /\ torrentInfo \in MaybeFilm
    /\ main \in MaybeFilm /\ torrent \in MaybeFilm /\ session \subseteq Films
    /\ screen \in {"site", "blank", "progress", "player"}
    /\ playing \in MaybeFilm

Flags ==
    /\ ready \in BOOLEAN
    /\ resumeView \in {NoView} \cup [title : Films, old : BOOLEAN]

(* The app starts with these types.                                        *)
LEMMA TypesInit == Init => Types /\ Flags
<1> SUFFICES ASSUME Init PROVE Types /\ Flags
  OBVIOUS
<1>1. Types
  BY DEF Init, Types, MaybeFilm, FreeSlot, NoSubs
<1>2. Flags
  BY DEF Init, Flags
<1> QED
  BY <1>1, <1>2

(* A fetch that is spoilt stays one of its film.                           *)
LEMMA SpoiltType ==
    ASSUME Types, NEW s \in Slots
    PROVE  /\ Spoilt(s) \in [film : MaybeFilm,
                              step : {"free", "asked", "open", "spoilt", "done", "failed"}]
           /\ Spoilt(s).film = slot[s].film
           /\ slot[s].step # "open" => Spoilt(s) = slot[s]
BY DEF Types, Spoilt

(* Archives unpack into subtitles.                                         *)
LEMMA ArchiveType == ASSUME NEW f \in Films PROVE Archive(f) \subseteq Subtitles
BY DEF Archive, Subtitles

(* Every step keeps the types.                                             *)
LEMMA TypesStep == Types /\ [Next]_vars => Types'
<1> SUFFICES ASSUME Types, [Next]_vars PROVE Types'
  OBVIOUS
<1> USE DEF Types, MaybeFilm
<1> USE DEF site, fetches, folder, settings, app
<1>1. ASSUME NEW f \in Films, Choose(f)
      PROVE  Types'
  BY <1>1 DEF Choose
<1>2. CASE StoreTitle
  BY <1>2 DEF StoreTitle, Command
<1>3. CASE DownloadSubs
  BY <1>3 DEF DownloadSubs, Command, DeletesOldSrt, Commands
<1>4. CASE DownloadFile
  BY <1>4 DEF DownloadFile, Command
<1>5. ASSUME NEW s \in Slots, FetchOpens(s)
      PROVE  Types'
  <2>1. slot[s].film \in MaybeFilm
    OBVIOUS
  <2>2. slot' \in [Slots -> [film : MaybeFilm,
                   step : {"free", "asked", "open", "spoilt", "done", "failed"}]]
    BY <1>5, <2>1, SpoiltType DEF FetchOpens
  <2> QED
    BY <1>5, <2>2, ZenonT(60) DEF FetchOpens
<1>6. ASSUME NEW s \in Slots, FetchEnds(s)
      PROVE  Types'
  BY <1>6 DEF FetchEnds, FetchMoves
<1>7. ASSUME NEW s \in Slots, FetchFails(s)
      PROVE  Types'
  BY <1>7 DEF FetchFails, FetchMoves
<1>8. ASSUME NEW s \in Slots, DownloadComplete(s)
      PROVE  Types'
  BY <1>8 DEF DownloadComplete, Released, FreeSlot
<1>9. ASSUME NEW s \in Slots, DownloadFailed(s)
      PROVE  Types'
  BY <1>9 DEF DownloadFailed, Released, FreeSlot
<1>10. ASSUME NEW f \in Films, NEW arrive \in BOOLEAN, SubsEnd(f, arrive)
       PROVE  Types'
  BY <1>10, ArchiveType DEF SubsEnd
<1>11. ASSUME NEW f \in Films, FirstPieces(f)
       PROVE  Types'
  BY <1>11 DEF FirstPieces
<1>12. CASE Import
  <2>1. CASE UNCHANGED <<slot, folder>>
    BY <1>12, <2>1 DEF Import, CleanOldFiles, MainIdle
  <2>2. CASE CleanOldFiles(main)
    <3>1. slot' \in [Slots -> [film : MaybeFilm,
                     step : {"free", "asked", "open", "spoilt", "done", "failed"}]]
      BY <2>2, SpoiltType DEF CleanOldFiles
    <3>2. file' \in [Films -> {"absent", "partial", "whole"}]
      BY <2>2 DEF CleanOldFiles
    <3>3. videos' = {} /\ beside' = NoSubs
      BY <2>2 DEF CleanOldFiles
    <3> QED
      BY <1>12, <3>1, <3>2, <3>3 DEF Import, MainIdle
  <2> QED
    BY <1>12, <2>1, <2>2 DEF Import
<1>13. CASE ReadyToView
  BY <1>13 DEF ReadyToView, StartToViewplayer
<1>14. CASE Close
  BY <1>14 DEF Close, OpenStartsView
<1>15. CASE Resume
  BY <1>15 DEF Resume, StartToViewplayer
<1>16. CASE OpenWeb
  BY <1>16 DEF OpenWeb
<1>17. CASE Relaunch
  BY <1>17 DEF Relaunch, OpenStartsView, FreeSlot
<1>18. CASE UNCHANGED vars
  BY <1>18 DEF vars
<1> QED
  BY <1>1, <1>2, <1>3, <1>4, <1>5, <1>6, <1>7, <1>8, <1>9, <1>10, <1>11, <1>12, <1>13,
     <1>14, <1>15, <1>16, <1>17, <1>18 DEF Next, SendsCommand, Network, Told

DownloadAsked == "download" \in left

(* A film that is asked for or fetched is the only one, and nothing is     *)
(* imported then.                                                          *)
OneFetch ==
    /\ \A s \in Slots : slot[s].film = NoFilm <=> slot[s].step = "free"
    /\ \A r, s \in Slots : slot[r].film # NoFilm /\ slot[s].film # NoFilm => r = s
    /\ DownloadAsked \/ ~MainIdle => Fetching = {}
    /\ DownloadAsked => MainIdle

(* So nobody spoils what it writes.                                        *)
FetchedIsWhole ==
    \A s \in Slots :
        /\ slot[s].step # "spoilt"
        /\ slot[s].step = "done" => file[slot[s].film] = "whole"

(* The film to resume is the one imported, or is being imported and will   *)
(* not be refused.                                                         *)
SettingsAgree ==
    IF MainIdle THEN torrentInfo = lastFile
    ELSE main = lastFile /\ (torrentInfo = main \/ file[main] = "whole")

(* No other film is downloaded, and none while the site is shown; so no    *)
(* other is in the folder.                                                 *)
OnlyTheFilm ==
    /\ session \subseteq {torrent} /\ torrent \in {NoFilm, torrentInfo}
    /\ screen \in {"site", "blank"} \/ ~MainIdle => session = {}
    /\ DownloadAsked \/ Fetching # {} => screen \in {"site", "blank"}
    /\ videos \subseteq {torrentInfo}
    /\ ready => torrentInfo \in videos

ResumeInv == Types /\ OneFetch /\ FetchedIsWhole /\ SettingsAgree /\ OnlyTheFilm

-----------------------------------------------------------------------------
(* The resume view that openStartsView leaves is one of a film, or none.   *)
LEMMA ViewType ==
    ASSUME title \in MaybeFilm, NEW there \in {NoView} \cup [title : Films, old : BOOLEAN],
           OpenStartsView(there)
    PROVE  resumeView' \in {NoView} \cup [title : Films, old : BOOLEAN]
<1>1. CASE there # NoView
  BY <1>1 DEF OpenStartsView
<1>2. CASE there = NoView /\ title = NoFilm
  BY <1>2, Zenon DEF OpenStartsView, NoView
<1>3. CASE there = NoView /\ title # NoFilm
  BY <1>3 DEF OpenStartsView, MaybeFilm
<1> QED
  BY <1>1, <1>2, <1>3

(* Every step keeps the flags.                                             *)
LEMMA FlagsStep == Types /\ Flags /\ [Next]_vars => Flags'
<1> SUFFICES ASSUME Types, Flags, [Next]_vars PROVE Flags'
  OBVIOUS
<1> USE DEF Flags, site, fetches, folder, settings, app
<1>1. ASSUME NEW f \in Films, Choose(f)
      PROVE  Flags'
  BY <1>1, Zenon DEF Choose
<1>2. CASE SendsCommand
  BY <1>2, Zenon DEF SendsCommand, StoreTitle, DownloadSubs, DownloadFile, Command
<1>3. ASSUME NEW s \in Slots, Network(s)
      PROVE  Flags'
  BY <1>3, Zenon DEF Network, FetchOpens, FetchEnds, FetchFails, FetchMoves
<1>4. ASSUME NEW s \in Slots, Told(s)
      PROVE  Flags'
  BY <1>4, Zenon DEF Told, DownloadComplete, DownloadFailed
<1>5. ASSUME NEW f \in Films, NEW arrive \in BOOLEAN, SubsEnd(f, arrive)
      PROVE  Flags'
  BY <1>5, Zenon DEF SubsEnd
<1>6. ASSUME NEW f \in Films, FirstPieces(f)
      PROVE  Flags'
  BY <1>6, Zenon DEF FirstPieces
<1>7. CASE Import
  BY <1>7, Zenon DEF Import, CleanOldFiles
<1>8. CASE ReadyToView
  BY <1>8, Zenon DEF ReadyToView
<1>9. CASE Close
  <2>1. ready' = ready /\ OpenStartsView(resumeView)
    BY <1>9 DEF Close
  <2> QED
    BY <2>1, ViewType DEF Types
<1>10. CASE Resume \/ OpenWeb
  BY <1>10, Zenon DEF Resume, OpenWeb
<1>11. CASE Relaunch
  <2>1. ready' = ready /\ OpenStartsView(NoView)
    BY <1>11 DEF Relaunch
  <2> QED
    BY <2>1, ViewType DEF Types
<1>12. CASE UNCHANGED vars
  BY <1>12, Zenon DEF vars
<1> QED
  BY <1>1, <1>2, <1>3, <1>4, <1>5, <1>6, <1>7, <1>8, <1>9, <1>10, <1>11, <1>12 DEF Next

(* The app keeps its types whatever races and faults are allowed, and a    *)
(* resume view always shows a film (WebView.m, Dwnl.m,                     *)
(* MainViewController.m 173-474).                                          *)
THEOREM TypeCorrect == Spec => []TypeOK
<1>1. Types /\ Flags /\ [Next]_vars => Types' /\ Flags'
  BY TypesStep, FlagsStep
<1>2. Types /\ Flags => TypeOK
  BY DEF Types, Flags, TypeOK
<1> QED
  BY <1>1, <1>2, TypesInit, PTL DEF Spec

-----------------------------------------------------------------------------
(* Nobody picks or resumes a film while one is fetched, nor does the       *)
(* process die between the two settings.                                   *)
Settled ==
    /\ {"again", "meanwhile", "resume"} \cap Races = {}
    /\ "diesMidImport" \notin Faults

(* What it is that nothing is fetched.                                     *)
LEMMA NothingFetched ==
    /\ Fetching = {} <=> \A s \in Slots : slot[s].film = NoFilm
    /\ Fetching' = {} <=> \A s \in Slots : slot'[s].film = NoFilm
BY DEF Fetching

(* An import finds no fetch that it could spoil.                           *)
LEMMA ImportSpoilsNothing ==
    Types /\ OneFetch /\ Import => \A s \in Slots : slot'[s] = slot[s]
<1> SUFFICES ASSUME Types, OneFetch, Import, NEW s \in Slots
             PROVE  slot'[s] = slot[s]
  OBVIOUS
<1>1. slot[s].step = "free"
  BY NothingFetched DEF OneFetch, Import
<1>2. CleanOldFiles(main) => slot'[s] = slot[s]
  BY <1>1, SpoiltType DEF CleanOldFiles
<1> QED
  BY <1>2 DEF Import

(* At most one film is asked for or fetched.                               *)
LEMMA OneFetchStep ==
    Settled /\ Types /\ OneFetch /\ [Next]_vars => OneFetch'
<1> SUFFICES ASSUME Settled, Types, OneFetch, [Next]_vars PROVE OneFetch'
  OBVIOUS
<1> USE NothingFetched DEF OneFetch, DownloadAsked, MainIdle
<1> USE DEF site, fetches, folder, settings, app
<1>1. ASSUME NEW f \in Films, Choose(f)
      PROVE  OneFetch'
  <2>1. Fetching = {}
    BY <1>1 DEF Choose, Settled
  <2> QED
    BY <1>1, <2>1 DEF Choose
<1>2. CASE StoreTitle \/ DownloadSubs
  BY <1>2 DEF StoreTitle, DownloadSubs, Command
<1>3. CASE DownloadFile
  <2>1. PICK s \in Slots : slot' = [slot EXCEPT ![s] = [film |-> chosen, step |-> "asked"]]
    BY <1>3 DEF DownloadFile
  <2>2. chosen # NoFilm /\ Fetching = {}
    BY <1>3 DEF DownloadFile, Command, Types
  <2> QED
    BY <1>3, <2>1, <2>2 DEF DownloadFile, Command, Types
<1>4. ASSUME NEW s \in Slots, FetchOpens(s)
      PROVE  OneFetch'
  <2>1. \A r \in Slots : slot'[r].film = slot[r].film
    BY <1>4, SpoiltType DEF FetchOpens
  <2>2. \A r \in Slots : slot'[r].step = "free" <=> slot[r].step = "free"
    BY <1>4 DEF FetchOpens, Spoilt, Types
  <2> QED
    BY <1>4, <2>1, <2>2 DEF FetchOpens
<1>5. ASSUME NEW s \in Slots, FetchEnds(s) \/ FetchFails(s)
      PROVE  OneFetch'
  <2>1. \A r \in Slots : slot'[r].film = slot[r].film
    BY <1>5 DEF FetchEnds, FetchFails, FetchMoves, Types
  <2>2. \A r \in Slots : slot'[r].step = "free" <=> slot[r].step = "free"
    BY <1>5 DEF FetchEnds, FetchFails, FetchMoves, Types
  <2>3. left' = left /\ main' = main
    BY <1>5 DEF FetchEnds, FetchFails, FetchMoves
  <2> QED
    BY <2>1, <2>2, <2>3
<1>6. ASSUME NEW s \in Slots, Told(s)
      PROVE  OneFetch'
  <2>1. slot[s].film # NoFilm /\ Released(s) /\ left' = left /\ MainIdle
    BY <1>6 DEF Told, DownloadComplete, DownloadFailed
  <2>2. \A r \in Slots : slot'[r] = FreeSlot
    BY <2>1 DEF Released, FreeSlot, Types, MaybeFilm
  <2>3. ~DownloadAsked
    BY <2>1
  <2> QED
    BY <2>1, <2>2, <2>3 DEF FreeSlot
<1>7. CASE Import
  BY <1>7, ImportSpoilsNothing DEF Import
<1>8. CASE Resume
  BY <1>8 DEF Resume, MayResume, Quiet, Settled
<1>9. CASE Relaunch
  BY <1>9 DEF Relaunch, FreeSlot
<1>10. ASSUME NEW f \in Films, NEW arrive \in BOOLEAN, SubsEnd(f, arrive) \/ FirstPieces(f)
       PROVE  OneFetch'
  BY <1>10 DEF SubsEnd, FirstPieces
<1>11. CASE ReadyToView \/ Close \/ OpenWeb \/ UNCHANGED vars
  BY <1>11 DEF ReadyToView, Close, OpenWeb, vars
<1> QED
  BY <1>1, <1>2, <1>3, <1>4, <1>5, <1>6, <1>7, <1>8, <1>9, <1>10, <1>11
  DEF Next, SendsCommand, Network

(* The others are free when a film is fetched.                             *)
LEMMA OthersAreFree ==
    ASSUME OneFetch, NEW s \in Slots, slot[s].step # "free"
    PROVE  /\ slot[s].film # NoFilm /\ MainIdle /\ ~DownloadAsked
           /\ \A r \in Slots : r # s => slot[r].step = "free" /\ slot[r].film = NoFilm
BY NothingFetched DEF OneFetch

(* What a fetch writes is not spoilt, and so it is whole.                  *)
LEMMA FetchedIsWholeStep ==
    Settled /\ Types /\ OneFetch /\ FetchedIsWhole /\ [Next]_vars => FetchedIsWhole'
<1> SUFFICES ASSUME Settled, Types, OneFetch, FetchedIsWhole, [Next]_vars
             PROVE  FetchedIsWhole'
  OBVIOUS
<1> USE DEF FetchedIsWhole, Types
<1> USE DEF site, fetches, folder, settings, app
<1>1. CASE DownloadFile
  BY <1>1 DEF DownloadFile, Command
<1>2. ASSUME NEW s \in Slots, FetchOpens(s)
      PROVE  FetchedIsWhole'
  BY <1>2, OthersAreFree DEF FetchOpens, StartsAnew
<1>3. ASSUME NEW s \in Slots, FetchEnds(s)
      PROVE  FetchedIsWhole'
  <2>1. slot[s].step = "open"
    BY <1>3 DEF FetchEnds, FetchMoves
  <2>2. slot[s].film \in Films
    BY <2>1, OthersAreFree DEF MaybeFilm
  <2> QED
    BY <1>3, <2>1, <2>2, OthersAreFree DEF FetchEnds, FetchMoves
<1>4. ASSUME NEW s \in Slots, FetchFails(s)
      PROVE  FetchedIsWhole'
  BY <1>4 DEF FetchFails, FetchMoves
<1>5. ASSUME NEW s \in Slots, Told(s)
      PROVE  FetchedIsWhole'
  BY <1>5 DEF Told, DownloadComplete, DownloadFailed, Released, FreeSlot
<1>6. CASE Import
  <2>1. \A s \in Slots : slot'[s].step = "free"
    BY <1>6, ImportSpoilsNothing, NothingFetched DEF OneFetch, Import
  <2> QED
    BY <2>1
<1>7. CASE Relaunch
  BY <1>7 DEF Relaunch, FreeSlot
<1>8. ASSUME NEW f \in Films, NEW arrive \in BOOLEAN,
             Choose(f) \/ SubsEnd(f, arrive) \/ FirstPieces(f)
      PROVE  FetchedIsWhole'
  BY <1>8 DEF Choose, SubsEnd, FirstPieces
<1>9. CASE StoreTitle \/ DownloadSubs
  BY <1>9 DEF StoreTitle, DownloadSubs, Command
<1>10. CASE ReadyToView \/ Close \/ Resume \/ OpenWeb \/ UNCHANGED vars
  BY <1>10 DEF ReadyToView, Close, Resume, OpenWeb, vars
<1> QED
  BY <1>1, <1>2, <1>3, <1>4, <1>5, <1>6, <1>7, <1>8, <1>9, <1>10
  DEF Next, SendsCommand, Network

(* The settings of the main screen and of the engine agree.                *)
LEMMA SettingsAgreeStep ==
    /\ Settled /\ Types /\ OneFetch /\ FetchedIsWhole /\ SettingsAgree
    /\ [Next]_vars
    => SettingsAgree'
<1> SUFFICES ASSUME Settled, Types, OneFetch, FetchedIsWhole, SettingsAgree, [Next]_vars
             PROVE  SettingsAgree'
  OBVIOUS
<1> USE DEF SettingsAgree, MainIdle
<1> USE DEF site, fetches, folder, settings, app
<1>1. ASSUME NEW f \in Films, NEW arrive \in BOOLEAN,
             Choose(f) \/ SubsEnd(f, arrive) \/ FirstPieces(f)
      PROVE  SettingsAgree'
  BY <1>1 DEF Choose, SubsEnd, FirstPieces
<1>2. CASE SendsCommand
  BY <1>2 DEF SendsCommand, StoreTitle, DownloadSubs, DownloadFile, Command
<1>3. ASSUME NEW s \in Slots, Network(s)
      PROVE  SettingsAgree'
  <2>1. slot[s].step # "free"
    BY <1>3 DEF Network, FetchOpens, FetchEnds, FetchFails, FetchMoves
  <2> QED
    BY <1>3, <2>1, OthersAreFree
    DEF Network, FetchOpens, FetchEnds, FetchFails, FetchMoves
<1>4. ASSUME NEW s \in Slots, DownloadComplete(s)
      PROVE  SettingsAgree'
  BY <1>4, OthersAreFree DEF DownloadComplete, FetchedIsWhole
<1>5. ASSUME NEW s \in Slots, DownloadFailed(s)
      PROVE  SettingsAgree'
  BY <1>5 DEF DownloadFailed
<1>6. CASE Import
  BY <1>6 DEF Import
<1>7. CASE Resume
  BY <1>7 DEF Resume, MayResume
<1>8. CASE Relaunch
  BY <1>8 DEF Relaunch, MayDie, Settled
<1>9. CASE ReadyToView \/ Close \/ OpenWeb \/ UNCHANGED vars
  BY <1>9 DEF ReadyToView, Close, OpenWeb, vars
<1> QED
  BY <1>1, <1>2, <1>3, <1>4, <1>5, <1>6, <1>7, <1>8, <1>9 DEF Next, Told

(* No other film is downloaded or in the folder.                           *)
LEMMA OnlyTheFilmStep ==
    /\ Settled /\ Types /\ OneFetch /\ SettingsAgree /\ OnlyTheFilm
    /\ [Next]_vars
    => OnlyTheFilm'
<1> SUFFICES ASSUME Settled, Types, OneFetch, SettingsAgree, OnlyTheFilm, [Next]_vars
             PROVE  OnlyTheFilm'
  OBVIOUS
<1> USE DEF OnlyTheFilm, DownloadAsked, MainIdle
<1> USE DEF site, fetches, folder, settings, app
<1>1. ASSUME NEW f \in Films, Choose(f)
      PROVE  OnlyTheFilm'
  BY <1>1, NothingFetched DEF Choose
<1>2. CASE StoreTitle \/ DownloadSubs
  BY <1>2, NothingFetched DEF StoreTitle, DownloadSubs, Command
<1>3. CASE DownloadFile
  BY <1>3 DEF DownloadFile, Command
<1>4. ASSUME NEW s \in Slots, Network(s)
      PROVE  OnlyTheFilm'
  <2>1. slot[s].step # "free" /\ slot[s].step # "done" /\ UNCHANGED <<left, videos, settings, app>>
    BY <1>4 DEF Network, FetchOpens, FetchEnds, FetchFails, FetchMoves
  <2>2. screen \in {"site", "blank"}
    BY <2>1, OthersAreFree, NothingFetched
  <2> QED
    BY <2>1, <2>2
<1>5. ASSUME NEW s \in Slots, Told(s)
      PROVE  OnlyTheFilm'
  <2>1. slot[s].step # "free"
    BY <1>5 DEF Told, DownloadComplete, DownloadFailed
  <2>2. screen \in {"site", "blank"}
    BY <2>1, OthersAreFree, NothingFetched
  <2> QED
    BY <1>5, <2>2 DEF Told, DownloadComplete, DownloadFailed
<1>6. CASE Import
  <2>1. Fetching' = {} /\ ~DownloadAsked' /\ session = {} /\ main' = NoFilm
    BY <1>6, NothingFetched, ImportSpoilsNothing DEF Import, OneFetch
  <2>2. CASE file[main] # "whole"
    BY <1>6, <2>1, <2>2 DEF Import
  <2>3. CASE file[main] = "whole" /\ torrentInfo = main
    BY <1>6, <2>1, <2>3 DEF Import
  <2>4. CASE file[main] = "whole" /\ torrentInfo # main
    BY <1>6, <2>1, <2>4 DEF Import, CleanOldFiles
  <2> QED
    BY <2>2, <2>3, <2>4
<1>7. ASSUME NEW f \in Films, FirstPieces(f)
      PROVE  OnlyTheFilm'
  BY <1>7, NothingFetched DEF FirstPieces
<1>8. CASE ReadyToView
  <2>1. ~DownloadAsked /\ Fetching = {} /\ MainIdle
    BY <1>8 DEF ReadyToView
  <2>2. torrent = torrentInfo
    BY <1>8 DEF ReadyToView, Types
  <2> QED
    BY <1>8, <2>1, <2>2, NothingFetched DEF ReadyToView, StartToViewplayer
<1>9. CASE Close
  BY <1>9, NothingFetched DEF Close, OpenStartsView
<1>10. CASE Resume
  <2>1. ~DownloadAsked /\ Fetching = {} /\ session = {}
    BY <1>10 DEF Resume, MayResume, Usable, Quiet, Settled
  <2> QED
    BY <1>10, <2>1, NothingFetched DEF Resume, StartToViewplayer
<1>11. CASE Relaunch
  BY <1>11 DEF Relaunch, OpenStartsView
<1>12. ASSUME NEW f \in Films, NEW arrive \in BOOLEAN, SubsEnd(f, arrive)
       PROVE  OnlyTheFilm'
  BY <1>12, NothingFetched DEF SubsEnd
<1>13. CASE OpenWeb \/ UNCHANGED vars
  BY <1>13, NothingFetched DEF OpenWeb, vars
<1> QED
  BY <1>1, <1>2, <1>3, <1>4, <1>5, <1>6, <1>7, <1>8, <1>9, <1>10, <1>11, <1>12, <1>13
  DEF Next, SendsCommand

(* The app starts in the invariant.                                        *)
LEMMA ResumeInit == Init => ResumeInv
<1> SUFFICES ASSUME Init PROVE ResumeInv
  OBVIOUS
<1>1. \A s \in Slots : slot[s] = FreeSlot
  BY DEF Init
<1>2. OneFetch
  BY <1>1, NothingFetched DEF Init, OneFetch, FreeSlot, MainIdle, DownloadAsked
<1>3. FetchedIsWhole
  BY <1>1 DEF FetchedIsWhole, FreeSlot
<1>4. SettingsAgree
  BY DEF Init, SettingsAgree, MainIdle
<1>5. OnlyTheFilm
  BY <1>2 DEF Init, OnlyTheFilm
<1> QED
  BY <1>2, <1>3, <1>4, <1>5, TypesInit DEF ResumeInv

(* A film that is resumed as one that can be watched is the one in the     *)
(* folder and the one imported, though fetches fail, subtitles come late,  *)
(* the site is gone and the process dies during a fetch                    *)
(* (MainViewController.m 184-191, 326-328, 373, streamerok.cpp 226-235).   *)
THEOREM PlaysResumedCorrect == ASSUME Settled PROVE Spec => []PlaysResumed
<1>1. ResumeInv /\ [Next]_vars => ResumeInv'
  BY TypesStep, OneFetchStep, FetchedIsWholeStep, SettingsAgreeStep, OnlyTheFilmStep
  DEF ResumeInv
<1>2. ResumeInv => PlaysResumed
  BY DEF ResumeInv, PlaysResumed, SettingsAgree, OnlyTheFilm
<1> QED
  BY <1>1, <1>2, ResumeInit, PTL DEF Spec

-----------------------------------------------------------------------------
(* The user picks or resumes no other film while one is fetched, and the   *)
(* fetches arrive.  The same film may be picked again and again, each time *)
(* with a fetch of its own.                                                *)
OneAtATime ==
    /\ {"meanwhile", "resume"} \cap Races = {}
    /\ {"fetchFails", "dies"} \cap Faults = {}

(* What makes LastFileIsWhole inductive: all the fetches are of the film   *)
(* that is picked, and an import is of that film,                          *)
OneBusy ==
    /\ \A s \in Slots : slot[s].film = NoFilm <=> slot[s].step = "free"
    /\ \A s \in Slots : slot[s].step # "failed"
    /\ left # {} => \A s \in Slots : slot[s].film \in {NoFilm, chosen}
    /\ \A r, s \in Slots :
          slot[r].film # NoFilm /\ slot[s].film # NoFilm => slot[r].film = slot[s].film
    /\ ~MainIdle => main = lastFile /\ \A s \in Slots : slot[s].film \in {NoFilm, main}

(* and its file is whole, or there is a fetch that will write all of it.   *)
Busy(f) == \E s \in Slots : slot[s].film = f

Written(f) ==
    \/ file[f] = "whole"
    \/ \E s \in Slots : slot[s].film = f /\ slot[s].step \in {"asked", "open"}

AllWritten == \A f \in Films : f = lastFile \/ Busy(f) => Written(f)

(* Neither the network nor an import frees a fetch or changes its film.    *)
SlotsStay ==
    \A s \in Slots :
        /\ slot'[s].film = slot[s].film
        /\ slot'[s].step = "free" <=> slot[s].step = "free"
        /\ slot'[s].step = "failed" <=> slot[s].step = "failed"

(* The network moves a fetch on, and fetches do not fail.                  *)
LEMMA NetworkKeepsSlots ==
    ASSUME OneAtATime, Types, NEW s \in Slots, Network(s)
    PROVE  SlotsStay
<1> USE DEF SlotsStay, Types
<1>1. CASE FetchOpens(s)
  BY <1>1 DEF FetchOpens, Spoilt, StartsAnew
<1>2. CASE FetchEnds(s)
  BY <1>2 DEF FetchEnds, FetchMoves
<1> QED
  BY <1>1, <1>2 DEF Network, FetchFails, OneAtATime

(* An import may spoil a fetch, but does not end it.                       *)
LEMMA ImportKeepsSlots ==
    ASSUME Types, Import
    PROVE  SlotsStay
<1>1. CASE UNCHANGED slot
  BY <1>1 DEF SlotsStay
<1>2. CASE CleanOldFiles(main)
  BY <1>2 DEF CleanOldFiles, SlotsStay, Spoilt, Types
<1> QED
  BY <1>1, <1>2 DEF Import

(* A block of the main queue frees one fetch.                              *)
LEMMA ToldFrees ==
    ASSUME Types, NEW s \in Slots, Released(s)
    PROVE  slot'[s] = FreeSlot /\ \A r \in Slots : r # s => slot'[r] = slot[r]
BY DEF Types, Released, FreeSlot, MaybeFilm

(* A command that asks for a torrent takes a free slot.                    *)
LEMMA AskedTakes ==
    ASSUME Types, DownloadFile
    PROVE  \E s \in Slots :
              /\ slot[s] = FreeSlot /\ slot'[s] = [film |-> chosen, step |-> "asked"]
              /\ \A r \in Slots : r # s => slot'[r] = slot[r]
<1>1. PICK s \in Slots : /\ slot[s] = FreeSlot
                         /\ slot' = [slot EXCEPT ![s] = [film |-> chosen, step |-> "asked"]]
  BY DEF DownloadFile
<1> QED
  BY <1>1 DEF Types

(* Every step keeps the fetches of one film.                               *)
LEMMA OneBusyStep ==
    ASSUME OneAtATime, Types, OneBusy, [Next]_vars
    PROVE  OneBusy'
<1> USE DEF site, fetches, folder, settings, app
<1>1. ASSUME NEW f \in Films, Choose(f) PROVE OneBusy'
  <2>1. Fetching \subseteq {f}
    BY <1>1 DEF Choose, OneAtATime
  <2>2. \A s \in Slots : slot[s].film \in {NoFilm, f}
    BY <2>1 DEF Fetching
  <2> QED
    BY <1>1, <2>2 DEF Choose, OneBusy, MainIdle
<1>2. CASE StoreTitle \/ DownloadSubs
  <2>1. /\ UNCHANGED <<slot, chosen, main, lastFile>>
        /\ left # {}
    BY <1>2 DEF StoreTitle, DownloadSubs, Command
  <2> QED
    BY <2>1 DEF OneBusy, MainIdle
<1>3. CASE DownloadFile
  <2>1. /\ left # {} /\ UNCHANGED <<chosen, main, lastFile>> /\ MainIdle
        /\ chosen # NoFilm
    BY <1>3 DEF DownloadFile, Command, Types
  <2>2. PICK s \in Slots :
           /\ slot[s] = FreeSlot /\ slot'[s] = [film |-> chosen, step |-> "asked"]
           /\ \A r \in Slots : r # s => slot'[r] = slot[r]
    BY <1>3, AskedTakes
  <2>3. \A r \in Slots : slot[r].film \in {NoFilm, chosen}
    BY <2>1 DEF OneBusy
  <2> QED
    BY <2>1, <2>2, <2>3 DEF OneBusy, MainIdle
<1>4. CASE SlotsStay /\ UNCHANGED <<left, chosen, lastFile>> /\ main' \in {NoFilm, main}
  BY <1>4 DEF SlotsStay, OneBusy, MainIdle
<1>5. ASSUME NEW s \in Slots, Network(s) PROVE OneBusy'
  <2>1. UNCHANGED <<left, chosen, lastFile, main>>
    BY <1>5 DEF Network, FetchOpens, FetchEnds, FetchFails, FetchMoves
  <2> QED
    BY <1>4, <1>5, <2>1, NetworkKeepsSlots
<1>6. CASE Import
  <2>1. UNCHANGED <<left, chosen, lastFile>> /\ main' = NoFilm
    BY <1>6 DEF Import
  <2> QED
    BY <1>4, <1>6, <2>1, ImportKeepsSlots
<1>7. ASSUME NEW s \in Slots, Told(s) PROVE OneBusy'
  <2>1. DownloadComplete(s)
    BY <1>7 DEF Told, DownloadFailed, OneBusy
  <2>2. /\ slot'[s] = FreeSlot /\ \A r \in Slots : r # s => slot'[r] = slot[r]
    BY <2>1, ToldFrees DEF DownloadComplete
  <2>3. /\ slot[s].film # NoFilm
        /\ \A r \in Slots : slot[r].film \in {NoFilm, slot[s].film}
    BY <2>1 DEF DownloadComplete, OneBusy
  <2> QED
    BY <2>1, <2>2, <2>3 DEF DownloadComplete, OneBusy, FreeSlot, MainIdle
<1>8. CASE Resume
  <2>1. /\ UNCHANGED <<slot, left, chosen, lastFile>> /\ main' = lastFile
        /\ Fetching = {}
    BY <1>8 DEF Resume, MayResume, Quiet, OneAtATime
  <2> QED
    BY <2>1, NothingFetched DEF OneBusy, MainIdle
<1>9. CASE Relaunch
  BY <1>9 DEF Relaunch, FreeSlot, OneBusy, MainIdle
<1>10. ASSUME NEW f \in Films, NEW arrive \in BOOLEAN, SubsEnd(f, arrive) \/ FirstPieces(f)
       PROVE  OneBusy'
  BY <1>10 DEF SubsEnd, FirstPieces, OneBusy, MainIdle
<1>11. CASE ReadyToView \/ Close \/ OpenWeb \/ UNCHANGED vars
  BY <1>11 DEF ReadyToView, Close, OpenWeb, vars, OneBusy, MainIdle
<1> QED
  BY <1>1, <1>2, <1>3, <1>5, <1>6, <1>7, <1>8, <1>9, <1>10, <1>11 DEF Next, SendsCommand

(* Who empties a file writes it again, and none that is needed is deleted. *)
LEMMA AllWrittenStep ==
    ASSUME OneAtATime, Types, OneBusy, AllWritten, [Next]_vars
    PROVE  AllWritten'
<1> USE DEF site, fetches, folder, settings, app
<1>1. CASE UNCHANGED <<slot, file, lastFile>>
  BY <1>1 DEF AllWritten, Busy, Written
<1>2. CASE DownloadFile
  <2>1. PICK s \in Slots :
           /\ slot[s] = FreeSlot /\ slot'[s] = [film |-> chosen, step |-> "asked"]
           /\ \A r \in Slots : r # s => slot'[r] = slot[r]
    BY <1>2, AskedTakes
  <2>2. UNCHANGED <<file, lastFile>>
    BY <1>2 DEF DownloadFile, Command
  <2> QED
    BY <2>1, <2>2 DEF AllWritten, Busy, Written, FreeSlot
<1>3. ASSUME NEW s \in Slots, FetchOpens(s) PROVE AllWritten'
  <2>1. /\ slot'[s] = [film |-> slot[s].film, step |-> "open"]
        /\ \A r \in Slots : slot'[r].film = slot[r].film
        /\ \A r \in Slots : slot[r].film # slot[s].film => slot'[r] = slot[r]
        /\ lastFile' = lastFile
        /\ \A f \in Films : f # slot[s].film => file'[f] = file[f]
    BY <1>3 DEF FetchOpens, StartsAnew, Spoilt, Types
  <2>2. ASSUME NEW f \in Films, f = lastFile \/ Busy(f)' PROVE Written(f)'
    <3>1. Written(f)
      BY <2>1, <2>2 DEF AllWritten, Busy
    <3>2. CASE f = slot[s].film
      BY <2>1, <3>2 DEF Written
    <3>3. CASE f # slot[s].film
      BY <2>1, <3>1, <3>3 DEF Written
    <3> QED
      BY <3>2, <3>3
  <2> QED
    BY <2>1, <2>2 DEF AllWritten
<1>4. ASSUME NEW s \in Slots, FetchEnds(s) PROVE AllWritten'
  <2>1. /\ slot[s].step \in {"open", "spoilt"} /\ slot'[s].film = slot[s].film
        /\ \A r \in Slots : r # s => slot'[r] = slot[r]
        /\ lastFile' = lastFile
        /\ \A f \in Films : f # slot[s].film => file'[f] = file[f]
        /\ slot[s].step = "open" /\ slot[s].film \in Films => file'[slot[s].film] = "whole"
        /\ slot[s].step = "spoilt" => file' = file
    BY <1>4 DEF FetchEnds, FetchMoves, Types
  <2>2. ASSUME NEW f \in Films, f = lastFile \/ Busy(f)' PROVE Written(f)'
    <3>1. Written(f)
      BY <2>1, <2>2 DEF AllWritten, Busy
    <3>2. CASE f = slot[s].film /\ slot[s].step = "open"
      BY <2>1, <3>2 DEF Written
    <3>3. CASE ~(f = slot[s].film /\ slot[s].step = "open")
      BY <2>1, <3>1, <3>3 DEF Written
    <3> QED
      BY <3>2, <3>3
  <2> QED
    BY <2>1, <2>2 DEF AllWritten
<1>5. ASSUME NEW s \in Slots, Told(s) PROVE AllWritten'
  <2>1. DownloadComplete(s)
    BY <1>5 DEF Told, DownloadFailed, OneBusy
  <2>2. /\ slot'[s] = FreeSlot /\ \A r \in Slots : r # s => slot'[r] = slot[r]
    BY <2>1, ToldFrees DEF DownloadComplete
  <2>3. /\ slot[s].step = "done" /\ file' = file /\ lastFile' = slot[s].film
    BY <2>1 DEF DownloadComplete
  <2>4. ASSUME NEW f \in Films, f = lastFile' \/ Busy(f)' PROVE Written(f)'
    <3>1. Busy(f)
      BY <2>2, <2>3, <2>4 DEF Busy, FreeSlot
    <3>2. Written(f)
      BY <3>1 DEF AllWritten
    <3> QED
      BY <2>2, <2>3, <3>2 DEF Written
  <2> QED
    BY <2>4 DEF AllWritten
<1>6. CASE Import
  <2>1. /\ SlotsStay /\ lastFile' = lastFile /\ main = lastFile /\ main # NoFilm
        /\ \A s \in Slots : slot[s].film \in {NoFilm, main}
    BY <1>6, ImportKeepsSlots DEF Import, OneBusy, MainIdle
  <2>2. /\ file'[main] = file[main]
        /\ \A s \in Slots : slot[s].film = main => slot'[s] = slot[s]
    <3>1. main \in Films
      BY <2>1 DEF Types, MaybeFilm
    <3> QED
      BY <1>6, <3>1 DEF Import, CleanOldFiles, Types
  <2>3. ASSUME NEW f \in Films, f = lastFile \/ Busy(f)' PROVE Written(f)'
    <3>1. f = main
      BY <2>1, <2>3 DEF Busy, SlotsStay
    <3>2. Written(f)
      BY <2>1, <3>1 DEF AllWritten
    <3> QED
      BY <2>2, <3>1, <3>2 DEF Written
  <2> QED
    BY <2>1, <2>3 DEF AllWritten
<1>7. CASE Relaunch
  <2>1. /\ \A s \in Slots : slot[s].film = NoFilm
        /\ \A s \in Slots : slot'[s].film = NoFilm
        /\ UNCHANGED <<file, lastFile>>
    BY <1>7, NothingFetched DEF Relaunch, MayDie, OneAtATime, Quiet, FreeSlot
  <2> QED
    BY <2>1 DEF AllWritten, Busy, Written
<1>8. CASE \/ \E f \in Films : Choose(f) \/ FirstPieces(f)
           \/ \E f \in Films, arrive \in BOOLEAN : SubsEnd(f, arrive)
           \/ StoreTitle \/ DownloadSubs \/ ReadyToView \/ Close \/ Resume \/ OpenWeb
           \/ UNCHANGED vars
  <2>1. UNCHANGED <<slot, file, lastFile>>
    BY <1>8 DEF Choose, FirstPieces, SubsEnd, StoreTitle, DownloadSubs, Command,
                ReadyToView, Close, Resume, OpenWeb, vars
  <2> QED
    BY <1>1, <2>1
<1> QED
  BY <1>2, <1>3, <1>4, <1>5, <1>6, <1>7, <1>8
     DEF Next, SendsCommand, Network, FetchFails, OneAtATime

(* All the fetches write one film, and it will be whole.                   *)
WholeInv == Types /\ OneBusy /\ AllWritten

(* So it is however often the film is picked again.                        *)
LEMMA WholeInvHolds == ASSUME OneAtATime PROVE Spec => []WholeInv
<1>1. Init => WholeInv
  <2> SUFFICES ASSUME Init PROVE WholeInv
    OBVIOUS
  <2>1. \A s \in Slots : slot[s] = FreeSlot
    BY DEF Init
  <2>2. left = {} /\ main = NoFilm /\ lastFile = NoFilm
    BY DEF Init
  <2>3. OneBusy
    BY <2>1, <2>2 DEF OneBusy, FreeSlot, MainIdle
  <2>4. AllWritten
    BY <2>1, <2>2 DEF AllWritten, Busy, FreeSlot
  <2> QED
    BY <2>3, <2>4, TypesInit DEF WholeInv
<1>2. WholeInv /\ [Next]_vars => WholeInv'
  BY TypesStep, OneBusyStep, AllWrittenStep DEF WholeInv
<1> QED
  BY <1>1, <1>2, PTL DEF Spec

(* The torrent file of the film to resume is whole once no fetch is under  *)
(* way, however often the film was picked while it was fetched: a fetch    *)
(* empties the file another has written, and then writes all of it         *)
(* (Dwnl.m 39-45, StreamerokHelper.m 63-75).                               *)
THEOREM LastFileWhole == ASSUME OneAtATime PROVE Spec => []LastFileIsWhole
<1>1. WholeInv => LastFileIsWhole
  <2> SUFFICES ASSUME WholeInv, Fetching = {}, lastFile # NoFilm
               PROVE  file[lastFile] = "whole"
    BY DEF LastFileIsWhole, Quiet
  <2>1. lastFile \in Films
    BY DEF WholeInv, Types, MaybeFilm
  <2> QED
    BY <2>1, NothingFetched DEF WholeInv, AllWritten, Written
<1> QED
  BY <1>1, WholeInvHolds, PTL

=============================================================================
