---------------------------- MODULE UpdateProofs ----------------------------
(***************************************************************************)
(* What holds of the update system for any number of threads, updaters and *)
(* releases.                                                               *)
(***************************************************************************)
EXTENDS UpdateSystem, TLAPS

LEMMA VersionFacts == /\ Version \subseteq Nat
                      /\ 1 \in Version
                      /\ NoVersion \notin Version
  BY MaxVersionAssumption DEF Version, NoVersion

LEMMA VersionIsNat == \A v \in Version \cup {NoVersion} : v \in Nat
  BY MaxVersionAssumption DEF Version, NoVersion

LEMMA NoTries == 0 \in 0 .. MaxDownloadAttempts - 1
  BY MaxDownloadAttemptsAssumption

(* The values the program assigns to a state are states. *)
LEMMA StatusNames ==
    /\ "upToDate" \in Status /\ "errorDownloading" \in Status
    /\ "readyToDownload" \in Status /\ "readyToInstall" \in Status
    /\ "networkError" \in Status
  BY DEF Status

LEMMA DefaultTyping == DefaultState \in UpdateRecord
  BY StatusNames DEF DefaultState, UpdateRecord

LEMMA LostTyping == NoFile \in FileContents /\ Torn \in FileContents
  BY DefaultTyping, VersionFacts DEF NoFile, Torn, FileContents

LEMMA SerializeTyping ==
    ASSUME NEW v \in Version, NEW s \in UpdateRecord
    PROVE  Serialize(v, s) \in FileContents
  BY DEF Serialize, FileContents

LEMMA FinalTyping == ASSUME NEW t \in Status PROVE FinalState(t) \in UpdateRecord
  BY DEF FinalState, DefaultState, UpdateRecord

LEMMA ProcessTyping ==
    ASSUME NEW s \in UpdateRecord, NEW v \in Version \cup {NoVersion}, NEW t \in Status
    PROVE  /\ UpToDateState(s) \in UpdateRecord
           /\ NewVersionState(s, v) \in UpdateRecord
           /\ DownloadedState(s, v) \in UpdateRecord
           /\ NotDownloadedState(s, t) \in UpdateRecord
           /\ [s EXCEPT !.state = t] \in UpdateRecord
<1>1. UpToDateState(s) \in UpdateRecord
  BY StatusNames DEF UpToDateState, UpdateRecord
<1>2. NewVersionState(s, v) \in UpdateRecord
  BY DEF NewVersionState, UpdateRecord
<1>3. DownloadedState(s, v) \in UpdateRecord
  BY StatusNames DEF DownloadedState, UpdateRecord
<1>4. NotDownloadedState(s, t) \in UpdateRecord
  BY DEF NotDownloadedState, UpdateRecord
<1>5. [s EXCEPT !.state = t] \in UpdateRecord
  BY DEF UpdateRecord
<1> QED
  BY <1>1, <1>2, <1>3, <1>4, <1>5

LEMMA InitTyped == ASSUME Init PROVE TypeOK
<1>1. file \in FileContents /\ mem \in [Proc -> UpdateRecord]
  BY DefaultTyping, LostTyping DEF Init
<1>2. /\ lock \in Proc \cup {NoProc, Abandoned}
      /\ pc \in [Proc -> Labels]
      /\ ver \in [Proc -> Version]
      /\ latest \in Version /\ installed \in Version
  BY VersionFacts DEF Init, Labels
<1>3. /\ updates \in [Version -> InstallerFile]
      /\ target \in [Proc -> Version \cup {NoVersion}]
      /\ tries \in [Proc -> 0 .. MaxDownloadAttempts - 1]
  BY NoTries DEF Init, InstallerFile
<1>4. runner \in {"up", "closing", "down"} /\ checking \in BOOLEAN
  BY DEF Init
<1> QED
  BY <1>1, <1>2, <1>3, <1>4 DEF TypeOK

(* The steps every process takes on the state file preserve its typing and *)
(* that of the processes' own state.                                       *)
FileTyped == /\ file \in FileContents
             /\ lock \in Proc \cup {NoProc, Abandoned}
             /\ pc \in [Proc -> Labels]
             /\ mem \in [Proc -> UpdateRecord]
             /\ ver \in [Proc -> Version]

LEMMA ReadTyped ==
    ASSUME FileTyped, NEW p \in Proc, NEW next \in Labels,
           ReadFile(p, next) \/ ReadBadFile(p) \/ ResetFile(p, next)
    PROVE  FileTyped'
<1>1. CASE ReadFile(p, next)
  <2>1. file.data \in UpdateRecord
    BY DEF FileTyped, FileContents
  <2> QED
    BY <1>1, <2>1, DefaultTyping DEF ReadFile, FileTyped
<1>2. CASE ReadBadFile(p)
  BY <1>2, LostTyping DEF ReadBadFile, FileTyped, Labels
<1>3. CASE ResetFile(p, next)
  <2>1. Serialize(ver[p], DefaultState) \in FileContents
    BY DefaultTyping, SerializeTyping DEF FileTyped
  <2> QED
    BY <1>3, <2>1, DefaultTyping DEF ResetFile, FileTyped
<1> QED
  BY <1>1, <1>2, <1>3

LEMMA StoreTyped ==
    ASSUME FileTyped, NEW p \in Proc, NEW next \in Labels,
           StoreBegin(p) \/ StoreEnd(p, next)
    PROVE  FileTyped'
<1>1. CASE StoreBegin(p)
  BY <1>1, LostTyping DEF StoreBegin, FileTyped, Labels
<1>2. CASE StoreEnd(p, next)
  <2>1. Serialize(ver[p], mem[p]) \in FileContents
    BY SerializeTyping DEF FileTyped
  <2> QED
    BY <1>2, <2>1, DefaultTyping DEF StoreEnd, FileTyped
<1> QED
  BY <1>1, <1>2

(* The type invariant is inductive as it stands. *)
LEMMA NextTyped == ASSUME TypeOK, [Next]_vars PROVE TypeOK'
<1> USE VersionFacts, NoTries, DefaultTyping, LostTyping, StatusNames
    DEF TypeOK, Labels, runnerVars
<1>0. FileTyped
  BY DEF FileTyped
<1>1. CASE Publish
  BY <1>1 DEF Publish
<1>2. CASE RunnerStart
  BY <1>2 DEF RunnerStart
<1>3. CASE RunnerExit
  BY <1>3 DEF RunnerExit, Die
<1>4. ASSUME NEW p \in Checkers, Checker(p) PROVE TypeOK'
  <2> p \in Proc
    BY ProcAssumption DEF RunnerThreads
  <2>1. CASE CheckerRead(p)
    <3>1. FileTyped'
      BY <1>0, <2>1, ReadTyped DEF CheckerRead
    <3> QED
      BY <2>1, <3>1 DEF CheckerRead, FileTyped
  <2>2. CASE CheckerReadBad(p)
    BY <2>2 DEF CheckerReadBad, ReadBadFile
  <2>3. CASE Wake(p)
    BY <2>3 DEF Wake
  <2>4. CASE StartManualCheck(p)
    BY <2>4 DEF StartManualCheck
  <2>5. CASE NoVersionInfo(p)
    BY <2>5, ProcessTyping DEF NoVersionInfo
  <2>6. CASE ProcessUpToDate(p)
    BY <2>6, ProcessTyping DEF ProcessUpToDate
  <2>7. CASE ProcessAlreadyDownloaded(p)
    BY <2>7, ProcessTyping DEF ProcessAlreadyDownloaded
  <2>8. CASE ProcessReadyToDownload(p)
    BY <2>8, ProcessTyping DEF ProcessReadyToDownload
  <2>9. CASE ProcessDownload(p)
    BY <2>9, ProcessTyping DEF ProcessDownload
  <2>10. CASE ProcessCleanup(p)
    BY <2>10 DEF ProcessCleanup, CleanupUpdates, InstallerFile
  <2>11. CASE CleanupThrows(p)
    BY <2>11 DEF CleanupThrows
  <2>12. CASE CheckerDownload(p)
    <3>1. CASE DownloadOpen(p) \/ DownloadRetry(p)
      BY <2>12, <3>1, MaxDownloadAttemptsAssumption
      DEF CheckerDownload, DownloadOpen, DownloadRetry, InstallerFile
    <3>2. CASE DownloadDone(p, DownloadedState(mem[p], target[p]), "store")
      BY <2>12, <3>2, ProcessTyping DEF CheckerDownload, DownloadDone, DownloadOpen,
         DownloadRetry, DownloadFail, InstallerFile
    <3>3. CASE DownloadFail(p, NotDownloadedState(mem[p], "errorDownloading"), "store")
      BY <2>12, <3>3, ProcessTyping DEF CheckerDownload, DownloadFail, DownloadOpen,
         DownloadRetry, DownloadDone, InstallerFile
    <3> QED
      BY <2>12, <3>1, <3>2, <3>3 DEF CheckerDownload
  <2>13. CASE CheckerStoreBegin(p)
    BY <2>13 DEF CheckerStoreBegin, StoreBegin
  <2>14. CASE CheckerStoreEnd(p)
    <3>1. FileTyped'
      BY <1>0, <2>14, StoreTyped DEF CheckerStoreEnd
    <3> QED
      BY <2>14, <3>1 DEF CheckerStoreEnd, FileTyped
  <2> QED
    BY <1>4, <2>1, <2>2, <2>3, <2>4, <2>5, <2>6, <2>7, <2>8, <2>9, <2>10, <2>11,
       <2>12, <2>13, <2>14 DEF Checker
<1>5. ASSUME NEW p \in Cleaner, CleanerRead(p) \/ CleanerCleanup(p) PROVE TypeOK'
  <2> p \in Proc
    BY ProcAssumption DEF RunnerThreads
  <2>1. CASE CleanerRead(p)
    <3>1. FileTyped'
      BY <1>0, <2>1, ReadTyped DEF CleanerRead
    <3> QED
      BY <2>1, <3>1 DEF CleanerRead, FileTyped
  <2>2. CASE CleanerCleanup(p)
    BY <2>2 DEF CleanerCleanup, CleanupUpdates, InstallerFile
  <2> QED
    BY <1>5, <2>1, <2>2
<1>6. ASSUME NEW p \in Query, QueryStart(p) \/ QueryRead(p) PROVE TypeOK'
  <2> p \in Proc
    BY ProcAssumption DEF RunnerThreads
  <2>1. CASE QueryRead(p)
    <3>1. FileTyped'
      BY <1>0, <2>1, ReadTyped DEF QueryRead
    <3> QED
      BY <2>1, <3>1 DEF QueryRead, FileTyped
  <2>2. CASE QueryStart(p)
    BY <2>2 DEF QueryStart
  <2> QED
    BY <1>6, <2>1, <2>2
<1>7. ASSUME NEW u \in Updaters, Updater(u) PROVE TypeOK'
  <2> u \in Proc
    BY ProcAssumption
  <2>1. CASE LaunchStage1(u)
    BY <2>1 DEF LaunchStage1
  <2>2. CASE UpdaterRead(u)
    <3>1. FileTyped'
      BY <1>0, <2>2, ReadTyped DEF UpdaterRead
    <3> QED
      BY <2>2, <3>1 DEF UpdaterRead, FileTyped
  <2>3. ASSUME NEW info \in BOOLEAN, ObtainUpToDate(u, info) \/ ObtainNothing(u, info)
        PROVE  TypeOK'
    BY <2>3, FinalTyping DEF ObtainUpToDate, ObtainNothing, Conclude
  <2>4. ASSUME NEW info \in BOOLEAN, ObtainDownloaded(u, info) PROVE TypeOK'
    <3>1. mem[u].downloadedInstallerFilename \in Version \cup {NoVersion}
      BY DEF UpdateRecord
    <3> QED
      BY <2>4, <3>1, FinalTyping DEF ObtainDownloaded, Conclude
  <2>5. CASE ObtainDownload(u)
    BY <2>5 DEF ObtainDownload
  <2>6. CASE ObtainNoInfo(u) \/ Stage1Fails(u) \/ Stage2Fails(u)
    BY <2>6, FinalTyping DEF ObtainNoInfo, Stage1Fails, Stage2Fails, Conclude
  <2>7. CASE UpdaterCleanup(u)
    BY <2>7 DEF UpdaterCleanup, CleanupUpdates, InstallerFile
  <2>8. CASE UpdaterDownload(u)
    BY <2>8, FinalTyping, MaxDownloadAttemptsAssumption
    DEF UpdaterDownload, DownloadOpen, DownloadRetry, DownloadDone, DownloadFail,
        InstallerFile
  <2>9. CASE CloseRunner(u) \/ LaunchStage2(u)
    BY <2>9 DEF CloseRunner, LaunchStage2
  <2>10. CASE Stage2Installs(u)
    <3>1. target[u] \in Version
      BY <2>10 DEF Stage2Installs, InstallerSucceeds, NoVersion
    <3>2. pc' \in [Proc -> Labels] /\ mem' \in [Proc -> UpdateRecord]
      BY <2>10, FinalTyping DEF Stage2Installs
    <3> QED
      BY <2>10, <3>1, <3>2
      DEF Stage2Installs, InstallerSucceeds
  <2>11. CASE UpdaterStore(u)
    <3>1. FileTyped'
      BY <1>0, <2>11, StoreTyped DEF UpdaterStore
    <3> QED
      BY <2>11, <3>1 DEF UpdaterStore, FileTyped
  <2>12. CASE UpdaterDies(u)
    BY <2>12 DEF UpdaterDies, Die
  <2> QED
    BY <1>7, <2>1, <2>2, <2>3, <2>4, <2>5, <2>6, <2>7, <2>8, <2>9, <2>10, <2>11, <2>12
    DEF Updater
<1>8. CASE UNCHANGED vars
  BY <1>8 DEF vars
<1> QED
  BY <1>1, <1>2, <1>3, <1>4, <1>5, <1>6, <1>7, <1>8 DEF Next

(* Type correctness of the whole update system, for any set of threads and *)
(* updaters and any number of releases and download attempts.              *)
THEOREM TypeCorrect == Spec => []TypeOK
  BY InitTyped, NextTyped, PTL DEF Spec

---------------------------------------------------------------------------
(* The state file is sound *)

(* What the program makes of a sound state is sound. *)
LEMMA SoundFinal ==
    ASSUME NEW v \in Version
    PROVE  /\ Sound(v, DefaultState)
           /\ Sound(v, FinalState("upToDate"))
           /\ Sound(v, FinalState("errorDownloading"))
  BY DEF Sound, DefaultState, FinalState

LEMMA SoundKept ==
    ASSUME NEW s \in UpdateRecord, NEW v \in Version, Sound(v, s)
    PROVE  /\ Sound(v, UpToDateState(s))
           /\ Sound(v, [s EXCEPT !.state = "networkError"])
           /\ Sound(v, NotDownloadedState(s, "errorDownloading"))
  BY VersionFacts DEF Sound, UpdateRecord, UpToDateState, NotDownloadedState

LEMMA SoundNew ==
    ASSUME NEW s \in UpdateRecord, NEW v \in Version, NEW n \in Version, n > v,
           Sound(v, s), s.downloadedInstallerFilename <= n
    PROVE  /\ Sound(v, NewVersionState(s, n))
           /\ Sound(v, NotDownloadedState(NewVersionState(s, n), "readyToDownload"))
           /\ s.releasePageUrl = n => Sound(v, DownloadedState(s, n))
<1> USE VersionFacts DEF Sound, UpdateRecord
<1>1. Sound(v, NewVersionState(s, n))
  BY DEF NewVersionState
<1>2. Sound(v, NotDownloadedState(NewVersionState(s, n), "readyToDownload"))
  BY DEF NotDownloadedState, NewVersionState
<1>3. s.releasePageUrl = n => Sound(v, DownloadedState(s, n))
  BY DEF DownloadedState
<1> QED
  BY <1>1, <1>2, <1>3

(* What they leave of the two version numbers in a state. *)
LEMMA StateFields ==
    ASSUME NEW s \in UpdateRecord
    PROVE  /\ UpToDateState(s).downloadedInstallerFilename = NoVersion
           /\ [s EXCEPT !.state = "networkError"].downloadedInstallerFilename
                 = s.downloadedInstallerFilename
           /\ \A t : NotDownloadedState(s, t).downloadedInstallerFilename = NoVersion
           /\ \A n : DownloadedState(s, n).downloadedInstallerFilename = n
  BY DEF UpToDateState, NotDownloadedState, DownloadedState, UpdateRecord

LEMMA NewVersionFields ==
    ASSUME NEW s \in UpdateRecord, NEW n \in Version
    PROVE  /\ NewVersionState(s, n) \in UpdateRecord
           /\ NewVersionState(s, n).downloadedInstallerFilename = s.downloadedInstallerFilename
           /\ NewVersionState(s, n).releasePageUrl = n
  BY DEF NewVersionState, UpdateRecord

LEMMA FinalFields ==
    ASSUME NEW t PROVE FinalState(t).downloadedInstallerFilename = NoVersion
  BY DEF FinalState, DefaultState

(* The invariant, seen from one process and from the file. *)
ProcessSound(p) ==
    /\ Sound(ver[p], mem[p])
    /\ mem[p].downloadedInstallerFilename <= latest
    /\ target[p] <= latest
    /\ pc[p] = "off" => mem[p] = DefaultState
    /\ p \in Checkers \cup Updaters /\ pc[p] \in Fetching =>
          /\ target[p] > ver[p]
          /\ p \in Checkers => mem[p].releasePageUrl = target[p]

FileSound == /\ RecordedStateIsSound
             /\ file.data.downloadedInstallerFilename <= latest

DownIsOff == runner = "down" => \A p \in RunnerThreads : pc[p] = "off"

LEMMA SoundnessSplit ==
    SoundnessInv <=> FileSound /\ DownIsOff /\ \A p \in Proc : ProcessSound(p)
  BY ProcAssumption DEF SoundnessInv, FileSound, DownIsOff, ProcessSound, MemoryIsSound,
     TargetIsNewer, AllReleased, OffIsBlank, RunnerThreads

LEMMA SoundnessJoin ==
    ASSUME FileSound', DownIsOff', \A p \in Proc : ProcessSound(p)'
    PROVE  SoundnessInv'
  BY ProcAssumption
  DEF SoundnessInv, FileSound, DownIsOff, ProcessSound, MemoryIsSound,
      TargetIsNewer, AllReleased, OffIsBlank, RunnerThreads

(* A step of p alone leaves the other processes as they were. *)
Only(p) ==
    /\ \A q \in Proc \ {p} : /\ pc'[q] = pc[q] /\ mem'[q] = mem[q]
                             /\ target'[q] = target[q]
    /\ ver' = ver /\ latest' = latest

LEMMA OthersSound ==
    ASSUME NEW p \in Proc, Only(p), NEW q \in Proc \ {p}, ProcessSound(q)
    PROVE  ProcessSound(q)'
  BY DEF ProcessSound, Only
LEMMA DefaultFields ==
    /\ DefaultState.downloadedInstallerFilename = NoVersion
    /\ Torn.text = "torn" /\ Torn.data = DefaultState
    /\ NoFile.text = "none" /\ NoFile.data = DefaultState
    /\ \A v, s : /\ Serialize(v, s).text = "whole"
                 /\ Serialize(v, s).stamp = v
                 /\ Serialize(v, s).data = s
  BY DEF DefaultState, Torn, NoFile, Serialize

LEMMA TypedFacts ==
    ASSUME TypeOK, NEW p \in Proc
    PROVE  /\ ver[p] \in Version /\ mem[p] \in UpdateRecord
           /\ target[p] \in Version \cup {NoVersion}
           /\ latest \in Version /\ NoVersion <= latest
<1>1. latest \in Nat
  BY VersionFacts DEF TypeOK
<1> QED
  BY <1>1 DEF TypeOK, NoVersion

(* The steps on the state file, for whoever takes them. *)
LEMMA ReadSound ==
    ASSUME TypeOK, FileSound, NEW p \in Proc, ProcessSound(p), NEW next \in Labels,
           p \in Checkers \cup Updaters => next \notin Fetching,
           ReadFile(p, next) \/ ReadBadFile(p) \/ ResetFile(p, next),
           target' = target, latest' = latest
    PROVE  /\ FileSound' /\ ProcessSound(p)' /\ Only(p)
           /\ pc[p] # "off"
<1>0. Sound(ver[p], DefaultState) /\ NoVersion <= latest
  BY TypedFacts, SoundFinal
<1>1. CASE ReadFile(p, next)
  <2>1. /\ pc[p] = "read" /\ file' = file /\ ver' = ver
        /\ mem'[p] \in {DefaultState, file.data} /\ pc'[p] = next
        /\ next = "off" => mem'[p] = DefaultState
        /\ Sound(ver[p], file.data)
    BY <1>1 DEF ReadFile, IsOldFileVersion, TypeOK, FileSound, RecordedStateIsSound
  <2>2. Only(p)
    BY <1>1 DEF ReadFile, Only, TypeOK
  <2>3. ProcessSound(p)'
    BY <1>0, <2>1, DefaultFields DEF ProcessSound, FileSound
  <2> QED
    BY <2>1, <2>2, <2>3 DEF FileSound, RecordedStateIsSound, Parses
<1>2. CASE ReadBadFile(p)
  <2>1. /\ pc[p] = "read" /\ file' = Torn /\ ver' = ver
        /\ mem'[p] = mem[p] /\ pc'[p] = "resetting"
    BY <1>2 DEF ReadBadFile, TypeOK
  <2>2. Only(p)
    BY <1>2 DEF ReadBadFile, Only, TypeOK
  <2>3. ProcessSound(p)'
    BY <2>1 DEF ProcessSound, Fetching
  <2> QED
    BY <1>0, <2>1, <2>2, <2>3, DefaultFields DEF FileSound, RecordedStateIsSound, Parses
<1>3. CASE ResetFile(p, next)
  <2>1. /\ pc[p] = "resetting" /\ file' = Serialize(ver[p], DefaultState) /\ ver' = ver
        /\ mem'[p] = DefaultState /\ pc'[p] = next
    BY <1>3 DEF ResetFile, TypeOK
  <2>2. Only(p)
    BY <1>3 DEF ResetFile, Only, TypeOK
  <2>3. ProcessSound(p)'
    BY <1>0, <2>1, DefaultFields DEF ProcessSound
  <2> QED
    BY <1>0, <2>1, <2>2, <2>3, DefaultFields DEF FileSound, RecordedStateIsSound
<1> QED
  BY <1>1, <1>2, <1>3

LEMMA StoreSound ==
    ASSUME TypeOK, FileSound, NEW p \in Proc, ProcessSound(p), NEW next \in Labels \ Fetching,
           StoreBegin(p) \/ StoreEnd(p, next),
           target' = target, latest' = latest
    PROVE  /\ FileSound' /\ ProcessSound(p)' /\ Only(p)
           /\ pc[p] # "off"
<1>0. Sound(ver[p], DefaultState) /\ NoVersion <= latest
  BY TypedFacts, SoundFinal
<1>1. CASE StoreBegin(p)
  <2>1. /\ pc[p] = "store" /\ file' = Torn /\ ver' = ver
        /\ mem'[p] = mem[p] /\ pc'[p] = "storing"
    BY <1>1 DEF StoreBegin, TypeOK
  <2>2. Only(p)
    BY <1>1 DEF StoreBegin, Only, TypeOK
  <2>3. ProcessSound(p)'
    BY <2>1 DEF ProcessSound, Fetching
  <2> QED
    BY <1>0, <2>1, <2>2, <2>3, DefaultFields DEF FileSound, RecordedStateIsSound, Parses
<1>2. CASE StoreEnd(p, next)
  <2>1. /\ pc[p] = "storing" /\ file' = Serialize(ver[p], mem[p]) /\ ver' = ver
        /\ mem'[p] = DefaultState /\ pc'[p] = next
    BY <1>2 DEF StoreEnd, TypeOK
  <2>2. Only(p)
    BY <1>2 DEF StoreEnd, Only, TypeOK
  <2>3. ProcessSound(p)'
    BY <1>0, <2>1, DefaultFields DEF ProcessSound
  <2> QED
    BY <1>0, <2>1, <2>2, <2>3, DefaultFields DEF FileSound, RecordedStateIsSound, ProcessSound
<1> QED
  BY <1>1, <1>2

(* A step of one process, put together: the invariant holds after it if it *)
(* does for the file and for that process.  A thread of a runner that is   *)
(* down takes no step.                                                     *)
LEMMA LocalStep ==
    ASSUME SoundnessInv, NEW p \in Proc, Only(p), FileSound', ProcessSound(p)',
           runner' = "down" => runner = "down",
           pc[p] # "off" \/ runner = "up" \/ p \in Updaters
    PROVE  SoundnessInv'
<1>1. \A q \in Proc : ProcessSound(q)'
  BY SoundnessSplit, OthersSound
<1>2. DownIsOff'
  <2> SUFFICES ASSUME runner' = "down", NEW q \in RunnerThreads PROVE pc'[q] = "off"
    BY DEF DownIsOff
  <2>1. runner = "down" /\ \A r \in RunnerThreads : pc[r] = "off"
    BY SoundnessSplit DEF DownIsOff
  <2>2. q # p
    BY <2>1, KindsAssumption
  <2> QED
    BY <2>1, <2>2, ProcAssumption DEF Only
<1> QED
  BY <1>1, <1>2, SoundnessJoin

LEMMA CheckerSound ==
    ASSUME TypeOK, SoundnessInv, NEW p \in Checkers, Checker(p)
    PROVE  SoundnessInv'
<1>0. p \in Proc
  BY ProcAssumption DEF RunnerThreads
<1>1. FileSound /\ ProcessSound(p)
  BY <1>0, SoundnessSplit
<1>2. /\ ver[p] \in Version /\ mem[p] \in UpdateRecord /\ latest \in Version
      /\ target[p] \in Version \cup {NoVersion} /\ NoVersion <= latest
      /\ Sound(ver[p], DefaultState)
  BY <1>0, TypedFacts, SoundFinal
<1>3. /\ pc \in [Proc -> Labels] /\ mem \in [Proc -> UpdateRecord]
      /\ target \in [Proc -> Version \cup {NoVersion}]
  BY DEF TypeOK
<1>4. ASSUME file' = file, latest' = latest PROVE FileSound'
  BY <1>1, <1>4 DEF FileSound, RecordedStateIsSound, Parses
<1>5. CASE CheckerRead(p)
  <2>1. FileSound' /\ ProcessSound(p)' /\ Only(p) /\ pc[p] # "off"
    BY <1>0, <1>1, <1>5, ReadSound DEF CheckerRead, Labels, Fetching
  <2> QED
    BY <1>0, <1>5, <2>1, LocalStep DEF CheckerRead, runnerVars
<1>6. CASE CheckerReadBad(p)
  <2>1. FileSound' /\ ProcessSound(p)' /\ Only(p) /\ pc[p] # "off"
    BY <1>0, <1>1, <1>6, ReadSound DEF CheckerReadBad, Labels, Fetching
  <2> QED
    BY <1>0, <1>6, <2>1, LocalStep DEF CheckerReadBad, runnerVars
<1>7. CASE CheckerStoreBegin(p)
  <2>1. FileSound' /\ ProcessSound(p)' /\ Only(p) /\ pc[p] # "off"
    BY <1>0, <1>1, <1>7, StoreSound DEF CheckerStoreBegin, Labels, Fetching
  <2> QED
    BY <1>0, <1>7, <2>1, LocalStep DEF CheckerStoreBegin, runnerVars
<1>8. CASE CheckerStoreEnd(p)
  <2>1. FileSound' /\ ProcessSound(p)' /\ Only(p) /\ pc[p] # "off"
    BY <1>0, <1>1, <1>8, StoreSound DEF CheckerStoreEnd, Labels, Fetching
  <2> QED
    BY <1>0, <1>8, <2>1, LocalStep DEF CheckerStoreEnd
<1>9. CASE Wake(p)
  <2>1. /\ Only(p) /\ file' = file /\ latest' = latest /\ ver' = ver
        /\ pc[p] # "off" /\ (runner' = runner)
        /\ mem'[p] = mem[p] /\ pc'[p] \in {"ask", "read"} /\ target'[p] = target[p]
    BY <1>0, <1>3, <1>9 DEF Wake, Only, runnerVars
  <2>2. ProcessSound(p)'
    BY <1>1, <1>2, <2>1 DEF ProcessSound, Fetching
  <2> QED
    BY <1>0, <1>4, <2>1, <2>2, LocalStep
<1>10. CASE StartManualCheck(p)
  <2>1. /\ Only(p) /\ file' = file /\ latest' = latest /\ ver' = ver
        /\ runner = "up" /\ (runner' = runner)
        /\ mem'[p] = mem[p] /\ pc'[p] = "read" /\ target'[p] = target[p]
    BY <1>0, <1>3, <1>10 DEF StartManualCheck, Only, runnerVars
  <2>2. ProcessSound(p)'
    BY <1>1, <1>2, <2>1 DEF ProcessSound, Fetching
  <2> QED
    BY <1>0, <1>4, <2>1, <2>2, LocalStep
<1>11. CASE NoVersionInfo(p)
  <2>1. /\ Only(p) /\ file' = file /\ latest' = latest /\ ver' = ver
        /\ pc[p] # "off" /\ (runner' = runner)
        /\ pc'[p] \in {"backoff", "store"} /\ target'[p] = target[p]
        /\ mem'[p] \in {DefaultState, [mem[p] EXCEPT !.state = "networkError"]}
    BY <1>0, <1>3, <1>11, SMTT(30) DEF NoVersionInfo, Only, runnerVars
  <2>2. ProcessSound(p)'
    BY <1>1, <1>2, <2>1, DefaultFields, SoundKept, StateFields DEF ProcessSound, Fetching
  <2> QED
    BY <1>0, <1>4, <2>1, <2>2, LocalStep
<1>12. CASE ProcessUpToDate(p)
  <2>1. /\ Only(p) /\ file' = file /\ latest' = latest /\ ver' = ver
        /\ pc[p] # "off" /\ (runner' = runner)
        /\ pc'[p] = "store" /\ target'[p] = target[p]
        /\ mem'[p] = UpToDateState(mem[p])
    BY <1>0, <1>3, <1>12 DEF ProcessUpToDate, Only, runnerVars
  <2>2. ProcessSound(p)'
    BY <1>1, <1>2, <2>1, SoundKept, StateFields DEF ProcessSound, Fetching
  <2> QED
    BY <1>0, <1>4, <2>1, <2>2, LocalStep
<1>13. CASE ProcessAlreadyDownloaded(p)
  <2>1. /\ Only(p) /\ file' = file /\ latest' = latest /\ ver' = ver
        /\ pc[p] # "off" /\ (runner' = runner)
        /\ pc'[p] = "store" /\ target'[p] = target[p] /\ latest > ver[p]
        /\ mem'[p] = NewVersionState(mem[p], latest)
    BY <1>0, <1>3, <1>13 DEF ProcessAlreadyDownloaded, Only, runnerVars, VersionIsNew
  <2>2. ProcessSound(p)'
    BY <1>1, <1>2, <2>1, SoundNew, NewVersionFields DEF ProcessSound, Fetching
  <2> QED
    BY <1>0, <1>4, <2>1, <2>2, LocalStep
<1>14. CASE ProcessReadyToDownload(p)
  <2>1. /\ Only(p) /\ file' = file /\ latest' = latest /\ ver' = ver
        /\ pc[p] # "off" /\ (runner' = runner)
        /\ pc'[p] = "store" /\ target'[p] = target[p] /\ latest > ver[p]
        /\ mem'[p] = NotDownloadedState(NewVersionState(mem[p], latest), "readyToDownload")
    BY <1>0, <1>3, <1>14 DEF ProcessReadyToDownload, Only, runnerVars, VersionIsNew
  <2>2. ProcessSound(p)'
    BY <1>1, <1>2, <2>1, SoundNew, NewVersionFields, StateFields DEF ProcessSound, Fetching
  <2> QED
    BY <1>0, <1>4, <2>1, <2>2, LocalStep
<1>15. CASE ProcessDownload(p)
  <2>1. /\ Only(p) /\ file' = file /\ latest' = latest /\ ver' = ver
        /\ pc[p] # "off" /\ (runner' = runner)
        /\ pc'[p] = "cleanup" /\ target'[p] = latest /\ latest > ver[p]
        /\ mem'[p] = NewVersionState(mem[p], latest)
    BY <1>0, <1>3, <1>15 DEF ProcessDownload, Only, runnerVars, VersionIsNew
  <2>2. ProcessSound(p)'
    <3>1. /\ Sound(ver[p], mem'[p])
          /\ mem'[p].downloadedInstallerFilename <= latest
          /\ mem'[p].releasePageUrl = latest
      BY <1>1, <1>2, <2>1, SoundNew, NewVersionFields DEF ProcessSound
    <3>2. latest <= latest
      BY <1>2, VersionFacts
    <3> QED
      BY <2>1, <3>1, <3>2 DEF ProcessSound
  <2> QED
    BY <1>0, <1>4, <2>1, <2>2, LocalStep
<1>16. CASE ProcessCleanup(p)
  <2>1. /\ Only(p) /\ file' = file /\ latest' = latest /\ ver' = ver
        /\ pc[p] # "off" /\ (runner' = runner)
        /\ pc[p] = "cleanup" /\ pc'[p] = "download" /\ target'[p] = target[p]
        /\ mem'[p] = mem[p]
    BY <1>0, <1>3, <1>16 DEF ProcessCleanup, Only, runnerVars
  <2>2. ProcessSound(p)'
    BY <1>1, <1>2, <2>1 DEF ProcessSound, Fetching
  <2> QED
    BY <1>0, <1>4, <2>1, <2>2, LocalStep
<1>17. CASE CleanupThrows(p)
  <2>1. /\ Only(p) /\ file' = file /\ latest' = latest /\ ver' = ver
        /\ pc[p] # "off" /\ (runner' = runner)
        /\ \/ pc'[p] = "off" /\ mem'[p] = DefaultState
           \/ pc'[p] = "store" /\ mem'[p] = mem[p]
        /\ target'[p] = NoVersion
    BY <1>0, <1>3, <1>17 DEF CleanupThrows, Only, runnerVars
  <2>2. ProcessSound(p)'
    BY <1>1, <1>2, <2>1, DefaultFields DEF ProcessSound, Fetching
  <2> QED
    BY <1>0, <1>4, <2>1, <2>2, LocalStep
<1>18. CASE CheckerDownload(p)
  <2>0. runner' = runner
    BY <1>18 DEF CheckerDownload, runnerVars
  <2>1. CASE DownloadOpen(p) \/ DownloadRetry(p)
    <3>1. /\ Only(p) /\ file' = file /\ latest' = latest /\ ver' = ver
          /\ pc[p] \in {"download", "downloading"} /\ pc'[p] \in {"download", "downloading"}
          /\ mem'[p] = mem[p] /\ target'[p] = target[p]
      BY <1>0, <1>3, <2>1 DEF DownloadOpen, DownloadRetry, Only
    <3>2. ProcessSound(p)'
      BY <1>1, <3>1 DEF ProcessSound, Fetching
    <3> QED
      BY <1>0, <1>4, <2>0, <3>1, <3>2, LocalStep
  <2>2. ASSUME NEW s, s \in {DownloadedState(mem[p], target[p]),
                            NotDownloadedState(mem[p], "errorDownloading")},
               DownloadDone(p, s, "store") \/ DownloadFail(p, s, "store"),
               target' = [target EXCEPT ![p] = NoVersion]
        PROVE  SoundnessInv'
    <3>1. /\ Only(p) /\ file' = file /\ latest' = latest /\ ver' = ver
          /\ pc[p] \in {"download", "downloading"} /\ pc'[p] = "store"
          /\ mem'[p] = s /\ target'[p] = NoVersion
      BY <1>0, <1>3, <2>2 DEF DownloadDone, DownloadFail, Only
    <3>2. /\ target[p] > ver[p] /\ target[p] <= latest /\ target[p] \in Version
          /\ mem[p].releasePageUrl = target[p]
      BY <1>1, <1>2, <3>1, VersionFacts DEF ProcessSound, Fetching, NoVersion
    <3>3. Sound(ver[p], s) /\ s.downloadedInstallerFilename <= latest
      <4>1. CASE s = DownloadedState(mem[p], target[p])
        BY <1>1, <1>2, <3>2, <4>1, StateFields, StatusNames, VersionFacts
        DEF ProcessSound, Sound, DownloadedState, UpdateRecord
      <4>2. CASE s = NotDownloadedState(mem[p], "errorDownloading")
        BY <1>1, <1>2, <4>2, SoundKept, StateFields, StatusNames DEF ProcessSound
      <4> QED
        BY <2>2, <4>1, <4>2
    <3>4. ProcessSound(p)'
      BY <1>2, <3>1, <3>3 DEF ProcessSound, Fetching
    <3> QED
      BY <1>0, <1>4, <2>0, <3>1, <3>4, LocalStep
  <2> QED
    BY <1>18, <2>1, <2>2 DEF CheckerDownload
<1> QED
  BY <1>5, <1>6, <1>7, <1>8, <1>9, <1>10, <1>11, <1>12, <1>13, <1>14, <1>15, <1>16, <1>17, <1>18 DEF Checker

LEMMA UpdaterSound ==
    ASSUME TypeOK, SoundnessInv, NEW u \in Updaters, Updater(u)
    PROVE  SoundnessInv'
<1>0. u \in Proc /\ u \notin Checkers /\ u \notin RunnerThreads
  BY ProcAssumption, KindsAssumption DEF RunnerThreads
<1>1. FileSound /\ ProcessSound(u)
  BY <1>0, SoundnessSplit
<1>2. /\ ver[u] \in Version /\ mem[u] \in UpdateRecord /\ latest \in Version
      /\ target[u] \in Version \cup {NoVersion} /\ NoVersion <= latest
      /\ Sound(ver[u], DefaultState)
      /\ Sound(ver[u], FinalState("upToDate"))
      /\ Sound(ver[u], FinalState("errorDownloading"))
  BY <1>0, TypedFacts, SoundFinal
<1>3. /\ pc \in [Proc -> Labels] /\ mem \in [Proc -> UpdateRecord]
      /\ target \in [Proc -> Version \cup {NoVersion}]
      /\ ver \in [Proc -> Version]
  BY DEF TypeOK
<1>4. ASSUME file' = file, latest' = latest PROVE FileSound'
  BY <1>1, <1>4 DEF FileSound, RecordedStateIsSound, Parses
<1>5. /\ DefaultState.downloadedInstallerFilename = NoVersion
      /\ \A t : FinalState(t).downloadedInstallerFilename = NoVersion
  BY DefaultFields, FinalFields
<1>6. CASE LaunchStage1(u)
  <2>1. /\ \A q \in Proc \ {u} : pc'[q] = pc[q] /\ ver'[q] = ver[q]
        /\ file' = file /\ latest' = latest /\ mem' = mem /\ target' = target
        /\ runner' = runner /\ pc[u] = "off" /\ pc'[u] = "read"
        /\ mem[u] = DefaultState
    BY <1>0, <1>1, <1>3, <1>6 DEF LaunchStage1, ProcessSound, runnerVars
  <2>2. ver'[u] \in Version
    BY <1>0, <1>6 DEF LaunchStage1, TypeOK
  <2>3. Sound(ver'[u], DefaultState)
    BY <2>2, SoundFinal
  <2>4. ProcessSound(u)'
    BY <1>1, <2>1, <2>3 DEF ProcessSound, Fetching
  <2>5. ASSUME NEW q \in Proc \ {u} PROVE ProcessSound(q)'
    BY <2>1, <2>5, SoundnessSplit DEF ProcessSound
  <2>6. DownIsOff'
    BY <1>0, <2>1, SoundnessSplit, ProcAssumption DEF DownIsOff
  <2> QED
    BY <1>4, <2>1, <2>4, <2>5, <2>6, SoundnessJoin
<1>7. CASE UpdaterRead(u)
  <2>1. FileSound' /\ ProcessSound(u)' /\ Only(u)
    BY <1>0, <1>1, <1>7, ReadSound DEF UpdaterRead, Labels, Fetching
  <2> QED
    BY <1>0, <1>7, <2>1, LocalStep DEF UpdaterRead, runnerVars
<1>8. CASE UpdaterStore(u)
  <2>1. FileSound' /\ ProcessSound(u)' /\ Only(u)
    BY <1>0, <1>1, <1>8, StoreSound DEF UpdaterStore, Labels, Fetching
  <2> QED
    BY <1>0, <1>8, <2>1, LocalStep DEF UpdaterStore, runnerVars
<1>9. ASSUME NEW info \in BOOLEAN, ObtainUpToDate(u, info) \/ ObtainNothing(u, info)
      PROVE  SoundnessInv'
  <2>1. /\ Only(u) /\ file' = file /\ latest' = latest /\ ver' = ver
        /\ (runner' = "down" => runner = "down")
        /\ pc'[u] = "store" /\ target'[u] = NoVersion
        /\ mem'[u] \in {FinalState("upToDate"), FinalState("errorDownloading")}
    BY <1>0, <1>3, <1>9 DEF ObtainUpToDate, ObtainNothing, Only, runnerVars, Conclude
  <2>2. ProcessSound(u)'
    BY <1>1, <1>2, <1>5, <2>1 DEF ProcessSound, Fetching
  <2> QED
    BY <1>0, <1>4, <2>1, <2>2, LocalStep
<1>10. CASE ObtainNoInfo(u) \/ Stage1Fails(u) \/ Stage2Fails(u)
  <2>1. /\ Only(u) /\ file' = file /\ latest' = latest /\ ver' = ver
        /\ (runner' = "down" => runner = "down")
        /\ pc'[u] = "store" /\ target'[u] = NoVersion
        /\ mem'[u] \in {FinalState("upToDate"), FinalState("errorDownloading")}
    BY <1>0, <1>3, <1>10 DEF ObtainNoInfo, Stage1Fails, Stage2Fails, Only, runnerVars, Conclude
  <2>2. ProcessSound(u)'
    BY <1>1, <1>2, <1>5, <2>1 DEF ProcessSound, Fetching
  <2> QED
    BY <1>0, <1>4, <2>1, <2>2, LocalStep
<1>11. ASSUME NEW info \in BOOLEAN, ObtainDownloaded(u, info) PROVE SoundnessInv'
  <2>1. /\ Only(u) /\ file' = file /\ latest' = latest /\ ver' = ver
        /\ runner' = runner
        /\ mem[u].state = "readyToInstall"
        /\ \/ /\ pc'[u] = "close" /\ mem'[u] = DefaultState
              /\ target'[u] = mem[u].downloadedInstallerFilename
           \/ /\ pc'[u] = "store" /\ mem'[u] = FinalState("errorDownloading")
              /\ target'[u] = NoVersion
    <3>1. mem[u].downloadedInstallerFilename \in Version \cup {NoVersion}
      BY <1>2 DEF UpdateRecord
    <3> QED
      BY <1>0, <1>3, <1>11, <3>1 DEF ObtainDownloaded, Conclude, Only, runnerVars
  <2>2. mem[u].downloadedInstallerFilename > ver[u]
    BY <1>1, <2>1 DEF ProcessSound, Sound
  <2>3. ProcessSound(u)'
    BY <1>0, <1>1, <1>2, <1>5, <2>1, <2>2 DEF ProcessSound, Fetching
  <2> QED
    BY <1>0, <1>4, <2>1, <2>3, LocalStep
<1>12. CASE ObtainDownload(u)
  <2>1. /\ Only(u) /\ file' = file /\ latest' = latest /\ ver' = ver
        /\ runner' = runner /\ latest > ver[u] /\ latest <= latest
        /\ pc'[u] = "cleanup" /\ mem'[u] = DefaultState /\ target'[u] = latest
    BY <1>0, <1>2, <1>3, <1>12, VersionFacts DEF ObtainDownload, VersionIsNew, Only, runnerVars
  <2>2. ProcessSound(u)'
    BY <1>0, <1>2, <1>5, <2>1 DEF ProcessSound, Fetching
  <2> QED
    BY <1>0, <1>4, <2>1, <2>2, LocalStep
<1>13. CASE UpdaterCleanup(u) \/ CloseRunner(u) \/ LaunchStage2(u)
  <2>1. /\ Only(u) /\ file' = file /\ latest' = latest /\ ver' = ver
        /\ (runner' = "down" => runner = "down")
        /\ pc[u] \in Fetching /\ pc'[u] \in Fetching
        /\ mem'[u] = mem[u] /\ target'[u] = target[u]
    BY <1>0, <1>3, <1>13 DEF UpdaterCleanup, CloseRunner, LaunchStage2, Only, runnerVars, Fetching
  <2>2. ProcessSound(u)'
    BY <1>0, <1>1, <2>1 DEF ProcessSound, Fetching
  <2> QED
    BY <1>0, <1>4, <2>1, <2>2, LocalStep
<1>14. CASE UpdaterDownload(u)
  <2>1. /\ Only(u) /\ file' = file /\ latest' = latest /\ ver' = ver
        /\ pc[u] \in Fetching /\ runner' = runner
        /\ \/ /\ pc'[u] \in Fetching /\ mem'[u] \in {mem[u], DefaultState}
              /\ target'[u] = target[u]
           \/ /\ pc'[u] = "store" /\ mem'[u] = FinalState("errorDownloading")
              /\ target'[u] = NoVersion
    BY <1>0, <1>3, <1>14 DEF UpdaterDownload, DownloadOpen, DownloadRetry, DownloadDone,
       DownloadFail, Only, runnerVars, Fetching
  <2>2. ProcessSound(u)'
    BY <1>0, <1>1, <1>2, <1>5, <2>1 DEF ProcessSound, Fetching
  <2> QED
    BY <1>0, <1>4, <2>1, <2>2, LocalStep
<1>15. CASE UpdaterDies(u)
  <2>1. /\ Only(u) /\ file' = file /\ latest' = latest /\ ver' = ver
        /\ runner' = runner
        /\ pc'[u] = "off" /\ mem'[u] = DefaultState /\ target'[u] = NoVersion
    BY <1>0, <1>3, <1>15 DEF UpdaterDies, Die, Only, runnerVars
  <2>2. ProcessSound(u)'
    BY <1>0, <1>2, <1>5, <2>1 DEF ProcessSound, Fetching
  <2> QED
    BY <1>0, <1>4, <2>1, <2>2, LocalStep
<1>16. CASE Stage2Installs(u)
  <2>1. /\ file' = file /\ latest' = latest /\ ver' = ver
        /\ pc'[u] = "store" /\ target'[u] = NoVersion /\ mem'[u] = FinalState("upToDate")
    BY <1>0, <1>3, <1>16 DEF Stage2Installs
  <2>2. \A q \in RunnerThreads : /\ pc'[q] = "off" /\ target'[q] = NoVersion
                                /\ mem'[q] = DefaultState
    BY <1>0, <1>3, <1>16, ProcAssumption DEF Stage2Installs
  <2>3. \A q \in Updaters \ {u} : /\ pc'[q] = pc[q] /\ mem'[q] = mem[q]
                                 /\ target'[q] = target[q]
    BY <1>0, <1>3, <1>16, ProcAssumption, KindsAssumption DEF Stage2Installs
  <2>4. ProcessSound(u)'
    BY <1>0, <1>2, <1>5, <2>1 DEF ProcessSound, Fetching
  <2>5. ASSUME NEW q \in RunnerThreads PROVE ProcessSound(q)'
    <3>1. Sound(ver[q], DefaultState)
      BY <1>3, SoundFinal, ProcAssumption
    <3> QED
      BY <1>2, <1>5, <2>1, <2>2, <3>1 DEF ProcessSound, Fetching
  <2>6. ASSUME NEW q \in Updaters \ {u} PROVE ProcessSound(q)'
    <3>1. ProcessSound(q)
      BY SoundnessSplit, ProcAssumption
    <3> QED
      BY <2>1, <2>3, <3>1 DEF ProcessSound
  <2>7. \A q \in Proc : ProcessSound(q)'
    BY <2>4, <2>5, <2>6, ProcAssumption
  <2>8. DownIsOff'
    BY <2>2 DEF DownIsOff
  <2> QED
    BY <1>4, <2>1, <2>7, <2>8, SoundnessJoin
<1> QED
  BY <1>6, <1>7, <1>8, <1>9, <1>10, <1>11, <1>12, <1>13, <1>14, <1>15, <1>16 DEF Updater

LEMMA InitSound == ASSUME Init PROVE SoundnessInv
<1>1. \A p \in Proc : ProcessSound(p)
  <2> SUFFICES ASSUME NEW p \in Proc PROVE ProcessSound(p)
    OBVIOUS
  <2>1. /\ ver[p] = 1 /\ mem[p] = DefaultState /\ pc[p] = "off" /\ latest = 1
        /\ target[p] = NoVersion /\ Sound(1, DefaultState)
    BY VersionFacts, SoundFinal DEF Init
  <2> QED
    BY <2>1, DefaultFields DEF ProcessSound, Fetching, NoVersion
<1>2. FileSound
  BY DefaultFields DEF Init, FileSound, RecordedStateIsSound, Parses, NoVersion
<1>3. DownIsOff
  BY ProcAssumption DEF Init, DownIsOff
<1> QED
  BY <1>1, <1>2, <1>3, SoundnessSplit

LEMMA NextSound == ASSUME TypeOK, SoundnessInv, [Next]_vars PROVE SoundnessInv'
<1>1. FileSound /\ DownIsOff /\ \A p \in Proc : ProcessSound(p)
  BY SoundnessSplit
<1>2. CASE Publish
  <2>1. /\ file' = file /\ ver' = ver /\ mem' = mem /\ pc' = pc /\ target' = target
        /\ runner' = runner /\ latest' > latest /\ latest' \in Version
    BY <1>2 DEF Publish, runnerVars
  <2>2. /\ latest \in Nat /\ latest' \in Nat
        /\ \A s \in UpdateRecord : s.downloadedInstallerFilename \in Nat
        /\ file.data \in UpdateRecord
    <3>1. latest \in Nat /\ latest' \in Nat
      BY <2>1, VersionFacts DEF TypeOK
    <3>2. ASSUME NEW s \in UpdateRecord PROVE s.downloadedInstallerFilename \in Nat
      <4>1. s.downloadedInstallerFilename \in Version \cup {NoVersion}
        BY DEF UpdateRecord
      <4> QED
        BY <4>1, VersionIsNat
    <3>3. file.data \in UpdateRecord
      BY DEF TypeOK, FileContents
    <3> QED
      BY <3>1, <3>2, <3>3
  <2>3. ASSUME NEW p \in Proc PROVE ProcessSound(p)'
    <3>1. mem[p].downloadedInstallerFilename \in Nat
      BY <2>2 DEF TypeOK
    <3>2. target[p] \in Nat
      <4>1. target[p] \in Version \cup {NoVersion}
        BY DEF TypeOK
      <4> QED
        BY <4>1, VersionIsNat
    <3> QED
      BY <1>1, <2>1, <2>2, <3>1, <3>2 DEF ProcessSound
  <2>4. FileSound'
    BY <1>1, <2>1, <2>2 DEF FileSound, RecordedStateIsSound, Parses
  <2>5. DownIsOff'
    BY <1>1, <2>1 DEF DownIsOff
  <2> QED
    BY <2>3, <2>4, <2>5, SoundnessJoin
<1>3. CASE RunnerStart
  <2>1. /\ file' = file /\ latest' = latest /\ mem' = mem /\ target' = target
        /\ runner' = "up" /\ ver' \in [Proc -> Version]
        /\ \A p \in RunnerThreads : /\ pc[p] = "off" /\ mem[p] = DefaultState
                                    /\ pc'[p] \in {"off", "read"}
        /\ \A p \in Updaters : pc'[p] = pc[p] /\ ver'[p] = ver[p]
    BY <1>1, <1>3, ProcAssumption, KindsAssumption
    DEF RunnerStart, DownIsOff, ProcessSound, TypeOK, RunnerThreads, Checkers
  <2>2. ASSUME NEW p \in RunnerThreads PROVE ProcessSound(p)'
    <3>1. p \in Proc /\ Sound(ver'[p], DefaultState)
      BY <2>1, SoundFinal, ProcAssumption
    <3> QED
      BY <1>1, <2>1, <3>1 DEF ProcessSound, Fetching
  <2>3. ASSUME NEW p \in Updaters PROVE ProcessSound(p)'
    BY <1>1, <2>1, ProcAssumption DEF ProcessSound
  <2>4. FileSound' /\ DownIsOff'
    BY <1>1, <2>1 DEF FileSound, RecordedStateIsSound, Parses, DownIsOff
  <2> QED
    BY <2>2, <2>3, <2>4, SoundnessJoin, ProcAssumption
<1>4. CASE RunnerExit
  <2>1. /\ file' = file /\ latest' = latest /\ ver' = ver
        /\ \A p \in RunnerThreads : /\ pc'[p] = "off" /\ mem'[p] = DefaultState
                                    /\ target'[p] = NoVersion
        /\ \A p \in Updaters : /\ pc'[p] = pc[p] /\ mem'[p] = mem[p]
                               /\ target'[p] = target[p]
    BY <1>4, ProcAssumption, KindsAssumption DEF RunnerExit, Die
  <2>2. ASSUME NEW p \in RunnerThreads PROVE ProcessSound(p)'
    <3>1. p \in Proc
      BY ProcAssumption
    <3>2. Sound(ver[p], DefaultState) /\ NoVersion <= latest
      BY <3>1, SoundFinal, TypedFacts
    <3> QED
      BY <2>1, <3>2, DefaultFields DEF ProcessSound, Fetching
  <2>3. ASSUME NEW p \in Updaters PROVE ProcessSound(p)'
    BY <1>1, <2>1, ProcAssumption DEF ProcessSound
  <2>4. FileSound' /\ DownIsOff'
    BY <1>1, <2>1 DEF FileSound, RecordedStateIsSound, Parses, DownIsOff
  <2> QED
    BY <2>2, <2>3, <2>4, SoundnessJoin, ProcAssumption
<1>5. ASSUME NEW p \in Checkers, Checker(p) PROVE SoundnessInv'
  BY <1>5, CheckerSound
<1>6. ASSUME NEW p \in Query, QueryStart(p) \/ QueryRead(p) PROVE SoundnessInv'
  <2>1. p \in Proc
    BY ProcAssumption DEF RunnerThreads
  <2>2. CASE QueryRead(p)
    <3>1. FileSound' /\ ProcessSound(p)' /\ Only(p) /\ pc[p] # "off"
      BY <1>1, <2>1, <2>2, ReadSound DEF QueryRead, Labels, Fetching
    <3> QED
      BY <2>1, <2>2, <3>1, LocalStep DEF QueryRead, runnerVars
  <2>3. CASE QueryStart(p)
    <3>1. /\ Only(p) /\ file' = file /\ latest' = latest /\ ver' = ver /\ runner = "up"
          /\ runner' = runner /\ pc'[p] = "read" /\ mem'[p] = mem[p] /\ target'[p] = target[p]
      BY <2>1, <2>3 DEF QueryStart, Only, runnerVars, TypeOK
    <3>2. ProcessSound(p)' /\ FileSound'
      BY <1>1, <2>1, <3>1 DEF ProcessSound, Fetching, FileSound, RecordedStateIsSound, Parses
    <3> QED
      BY <2>1, <3>1, <3>2, LocalStep
  <2> QED
    BY <1>6, <2>2, <2>3
<1>7. ASSUME NEW p \in Cleaner, CleanerRead(p) \/ CleanerCleanup(p) PROVE SoundnessInv'
  <2>1. p \in Proc /\ p \notin Checkers \cup Updaters
    BY ProcAssumption, KindsAssumption DEF RunnerThreads
  <2>2. CASE CleanerRead(p)
    <3>1. FileSound' /\ ProcessSound(p)' /\ Only(p) /\ pc[p] # "off"
      BY <1>1, <2>1, <2>2, ReadSound DEF CleanerRead, Labels
    <3> QED
      BY <2>1, <2>2, <3>1, LocalStep DEF CleanerRead, runnerVars
  <2>3. CASE CleanerCleanup(p)
    <3>1. /\ Only(p) /\ file' = file /\ latest' = latest /\ ver' = ver /\ pc[p] = "cleanup"
          /\ runner' = runner /\ pc'[p] = "off" /\ mem'[p] = DefaultState
          /\ target'[p] = target[p]
      BY <2>1, <2>3 DEF CleanerCleanup, Only, runnerVars, TypeOK
    <3>2. Sound(ver[p], DefaultState) /\ NoVersion <= latest
      BY <2>1, SoundFinal, TypedFacts
    <3>3. ProcessSound(p)' /\ FileSound'
      BY <1>1, <2>1, <3>1, <3>2, DefaultFields
      DEF ProcessSound, Fetching, FileSound, RecordedStateIsSound, Parses
    <3> QED
      BY <2>1, <3>1, <3>3, LocalStep
  <2> QED
    BY <1>7, <2>2, <2>3
<1>8. ASSUME NEW u \in Updaters, Updater(u) PROVE SoundnessInv'
  BY <1>8, UpdaterSound
<1>9. CASE UNCHANGED vars
  <2>1. \A p \in Proc : ProcessSound(p)'
    BY <1>1, <1>9 DEF vars, ProcessSound
  <2>2. FileSound' /\ DownIsOff'
    BY <1>1, <1>9 DEF vars, FileSound, RecordedStateIsSound, Parses, DownIsOff
  <2> QED
    BY <2>1, <2>2, SoundnessJoin
<1> QED
  BY <1>2, <1>3, <1>4, <1>5, <1>6, <1>7, <1>8, <1>9 DEF Next

(* The invariant that carries the update protocol across versions. *)
LEMMA SoundnessInvariant == Spec => []SoundnessInv
  BY TypeCorrect, InitSound, NextSound, PTL DEF Spec

(* The state file never offers a version of the program, in the state that *)
(* version itself reads, an installer that is not newer than it: with any  *)
(* number of threads, updaters and releases, however they interleave and   *)
(* whenever they die.                                                      *)
THEOREM StateFileSound == Spec => []RecordedStateIsSound
  BY SoundnessInvariant, PTL DEF SoundnessInv

(* Nor does an updater hand its stage 2 one. *)
THEOREM UpdaterHandsNewer == Spec => []HandedInstallerIsNewer
<1>1. SoundnessInv => HandedInstallerIsNewer
  BY DEF SoundnessInv, TargetIsNewer, HandedInstallerIsNewer, Fetching
<1> QED
  BY <1>1, SoundnessInvariant, PTL

---------------------------------------------------------------------------
(* The mutex *)

Writing == {"resetting", "storing"}

(* A step that neither takes nor gives up the mutex. *)
LEMMA QuietStep ==
    ASSUME TypeOK, WritersHoldMutex, NEW p \in Proc,
           lock' = lock, \A q \in Proc \ {p} : pc'[q] = pc[q],
           pc[p] \notin Writing, pc'[p] \notin Writing
    PROVE  WritersHoldMutex'
  BY DEF WritersHoldMutex, Writing

LEMMA ReadExclusive ==
    ASSUME TypeOK, WritersHoldMutex, NEW p \in Proc, NEW next \in Labels \ Writing,
           ReadFile(p, next) \/ ReadBadFile(p) \/ ResetFile(p, next)
    PROVE  WritersHoldMutex'
<1> USE NoProcAssumption DEF TypeOK, WritersHoldMutex, Writing
<1>1. CASE ReadFile(p, next)
  BY <1>1 DEF ReadFile
<1>2. CASE ReadBadFile(p)
  BY <1>2 DEF ReadBadFile
<1>3. CASE ResetFile(p, next)
  BY <1>3 DEF ResetFile
<1> QED
  BY <1>1, <1>2, <1>3

LEMMA StoreExclusive ==
    ASSUME TypeOK, WritersHoldMutex, NEW p \in Proc, NEW next \in Labels \ Writing,
           StoreBegin(p) \/ StoreEnd(p, next)
    PROVE  WritersHoldMutex'
<1> USE NoProcAssumption DEF TypeOK, WritersHoldMutex, Writing
<1>1. CASE StoreBegin(p)
  BY <1>1 DEF StoreBegin
<1>2. CASE StoreEnd(p, next)
  BY <1>2 DEF StoreEnd
<1> QED
  BY <1>1, <1>2

LEMMA CheckerExclusive ==
    ASSUME TypeOK, WritersHoldMutex, NEW p \in Checkers, Checker(p)
    PROVE  WritersHoldMutex'
<1>0. p \in Proc /\ pc \in [Proc -> Labels]
  BY ProcAssumption DEF RunnerThreads, TypeOK
<1>1. CASE CheckerRead(p) \/ CheckerReadBad(p)
  BY <1>0, <1>1, ReadExclusive DEF CheckerRead, CheckerReadBad, Labels, Writing
<1>2. CASE CheckerStoreBegin(p) \/ CheckerStoreEnd(p)
  <2>1. "off" \in Labels \ Writing /\ "read" \in Labels \ Writing
    BY DEF Labels, Writing
  <2>2. CASE CheckerStoreBegin(p)
    BY <1>0, <2>1, <2>2, StoreExclusive DEF CheckerStoreBegin
  <2>3. CASE CheckerStoreEnd(p)
    BY <1>0, <2>1, <2>3, StoreExclusive DEF CheckerStoreEnd
  <2> QED
    BY <1>2, <2>2, <2>3
<1>3. CASE Wake(p) \/ StartManualCheck(p) \/ NoVersionInfo(p) \/ CleanupThrows(p)
  BY <1>0, <1>3, QuietStep
  DEF Wake, StartManualCheck, NoVersionInfo, CleanupThrows, Writing
<1>4. CASE \/ ProcessUpToDate(p) \/ ProcessAlreadyDownloaded(p) \/ ProcessReadyToDownload(p)
           \/ ProcessDownload(p) \/ ProcessCleanup(p)
  BY <1>0, <1>4, QuietStep
  DEF ProcessUpToDate, ProcessAlreadyDownloaded, ProcessReadyToDownload, ProcessDownload,
      ProcessCleanup, Writing
<1>5. CASE CheckerDownload(p)
  BY <1>0, <1>5, QuietStep
  DEF CheckerDownload, DownloadOpen, DownloadRetry, DownloadDone, DownloadFail, Writing
<1> QED
  BY <1>1, <1>2, <1>3, <1>4, <1>5 DEF Checker

LEMMA UpdaterExclusive ==
    ASSUME TypeOK, WritersHoldMutex, NEW u \in Updaters, Updater(u)
    PROVE  WritersHoldMutex'
<1>0. u \in Proc /\ pc \in [Proc -> Labels] /\ u \notin RunnerThreads
  BY ProcAssumption, KindsAssumption DEF TypeOK
<1>1. CASE UpdaterRead(u)
  BY <1>0, <1>1, ReadExclusive DEF UpdaterRead, Labels, Writing
<1>2. CASE UpdaterStore(u)
  BY <1>0, <1>2, StoreExclusive DEF UpdaterStore, Labels, Writing
<1>3. ASSUME NEW info \in BOOLEAN,
             ObtainUpToDate(u, info) \/ ObtainDownloaded(u, info) \/ ObtainNothing(u, info)
      PROVE  WritersHoldMutex'
  BY <1>0, <1>3, QuietStep
  DEF ObtainUpToDate, ObtainDownloaded, ObtainNothing, Conclude, Writing
<1>4. CASE ObtainDownload(u) \/ ObtainNoInfo(u) \/ UpdaterCleanup(u) \/ LaunchStage1(u)
  BY <1>0, <1>4, QuietStep
  DEF ObtainDownload, ObtainNoInfo, UpdaterCleanup, LaunchStage1, Conclude, Writing
<1>5. CASE UpdaterDownload(u)
  BY <1>0, <1>5, QuietStep
  DEF UpdaterDownload, DownloadOpen, DownloadRetry, DownloadDone, DownloadFail, Writing
<1>6. CASE CloseRunner(u) \/ LaunchStage2(u) \/ Stage1Fails(u) \/ Stage2Fails(u)
  BY <1>0, <1>6, QuietStep
  DEF CloseRunner, LaunchStage2, Stage1Fails, Stage2Fails, Conclude, Writing
<1>7. CASE Stage2Installs(u)
  <2>1. /\ pc[u] = "install" /\ pc'[u] = "store"
        /\ \A q \in RunnerThreads : pc'[q] = "off"
        /\ \A q \in Updaters \ {u} : pc'[q] = pc[q]
        /\ lock' = IF lock \in RunnerThreads THEN Abandoned ELSE lock
    BY <1>0, <1>7, ProcAssumption, KindsAssumption DEF Stage2Installs
  <2> QED
    BY <1>0, <2>1, ProcAssumption, KindsAssumption, NoProcAssumption
    DEF WritersHoldMutex
<1>8. CASE UpdaterDies(u)
  BY <1>0, <1>8, NoProcAssumption DEF UpdaterDies, Die, WritersHoldMutex
<1> QED
  BY <1>1, <1>2, <1>3, <1>4, <1>5, <1>6, <1>7, <1>8 DEF Updater

LEMMA NextExclusive ==
    ASSUME TypeOK, SoundnessInv, WritersHoldMutex, [Next]_vars PROVE WritersHoldMutex'
<1>0. pc \in [Proc -> Labels]
  BY DEF TypeOK
<1>1. CASE Publish \/ UNCHANGED vars
  BY <1>1 DEF Publish, vars, WritersHoldMutex
<1>2. CASE RunnerStart
  <2>1. \A p \in RunnerThreads : pc[p] = "off"
    BY <1>2 DEF RunnerStart, SoundnessInv, OffIsBlank
  <2> QED
    BY <1>0, <1>2, <2>1 DEF RunnerStart, WritersHoldMutex, RunnerThreads, Checkers
<1>3. CASE RunnerExit
  BY <1>0, <1>3, NoProcAssumption DEF RunnerExit, Die, WritersHoldMutex
<1>4. ASSUME NEW p \in Checkers, Checker(p) PROVE WritersHoldMutex'
  BY <1>4, CheckerExclusive
<1>5. ASSUME NEW p \in Cleaner, CleanerRead(p) \/ CleanerCleanup(p) PROVE WritersHoldMutex'
  <2>1. p \in Proc
    BY ProcAssumption DEF RunnerThreads
  <2>2. CASE CleanerRead(p)
    BY <2>1, <2>2, ReadExclusive DEF CleanerRead, Labels, Writing
  <2>3. CASE CleanerCleanup(p)
    BY <1>0, <2>1, <2>3, QuietStep DEF CleanerCleanup, Writing
  <2> QED
    BY <1>5, <2>2, <2>3
<1>6. ASSUME NEW p \in Query, QueryStart(p) \/ QueryRead(p) PROVE WritersHoldMutex'
  <2>1. p \in Proc
    BY ProcAssumption DEF RunnerThreads
  <2>2. CASE QueryRead(p)
    BY <2>1, <2>2, ReadExclusive DEF QueryRead, Labels, Writing
  <2>3. CASE QueryStart(p)
    BY <1>0, <2>1, <2>3, QuietStep DEF QueryStart, Writing
  <2> QED
    BY <1>6, <2>2, <2>3
<1>7. ASSUME NEW u \in Updaters, Updater(u) PROVE WritersHoldMutex'
  BY <1>7, UpdaterExclusive
<1> QED
  BY <1>1, <1>2, <1>3, <1>4, <1>5, <1>6, <1>7 DEF Next

(* The named mutex excludes: between truncating the state file and having  *)
(* written it a process holds the mutex, so no two processes ever are, and *)
(* a mutex that is held is held by a process that is alive and writing.    *)
THEOREM MutexExcludes == Spec => []WritersHoldMutex
<1>1. Init => WritersHoldMutex
  BY NoProcAssumption DEF Init, WritersHoldMutex
<1> QED
  BY <1>1, TypeCorrect, SoundnessInvariant, NextExclusive, PTL DEF Spec

---------------------------------------------------------------------------
(* What the mutex protects *)

(* What a reader replaces was lost, as the action property has it. *)
ResetsLost ==
    \A p \in Proc : pc[p] = "read" /\ pc'[p] = "resetting" =>
        \/ file.text = "none"
        \/ Parses /\ IsOldFileVersion(ver[p])
        \/ lock = Abandoned

(* A step that leaves the file and the mutex alone begins no reset. *)
LEMMA NoFileStep ==
    ASSUME TypeOK, TornIsHeld, file' = file, lock' = lock,
           \A q \in Proc : pc'[q] = "resetting" => pc[q] = "resetting"
    PROVE  TornIsHeld' /\ ResetsLost
  BY DEF TornIsHeld, ResetsLost

(* Whoever rewrites the file holds the mutex, and gives it up over what it *)
(* has written.                                                            *)
LEMMA FileStepResets ==
    ASSUME TypeOK, TornIsHeld, NEW p \in Proc, NEW next \in Labels \ {"resetting"},
           \/ ReadFile(p, next) \/ ReadBadFile(p) \/ ResetFile(p, next)
           \/ StoreBegin(p) \/ StoreEnd(p, next)
    PROVE  TornIsHeld' /\ ResetsLost
<1>0. /\ pc \in [Proc -> Labels] /\ file.text \in {"none", "torn", "whole"}
      /\ lock \in Proc \cup {NoProc, Abandoned}
  BY DEF TypeOK, FileContents
<1>1. CASE ReadFile(p, next)
  BY <1>0, <1>1, NoFileStep DEF ReadFile
<1>2. CASE ReadBadFile(p)
  <2>1. /\ pc[p] = "read" /\ lock \notin Proc /\ lock' = p
        /\ ~Parses \/ IsOldFileVersion(ver[p])
        /\ \A q \in Proc \ {p} : pc'[q] = pc[q]
    BY <1>0, <1>2 DEF ReadBadFile
  <2>2. \/ file.text = "none"
        \/ Parses /\ IsOldFileVersion(ver[p])
        \/ lock = Abandoned
    BY <1>0, <2>1 DEF Parses, TornIsHeld
  <2>3. ResetsLost
    BY <2>1, <2>2 DEF ResetsLost
  <2> QED
    BY <2>1, <2>3, NoProcAssumption DEF TornIsHeld
<1>3. CASE ResetFile(p, next) \/ StoreEnd(p, next)
  <2>1. file'.text = "whole" /\ \A q \in Proc : pc'[q] = "resetting" => pc[q] = "resetting"
    BY <1>0, <1>3, DefaultFields DEF ResetFile, StoreEnd
  <2> QED
    BY <2>1 DEF TornIsHeld, ResetsLost
<1>4. CASE StoreBegin(p)
  <2>1. lock' = p /\ \A q \in Proc : pc'[q] = "resetting" => pc[q] = "resetting"
    BY <1>0, <1>4 DEF StoreBegin
  <2> QED
    BY <2>1, NoProcAssumption DEF TornIsHeld, ResetsLost
<1> QED
  BY <1>1, <1>2, <1>3, <1>4

(* Whoever dies with the mutex abandons it, and the file as it was. *)
LEMMA DeathResets ==
    ASSUME TypeOK, TornIsHeld, file' = file, NEW D \in SUBSET Proc,
           lock' = IF lock \in D THEN Abandoned ELSE lock,
           \A q \in Proc : pc'[q] = "resetting" => pc[q] = "resetting"
    PROVE  TornIsHeld' /\ ResetsLost
  BY NoProcAssumption DEF TornIsHeld, ResetsLost

LEMMA CheckerResets ==
    ASSUME TypeOK, TornIsHeld, NEW p \in Checkers, Checker(p)
    PROVE  TornIsHeld' /\ ResetsLost
<1>0. p \in Proc /\ pc \in [Proc -> Labels]
  BY ProcAssumption DEF RunnerThreads, TypeOK
<1>1. CASE CheckerRead(p) \/ CheckerReadBad(p)
  BY <1>0, <1>1, FileStepResets DEF CheckerRead, CheckerReadBad, Labels
<1>2. CASE CheckerStoreBegin(p) \/ CheckerStoreEnd(p)
  <2>1. "off" \in Labels \ {"resetting"} /\ "read" \in Labels \ {"resetting"}
    BY DEF Labels
  <2>2. CASE CheckerStoreBegin(p)
    BY <1>0, <2>1, <2>2, FileStepResets DEF CheckerStoreBegin
  <2>3. CASE CheckerStoreEnd(p)
    BY <1>0, <2>1, <2>3, FileStepResets DEF CheckerStoreEnd
  <2> QED
    BY <1>2, <2>2, <2>3
<1>3. CASE Wake(p) \/ StartManualCheck(p) \/ NoVersionInfo(p) \/ CleanupThrows(p)
  BY <1>0, <1>3, NoFileStep DEF Wake, StartManualCheck, NoVersionInfo, CleanupThrows
<1>4. CASE \/ ProcessUpToDate(p) \/ ProcessAlreadyDownloaded(p) \/ ProcessReadyToDownload(p)
           \/ ProcessDownload(p) \/ ProcessCleanup(p)
  BY <1>0, <1>4, NoFileStep
  DEF ProcessUpToDate, ProcessAlreadyDownloaded, ProcessReadyToDownload, ProcessDownload,
      ProcessCleanup
<1>5. CASE CheckerDownload(p)
  BY <1>0, <1>5, NoFileStep
  DEF CheckerDownload, DownloadOpen, DownloadRetry, DownloadDone, DownloadFail
<1> QED
  BY <1>1, <1>2, <1>3, <1>4, <1>5 DEF Checker

LEMMA UpdaterResets ==
    ASSUME TypeOK, TornIsHeld, NEW u \in Updaters, Updater(u)
    PROVE  TornIsHeld' /\ ResetsLost
<1>0. u \in Proc /\ pc \in [Proc -> Labels]
  BY ProcAssumption DEF TypeOK
<1>1. CASE UpdaterRead(u)
  BY <1>0, <1>1, FileStepResets DEF UpdaterRead, Labels
<1>2. CASE UpdaterStore(u)
  BY <1>0, <1>2, FileStepResets DEF UpdaterStore, Labels
<1>3. ASSUME NEW info \in BOOLEAN,
             ObtainUpToDate(u, info) \/ ObtainDownloaded(u, info) \/ ObtainNothing(u, info)
      PROVE  TornIsHeld' /\ ResetsLost
  BY <1>0, <1>3, NoFileStep DEF ObtainUpToDate, ObtainDownloaded, ObtainNothing, Conclude
<1>4. CASE ObtainDownload(u) \/ ObtainNoInfo(u) \/ UpdaterCleanup(u) \/ LaunchStage1(u)
  BY <1>0, <1>4, NoFileStep DEF ObtainDownload, ObtainNoInfo, UpdaterCleanup, LaunchStage1, Conclude
<1>5. CASE UpdaterDownload(u)
  BY <1>0, <1>5, NoFileStep
  DEF UpdaterDownload, DownloadOpen, DownloadRetry, DownloadDone, DownloadFail
<1>6. CASE CloseRunner(u) \/ LaunchStage2(u) \/ Stage1Fails(u) \/ Stage2Fails(u)
  BY <1>0, <1>6, NoFileStep DEF CloseRunner, LaunchStage2, Stage1Fails, Stage2Fails, Conclude
<1>7. CASE Stage2Installs(u)
  BY <1>0, <1>7, DeathResets, ProcAssumption DEF Stage2Installs
<1>8. CASE UpdaterDies(u)
  BY <1>0, <1>8, DeathResets DEF UpdaterDies, Die
<1> QED
  BY <1>1, <1>2, <1>3, <1>4, <1>5, <1>6, <1>7, <1>8 DEF Updater

LEMMA NextResets ==
    ASSUME TypeOK, TornIsHeld, [Next]_vars PROVE TornIsHeld' /\ ResetsLost
<1>0. pc \in [Proc -> Labels]
  BY DEF TypeOK
<1>1. CASE Publish \/ UNCHANGED vars
  BY <1>1, NoFileStep DEF Publish, vars
<1>2. CASE RunnerStart
  BY <1>0, <1>2, NoFileStep DEF RunnerStart
<1>3. CASE RunnerExit
  BY <1>0, <1>3, DeathResets, ProcAssumption DEF RunnerExit, Die
<1>4. ASSUME NEW p \in Cleaner \cup Query,
             \/ CleanerRead(p) \/ CleanerCleanup(p)
             \/ QueryStart(p) \/ QueryRead(p)
      PROVE  TornIsHeld' /\ ResetsLost
  <2>1. p \in Proc
    BY ProcAssumption DEF RunnerThreads
  <2>2. CASE CleanerRead(p) \/ QueryRead(p)
    BY <2>1, <2>2, FileStepResets DEF CleanerRead, QueryRead, Labels
  <2>3. CASE CleanerCleanup(p) \/ QueryStart(p)
    BY <1>0, <2>3, NoFileStep DEF CleanerCleanup, QueryStart
  <2> QED
    BY <1>4, <2>2, <2>3
<1> QED
  BY <1>1, <1>2, <1>3, <1>4, CheckerResets, UpdaterResets DEF Next

(* A reader that replaces the state file replaces what was lost: there was *)
(* none, another version wrote it, or a process died writing it.  The      *)
(* invariant is that a torn file is never under a mutex that was let go:   *)
(* whoever acquires it finds what another one stored, or learns nothing of *)
(* a death and resets what the dead one left.                              *)
THEOREM ResetsAreForced == Spec => ResetsOnlyWhatIsLost
<1>1. Init => TornIsHeld
  BY DefaultFields DEF Init, TornIsHeld
<1>2. TypeOK /\ TornIsHeld /\ [Next]_vars => TornIsHeld' /\ [ResetsLost]_vars
  BY NextResets
<1>3. Spec => []TornIsHeld
  BY <1>1, <1>2, TypeCorrect, PTL DEF Spec
<1> QED
  BY <1>2, <1>3, TypeCorrect, PTL DEF Spec, ResetsOnlyWhatIsLost, ResetsLost

---------------------------------------------------------------------------
(* What a checker deletes *)

(* The invariant, seen from one checker. *)
Remembers(p) ==
    /\ pc[p] = "cleanup" /\ Recorded(p) => file.data.downloadedInstallerFilename # target[p]
    /\ pc[p] \in {"sleep", "ask"} /\ Recorded(p)
          => AlreadyDownloaded(mem[p], file.data.downloadedInstallerFilename)

LEMMA CleanupSplit ==
    /\ CleanupInv <=> UpdatersRecordNone /\ \A p \in Checkers : Remembers(p)
    /\ CleanupInv' <=> UpdatersRecordNone' /\ \A p \in Checkers : Remembers(p)'
  BY DEF CleanupInv, CleanupRemovesOnlyOld, CheckerRemembers, Remembers

(* A step that records no installer as ready. *)
NothingRecorded == file' = file \/ ~Parses' \/ file'.data.state # "readyToInstall"

LEMMA StillRemembers ==
    ASSUME NothingRecorded, NEW p \in Checkers, Remembers(p), ver'[p] = ver[p],
           pc'[p] = pc[p], mem'[p] = mem[p], target'[p] = target[p]
    PROVE  Remembers(p)'
  BY DEF NothingRecorded, Remembers, Recorded, Parses

LEMMA NothingToRemember ==
    ASSUME NEW p \in Checkers, pc'[p] \notin {"sleep", "ask", "cleanup"}
    PROVE  Remembers(p)'
  BY DEF Remembers

(* The steps on the state file. *)
LEMMA ReadRecords ==
    ASSUME TypeOK, NEW p \in Proc, NEW next, next # "cleanup" \/ p \notin Checkers,
           ReadFile(p, next) \/ ReadBadFile(p) \/ ResetFile(p, next)
    PROVE  /\ NothingRecorded
           /\ p \in Checkers => Remembers(p)'
<1>1. CASE ReadFile(p, next)
  <2>1. /\ file' = file /\ pc'[p] = next
        /\ next # "off" => mem'[p] = file.data
    BY <1>1 DEF ReadFile, TypeOK
  <2> QED
    BY <2>1 DEF NothingRecorded, Remembers, Recorded, AlreadyDownloaded
<1>2. CASE ReadBadFile(p)
  <2>1. ~Parses'
    BY <1>2 DEF ReadBadFile, Torn, Parses
  <2> QED
    BY <2>1 DEF NothingRecorded, Remembers, Recorded
<1>3. CASE ResetFile(p, next)
  <2>1. file'.data.state # "readyToInstall"
    BY <1>3 DEF ResetFile, Serialize, DefaultState
  <2> QED
    BY <2>1 DEF NothingRecorded, Remembers, Recorded
<1> QED
  BY <1>1, <1>2, <1>3

LEMMA UpdatersKept ==
    ASSUME UpdatersRecordNone, \A u \in Updaters : pc'[u] = pc[u] /\ mem'[u] = mem[u]
    PROVE  UpdatersRecordNone'
  BY DEF UpdatersRecordNone

(* The one checker: what it does to the file it remembers, or is done with. *)
LEMMA CheckerStepRemembers ==
    ASSUME TypeOK, NEW p \in Checkers, Checker(p), Remembers(p)
    PROVE  /\ Remembers(p)'
           /\ \A q \in Proc \ {p} : pc'[q] = pc[q] /\ mem'[q] = mem[q]
<1>0. p \in Proc /\ pc \in [Proc -> Labels] /\ mem \in [Proc -> UpdateRecord]
      /\ target \in [Proc -> Version \cup {NoVersion}]
  BY ProcAssumption DEF RunnerThreads, TypeOK
<1>1. CASE CheckerRead(p) \/ CheckerReadBad(p)
  <2> DEFINE next == IF p \in Periodic THEN "sleep" ELSE "ask"
  <2>1. ReadFile(p, next) \/ ReadBadFile(p) \/ ResetFile(p, next)
    BY <1>1 DEF CheckerRead, CheckerReadBad
  <2>2. Remembers(p)'
    BY <1>0, <2>1, ReadRecords
  <2> QED
    BY <1>0, <2>1, <2>2 DEF ReadFile, ReadBadFile, ResetFile
<1>2. CASE Wake(p)
  BY <1>0, <1>2 DEF Wake, Remembers, Recorded, Parses
<1>3. CASE ProcessDownload(p)
  <2>1. /\ pc[p] = "ask" /\ ~AlreadyDownloaded(mem[p], latest)
        /\ pc'[p] = "cleanup" /\ target'[p] = latest /\ file' = file /\ ver' = ver
        /\ \A q \in Proc \ {p} : pc'[q] = pc[q] /\ mem'[q] = mem[q]
    BY <1>0, <1>3 DEF ProcessDownload
  <2> QED
    BY <2>1 DEF Remembers, Recorded, Parses
<1>4. CASE \/ StartManualCheck(p) \/ NoVersionInfo(p) \/ ProcessUpToDate(p)
           \/ ProcessAlreadyDownloaded(p) \/ ProcessReadyToDownload(p)
           \/ ProcessCleanup(p) \/ CleanupThrows(p)
  <2>1. /\ pc'[p] \in {"read", "backoff", "store", "download", "off"}
        /\ \A q \in Proc \ {p} : pc'[q] = pc[q] /\ mem'[q] = mem[q]
    BY <1>0, <1>4
    DEF StartManualCheck, NoVersionInfo, ProcessUpToDate, ProcessAlreadyDownloaded,
        ProcessReadyToDownload, ProcessCleanup, CleanupThrows
  <2> QED
    BY <2>1, NothingToRemember
<1>5. CASE CheckerDownload(p)
  <2>1. /\ pc'[p] \in {"downloading", "download", "store"}
        /\ \A q \in Proc \ {p} : pc'[q] = pc[q] /\ mem'[q] = mem[q]
    BY <1>0, <1>5 DEF CheckerDownload, DownloadOpen, DownloadRetry, DownloadDone, DownloadFail
  <2> QED
    BY <2>1, NothingToRemember
<1>6. CASE CheckerStoreBegin(p) \/ CheckerStoreEnd(p)
  <2>1. /\ pc'[p] \in {"storing", "read", "off"}
        /\ \A q \in Proc \ {p} : pc'[q] = pc[q] /\ mem'[q] = mem[q]
    BY <1>0, <1>6 DEF CheckerStoreBegin, CheckerStoreEnd, StoreBegin, StoreEnd
  <2> QED
    BY <2>1, NothingToRemember
<1> QED
  BY <1>1, <1>2, <1>3, <1>4, <1>5, <1>6 DEF Checker

(* An updater stores no installer as ready, and stage 2 ends the runner. *)
LEMMA UpdaterStepRecords ==
    ASSUME TypeOK, NEW u \in Updaters, Updater(u), CleanupInv
    PROVE  CleanupInv'
<1>0. u \in Proc /\ pc \in [Proc -> Labels] /\ mem \in [Proc -> UpdateRecord]
      /\ ver \in [Proc -> Version] /\ target \in [Proc -> Version \cup {NoVersion}]
      /\ u \notin RunnerThreads
  BY ProcAssumption, KindsAssumption DEF TypeOK
<1>1. \A p \in Checkers : p \in Proc /\ p # u /\ p \in RunnerThreads
  BY <1>0, ProcAssumption DEF RunnerThreads
<1>2. UpdatersRecordNone /\ \A p \in Checkers : Remembers(p)
  BY CleanupSplit
<1>3. \A s \in {"upToDate", "errorDownloading"} : FinalState(s).state # "readyToInstall"
  BY DEF FinalState, DefaultState
<1>4. SUFFICES ASSUME NothingRecorded, pc'[u] \in {"store", "storing"} => mem'[u].state # "readyToInstall",
                      \A q \in Proc \ {u} : /\ pc'[q] = pc[q] /\ mem'[q] = mem[q]
                                            /\ ver'[q] = ver[q] /\ target'[q] = target[q]
               PROVE  CleanupInv'
  <2>1. CASE Stage2Installs(u)
    <3>1. /\ pc' = [p \in Proc |-> CASE p = u -> "store"
                                     [] p \in RunnerThreads -> "off"
                                     [] OTHER -> pc[p]]
          /\ mem' = [p \in Proc |-> CASE p = u -> FinalState("upToDate")
                                      [] p \in RunnerThreads -> DefaultState
                                      [] OTHER -> mem[p]]
      BY <2>1 DEF Stage2Installs
    <3>2. /\ \A p \in Checkers : pc'[p] = "off"
          /\ mem'[u] = FinalState("upToDate")
          /\ \A q \in Updaters \ {u} : pc'[q] = pc[q] /\ mem'[q] = mem[q]
      BY <1>0, <1>1, <3>1, ProcAssumption, KindsAssumption
    <3>3. UpdatersRecordNone'
      BY <1>2, <1>3, <3>2 DEF UpdatersRecordNone
    <3>4. \A p \in Checkers : Remembers(p)'
      BY <3>2, NothingToRemember
    <3> QED
      BY <3>3, <3>4, CleanupSplit
  <2>2. CASE UpdaterRead(u)
    <3>1. NothingRecorded
      BY <1>0, <2>2, ReadRecords DEF UpdaterRead
    <3>2. pc'[u] \in {"ask", "resetting"} /\ target' = target /\ ver' = ver
          /\ \A q \in Proc \ {u} : pc'[q] = pc[q] /\ mem'[q] = mem[q]
      BY <1>0, <2>2 DEF UpdaterRead, ReadFile, ReadBadFile, ResetFile
    <3> QED
      BY <1>4, <3>1, <3>2
  <2>3. CASE UpdaterStore(u)
    <3>1. CASE StoreBegin(u)
      <4>1. /\ ~Parses' /\ mem' = mem /\ pc[u] = "store"
            /\ \A q \in Proc \ {u} : pc'[q] = pc[q]
            /\ ver' = ver /\ target' = target
        BY <1>0, <2>3, <3>1 DEF UpdaterStore, StoreBegin, Torn, Parses
      <4> QED
        BY <1>2, <1>4, <4>1 DEF NothingRecorded, UpdatersRecordNone
    <3>2. CASE StoreEnd(u, "off")
      <4>1. /\ file'.data = mem[u] /\ pc[u] = "storing" /\ pc'[u] = "off"
            /\ \A q \in Proc \ {u} : pc'[q] = pc[q] /\ mem'[q] = mem[q]
            /\ ver' = ver /\ target' = target
        BY <1>0, <2>3, <3>2 DEF UpdaterStore, StoreEnd, Serialize
      <4> QED
        BY <1>2, <1>4, <4>1 DEF NothingRecorded, UpdatersRecordNone
    <3> QED
      BY <2>3, <3>1, <3>2 DEF UpdaterStore
  <2>4. ASSUME NEW info \in BOOLEAN,
               ObtainUpToDate(u, info) \/ ObtainDownloaded(u, info) \/ ObtainNothing(u, info)
        PROVE  CleanupInv'
    <3>1. /\ file' = file /\ ver' = ver
          /\ pc'[u] = "close" \/ \E s \in {"upToDate", "errorDownloading"} : mem'[u] = FinalState(s)
          /\ \A q \in Proc \ {u} : /\ pc'[q] = pc[q] /\ mem'[q] = mem[q]
                                   /\ target'[q] = target[q]
      BY <1>0, <2>4 DEF ObtainUpToDate, ObtainDownloaded, ObtainNothing, Conclude
    <3> QED
      BY <1>3, <1>4, <3>1 DEF NothingRecorded
  <2>5. CASE ObtainNoInfo(u) \/ Stage1Fails(u) \/ Stage2Fails(u)
    <3>1. /\ file' = file /\ ver' = ver /\ mem'[u] = FinalState("errorDownloading")
          /\ \A q \in Proc \ {u} : /\ pc'[q] = pc[q] /\ mem'[q] = mem[q]
                                   /\ target'[q] = target[q]
      BY <1>0, <2>5 DEF ObtainNoInfo, Stage1Fails, Stage2Fails, Conclude
    <3> QED
      BY <1>3, <1>4, <3>1 DEF NothingRecorded
  <2>6. CASE \/ LaunchStage1(u) \/ ObtainDownload(u) \/ UpdaterCleanup(u)
             \/ CloseRunner(u) \/ LaunchStage2(u) \/ UpdaterDies(u)
    <3>1. /\ file' = file /\ pc'[u] \in {"read", "cleanup", "download", "launch", "install", "off"}
          /\ \A q \in Proc \ {u} : /\ pc'[q] = pc[q] /\ mem'[q] = mem[q]
                                   /\ ver'[q] = ver[q] /\ target'[q] = target[q]
      BY <1>0, <2>6
      DEF LaunchStage1, ObtainDownload, UpdaterCleanup, CloseRunner, LaunchStage2,
          UpdaterDies, Die
    <3> QED
      BY <1>4, <3>1 DEF NothingRecorded
  <2>7. CASE UpdaterDownload(u)
    <3>1. /\ file' = file /\ ver' = ver
          /\ \/ pc'[u] \in {"download", "downloading", "close"}
             \/ mem'[u] = FinalState("errorDownloading")
          /\ \A q \in Proc \ {u} : /\ pc'[q] = pc[q] /\ mem'[q] = mem[q]
                                   /\ target'[q] = target[q]
      BY <1>0, <2>7
      DEF UpdaterDownload, DownloadOpen, DownloadRetry, DownloadDone, DownloadFail
    <3> QED
      BY <1>3, <1>4, <3>1 DEF NothingRecorded
  <2> QED
    BY <2>1, <2>2, <2>3, <2>4, <2>5, <2>6, <2>7 DEF Updater
<1>5. UpdatersRecordNone'
  BY <1>2, <1>4, ProcAssumption DEF UpdatersRecordNone
<1>6. \A p \in Checkers : Remembers(p)'
  BY <1>1, <1>2, <1>4, StillRemembers
<1> QED
  BY <1>5, <1>6, CleanupSplit

LEMMA NextRemembers ==
    ASSUME Manual = {}, \A p, q \in Periodic : p = q, TypeOK, CleanupInv, [Next]_vars
    PROVE  CleanupInv'
<1>0. /\ UpdatersRecordNone /\ \A p \in Checkers : Remembers(p)
      /\ pc \in [Proc -> Labels] /\ mem \in [Proc -> UpdateRecord]
  BY CleanupSplit DEF TypeOK
<1>1. /\ \A p, q \in Checkers : p = q
      /\ \A p \in Checkers : p \in Periodic /\ p \in Proc /\ p \in RunnerThreads
      /\ \A u \in Updaters : u \in Proc /\ u \notin RunnerThreads
  BY ProcAssumption, KindsAssumption DEF Checkers, RunnerThreads
<1>2. ASSUME NothingRecorded, target' = target, ver' = ver,
             \A q \in Checkers \cup Updaters : pc'[q] = pc[q] /\ mem'[q] = mem[q]
      PROVE  CleanupInv'
  BY <1>0, <1>2, StillRemembers, UpdatersKept, CleanupSplit
<1>3. CASE Publish \/ UNCHANGED vars
  BY <1>2, <1>3 DEF Publish, vars, NothingRecorded
<1>4. CASE RunnerStart \/ RunnerExit
  <2>1. /\ \A p \in Checkers : pc'[p] \in {"read", "off"}
        /\ \A u \in Updaters : pc'[u] = pc[u] /\ mem'[u] = mem[u]
    <3>1. CASE RunnerStart
      BY <1>1, <3>1, KindsAssumption DEF RunnerStart, RunnerThreads, Checkers
    <3>2. CASE RunnerExit
      BY <1>1, <3>2 DEF RunnerExit, Die
    <3> QED
      BY <1>4, <3>1, <3>2
  <2> QED
    BY <1>0, <2>1, NothingToRemember, UpdatersKept, CleanupSplit
<1>5. ASSUME NEW p \in Checkers, Checker(p) PROVE CleanupInv'
  <2>1. /\ Remembers(p)'
        /\ \A q \in Proc \ {p} : pc'[q] = pc[q] /\ mem'[q] = mem[q]
    BY <1>0, <1>5, CheckerStepRemembers
  <2>2. \A q \in Checkers : Remembers(q)'
    BY <1>1, <2>1
  <2>3. UpdatersRecordNone'
    BY <1>0, <1>1, <2>1, UpdatersKept
  <2> QED
    BY <2>2, <2>3, CleanupSplit
<1>6. ASSUME NEW p \in Cleaner \cup Query,
             \/ CleanerRead(p) \/ CleanerCleanup(p)
             \/ QueryStart(p) \/ QueryRead(p)
      PROVE  CleanupInv'
  <2>1. p \in Proc /\ p \notin Checkers \cup Updaters
    BY ProcAssumption, KindsAssumption DEF RunnerThreads
  <2>2. CASE CleanerRead(p) \/ QueryRead(p)
    <3>1. NothingRecorded
      BY <2>1, <2>2, ReadRecords DEF CleanerRead, QueryRead
    <3>2. /\ target' = target /\ ver' = ver
          /\ \A q \in Proc \ {p} : pc'[q] = pc[q] /\ mem'[q] = mem[q]
      BY <1>0, <2>1, <2>2 DEF CleanerRead, QueryRead, ReadFile, ReadBadFile, ResetFile
    <3> QED
      BY <1>1, <1>2, <2>1, <3>1, <3>2
  <2>3. CASE CleanerCleanup(p) \/ QueryStart(p)
    <3>1. /\ file' = file /\ target' = target /\ ver' = ver
          /\ \A q \in Proc \ {p} : pc'[q] = pc[q] /\ mem'[q] = mem[q]
      BY <1>0, <2>1, <2>3 DEF CleanerCleanup, QueryStart
    <3> QED
      BY <1>1, <1>2, <2>1, <3>1 DEF NothingRecorded
  <2> QED
    BY <1>6, <2>2, <2>3
<1> QED
  BY <1>3, <1>4, <1>5, <1>6, UpdaterStepRecords DEF Next

(* As long as no check is asked for by hand, the one periodic worker never *)
(* deletes, before it downloads a release, the installer of that very      *)
(* release that the state file calls ready: however updaters, the cleanup  *)
(* thread and requests for the date reset or store the file meanwhile.     *)
THEOREM WorkerKeepsWhatIsReady ==
    ASSUME Manual = {}, \A p, q \in Periodic : p = q
    PROVE  Spec => []CleanupRemovesOnlyOld
<1>1. Init => CleanupInv
  BY ProcAssumption
  DEF Init, CleanupInv, CleanupRemovesOnlyOld, UpdatersRecordNone, CheckerRemembers,
      RunnerThreads
<1>2. TypeOK /\ CleanupInv /\ [Next]_vars => CleanupInv'
  BY NextRemembers
<1>3. CleanupInv => CleanupRemovesOnlyOld
  BY DEF CleanupInv
<1> QED
  BY <1>1, <1>2, <1>3, TypeCorrect, PTL DEF Spec
============================================================================
