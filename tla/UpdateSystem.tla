---------------------------- MODULE UpdateSystem ----------------------------
(***************************************************************************)
(* The update system: the runner's threads, any number of updaters and     *)
(* GitHub, over one UpdateState.json and one Updates directory.            *)
(***************************************************************************)
EXTENDS PowerToysUpdate

ASSUME ProcAssumption == Proc = RunnerThreads \cup Updaters
ASSUME KindsAssumption ==
    /\ Periodic \cap Manual = {}
    /\ Checkers \cap Cleaner = {}
    /\ (Checkers \cup Cleaner) \cap Query = {}
    /\ RunnerThreads \cap Updaters = {}

vars == <<file, lock, pc, mem, ver, latest, updates, target, tries,
          installed, runner, checking>>

(* A fresh installation of version 1: no state file, nothing downloaded. *)
Init ==
    /\ file = NoFile
    /\ lock = NoProc
    /\ pc = [p \in Proc |-> "off"]
    /\ mem = [p \in Proc |-> DefaultState]
    /\ ver = [p \in Proc |-> 1]
    /\ latest = 1
    /\ updates = [v \in Version |-> "none"]
    /\ target = [p \in Proc |-> NoVersion]
    /\ tries = [p \in Proc |-> 0]
    /\ installed = 1
    /\ runner = "down"
    /\ checking = FALSE

(* A newer release appears on GitHub. *)
Publish ==
    /\ \E v \in Version : v > latest /\ latest' = v
    /\ UNCHANGED <<file, lock, pc, mem, ver, updates, target, tries, runnerVars>>

Next ==
    \/ Publish \/ RunnerStart \/ RunnerExit
    \/ \E p \in Checkers : Checker(p)
    \/ \E p \in Cleaner : CleanerRead(p) \/ CleanerCleanup(p)
    \/ \E p \in Query : QueryStart(p) \/ QueryRead(p)
    \/ \E u \in Updaters : Updater(u)

Spec == Init /\ [][Next]_vars

---------------------------------------------------------------------------
Labels == {"off", "read", "resetting", "sleep", "backoff", "ask", "cleanup",
           "download", "downloading", "store", "storing",
           "close", "launch", "install"}

(* Type invariant of the update system's state. *)
TypeOK ==
    /\ file \in FileContents
    /\ lock \in Proc \cup {NoProc, Abandoned}
    /\ pc \in [Proc -> Labels]
    /\ mem \in [Proc -> UpdateRecord]
    /\ ver \in [Proc -> Version]
    /\ latest \in Version
    /\ updates \in [Version -> InstallerFile]
    /\ target \in [Proc -> Version \cup {NoVersion}]
    /\ tries \in [Proc -> 0 .. MaxDownloadAttempts - 1]
    /\ installed \in Version
    /\ runner \in {"up", "closing", "down"}
    /\ checking \in BOOLEAN

(* The processes rewriting the state file: whoever is between truncating   *)
(* it and having written it holds the named mutex.                         *)
WritersHoldMutex == \A p \in Proc : pc[p] \in {"resetting", "storing"} <=> lock = p

(* What a state written by version v may say: an installer is named only   *)
(* while it is ready (or was, before the last check failed to reach        *)
(* GitHub), the release page is that installer's or a later one's, and     *)
(* whatever is offered is newer than v.                                    *)
Sound(v, s) ==
    /\ s.state = "readyToInstall" => s.downloadedInstallerFilename > v
    /\ s.state = "readyToDownload" => s.releasePageUrl > v
    /\ s.downloadedInstallerFilename # NoVersion =>
          /\ s.state \in {"readyToInstall", "networkError"}
          /\ s.releasePageUrl >= s.downloadedInstallerFilename

(* The state file is sound for the version it is stamped with: what one    *)
(* version left behind never makes the next one install itself, or an      *)
(* older release, again.                                                   *)
RecordedStateIsSound == Parses => Sound(file.stamp, file.data)

(* What an updater hands to stage 2, through the file or by downloading it *)
(* itself, is newer than the updater.                                      *)
HandedInstallerIsNewer ==
    \A u \in Updaters : pc[u] \in {"close", "launch", "install"} => target[u] > ver[u]

(* Why the two above hold: what every process remembers is sound for the   *)
(* version it runs, what it is about to download or install is newer than  *)
(* that version, nothing is named that has not been released, and a        *)
(* process that is not running, the only kind whose version changes,       *)
(* remembers nothing.                                                      *)
Fetching == {"cleanup", "download", "downloading", "close", "launch", "install"}

MemoryIsSound == \A p \in Proc : Sound(ver[p], mem[p])
TargetIsNewer ==
    \A p \in Checkers \cup Updaters : pc[p] \in Fetching =>
        /\ target[p] > ver[p]
        /\ p \in Checkers => mem[p].releasePageUrl = target[p]
AllReleased ==
    /\ file.data.downloadedInstallerFilename <= latest
    /\ \A p \in Proc : /\ mem[p].downloadedInstallerFilename <= latest
                        /\ target[p] <= latest
OffIsBlank ==
    /\ \A p \in Proc : pc[p] = "off" => mem[p] = DefaultState
    /\ runner = "down" => \A p \in RunnerThreads : pc[p] = "off"

SoundnessInv == /\ RecordedStateIsSound /\ MemoryIsSound /\ TargetIsNewer
                /\ AllReleased /\ OffIsBlank

(* A reader that finds no good file replaces it by a default one, and with *)
(* it whatever was recorded (UpdateState::read).  It only ever does so to  *)
(* what is lost: before anything was stored, to what another version       *)
(* wrote, or when a process has died in the middle of writing; never       *)
(* because it looked while somebody was writing, or because a thread that  *)
(* lives let go of the mutex over half a file.                             *)
ResetsOnlyWhatIsLost ==
    [][\A p \in Proc : pc[p] = "read" /\ pc'[p] = "resetting" =>
          \/ file.text = "none"
          \/ Parses /\ IsOldFileVersion(ver[p])
          \/ lock = Abandoned]_vars

(* Why: a torn file is being written, or its writer has died.              *)
TornIsHeld == file.text = "torn" => lock # NoProc

(* "Cleanup old updates before downloading the latest": a check that is    *)
(* about to empty the Updates directory never finds the very installer it  *)
(* is to download called ready to install by the state file.  So it is for *)
(* the periodic worker alone; a manual check beside it read the state      *)
(* before it asked GitHub, and may delete what the worker has downloaded   *)
(* since.                                                                  *)
Recorded(p) == Parses /\ file.stamp = ver[p] /\ file.data.state = "readyToInstall"
CleanupRemovesOnlyOld ==
    \A p \in Checkers :
        pc[p] = "cleanup" /\ Recorded(p) => file.data.downloadedInstallerFilename # target[p]

(* Why: with one checker, nobody else records an installer as ready, so    *)
(* the file still says what the checker read before it slept and asked.    *)
UpdatersRecordNone ==
    \A u \in Updaters : pc[u] \in {"store", "storing"} => mem[u].state # "readyToInstall"
CheckerRemembers ==
    \A p \in Checkers :
        pc[p] \in {"sleep", "ask"} /\ Recorded(p)
            => AlreadyDownloaded(mem[p], file.data.downloadedInstallerFilename)

CleanupInv == CleanupRemovesOnlyOld /\ UpdatersRecordNone /\ CheckerRemembers

---------------------------------------------------------------------------
(* Liveness.  The steps of a started thread or process; starting one is    *)
(* the user's choice and dying is nobody's duty.                           *)
CheckerStep(p) == Checker(p) /\ pc[p] # "off"
OtherThreadStep ==
    \/ \E p \in Cleaner : CleanerRead(p) \/ CleanerCleanup(p)
    \/ \E p \in Query : QueryRead(p)
UpdaterStep(u) ==
    \/ Updater(u) /\ pc[u] # "off" /\ pc'[u] # "off"
    \/ UpdaterStore(u)

(* The operating system runs every thread, and hands the mutex to waiting  *)
(* threads in turn, so that each one's step is strongly fair.              *)
Fairness ==
    /\ \A p \in Checkers : SF_vars(CheckerStep(p))
    /\ SF_vars(OtherThreadStep)
    /\ \A u \in Updaters : SF_vars(UpdaterStep(u))

FairSpec == Spec /\ Fairness

(* A check the user asked for comes to an end, so that                     *)
(* isUpdateCheckThreadRunning is cleared and the next one can start: the   *)
(* mutex comes back from processes that die, and downloads give up.        *)
ManualCheckEnds == checking ~> ~checking

(* What goes wrong for reasons outside the program: a process is killed,   *)
(* the network or the file system fails, the installer refuses a good      *)
(* file.  Asking for an update the Settings window does not offer is one.  *)
Offers == {"readyToDownload", "readyToInstall", "errorDownloading"}
Offered(s) == Parses /\ file.data.state = s
Mishap ==
    \/ RunnerExit /\ runner = "up"
    \/ \E p \in Checkers :
          \/ NoVersionInfo(p) \/ CleanupThrows(p)
          \/ CheckerDownload(p) /\ mem'[p].state = "errorDownloading" /\ pc'[p] = "store"
    \/ \E u \in Updaters :
          \/ UpdaterDies(u) \/ Stage1Fails(u) \/ ObtainNoInfo(u)
          \/ LaunchStage1(u) /\ \A s \in Offers : ~Offered(s)
          \/ ObtainUpToDate(u, FALSE) /\ VersionIsNew(u) /\ mem[u].state # "upToDate"
          \/ UpdaterDownload(u) /\ pc'[u] = "store"
          \/ Stage2Fails(u) /\ updates[target[u]] = "whole"

(* A check of the runner's falls into an update that is under way. *)
Overlap == \E p \in Checkers, u \in Updaters :
               pc[p] \notin {"off", "sleep", "backoff"} /\ pc[u] # "off"

(* Nothing goes wrong any more and checks, a day apart, do not fall into   *)
(* updates, which take minutes; the runner is started when it is down and  *)
(* an update is asked for, now and again, in whatever state the Settings   *)
(* window offers it.                                                       *)
Settled ==
    /\ <>[][~Mishap]_vars
    /\ <>[]~Overlap
    /\ WF_vars(RunnerStart)
    /\ \A u \in Updaters, s \in Offers : SF_vars(LaunchStage1(u) /\ Offered(s))

(* No state the file can have been left in, torn, stale, naming an         *)
(* installer that is gone or calling an old version up to date, keeps the  *)
(* latest release from being installed once nothing goes wrong any more.   *)
UpdateGetsInstalled == Settled => (latest = MaxVersion ~> installed = MaxVersion)
============================================================================
