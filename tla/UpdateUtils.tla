---------------------------- MODULE UpdateUtils ----------------------------
(***************************************************************************)
(* The runner's side of an update: the periodic worker and the "check for  *)
(* updates" thread of runner/UpdateUtils.cpp, the thread that empties the  *)
(* Updates directory when the runner starts (runner/main.cpp) and the      *)
(* Settings window's request for the date of the last check                *)
(* (runner/settings_window.cpp).  All four are threads of one process and  *)
(* die with it.                                                            *)
(***************************************************************************)
EXTENDS Updating

CONSTANTS
    Periodic,   \* PeriodicUpdateWorker; the code has one
    Manual,     \* threads that run CheckForUpdatesCallback
    Cleaner,    \* the cleanup thread WinMain starts
    Query       \* the handler of request_update_state_date

Checkers == Periodic \cup Manual
RunnerThreads == Checkers \cup Cleaner \cup Query

VARIABLES
    installed,   \* the version of the programs on disk
    runner,      \* the runner process: up, closing (WM_CLOSE sent) or down
    checking     \* isUpdateCheckThreadRunning

runnerVars == <<installed, runner, checking>>

---------------------------------------------------------------------------
(* The runner process *)

(* One instance at a time: msi_mutex.  The periodic worker and the cleanup *)
(* thread start with it.                                                   *)
RunnerStart ==
    /\ runner = "down"
    /\ runner' = "up"
    /\ ver' = [p \in Proc |-> IF p \in RunnerThreads THEN installed ELSE ver[p]]
    /\ pc' = [p \in Proc |-> IF p \in Periodic \cup Cleaner THEN "read" ELSE pc[p]]
    /\ UNCHANGED <<file, lock, mem, latest, updates, target, tries, installed, checking>>

(* The process ends, whatever its threads are doing: they are detached. *)
RunnerExit ==
    /\ runner # "down"
    /\ runner' = "down"
    /\ checking' = FALSE
    /\ Die(RunnerThreads)
    /\ target' = [p \in Proc |-> IF p \in RunnerThreads THEN NoVersion ELSE target[p]]
    /\ tries' = [p \in Proc |-> IF p \in RunnerThreads THEN 0 ELSE tries[p]]
    /\ UNCHANGED <<ver, latest, updates, installed>>

---------------------------------------------------------------------------
(* ProcessNewVersionInfo, as what it makes of the state *)

UpToDateState(s) == [s EXCEPT !.dated = TRUE, !.state = "upToDate",
                              !.releasePageUrl = NoVersion,
                              !.downloadedInstallerFilename = NoVersion]

NewVersionState(s, v) == [s EXCEPT !.dated = TRUE, !.releasePageUrl = v]

AlreadyDownloaded(s, v) ==
    s.state = "readyToInstall" /\ s.downloadedInstallerFilename = v

DownloadedState(s, v) == [s EXCEPT !.state = "readyToInstall",
                                   !.downloadedInstallerFilename = v]

NotDownloadedState(s, status) == [s EXCEPT !.state = status,
                                    !.downloadedInstallerFilename = NoVersion]

---------------------------------------------------------------------------
(* The checkers.  The state is read first; GitHub is asked, and the answer *)
(* stored, only when the periodic worker has slept for up to a day.        *)

CheckerRead(p) ==
    /\ LET next == IF p \in Periodic THEN "sleep" ELSE "ask"
       IN  ReadFile(p, next) \/ ResetFile(p, next)
    /\ UNCHANGED <<latest, updates, target, tries, runnerVars>>

CheckerReadBad(p) ==
    ReadBadFile(p) /\ UNCHANGED <<latest, updates, target, tries, runnerVars>>

(* The end of one of the periodic worker's two waits, the day's between    *)
(* reading and asking or the two hours' after a failure.                   *)
Wake(p) ==
    /\ p \in Periodic
    /\ pc[p] \in {"sleep", "backoff"}
    /\ pc' = [pc EXCEPT ![p] = IF pc[p] = "sleep" THEN "ask" ELSE "read"]
    /\ UNCHANGED <<file, lock, mem, ver, latest, updates, target, tries, runnerVars>>

(* compare_exchange_strong on isUpdateCheckThreadRunning. *)
StartManualCheck(p) ==
    /\ p \in Manual
    /\ pc[p] = "off"
    /\ runner = "up"
    /\ ~checking
    /\ checking' = TRUE
    /\ pc' = [pc EXCEPT ![p] = "read"]
    /\ UNCHANGED <<file, lock, mem, ver, latest, updates, target, tries, installed, runner>>

(* No answer: the worker waits and starts over with nothing stored, the    *)
(* manual check stores networkError over what it read.                     *)
NoVersionInfo(p) ==
    /\ pc[p] = "ask"
    /\ IF p \in Periodic
       THEN /\ mem' = [mem EXCEPT ![p] = DefaultState]
            /\ pc' = [pc EXCEPT ![p] = "backoff"]
       ELSE /\ mem' = [mem EXCEPT ![p].state = "networkError"]
            /\ pc' = [pc EXCEPT ![p] = "store"]
    /\ UNCHANGED <<file, lock, ver, latest, updates, target, tries, runnerVars>>

ProcessUpToDate(p) ==
    /\ pc[p] = "ask"
    /\ VersionIsUpToDate(p)
    /\ mem' = [mem EXCEPT ![p] = UpToDateState(mem[p])]
    /\ pc' = [pc EXCEPT ![p] = "store"]
    /\ UNCHANGED <<file, lock, ver, latest, updates, target, tries, runnerVars>>

ProcessAlreadyDownloaded(p) ==
    /\ pc[p] = "ask"
    /\ VersionIsNew(p)
    /\ AlreadyDownloaded(mem[p], latest)
    /\ mem' = [mem EXCEPT ![p] = NewVersionState(mem[p], latest)]
    /\ pc' = [pc EXCEPT ![p] = "store"]
    /\ UNCHANGED <<file, lock, ver, latest, updates, target, tries, runnerVars>>

(* download_update is false: a metered connection, the setting or a GPO. *)
ProcessReadyToDownload(p) ==
    /\ pc[p] = "ask"
    /\ VersionIsNew(p)
    /\ ~AlreadyDownloaded(mem[p], latest)
    /\ mem' = [mem EXCEPT ![p] =
                  NotDownloadedState(NewVersionState(mem[p], latest), "readyToDownload")]
    /\ pc' = [pc EXCEPT ![p] = "store"]
    /\ UNCHANGED <<file, lock, ver, latest, updates, target, tries, runnerVars>>

(* Mutant: an installer that was downloaded before is downloaded again. *)
MutDownloadAgain(p) ==
    /\ pc[p] = "ask"
    /\ VersionIsNew(p)
    /\ mem' = [mem EXCEPT ![p] = NewVersionState(mem[p], latest)]
    /\ target' = [target EXCEPT ![p] = latest]
    /\ pc' = [pc EXCEPT ![p] = "cleanup"]
    /\ UNCHANGED <<file, lock, ver, latest, updates, tries, runnerVars>>

ProcessDownload(p) ==
    /\ pc[p] = "ask"
    /\ VersionIsNew(p)
    /\ ~AlreadyDownloaded(mem[p], latest)
    /\ mem' = [mem EXCEPT ![p] = NewVersionState(mem[p], latest)]
    /\ target' = [target EXCEPT ![p] = latest]
    /\ pc' = [pc EXCEPT ![p] = "cleanup"]
    /\ UNCHANGED <<file, lock, ver, latest, updates, tries, runnerVars>>

ProcessCleanup(p) ==
    /\ pc[p] = "cleanup"
    /\ CleanupUpdates
    /\ pc' = [pc EXCEPT ![p] = "download"]
    /\ UNCHANGED <<file, lock, mem, ver, latest, target, tries, runnerVars>>

(* Mutant: the exception skips the reset of isUpdateCheckThreadRunning. *)
MutThrowKeepsFlag(p) ==
    /\ pc[p] = "cleanup"
    /\ target' = [target EXCEPT ![p] = NoVersion]
    /\ mem' = [mem EXCEPT ![p] = DefaultState]
    /\ pc' = [pc EXCEPT ![p] = "off"]
    /\ UNCHANGED <<file, lock, ver, latest, updates, tries, runnerVars>>

(* directory_iterator throws.  The worker has its version_info_obtained    *)
(* set and stores the state as far as it got; the manual check ends.       *)
CleanupThrows(p) ==
    /\ pc[p] = "cleanup"
    /\ target' = [target EXCEPT ![p] = NoVersion]
    /\ IF p \in Periodic
       THEN /\ pc' = [pc EXCEPT ![p] = "store"]
            /\ UNCHANGED <<mem, checking>>
       ELSE /\ pc' = [pc EXCEPT ![p] = "off"]
            /\ mem' = [mem EXCEPT ![p] = DefaultState]
            /\ checking' = FALSE
    /\ UNCHANGED <<file, lock, ver, latest, updates, tries, installed, runner>>

CheckerDownload(p) ==
    /\ \/ DownloadOpen(p) \/ DownloadRetry(p)
       \/ /\ \/ DownloadDone(p, DownloadedState(mem[p], target[p]), "store")
             \/ DownloadFail(p, NotDownloadedState(mem[p], "errorDownloading"), "store")
          /\ target' = [target EXCEPT ![p] = NoVersion]
    /\ UNCHANGED runnerVars

CheckerStoreBegin(p) ==
    StoreBegin(p) /\ UNCHANGED <<latest, updates, target, tries, runnerVars>>

(* The worker starts over, the manual check is over. *)
CheckerStoreEnd(p) ==
    /\ StoreEnd(p, IF p \in Periodic THEN "read" ELSE "off")
    /\ checking' = IF p \in Manual THEN FALSE ELSE checking
    /\ UNCHANGED <<latest, updates, target, tries, installed, runner>>

Checker(p) ==
    \/ CheckerRead(p) \/ CheckerReadBad(p) \/ Wake(p) \/ StartManualCheck(p)
    \/ NoVersionInfo(p) \/ ProcessUpToDate(p) \/ ProcessAlreadyDownloaded(p)
    \/ ProcessReadyToDownload(p) \/ ProcessDownload(p) \/ ProcessCleanup(p)
    \/ CleanupThrows(p) \/ CheckerDownload(p)
    \/ CheckerStoreBegin(p) \/ CheckerStoreEnd(p)

---------------------------------------------------------------------------
(* The thread WinMain starts: read, and empty the Updates directory if the *)
(* state was upToDate.                                                     *)

CleanerRead(p) ==
    /\ \/ ReadFile(p, IF file.data.state = "upToDate" THEN "cleanup" ELSE "off")
       \/ ReadBadFile(p)
       \/ ResetFile(p, "cleanup")
    /\ UNCHANGED <<latest, updates, target, tries, runnerVars>>

CleanerCleanup(p) ==
    /\ pc[p] = "cleanup"
    /\ CleanupUpdates
    /\ pc' = [pc EXCEPT ![p] = "off"]
    /\ mem' = [mem EXCEPT ![p] = DefaultState]
    /\ UNCHANGED <<file, lock, ver, latest, target, tries, runnerVars>>

(* request_update_state_date: a read for the Settings window.              *)
QueryStart(p) ==
    /\ runner = "up"
    /\ pc[p] = "off"
    /\ pc' = [pc EXCEPT ![p] = "read"]
    /\ UNCHANGED <<file, lock, mem, ver, latest, updates, target, tries, runnerVars>>

QueryRead(p) ==
    /\ ReadFile(p, "off") \/ ReadBadFile(p) \/ ResetFile(p, "off")
    /\ UNCHANGED <<latest, updates, target, tries, runnerVars>>
============================================================================
