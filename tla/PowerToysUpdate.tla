-------------------------- MODULE PowerToysUpdate --------------------------
(***************************************************************************)
(* The updater, Update/PowerToys.Update.cpp.  Stage 1 is started by a      *)
(* toast's button or by the Settings window; it obtains the installer,     *)
(* copies itself to the temporary directory, closes the runner and starts  *)
(* the copy as stage 2, which runs the installer.  One process identifier  *)
(* stands for both stages: stage 2 starts where stage 1 ends, and is the   *)
(* same program of the same version.  Nothing keeps a second updater from  *)
(* being started.                                                          *)
(***************************************************************************)
EXTENDS UpdateUtils

CONSTANT Updaters

(* The state the updater stores when it gives up, or is done: everything  *)
(* but the date and the status is default.                                *)
FinalState(status) == [DefaultState EXCEPT !.dated = TRUE, !.state = status]

(* The updater u will store FinalState(status) and end. *)
Conclude(u, status) ==
    /\ mem' = [mem EXCEPT ![u] = FinalState(status)]
    /\ target' = [target EXCEPT ![u] = NoVersion]
    /\ pc' = [pc EXCEPT ![u] = "store"]

LaunchStage1(u) ==
    /\ pc[u] = "off"
    /\ ver' = [ver EXCEPT ![u] = installed]
    /\ pc' = [pc EXCEPT ![u] = "read"]
    /\ UNCHANGED <<file, lock, mem, latest, updates, target, tries, runnerVars>>

UpdaterRead(u) ==
    /\ ReadFile(u, "ask") \/ ReadBadFile(u) \/ ResetFile(u, "ask")
    /\ UNCHANGED <<latest, updates, target, tries, runnerVars>>

---------------------------------------------------------------------------
(* ObtainInstaller, once GitHub has answered.  The answer is dereferenced  *)
(* before it is tested: without one, whether it "is" up to date is an      *)
(* arbitrary Boolean.                                                      *)

ObtainUpToDate(u, info) ==
    /\ pc[u] = "ask"
    /\ info => VersionIsUpToDate(u)
    /\ Conclude(u, "upToDate")
    /\ UNCHANGED <<file, lock, ver, latest, updates, tries, runnerVars>>

ToDownload(s) == s.state \in {"readyToDownload", "errorDownloading"}

ObtainDownload(u) ==
    /\ pc[u] = "ask"
    /\ VersionIsNew(u)
    /\ ToDownload(mem[u])
    /\ target' = [target EXCEPT ![u] = latest]
    /\ mem' = [mem EXCEPT ![u] = DefaultState]
    /\ pc' = [pc EXCEPT ![u] = "cleanup"]
    /\ UNCHANGED <<file, lock, ver, latest, updates, tries, runnerVars>>

(* No answer, and there is an installer to download. *)
ObtainNoInfo(u) ==
    /\ pc[u] = "ask"
    /\ ToDownload(mem[u])
    /\ Conclude(u, "errorDownloading")
    /\ UNCHANGED <<file, lock, ver, latest, updates, tries, runnerVars>>

(* Mutant: a missing installer is not recorded as a failure. *)
MutMissingNotRecorded(u, info) ==
    /\ pc[u] = "ask"
    /\ info => VersionIsNew(u)
    /\ mem[u].state = "readyToInstall"
    /\ LET v == mem[u].downloadedInstallerFilename
       IN  IF updates[v] # "none"
           THEN /\ target' = [target EXCEPT ![u] = v]
                /\ mem' = [mem EXCEPT ![u] = DefaultState]
                /\ pc' = [pc EXCEPT ![u] = "close"]
           ELSE /\ pc' = [pc EXCEPT ![u] = "store"]
                /\ UNCHANGED <<target, mem>>
    /\ UNCHANGED <<file, lock, ver, latest, updates, tries, runnerVars>>

(* The recorded installer is taken if there is such a file, whole or not;  *)
(* the answer plays no part, and there need not be one.                    *)
ObtainDownloaded(u, info) ==
    /\ pc[u] = "ask"
    /\ info => VersionIsNew(u)
    /\ mem[u].state = "readyToInstall"
    /\ LET v == mem[u].downloadedInstallerFilename
       IN  IF updates[v] # "none"
           THEN /\ target' = [target EXCEPT ![u] = v]
                /\ mem' = [mem EXCEPT ![u] = DefaultState]
                /\ pc' = [pc EXCEPT ![u] = "close"]
           ELSE Conclude(u, "errorDownloading")
    /\ UNCHANGED <<file, lock, ver, latest, updates, tries, runnerVars>>

(* An upToDate state is believed; a networkError one is "invalid". *)
ObtainNothing(u, info) ==
    /\ pc[u] = "ask"
    /\ info => VersionIsNew(u)
    /\ mem[u].state \in {"upToDate", "networkError"}
    /\ Conclude(u, IF mem[u].state = "upToDate" THEN "upToDate" ELSE "errorDownloading")
    /\ UNCHANGED <<file, lock, ver, latest, updates, tries, runnerVars>>

UpdaterCleanup(u) ==
    /\ pc[u] = "cleanup"
    /\ CleanupUpdates
    /\ pc' = [pc EXCEPT ![u] = "download"]
    /\ UNCHANGED <<file, lock, mem, ver, latest, target, tries, runnerVars>>

UpdaterDownload(u) ==
    /\ \/ DownloadOpen(u) \/ DownloadRetry(u)
       \/ DownloadDone(u, DefaultState, "close") /\ UNCHANGED target
       \/ /\ DownloadFail(u, FinalState("errorDownloading"), "store")
          /\ target' = [target EXCEPT ![u] = NoVersion]
    /\ UNCHANGED runnerVars

---------------------------------------------------------------------------
(* InstallNewVersionStage1 *)

(* The copy in the temporary directory, then WM_CLOSE to the tray window:  *)
(* the runner begins to end and SendMessage returns.                       *)
CloseRunner(u) ==
    /\ pc[u] = "close"
    /\ runner' = IF runner = "up" THEN "closing" ELSE runner
    /\ pc' = [pc EXCEPT ![u] = "launch"]
    /\ UNCHANGED <<file, lock, mem, ver, latest, updates, target, tries, installed, checking>>

LaunchStage2(u) ==
    /\ pc[u] = "launch"
    /\ pc' = [pc EXCEPT ![u] = "install"]
    /\ UNCHANGED <<file, lock, mem, ver, latest, updates, target, tries, runnerVars>>

(* The copy cannot be made, or ShellExecuteEx fails. *)
Stage1Fails(u) ==
    /\ pc[u] \in {"close", "launch"}
    /\ Conclude(u, "errorDownloading")
    /\ UNCHANGED <<file, lock, ver, latest, updates, tries, runnerVars>>

---------------------------------------------------------------------------
(* InstallNewVersionStage2.  The installer itself is a program of its own: *)
(* it fails on a file that is not whole, refuses to replace a newer        *)
(* version and terminates a runner it finds.                               *)

InstallerSucceeds(u) ==
    /\ updates[target[u]] = "whole"
    /\ target[u] >= installed
    /\ installed' = target[u]
    /\ runner' = "down"
    /\ checking' = FALSE

Stage2Installs(u) ==
    /\ pc[u] = "install"
    /\ InstallerSucceeds(u)
    /\ lock' = IF lock \in RunnerThreads THEN Abandoned ELSE lock
    /\ pc' = [p \in Proc |-> CASE p = u -> "store"
                               [] p \in RunnerThreads -> "off"
                               [] OTHER -> pc[p]]
    /\ mem' = [p \in Proc |-> CASE p = u -> FinalState("upToDate")
                                [] p \in RunnerThreads -> DefaultState
                                [] OTHER -> mem[p]]
    /\ target' = [p \in Proc |-> IF p \in RunnerThreads \cup {u} THEN NoVersion ELSE target[p]]
    /\ tries' = [p \in Proc |-> IF p \in RunnerThreads THEN 0 ELSE tries[p]]
    /\ UNCHANGED <<file, ver, latest, updates>>

Stage2Fails(u) ==
    /\ pc[u] = "install"
    /\ Conclude(u, "errorDownloading")
    /\ UNCHANGED <<file, lock, ver, latest, updates, tries, runnerVars>>

UpdaterStore(u) ==
    /\ StoreBegin(u) \/ StoreEnd(u, "off")
    /\ UNCHANGED <<latest, updates, target, tries, runnerVars>>

(* The process is terminated, or an exception leaves WinMain. *)
UpdaterDies(u) ==
    /\ pc[u] # "off"
    /\ Die({u})
    /\ target' = [target EXCEPT ![u] = NoVersion]
    /\ tries' = [tries EXCEPT ![u] = 0]
    /\ UNCHANGED <<ver, latest, updates, runnerVars>>

Updater(u) ==
    \/ LaunchStage1(u) \/ UpdaterRead(u)
    \/ \E info \in BOOLEAN :
         ObtainUpToDate(u, info) \/ ObtainDownloaded(u, info) \/ ObtainNothing(u, info)
    \/ ObtainDownload(u) \/ ObtainNoInfo(u) \/ UpdaterCleanup(u) \/ UpdaterDownload(u)
    \/ CloseRunner(u) \/ LaunchStage2(u) \/ Stage1Fails(u)
    \/ Stage2Installs(u) \/ Stage2Fails(u) \/ UpdaterStore(u) \/ UpdaterDies(u)
============================================================================
