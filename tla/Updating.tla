------------------------------ MODULE Updating ------------------------------
(***************************************************************************)
(* What the runner and the updater share of common/updating/updating.cpp:  *)
(* asking GitHub for the latest release, the Updates directory, removing   *)
(* what is in it, and downloading an installer into it.                    *)
(***************************************************************************)
EXTENDS UpdateState

CONSTANT MaxDownloadAttempts   \* MAX_DOWNLOAD_ATTEMPTS in the code

ASSUME MaxDownloadAttemptsAssumption == MaxDownloadAttempts \in Nat \ {0}

VARIABLES
    latest,     \* the latest release on GitHub
    updates,    \* the Updates directory: version -> none, partial, whole
    target,     \* the new version each process found, or its installer
    tries       \* download attempts a process has used up

InstallerFile == {"none", "partial", "whole"}

(* Mutant: the running version's own release counts as a new one. *)
MutSameIsNew(p) == latest >= ver[p]

(* The three answers of get_github_version_info_async.  Any exception,    *)
(* in the request, the JSON or the search for an asset, is "no info".     *)
VersionIsUpToDate(p) == latest <= ver[p]
VersionIsNew(p) == latest > ver[p]

Downloading(v) == {p \in Proc : pc[p] = "downloading" /\ target[p] = v}

(* cleanup_updates: every installer is removed but those whose removal     *)
(* fails, which is ignored; a file open for writing is shared for reading  *)
(* and writing only, so its removal does fail.                             *)
CleanupUpdates ==
    \E kept \in SUBSET Version :
        /\ \A v \in Version : Downloading(v) # {} => v \in kept
        /\ updates' = [v \in Version |-> IF v \in kept THEN updates[v]
                                                       ELSE "none"]

(* One attempt of download_new_version: the answer came and the file is    *)
(* created anew, truncating what was there.                                *)
DownloadOpen(p) ==
    /\ pc[p] = "download"
    /\ updates' = [updates EXCEPT ![target[p]] = "partial"]
    /\ pc' = [pc EXCEPT ![p] = "downloading"]
    /\ UNCHANGED <<file, lock, mem, ver, latest, target, tries>>

(* Mutant: attempts are not limited. *)
MutRetryForever(p) ==
    /\ pc[p] \in {"download", "downloading"}
    /\ tries' = [tries EXCEPT ![p] = @ + 1]
    /\ pc' = [pc EXCEPT ![p] = "download"]
    /\ UNCHANGED <<file, lock, mem, ver, latest, target, updates>>

(* The attempt throws, with or without the file opened, and another one    *)
(* is left.                                                                *)
DownloadRetry(p) ==
    /\ pc[p] \in {"download", "downloading"}
    /\ tries[p] + 1 < MaxDownloadAttempts
    /\ tries' = [tries EXCEPT ![p] = @ + 1]
    /\ pc' = [pc EXCEPT ![p] = "download"]
    /\ UNCHANGED <<file, lock, mem, ver, latest, target, updates>>

(* The last attempt throws (or, on the first one, the directory cannot be  *)
(* created); a partial file stays.  s, next: what the caller does then.    *)
DownloadFail(p, s, next) ==
    /\ pc[p] \in {"download", "downloading"}
    /\ \/ tries[p] + 1 = MaxDownloadAttempts
       \/ pc[p] = "download" /\ tries[p] = 0
    /\ tries' = [tries EXCEPT ![p] = 0]
    /\ mem' = [mem EXCEPT ![p] = s]
    /\ pc' = [pc EXCEPT ![p] = next]
    /\ UNCHANGED <<file, lock, ver, latest, updates>>

(* The stream is closed.  The file is whole unless somebody else is        *)
(* writing it too, who truncated it.                                       *)
DownloadDone(p, s, next) ==
    /\ pc[p] = "downloading"
    /\ updates' = [updates EXCEPT ![target[p]] =
                      IF Downloading(target[p]) = {p} THEN "whole" ELSE @]
    /\ tries' = [tries EXCEPT ![p] = 0]
    /\ mem' = [mem EXCEPT ![p] = s]
    /\ pc' = [pc EXCEPT ![p] = next]
    /\ UNCHANGED <<file, lock, ver, latest>>
============================================================================
