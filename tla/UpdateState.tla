---------------------------- MODULE UpdateState ----------------------------
(***************************************************************************)
(* UpdateState.json, the one file through which the runner's threads, the *)
(* updater's two stages and the Settings window tell each other how far    *)
(* an update got (common/updating/updateState.{h,cpp}).                    *)
(*                                                                         *)
(* Every access is made under the named mutex                              *)
(* PowerToysRunnerUpdateStateMutex.  The file is rewritten in place (an    *)
(* ofstream truncates it, then the JSON text is written), so a write is    *)
(* two steps here: the first leaves text that does not parse, the second   *)
(* leaves the new contents.  A process that dies between them leaves the   *)
(* file torn and the mutex abandoned (or gone, if nobody else has a handle *)
(* to it): either way the next acquirer gets one, and is told nothing.     *)
(*                                                                         *)
(* The contents are stamped with the version of the program that wrote     *)
(* them.  A version stands for its installer's file name and its release   *)
(* page too: both are unique to it.                                        *)
(***************************************************************************)
EXTENDS Integers

CONSTANTS
    Proc,         \* everything that reads or stores the file
    NoProc,       \* not a process: the mutex is free
    Abandoned,    \* not a process: its last holder died with it
    MaxVersion    \* releases are numbered 1 .. MaxVersion

ASSUME MaxVersionAssumption == MaxVersion \in Nat \ {0}
ASSUME NoProcAssumption == NoProc \notin Proc /\ Abandoned \notin Proc \cup {NoProc}

VARIABLES
    file,    \* [text, stamp, data]: whether there is a text, and one that parses
    lock,    \* the holder of the named mutex, or why it has none
    pc,      \* what each process does next
    mem,     \* each process's local variable "state"
    ver      \* the version of the program each process runs

Version == 1 .. MaxVersion
NoVersion == 0

Status == {"upToDate", "errorDownloading", "readyToDownload",
           "readyToInstall", "networkError"}

(* struct UpdateState; dated: githubUpdateLastCheckedDate has a value. *)
UpdateRecord == [state : Status,
                 releasePageUrl : Version \cup {NoVersion},
                 dated : BOOLEAN,
                 downloadedInstallerFilename : Version \cup {NoVersion}]

(* UpdateState{}: every field default-initialized. *)
DefaultState == [state |-> "upToDate", releasePageUrl |-> NoVersion,
                 dated |-> FALSE, downloadedInstallerFilename |-> NoVersion]

FileContents == [text : {"none", "torn", "whole"}, stamp : Version, data : UpdateRecord]

(* from_file returns nullopt, of no file and of one that is truncated, be  *)
(* it empty or removed to be written anew.                                 *)
NoFile == [text |-> "none", stamp |-> 1, data |-> DefaultState]
Torn == [text |-> "torn", stamp |-> 1, data |-> DefaultState]
Parses == file.text = "whole"

(* What is left of a state once it is serialized by version v. *)
Serialize(v, s) == [text |-> "whole", stamp |-> v, data |-> s]

(* Mutant: the stamp is not compared. *)
MutNeverOld(v) == FALSE

(* The file has contents, but another version of the program wrote them. *)
IsOldFileVersion(v) == file.stamp # v

---------------------------------------------------------------------------
(* UpdateState::read when the file is good: one step under the mutex.  A   *)
(* thread that ends with it ("off") keeps nothing of what it read.         *)
ReadFile(p, next) ==
    /\ pc[p] = "read"
    /\ lock \notin Proc
    /\ Parses
    /\ ~IsOldFileVersion(ver[p])
    /\ mem' = [mem EXCEPT ![p] = IF next = "off" THEN DefaultState ELSE file.data]
    /\ pc' = [pc EXCEPT ![p] = next]
    /\ UNCHANGED <<file, lock, ver>>

(* Mutant: a file that does not parse is replaced without the mutex. *)
MutResetUnlocked(p) ==
    /\ pc[p] = "read"
    /\ ~Parses \/ IsOldFileVersion(ver[p])
    /\ lock' = p
    /\ file' = Torn
    /\ pc' = [pc EXCEPT ![p] = "resetting"]
    /\ UNCHANGED <<mem, ver>>

(* UpdateState::read when it is not: the file is removed and a default one *)
(* is being written, the mutex still held.                                 *)
ReadBadFile(p) ==
    /\ pc[p] = "read"
    /\ lock \notin Proc
    /\ ~Parses \/ IsOldFileVersion(ver[p])
    /\ lock' = p
    /\ file' = Torn
    /\ pc' = [pc EXCEPT ![p] = "resetting"]
    /\ UNCHANGED <<mem, ver>>

(* ... and the default file is written, returned, and the mutex released. *)
ResetFile(p, next) ==
    /\ pc[p] = "resetting"
    /\ file' = Serialize(ver[p], DefaultState)
    /\ mem' = [mem EXCEPT ![p] = DefaultState]
    /\ lock' = NoProc
    /\ pc' = [pc EXCEPT ![p] = next]
    /\ UNCHANGED ver

(* Mutant: the file is rewritten without waiting for the mutex. *)
MutStoreUnlocked(p) ==
    /\ pc[p] = "store"
    /\ lock' = p
    /\ file' = Torn
    /\ pc' = [pc EXCEPT ![p] = "storing"]
    /\ UNCHANGED <<mem, ver>>

(* UpdateState::store.  Every modifier in the program assigns the whole    *)
(* state, so what the file held when the mutex was acquired is loaded and  *)
(* dropped: mem[p] is what the modifier assigns.                           *)
StoreBegin(p) ==
    /\ pc[p] = "store"
    /\ lock \notin Proc
    /\ lock' = p
    /\ file' = Torn
    /\ pc' = [pc EXCEPT ![p] = "storing"]
    /\ UNCHANGED <<mem, ver>>

StoreEnd(p, next) ==
    /\ pc[p] = "storing"
    /\ file' = Serialize(ver[p], mem[p])
    /\ lock' = NoProc
    /\ mem' = [mem EXCEPT ![p] = DefaultState]
    /\ pc' = [pc EXCEPT ![p] = next]
    /\ UNCHANGED ver

(* The processes in D die: a mutex one of them holds is abandoned. *)
Die(D) ==
    /\ lock' = IF lock \in D THEN Abandoned ELSE lock
    /\ pc' = [p \in Proc |-> IF p \in D THEN "off" ELSE pc[p]]
    /\ mem' = [p \in Proc |-> IF p \in D THEN DefaultState ELSE mem[p]]
    /\ UNCHANGED file
============================================================================
