--------------------------- MODULE SettingsWindow ---------------------------
(***************************************************************************)
(* How the runner starts the Settings process and talks to it              *)
(* (runner/settings_window.cpp).  Every launch is a detached thread in     *)
(* run_settings_window, which lives as long as the process it has started. *)
(* open_settings_window is called on the main thread and on the tray       *)
(* icon's click threads; what Settings sends is posted to the main thread. *)
(*                                                                         *)
(* A launch, its process and its TwoWayPipeMessageIPC share a name, so     *)
(* that a process id and a pointer to an ipc are launches.  The ipc is     *)
(* TwoWayPipe's, whose end() waits for the callback and may then, as shown  *)
(* there, wait for the pipe's server thread for ever.                      *)
(***************************************************************************)
EXTENDS Naturals, Sequences

CONSTANTS
    Launch,     \* threads in run_settings_window; bounds how many there are at a time
    Main,       \* the main thread
    Clicker,    \* the tray icon's click threads
    None,       \* NULL, and no process
    Setting     \* what the general settings may be

ASSUME ThreadsAssumption ==
    /\ Main \notin Launch \cup Clicker
    /\ Launch \cap Clicker = {}
    /\ None \notin Launch \cup Clicker \cup {Main} \cup Setting
    /\ Launch \cap Setting = {}

Opener == Clicker \cup {Main}

(* Messages for the tray icon's window: what Settings sends (general       *)
(* settings; something that is only answered; killrunner), a request to    *)
(* open the Settings window, the first run's window, clicks and Exit.      *)
FromSettings == Setting \cup {"refresh", "killrunner"}
Message == FromSettings \cup {"menu", "oobe", "up", "dblclk", "exit"}

VARIABLES
    runner,                 \* "up", "down" or "crashed"
    queue,                  \* the main thread's messages
    g_isLaunchInProgress,
    g_settings_process_id,
    current_settings_ipc,
    ipc_mutex,              \* the thread that holds it
    at,                     \* opener -> where it is
    pc,                     \* launch -> where its thread is in run_settings_window
    save_settings,          \* launch -> what it has read
    process,                \* launch -> its Settings process
    ipc,                    \* the launches whose object exists
    in_callback,            \* launch -> is its input queue's thread in the callback?
    general, file           \* general settings, in the runner and on disk

sharedVars == <<g_isLaunchInProgress, g_settings_process_id, current_settings_ipc, ipc_mutex>>
launchVars == <<pc, save_settings>>
objectVars == <<process, ipc, in_callback>>
settingVars == <<general, file>>

LaunchPc == {"off", "begin", "read", "save", "create", "publish", "pid", "wait",
             "exit", "end", "hung", "null", "clear"}
OpenPc == {"pid", "test", "send", "flag", "spawn"}

SettingsInit ==
    /\ runner = "up"
    /\ g_isLaunchInProgress = FALSE
    /\ g_settings_process_id = None
    /\ current_settings_ipc = None
    /\ ipc_mutex = None
    /\ at = [o \in Opener |-> "idle"]
    /\ pc = [l \in Launch |-> "off"]
    /\ process = [l \in Launch |-> "none"]
    /\ ipc = {}
    /\ in_callback = [l \in Launch |-> FALSE]
    /\ general \in Setting /\ file = general
    /\ save_settings = [l \in Launch |-> general]

Goto(o, step) == at' = [at EXCEPT ![o] = step]
LaunchGoto(l, step) == pc' = [pc EXCEPT ![l] = step]

(* A thread that is over, nothing of which is left, can stand for another. *)
Free(l) == pc[l] = "off" /\ process[l] # "running" /\ l \notin ipc

(* std::thread(run_settings_window).detach(); when there are as many       *)
(* launches as the instance allows, nothing happens.                       *)
SpawnLaunch ==
    IF \E l \in Launch : Free(l)
    THEN \E l \in Launch :
            /\ Free(l)
            /\ pc' = [pc EXCEPT ![l] = "begin"]
            /\ process' = [process EXCEPT ![l] = "none"]
    ELSE UNCHANGED <<pc, process>>

---------------------------------------------------------------------------
(* open_settings_window *)

OpenAsksForProcess(o) ==
    /\ at[o] = "pid"
    /\ Goto(o, IF g_settings_process_id # None THEN "test" ELSE "flag")
    /\ UNCHANGED <<runner, queue, sharedVars, launchVars, objectVars, settingVars>>

OpenTestsIpc(o) ==
    /\ at[o] = "test"
    /\ Goto(o, IF current_settings_ipc # None THEN "send" ELSE "idle")
    /\ UNCHANGED <<runner, queue, sharedVars, launchVars, objectVars, settingVars>>

(* The pointer is read again and used without the mutex: send() on NULL or  *)
(* on an object that is being or has been deleted may end the runner.       *)
OpenSends(o) ==
    /\ at[o] = "send"
    /\ \/ UNCHANGED runner
       \/ /\ current_settings_ipc \notin ipc
          /\ runner' = "crashed"
    /\ Goto(o, "idle")
    /\ UNCHANGED <<queue, sharedVars, launchVars, objectVars, settingVars>>

OpenAsksForLaunch(o) ==
    /\ at[o] = "flag"
    /\ Goto(o, IF g_isLaunchInProgress THEN "idle" ELSE "spawn")
    /\ UNCHANGED <<runner, queue, sharedVars, launchVars, objectVars, settingVars>>

OpenSpawns(o) ==
    /\ at[o] = "spawn"
    /\ SpawnLaunch
    /\ Goto(o, "idle")
    /\ UNCHANGED <<runner, queue, sharedVars, save_settings, ipc, in_callback, settingVars>>

Open(o) ==
    \/ OpenAsksForProcess(o) \/ OpenTestsIpc(o) \/ OpenSends(o)
    \/ OpenAsksForLaunch(o) \/ OpenSpawns(o)

---------------------------------------------------------------------------
(* run_settings_window *)

LaunchBegins(l) ==
    /\ pc[l] = "begin"
    /\ g_isLaunchInProgress' = TRUE
    /\ LaunchGoto(l, "read")
    /\ UNCHANGED <<runner, queue, g_settings_process_id, current_settings_ipc, ipc_mutex,
                   at, save_settings, objectVars, settingVars>>

ReadSettings(l) ==
    /\ pc[l] = "read"
    /\ save_settings' = [save_settings EXCEPT ![l] = general]
    /\ LaunchGoto(l, "save")
    /\ UNCHANGED <<runner, queue, sharedVars, at, objectVars, settingVars>>

(* Mutant of SaveSettings: what is saved is an empty object.                *)
MutSaveNothing(l) ==
    /\ pc[l] = "save"
    /\ file' = None
    /\ LaunchGoto(l, "create")
    /\ UNCHANGED <<runner, queue, sharedVars, at, save_settings, objectVars, general>>

SaveSettings(l) ==
    /\ pc[l] = "save"
    /\ file' = save_settings[l]
    /\ LaunchGoto(l, "create")
    /\ UNCHANGED <<runner, queue, sharedVars, at, save_settings, objectVars, general>>

(* A launch that fails leaves the flag set.                                *)
CreateProcessFails(l) ==
    /\ pc[l] = "create"
    /\ LaunchGoto(l, "exit")
    /\ process' = [process EXCEPT ![l] = "failed"]
    /\ UNCHANGED <<runner, queue, sharedVars, at, save_settings, ipc, in_callback, settingVars>>

(* OpenProcessToken, which follows, may fail: the process is then left     *)
(* without an ipc.                                                         *)
CreateSettingsProcess(l) ==
    /\ pc[l] = "create"
    /\ process' = [process EXCEPT ![l] = "running"]
    /\ g_isLaunchInProgress' = FALSE
    /\ \E step \in {"publish", "exit"} : LaunchGoto(l, step)
    /\ UNCHANGED <<runner, queue, g_settings_process_id, current_settings_ipc, ipc_mutex,
                   at, save_settings, ipc, in_callback, settingVars>>

(* new and start(), under the mutex; whatever was there is forgotten.      *)
PublishIpc(l) ==
    /\ pc[l] = "publish"
    /\ ipc_mutex = None
    /\ current_settings_ipc' = l
    /\ ipc' = ipc \cup {l}
    /\ LaunchGoto(l, "pid")
    /\ UNCHANGED <<runner, queue, g_isLaunchInProgress, g_settings_process_id, ipc_mutex,
                   at, save_settings, process, in_callback, settingVars>>

RecordProcess(l) ==
    /\ pc[l] = "pid"
    /\ g_settings_process_id' = l
    /\ LaunchGoto(l, "wait")
    /\ UNCHANGED <<runner, queue, g_isLaunchInProgress, current_settings_ipc, ipc_mutex,
                   at, save_settings, objectVars, settingVars>>

ProcessHasExited(l) ==
    /\ pc[l] = "wait"
    /\ process[l] = "none"
    /\ LaunchGoto(l, "exit")
    /\ UNCHANGED <<runner, queue, sharedVars, at, save_settings, objectVars, settingVars>>

(* Mutant of ExitLocks: the ipc is ended without the mutex.                *)
MutExitUnlocked(l) ==
    /\ pc[l] = "exit"
    /\ LaunchGoto(l, IF current_settings_ipc = None THEN "clear" ELSE "end")
    /\ UNCHANGED <<runner, queue, sharedVars, at, save_settings, objectVars, settingVars>>

(* LExit: the ipc that is current, whichever launch's it is, is ended and  *)
(* deleted under the mutex.                                                *)
ExitLocks(l) ==
    /\ pc[l] = "exit"
    /\ ipc_mutex = None
    /\ IF current_settings_ipc = None
       THEN LaunchGoto(l, "clear") /\ UNCHANGED ipc_mutex
       ELSE LaunchGoto(l, "end") /\ ipc_mutex' = l
    /\ UNCHANGED <<runner, queue, g_isLaunchInProgress, g_settings_process_id,
                   current_settings_ipc, at, save_settings, objectVars, settingVars>>

(* end() joins the input queue's thread, which may be in the callback.     *)
ExitEndsIpc(l) ==
    /\ pc[l] = "end"
    /\ ~in_callback[current_settings_ipc]
    /\ ipc' = ipc \ {current_settings_ipc}
    /\ LaunchGoto(l, "null")
    /\ UNCHANGED <<runner, queue, sharedVars, at, save_settings, process, in_callback, settingVars>>

(* The pipe's server thread, which it joins last, waits for a client that  *)
(* never comes (EndReturns of TwoWayPipe): the mutex stays held.           *)
ExitHangs(l) ==
    /\ pc[l] = "end"
    /\ ~in_callback[current_settings_ipc]
    /\ LaunchGoto(l, "hung")
    /\ UNCHANGED <<runner, queue, sharedVars, at, save_settings, objectVars, settingVars>>

ExitUnlocks(l) ==
    /\ pc[l] = "null"
    /\ current_settings_ipc' = None
    /\ ipc_mutex' = None
    /\ LaunchGoto(l, "clear")
    /\ UNCHANGED <<runner, queue, g_isLaunchInProgress, g_settings_process_id,
                   at, save_settings, objectVars, settingVars>>

(* Mutant of LaunchEnds: the process id stays.                              *)
MutKeepsProcessId(l) ==
    /\ pc[l] = "clear"
    /\ LaunchGoto(l, "off")
    /\ UNCHANGED <<runner, queue, sharedVars, at, save_settings, objectVars, settingVars>>

LaunchEnds(l) ==
    /\ pc[l] = "clear"
    /\ g_settings_process_id' = None
    /\ LaunchGoto(l, "off")
    /\ UNCHANGED <<runner, queue, g_isLaunchInProgress, current_settings_ipc, ipc_mutex,
                   at, save_settings, objectVars, settingVars>>

RunSettingsWindow(l) ==
    \/ LaunchBegins(l) \/ ReadSettings(l) \/ SaveSettings(l)
    \/ CreateProcessFails(l) \/ CreateSettingsProcess(l)
    \/ PublishIpc(l) \/ RecordProcess(l) \/ ProcessHasExited(l)
    \/ ExitLocks(l) \/ ExitEndsIpc(l) \/ ExitHangs(l) \/ ExitUnlocks(l) \/ LaunchEnds(l)

---------------------------------------------------------------------------
(* The Settings process sends, and exits when the user closes it.  The     *)
(* ipc's callback, receive_json_send_to_main_thread, posts a copy and      *)
(* returns.  (What may become of a message on its way is TwoWayPipe's.)    *)

(* Its callback's thread is over, though its end() has not returned. *)
Silenced(l) == l = current_settings_ipc /\ \E k \in Launch : pc[k] = "hung"

SettingsSends(l) ==
    /\ process[l] = "running" /\ l \in ipc /\ ~in_callback[l] /\ ~Silenced(l)
    /\ \E m \in FromSettings : queue' = Append(queue, m)
    /\ in_callback' = [in_callback EXCEPT ![l] = TRUE]
    /\ UNCHANGED <<runner, sharedVars, at, launchVars, process, ipc, settingVars>>

(* Mutant of CallbackReturns: the message is sent, not posted, so that the  *)
(* callback waits until the main thread has handled it.                     *)
MutCallbackWaits(l) ==
    /\ in_callback[l] /\ queue = <<>> /\ at[Main] = "idle"
    /\ in_callback' = [in_callback EXCEPT ![l] = FALSE]
    /\ UNCHANGED <<runner, queue, sharedVars, at, launchVars, process, ipc, settingVars>>

CallbackReturns(l) ==
    /\ in_callback[l]
    /\ in_callback' = [in_callback EXCEPT ![l] = FALSE]
    /\ UNCHANGED <<runner, queue, sharedVars, at, launchVars, process, ipc, settingVars>>

SettingsExits(l) ==
    /\ process[l] = "running"
    /\ process' = [process EXCEPT ![l] = "none"]
    /\ UNCHANGED <<runner, queue, sharedVars, at, launchVars, ipc, in_callback, settingVars>>

---------------------------------------------------------------------------
(* dispatch_received_json, on the main thread: the settings are applied    *)
(* and saved, then the answer is sent under the mutex.                     *)

DispatchSaves ==
    /\ at[Main] = "apply"
    /\ file' = general
    /\ Goto(Main, "lock")
    /\ UNCHANGED <<runner, queue, sharedVars, launchVars, objectVars, general>>

DispatchLocks ==
    /\ at[Main] = "lock"
    /\ ipc_mutex = None
    /\ ipc_mutex' = Main
    /\ Goto(Main, "answer")
    /\ UNCHANGED <<runner, queue, g_isLaunchInProgress, g_settings_process_id,
                   current_settings_ipc, launchVars, objectVars, settingVars>>

(* Mutant of DispatchAnswers: the mutex is not released.                    *)
MutAnswerKeepsMutex ==
    /\ at[Main] = "answer"
    /\ Goto(Main, "idle")
    /\ UNCHANGED <<runner, queue, sharedVars, launchVars, objectVars, settingVars>>

(* Whether there is an ipc to answer to is asked under the mutex.          *)
DispatchAnswers ==
    /\ at[Main] = "answer"
    /\ ipc_mutex' = None
    /\ Goto(Main, "idle")
    /\ UNCHANGED <<runner, queue, g_isLaunchInProgress, g_settings_process_id,
                   current_settings_ipc, launchVars, objectVars, settingVars>>

DispatchReceivedJson == DispatchSaves \/ DispatchLocks \/ DispatchAnswers

(* The main thread takes a message that Settings has sent; killrunner is   *)
(* TrayIcon's.                                                             *)
DispatchMessage(m) ==
    \/ /\ m \in Setting
       /\ general' = m
       /\ Goto(Main, "apply")
    \/ /\ m = "refresh"
       /\ Goto(Main, "lock")
       /\ UNCHANGED general

(* close_settings_window terminates the process it knows the id of.        *)
CloseSettingsWindow ==
    process' = [l \in Launch |-> IF l = g_settings_process_id /\ process[l] = "running"
                                 THEN "none" ELSE process[l]]
=============================================================================
