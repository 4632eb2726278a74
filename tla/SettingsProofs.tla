--------------------------- MODULE SettingsProofs ---------------------------
(***************************************************************************)
(* What holds of the Settings window and the tray icon for any number of   *)
(* launches, click threads, messages and settings.                         *)
(***************************************************************************)
EXTENDS TrayIcon, TLAPS

(* A launch that is ending the ipc holds the mutex, and so does the main   *)
(* thread while it answers.                                                *)
HoldersHoldMutex ==
    /\ at[Main] = "answer" => ipc_mutex = Main
    /\ \A l \in Launch : pc[l] \in {"end", "hung", "null"} => ipc_mutex = l

(* Nobody holds the mutex and has forgotten it.                            *)
MutexIsHeld ==
    ipc_mutex # None =>
        \/ at[Main] = "answer"
        \/ \E l \in Launch : pc[l] \in {"end", "hung", "null"}

(* The ipc that is current exists, but for the moment between delete and   *)
(* the assignment of NULL.                                                 *)
CurrentIpcExists ==
    current_settings_ipc # None =>
        \/ current_settings_ipc \in ipc
        \/ \E l \in Launch : pc[l] = "null"

(* The ipc and the process id that are recorded are those of a launch that *)
(* will still clear them.                                                  *)
RecordedAreLaunched ==
    \A l \in Launch :
        /\ current_settings_ipc = l => pc[l] \in {"pid", "wait", "exit", "end", "hung", "null"}
        /\ g_settings_process_id = l => pc[l] \in {"wait", "exit", "end", "hung", "null", "clear"}

(* The flag is set by a launch that will clear it, or has failed to.       *)
FlagHasCause ==
    g_isLaunchInProgress =>
        \E l \in Launch : pc[l] \in {"begin", "read", "save", "create"} \/ process[l] = "failed"

(* The timer's flag is set while a click's thread sleeps.                  *)
TimerHasThread == double_click_timer_running => \E c \in Clicker : at[c] = "sleep"

IInv ==
    /\ TypeOK
    /\ HoldersHoldMutex /\ MutexIsHeld /\ CurrentIpcExists
    /\ RecordedAreLaunched /\ FlagHasCause /\ TimerHasThread
---------------------------------------------------------------------------
(* Types *)

LEMMA Threads == Main \in Opener /\ Clicker \subseteq Opener
  BY DEF Opener

(* A thread that is spawned changes nothing but where a launch is and that *)
(* it has no process yet.                                                  *)
LEMMA SpawnTyping ==
    ASSUME TypeOK, SpawnLaunch
    PROVE  /\ pc' \in [Launch -> LaunchPc]
           /\ process' \in [Launch -> {"none", "running", "failed"}]
  BY DEF SpawnLaunch, TypeOK, LaunchPc

LEMMA OpenTyping ==
    ASSUME TypeOK, NEW o \in Opener, Open(o), UNCHANGED trayVars
    PROVE  TypeOK'
<1>1. CASE OpenAsksForProcess(o) \/ OpenTestsIpc(o) \/ OpenAsksForLaunch(o)
  BY <1>1 DEF OpenAsksForProcess, OpenTestsIpc, OpenAsksForLaunch, Goto, TypeOK, OpenPc,
              sharedVars, launchVars, objectVars, settingVars, trayVars
<1>2. CASE OpenSends(o)
  BY <1>2 DEF OpenSends, Goto, TypeOK, sharedVars, launchVars, objectVars, settingVars, trayVars
<1>3. CASE OpenSpawns(o)
  BY <1>3, SpawnTyping DEF OpenSpawns, Goto, TypeOK, sharedVars, settingVars, trayVars
<1> QED
  BY <1>1, <1>2, <1>3 DEF Open

LEMMA LaunchTyping ==
    ASSUME TypeOK, NEW l \in Launch, RunSettingsWindow(l), UNCHANGED trayVars
    PROVE  TypeOK'
<1> USE DEF LaunchGoto, TypeOK, LaunchPc, sharedVars, launchVars, objectVars, settingVars,
            trayVars
<1>1. CASE LaunchBegins(l)
  BY <1>1 DEF LaunchBegins
<1>2. CASE ReadSettings(l)
  BY <1>2 DEF ReadSettings
<1>3. CASE SaveSettings(l)
  BY <1>3 DEF SaveSettings
<1>4. CASE CreateProcessFails(l) \/ CreateSettingsProcess(l)
  BY <1>4 DEF CreateProcessFails, CreateSettingsProcess
<1>5. CASE PublishIpc(l) \/ RecordProcess(l) \/ ProcessHasExited(l)
  BY <1>5 DEF PublishIpc, RecordProcess, ProcessHasExited
<1>6. CASE ExitLocks(l)
  BY <1>6 DEF ExitLocks
<1>7. CASE ExitEndsIpc(l) \/ ExitHangs(l) \/ ExitUnlocks(l) \/ LaunchEnds(l)
  BY <1>7 DEF ExitEndsIpc, ExitHangs, ExitUnlocks, LaunchEnds
<1> QED
  BY <1>1, <1>2, <1>3, <1>4, <1>5, <1>6, <1>7 DEF RunSettingsWindow

LEMMA DispatchTyping ==
    ASSUME TypeOK, DispatchReceivedJson, UNCHANGED trayVars
    PROVE  TypeOK'
  BY Threads DEF DispatchReceivedJson, DispatchSaves, DispatchLocks, DispatchAnswers, Goto,
                 TypeOK, sharedVars, launchVars, objectVars, settingVars, trayVars

LEMMA WindowProcTyping ==
    ASSUME TypeOK, WindowProc
    PROVE  TypeOK'
<1> USE Threads DEF Goto, TypeOK, sharedVars, launchVars, objectVars, settingVars, trayVars
<1>1. ASSUME NEW m, Take(m) PROVE queue' \in Seq(Message)
  BY <1>1 DEF Take
<1>2. CASE IconClicked
  <2>1. at' \in [Opener -> {"idle", "sleep", "elapsed", "apply", "lock", "answer"} \cup OpenPc]
    BY <1>2 DEF IconClicked
  <2> QED
    BY <1>1, <1>2, <2>1 DEF IconClicked
<1>3. CASE IconDoubleClicked \/ SettingsCommand
  BY <1>1, <1>3 DEF IconDoubleClicked, SettingsCommand, OpenPc
<1>4. CASE OpenOobeWindow
  BY <1>1, <1>4, SpawnTyping DEF OpenOobeWindow
<1>5. CASE RunOnMainThread
  <2>1. PICK m \in FromSettings : Take(m) /\ DispatchMessage(m)
    BY <1>5 DEF RunOnMainThread
  <2>2. general' \in Setting
    BY <2>1 DEF DispatchMessage
  <2>3. at' \in [Opener -> {"idle", "sleep", "elapsed", "apply", "lock", "answer"} \cup OpenPc]
    BY <2>1 DEF DispatchMessage
  <2> QED
    BY <1>1, <1>5, <2>1, <2>2, <2>3 DEF RunOnMainThread
<1>6. CASE WindowDestroyed
  <2>1. process' \in [Launch -> {"none", "running", "failed"}]
    BY <1>6 DEF WindowDestroyed, CloseSettingsWindow
  <2> QED
    BY <1>6, <2>1 DEF WindowDestroyed
<1> QED
  BY <1>2, <1>3, <1>4, <1>5, <1>6 DEF WindowProc

LEMMA ClickerTyping ==
    ASSUME TypeOK, NEW c \in Clicker, TimerElapses(c) \/ TimerOpens(c)
    PROVE  TypeOK'
  BY Threads DEF TimerElapses, TimerOpens, Goto, TypeOK, OpenPc, sharedVars, launchVars,
                 objectVars, settingVars, trayVars

LEMMA SettingsTyping ==
    ASSUME TypeOK, NEW l \in Launch,
           SettingsSends(l) \/ SettingsExits(l) \/ CallbackReturns(l), UNCHANGED trayVars
    PROVE  TypeOK'
<1> USE DEF TypeOK, sharedVars, launchVars, objectVars, settingVars, trayVars
<1>1. CASE SettingsSends(l)
  <2>1. queue' \in Seq(Message)
    BY <1>1 DEF SettingsSends, Message
  <2> QED
    BY <1>1, <2>1 DEF SettingsSends
<1>2. CASE SettingsExits(l)
  BY <1>2 DEF SettingsExits
<1>3. CASE CallbackReturns(l)
  BY <1>3 DEF CallbackReturns
<1> QED
  BY <1>1, <1>2, <1>3

LEMMA InputTyping == ASSUME TypeOK, Input PROVE TypeOK'
  BY SMTT(30) DEF Input, Post, Message, TypeOK, sharedVars, launchVars, objectVars, settingVars, trayVars

LEMMA InitTyped == ASSUME Init PROVE TypeOK
<1>1. "menu" \in Message /\ "oobe" \in Message
  BY DEF Message
<1>2. <<>> \in Seq(Message) /\ <<"menu">> \in Seq(Message) /\ <<"oobe">> \in Seq(Message)
  BY <1>1
<1>3. <<"menu", "oobe">> \in Seq(Message)
  BY <1>1
<1>4. queue \in Seq(Message)
  BY <1>2, <1>3 DEF Init
<1> QED
  BY <1>4 DEF Init, SettingsInit, TypeOK, LaunchPc, OpenPc

LEMMA NextTyped == ASSUME TypeOK, [Next]_vars PROVE TypeOK'
<1>1. CASE MainStep
  BY <1>1, Threads, WindowProcTyping, OpenTyping, DispatchTyping DEF MainStep
<1>2. ASSUME NEW c \in Clicker, ClickerStep(c) PROVE TypeOK'
  BY <1>2, Threads, ClickerTyping, OpenTyping DEF ClickerStep
<1>3. ASSUME NEW l \in Launch, LaunchStep(l) PROVE TypeOK'
  BY <1>3, LaunchTyping DEF LaunchStep
<1>4. ASSUME NEW l \in Launch, CallbackStep(l) \/ SettingsStep(l) PROVE TypeOK'
  BY <1>4, SettingsTyping DEF CallbackStep, SettingsStep
<1>5. CASE UserStep
  BY <1>5, InputTyping DEF UserStep
<1>6. CASE UNCHANGED vars
  BY <1>6 DEF vars, TypeOK, sharedVars, launchVars, objectVars, settingVars, trayVars
<1> QED
  BY <1>1, <1>2, <1>3, <1>4, <1>5, <1>6 DEF Next

(* Every variable has a value of its type.                                 *)
THEOREM SettingsTyped == Spec => []TypeOK
<1>1. Init => TypeOK
  BY InitTyped
<1>2. TypeOK /\ [Next]_vars => TypeOK'
  BY NextTyped
<1> QED
  BY <1>1, <1>2, PTL DEF Spec

---------------------------------------------------------------------------
(* The inductive invariant *)

Inv ==
    /\ HoldersHoldMutex /\ MutexIsHeld /\ CurrentIpcExists
    /\ RecordedAreLaunched /\ FlagHasCause /\ TimerHasThread

LEMMA InvIs == IInv <=> TypeOK /\ Inv
  BY DEF IInv, Inv

LEMMA NoneIsNoThread == /\ None # Main /\ None \notin Launch /\ Main \notin Launch
                        /\ Main \notin Clicker
  BY ThreadsAssumption

LEMMA InitInv == ASSUME Init PROVE Inv
  BY Threads, NoneIsNoThread
     DEF Init, SettingsInit, Inv, HoldersHoldMutex, MutexIsHeld, CurrentIpcExists,
         RecordedAreLaunched, FlagHasCause, TimerHasThread

(* A spawned launch was off: it is none that holds the mutex or has        *)
(* recorded anything.                                                      *)
LEMMA SpawnInv ==
    ASSUME TypeOK, Inv, SpawnLaunch, UNCHANGED <<sharedVars, ipc>>
    PROVE  /\ CurrentIpcExists' /\ RecordedAreLaunched' /\ FlagHasCause'
           /\ \A l \in Launch : pc'[l] \in {"end", "hung", "null"} <=> pc[l] \in {"end", "hung", "null"}
<1>1. CASE UNCHANGED <<pc, process>>
  BY <1>1 DEF Inv, CurrentIpcExists, RecordedAreLaunched, FlagHasCause, sharedVars
<1>2. CASE ~UNCHANGED <<pc, process>>
  <2>1. PICK k \in Launch :
            /\ pc[k] = "off"
            /\ pc' = [pc EXCEPT ![k] = "begin"]
            /\ process' = [process EXCEPT ![k] = "none"]
    BY <1>2 DEF SpawnLaunch, Free
  <2>2. /\ pc'[k] = "begin"
        /\ \A l \in Launch \ {k} : pc'[l] = pc[l] /\ process'[l] = process[l]
    BY <2>1 DEF TypeOK
  <2>3. CurrentIpcExists'
    BY <2>1, <2>2 DEF Inv, CurrentIpcExists, sharedVars
  <2>4. RecordedAreLaunched'
    BY <2>1, <2>2 DEF Inv, RecordedAreLaunched, sharedVars
  <2>5. FlagHasCause'
    BY <2>1, <2>2 DEF Inv, FlagHasCause, sharedVars
  <2> QED
    BY <2>1, <2>2, <2>3, <2>4, <2>5
<1> QED
  BY <1>1, <1>2

LEMMA OpenInv ==
    ASSUME TypeOK, Inv, NEW o \in Opener, Open(o), UNCHANGED trayVars
    PROVE  Inv'
<1>1. PICK step : at' = [at EXCEPT ![o] = step] /\ step \notin {"answer", "sleep"}
  BY DEF Open, OpenAsksForProcess, OpenTestsIpc, OpenSends, OpenAsksForLaunch, OpenSpawns, Goto
<1>2. at[o] \notin {"answer", "sleep"}
  BY DEF Open, OpenAsksForProcess, OpenTestsIpc, OpenSends, OpenAsksForLaunch, OpenSpawns
<1>3. at'[Main] = "answer" <=> at[Main] = "answer"
  BY <1>1, <1>2, Threads DEF TypeOK
<1>4. TimerHasThread'
  BY <1>1, <1>2, Threads DEF Inv, TimerHasThread, TypeOK, trayVars
<1>5. CASE OpenSpawns(o)
  <2>1. UNCHANGED <<sharedVars, ipc>> /\ SpawnLaunch
    BY <1>5 DEF OpenSpawns
  <2>2. HoldersHoldMutex' /\ MutexIsHeld'
    BY <1>3, <2>1, SpawnInv DEF Inv, HoldersHoldMutex, MutexIsHeld, sharedVars
  <2> QED
    BY <1>4, <2>1, <2>2, SpawnInv DEF Inv
<1>6. CASE ~OpenSpawns(o)
  <2>1. UNCHANGED <<sharedVars, launchVars, objectVars>>
    BY <1>6 DEF Open, OpenAsksForProcess, OpenTestsIpc, OpenSends, OpenAsksForLaunch
  <2>2. HoldersHoldMutex' /\ MutexIsHeld'
    BY <1>3, <2>1 DEF Inv, HoldersHoldMutex, MutexIsHeld, sharedVars, launchVars
  <2>3. CurrentIpcExists' /\ RecordedAreLaunched' /\ FlagHasCause'
    BY <2>1 DEF Inv, CurrentIpcExists, RecordedAreLaunched, FlagHasCause, sharedVars, launchVars,
                objectVars
  <2> QED
    BY <1>4, <2>2, <2>3 DEF Inv
<1> QED
  BY <1>5, <1>6

LEMMA LaunchInv ==
    ASSUME TypeOK, Inv, NEW l \in Launch, RunSettingsWindow(l), UNCHANGED trayVars
    PROVE  Inv'
<1> USE NoneIsNoThread DEF LaunchGoto, TypeOK, LaunchPc, sharedVars, launchVars, objectVars,
                           settingVars, trayVars
<1>0. UNCHANGED <<at, trayVars>>
  BY DEF RunSettingsWindow, LaunchBegins, ReadSettings, SaveSettings, CreateProcessFails,
         CreateSettingsProcess, PublishIpc, RecordProcess, ProcessHasExited, ExitLocks,
         ExitEndsIpc, ExitHangs, ExitUnlocks, LaunchEnds
<1>1. TimerHasThread'
  BY <1>0 DEF Inv, TimerHasThread
<1>2. CASE LaunchBegins(l) \/ ReadSettings(l) \/ SaveSettings(l)
  <2>1. PICK step \in {"read", "save", "create"} : pc' = [pc EXCEPT ![l] = step]
    BY <1>2 DEF LaunchBegins, ReadSettings, SaveSettings
  <2>2. pc[l] \in {"begin", "read", "save"}
    BY <1>2 DEF LaunchBegins, ReadSettings, SaveSettings
  <2>3. UNCHANGED <<g_settings_process_id, current_settings_ipc, ipc_mutex, ipc>>
    BY <1>2 DEF LaunchBegins, ReadSettings, SaveSettings
  <2>4. HoldersHoldMutex' /\ MutexIsHeld' /\ CurrentIpcExists' /\ RecordedAreLaunched'
    BY <1>0, <2>1, <2>2, <2>3
       DEF Inv, HoldersHoldMutex, MutexIsHeld, CurrentIpcExists, RecordedAreLaunched
  <2>5. FlagHasCause'
    BY <2>1 DEF FlagHasCause
  <2> QED
    BY <1>1, <2>4, <2>5 DEF Inv
<1>3. CASE CreateProcessFails(l) \/ CreateSettingsProcess(l)
  <2>1. PICK step \in {"exit", "publish"} : pc' = [pc EXCEPT ![l] = step]
    BY <1>3 DEF CreateProcessFails, CreateSettingsProcess
  <2>2. UNCHANGED <<g_settings_process_id, current_settings_ipc, ipc_mutex, ipc>> /\ pc[l] = "create"
    BY <1>3 DEF CreateProcessFails, CreateSettingsProcess
  <2>3. HoldersHoldMutex' /\ MutexIsHeld' /\ CurrentIpcExists' /\ RecordedAreLaunched'
    BY <1>0, <2>1, <2>2
       DEF Inv, HoldersHoldMutex, MutexIsHeld, CurrentIpcExists, RecordedAreLaunched
  <2>4. FlagHasCause'
    BY <1>3 DEF CreateProcessFails, CreateSettingsProcess, FlagHasCause
  <2> QED
    BY <1>1, <2>3, <2>4 DEF Inv
<1>4. CASE PublishIpc(l)
  <2>1. HoldersHoldMutex' /\ MutexIsHeld'
    BY <1>0, <1>4 DEF PublishIpc, Inv, HoldersHoldMutex, MutexIsHeld
  <2>2. CurrentIpcExists' /\ RecordedAreLaunched'
    BY <1>4 DEF PublishIpc, Inv, CurrentIpcExists, RecordedAreLaunched
  <2>3. FlagHasCause'
    BY <1>4 DEF PublishIpc, Inv, FlagHasCause
  <2> QED
    BY <1>1, <2>1, <2>2, <2>3 DEF Inv
<1>5. CASE RecordProcess(l) \/ ProcessHasExited(l)
  <2>1. PICK step \in {"wait", "exit"} : pc' = [pc EXCEPT ![l] = step]
    BY <1>5 DEF RecordProcess, ProcessHasExited
  <2>2. UNCHANGED <<g_isLaunchInProgress, current_settings_ipc, ipc_mutex, objectVars>>
        /\ pc[l] \in {"pid", "wait"}
    BY <1>5 DEF RecordProcess, ProcessHasExited
  <2>3. HoldersHoldMutex' /\ MutexIsHeld' /\ CurrentIpcExists'
    BY <1>0, <2>1, <2>2 DEF Inv, HoldersHoldMutex, MutexIsHeld, CurrentIpcExists
  <2>4. RecordedAreLaunched'
    BY <1>5 DEF RecordProcess, ProcessHasExited, Inv, RecordedAreLaunched
  <2>5. FlagHasCause'
    BY <2>1, <2>2 DEF Inv, FlagHasCause
  <2> QED
    BY <1>1, <2>3, <2>4, <2>5 DEF Inv
<1>6. CASE ExitLocks(l)
  <2>1. HoldersHoldMutex' /\ MutexIsHeld'
    BY <1>0, <1>6 DEF ExitLocks, Inv, HoldersHoldMutex, MutexIsHeld
  <2>2. CurrentIpcExists' /\ RecordedAreLaunched'
    BY <1>6 DEF ExitLocks, Inv, CurrentIpcExists, RecordedAreLaunched
  <2>3. FlagHasCause'
    BY <1>6 DEF ExitLocks, Inv, FlagHasCause
  <2> QED
    BY <1>1, <2>1, <2>2, <2>3 DEF Inv
<1>7. CASE ExitEndsIpc(l)
  <2>1. HoldersHoldMutex' /\ MutexIsHeld'
    BY <1>0, <1>7 DEF ExitEndsIpc, Inv, HoldersHoldMutex, MutexIsHeld
  <2>2. CurrentIpcExists' /\ RecordedAreLaunched'
    BY <1>7 DEF ExitEndsIpc, Inv, CurrentIpcExists, RecordedAreLaunched
  <2>3. FlagHasCause'
    BY <1>7 DEF ExitEndsIpc, Inv, FlagHasCause
  <2> QED
    BY <1>1, <2>1, <2>2, <2>3 DEF Inv
<1>8. CASE ExitUnlocks(l)
  <2>1. \A k \in Launch \ {l} : pc[k] \notin {"end", "hung", "null"}
    BY <1>8 DEF ExitUnlocks, Inv, HoldersHoldMutex
  <2>2. HoldersHoldMutex' /\ MutexIsHeld'
    BY <1>0, <1>8, <2>1 DEF ExitUnlocks, Inv, HoldersHoldMutex, MutexIsHeld
  <2>3. CurrentIpcExists' /\ RecordedAreLaunched'
    BY <1>8 DEF ExitUnlocks, Inv, CurrentIpcExists, RecordedAreLaunched
  <2>4. FlagHasCause'
    BY <1>8 DEF ExitUnlocks, Inv, FlagHasCause
  <2> QED
    BY <1>1, <2>2, <2>3, <2>4 DEF Inv
<1>9. CASE LaunchEnds(l)
  <2>1. HoldersHoldMutex' /\ MutexIsHeld' /\ CurrentIpcExists'
    BY <1>0, <1>9 DEF LaunchEnds, Inv, HoldersHoldMutex, MutexIsHeld, CurrentIpcExists
  <2>2. RecordedAreLaunched'
    BY <1>9 DEF LaunchEnds, Inv, RecordedAreLaunched
  <2>3. FlagHasCause'
    BY <1>9 DEF LaunchEnds, Inv, FlagHasCause
  <2> QED
    BY <1>1, <2>1, <2>2, <2>3 DEF Inv
<1>10. CASE ExitHangs(l)
  <2>1. pc' = [pc EXCEPT ![l] = "hung"] /\ pc[l] = "end"
        /\ UNCHANGED <<g_isLaunchInProgress, g_settings_process_id, current_settings_ipc, ipc_mutex, objectVars>>
    BY <1>10 DEF ExitHangs
  <2>2. HoldersHoldMutex' /\ MutexIsHeld'
    BY <1>0, <2>1 DEF Inv, HoldersHoldMutex, MutexIsHeld
  <2>3. CurrentIpcExists' /\ RecordedAreLaunched'
    BY <2>1 DEF Inv, CurrentIpcExists, RecordedAreLaunched
  <2>4. FlagHasCause'
    BY <2>1 DEF Inv, FlagHasCause
  <2> QED
    BY <1>1, <2>2, <2>3, <2>4 DEF Inv
<1> QED
  BY <1>2, <1>3, <1>4, <1>5, <1>6, <1>7, <1>8, <1>9, <1>10 DEF RunSettingsWindow

(* What a step must leave alone to preserve all but the mutex's invariants. *)
LEMMA SameLaunches ==
    ASSUME Inv, UNCHANGED <<launchVars, ipc, g_isLaunchInProgress, g_settings_process_id,
                            current_settings_ipc>>,
           \A l \in Launch : process[l] = "failed" => process'[l] = "failed"
    PROVE  CurrentIpcExists' /\ RecordedAreLaunched' /\ FlagHasCause'
  BY DEF Inv, CurrentIpcExists, RecordedAreLaunched, FlagHasCause, launchVars

LEMMA DispatchInv ==
    ASSUME TypeOK, Inv, DispatchReceivedJson, UNCHANGED trayVars
    PROVE  Inv'
<1> USE NoneIsNoThread, Threads DEF DispatchReceivedJson, DispatchSaves, DispatchLocks,
                                    DispatchAnswers, Goto
<1>1. CurrentIpcExists' /\ RecordedAreLaunched' /\ FlagHasCause'
  BY SameLaunches DEF sharedVars, launchVars, objectVars
<1>2. HoldersHoldMutex'
  BY DEF Inv, HoldersHoldMutex, TypeOK, sharedVars, launchVars
<1>3. MutexIsHeld'
  BY DEF Inv, MutexIsHeld, TypeOK, sharedVars, launchVars
<1>4. TimerHasThread'
  BY DEF Inv, TimerHasThread, TypeOK, trayVars
<1> QED
  BY <1>1, <1>2, <1>3, <1>4 DEF Inv

LEMMA WindowProcInv ==
    ASSUME TypeOK, Inv, WindowProc
    PROVE  Inv'
<1> USE NoneIsNoThread, Threads DEF Take, Goto
<1>1. at[Main] = "idle" /\ UNCHANGED sharedVars
  BY DEF WindowProc, IconClicked, IconDoubleClicked, SettingsCommand, OpenOobeWindow,
         RunOnMainThread, WindowDestroyed
<1>2. at'[Main] # "answer"
  BY <1>1 DEF WindowProc, IconClicked, IconDoubleClicked, SettingsCommand, OpenOobeWindow,
              RunOnMainThread, WindowDestroyed, DispatchMessage, TypeOK
<1>3. TimerHasThread'
  <2>1. CASE IconClicked
    BY <2>1 DEF IconClicked, Inv, TimerHasThread, TypeOK
  <2>2. CASE ~IconClicked
    <3>1. /\ UNCHANGED double_click_timer_running
          /\ \A c \in Clicker : at'[c] = at[c]
      BY <2>2 DEF WindowProc, IconDoubleClicked, SettingsCommand, OpenOobeWindow,
                  RunOnMainThread, WindowDestroyed, DispatchMessage, TypeOK, trayVars
    <3> QED
      BY <3>1 DEF Inv, TimerHasThread
  <2> QED
    BY <2>1, <2>2
<1>4. CASE OpenOobeWindow
  <2>1. SpawnLaunch /\ UNCHANGED <<sharedVars, ipc>>
    BY <1>4 DEF OpenOobeWindow
  <2>2. HoldersHoldMutex' /\ MutexIsHeld'
    BY <1>1, <1>2, <2>1, SpawnInv DEF Inv, HoldersHoldMutex, MutexIsHeld, sharedVars
  <2> QED
    BY <1>3, <2>1, <2>2, SpawnInv DEF Inv
<1>5. CASE ~OpenOobeWindow
  <2>1. UNCHANGED <<launchVars, ipc>>
    BY <1>5 DEF WindowProc, IconClicked, IconDoubleClicked, SettingsCommand,
                RunOnMainThread, WindowDestroyed, objectVars
  <2>2. \A l \in Launch : process[l] = "failed" => process'[l] = "failed"
    BY <1>5 DEF WindowProc, IconClicked, IconDoubleClicked, SettingsCommand,
                RunOnMainThread, WindowDestroyed, CloseSettingsWindow, objectVars
  <2>3. CurrentIpcExists' /\ RecordedAreLaunched' /\ FlagHasCause'
    BY <1>1, <2>1, <2>2, SameLaunches DEF sharedVars
  <2>4. HoldersHoldMutex' /\ MutexIsHeld'
    BY <1>1, <1>2, <2>1 DEF Inv, HoldersHoldMutex, MutexIsHeld, sharedVars, launchVars
  <2> QED
    BY <1>3, <2>3, <2>4 DEF Inv
<1> QED
  BY <1>4, <1>5

LEMMA ClickerInv ==
    ASSUME TypeOK, Inv, NEW c \in Clicker, TimerElapses(c) \/ TimerOpens(c)
    PROVE  Inv'
<1> USE NoneIsNoThread, Threads DEF TimerElapses, TimerOpens, Goto
<1>1. at'[Main] = at[Main]
  BY DEF TypeOK
<1>2. CurrentIpcExists' /\ RecordedAreLaunched' /\ FlagHasCause'
  BY SameLaunches DEF sharedVars, objectVars
<1>3. HoldersHoldMutex' /\ MutexIsHeld'
  BY <1>1 DEF Inv, HoldersHoldMutex, MutexIsHeld, sharedVars, launchVars
<1>4. TimerHasThread'
  BY DEF Inv, TimerHasThread, TypeOK, trayVars
<1> QED
  BY <1>2, <1>3, <1>4 DEF Inv

LEMMA SettingsInv ==
    ASSUME TypeOK, Inv, NEW l \in Launch,
           SettingsSends(l) \/ SettingsExits(l) \/ CallbackReturns(l), UNCHANGED trayVars
    PROVE  Inv'
<1> USE DEF SettingsSends, SettingsExits, CallbackReturns
<1>1. \A k \in Launch : process[k] = "failed" => process'[k] = "failed"
  BY DEF TypeOK
<1>2. CurrentIpcExists' /\ RecordedAreLaunched' /\ FlagHasCause'
  BY <1>1, SameLaunches DEF sharedVars
<1>3. HoldersHoldMutex' /\ MutexIsHeld' /\ TimerHasThread'
  BY DEF Inv, HoldersHoldMutex, MutexIsHeld, TimerHasThread, sharedVars, launchVars, trayVars
<1> QED
  BY <1>2, <1>3 DEF Inv

LEMMA StutterInv ==
    ASSUME Inv, UNCHANGED <<sharedVars, at, launchVars, objectVars, trayVars>>
    PROVE  Inv'
  BY DEF Inv, HoldersHoldMutex, MutexIsHeld, CurrentIpcExists, RecordedAreLaunched, FlagHasCause,
         TimerHasThread, sharedVars, launchVars, objectVars, trayVars

LEMMA NextInv == ASSUME TypeOK, Inv, [Next]_vars PROVE Inv'
<1>1. CASE MainStep
  BY <1>1, Threads, WindowProcInv, OpenInv, DispatchInv DEF MainStep
<1>2. ASSUME NEW c \in Clicker, ClickerStep(c) PROVE Inv'
  BY <1>2, Threads, ClickerInv, OpenInv DEF ClickerStep
<1>3. ASSUME NEW l \in Launch, LaunchStep(l) PROVE Inv'
  BY <1>3, LaunchInv DEF LaunchStep
<1>4. ASSUME NEW l \in Launch, CallbackStep(l) \/ SettingsStep(l) PROVE Inv'
  BY <1>4, SettingsInv DEF CallbackStep, SettingsStep
<1>5. CASE UserStep
  BY <1>5, StutterInv DEF UserStep, Input, Post
<1>6. CASE UNCHANGED vars
  BY <1>6, StutterInv DEF vars
<1> QED
  BY <1>1, <1>2, <1>3, <1>4, <1>5, <1>6 DEF Next

(* The inductive invariant holds: who holds ipc_mutex, which ipc and       *)
(* process are recorded and for how long, in run_settings_window.          *)
THEOREM SettingsInvariant == Spec => []IInv
<1>1. Init => IInv
  BY InitTyped, InitInv, InvIs
<1>2. IInv /\ [Next]_vars => IInv'
  BY NextTyped, NextInv, InvIs DEF IInv, Inv
<1> QED
  BY <1>1, <1>2, PTL DEF Spec

(* The main thread answers to an ipc that is alive: while it holds the     *)
(* mutex no launch is between delete and NULL.                             *)
THEOREM SettingsAnswersLiveIpc == Spec => []AnswersLiveIpc
<1>1. IInv => AnswersLiveIpc
  BY NoneIsNoThread DEF IInv, AnswersLiveIpc, HoldersHoldMutex, CurrentIpcExists
<1> QED
  BY <1>1, SettingsInvariant, PTL

(* Once no thread has anything to do, the next click finds the runner as   *)
(* it was at its start, unless a launch has failed to start the process.   *)
THEOREM SettingsReopenable == Spec => []Reopenable
<1>1. ASSUME IInv, Quiet PROVE g_settings_process_id = None /\ current_settings_ipc = None
  BY <1>1 DEF IInv, Quiet, RecordedAreLaunched, TypeOK
<1>2. ASSUME IInv, Quiet PROVE ipc_mutex = None /\ ~double_click_timer_running
  BY <1>2, Threads DEF IInv, Quiet, MutexIsHeld, TimerHasThread
<1>3. ASSUME IInv, Quiet, g_isLaunchInProgress PROVE \E l \in Launch : process[l] = "failed"
  BY <1>3 DEF IInv, Quiet, FlagHasCause
<1>4. IInv => Reopenable
  BY <1>1, <1>2, <1>3 DEF Reopenable
<1> QED
  BY <1>4, SettingsInvariant, PTL
=============================================================================
