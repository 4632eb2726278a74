------------------------------ MODULE TrayIcon ------------------------------
(***************************************************************************)
(* The tray icon's window procedure (runner/tray_icon.cpp), which is the   *)
(* runner's main thread, over SettingsWindow: it tells a click from a      *)
(* double click with a thread that sleeps for the double click's time,     *)
(* opens the Settings window, and handles what Settings sends.             *)
(*                                                                         *)
(* The hotkeys the same window receives are PowertoyModules'.  The runner  *)
(* is down as soon as its window is destroyed.                             *)
(***************************************************************************)
EXTENDS SettingsWindow

CONSTANT MaxQueue   \* bound on the messages that wait for the main thread

ASSUME MaxQueueAssumption == MaxQueue \in Nat \ {0}

VARIABLES double_click_timer_running, double_clicked

trayVars == <<double_click_timer_running, double_clicked>>
vars == <<runner, queue, sharedVars, at, launchVars, objectVars, settingVars, trayVars>>

(* runner() in main.cpp: the Settings window is opened first if its caller *)
(* asks for it, then the first run's window if it is to be shown.          *)
Init ==
    /\ SettingsInit
    /\ queue \in {<<>>, <<"menu">>, <<"oobe">>, <<"menu", "oobe">>}
    /\ double_click_timer_running = FALSE
    /\ double_clicked = FALSE

Post(m) ==
    /\ Len(queue) < MaxQueue
    /\ queue' = Append(queue, m)
    /\ UNCHANGED <<runner, sharedVars, at, launchVars, objectVars, settingVars, trayVars>>

---------------------------------------------------------------------------
(* The user, and other instances of PowerToys.exe that post a WM_COMMAND.  *)
(* A second press makes a double click while the double click's time since *)
(* the first has not passed; the button's next release is another "up".    *)

Input ==
    \/ \E m \in {"menu", "exit"} : Post(m)
    \/ Clicker # {} /\ Post("up")
    \/ /\ double_click_timer_running \/ \E i \in DOMAIN queue : queue[i] = "up"
       /\ Post("dblclk")

---------------------------------------------------------------------------
(* tray_icon_window_proc *)

Take(m) ==
    /\ at[Main] = "idle"
    /\ queue # <<>> /\ Head(queue) = m
    /\ queue' = Tail(queue)

(* WM_LBUTTONUP; a click for which the instance has no thread left waits.  *)
IconClicked ==
    /\ Take("up")
    /\ IF double_click_timer_running
       THEN UNCHANGED <<at, double_click_timer_running, double_clicked>>
       ELSE /\ double_click_timer_running' = TRUE
            /\ double_clicked' = FALSE
            /\ \E c \in Clicker : at[c] = "idle" /\ Goto(c, "sleep")
    /\ UNCHANGED <<runner, sharedVars, launchVars, objectVars, settingVars>>

IconDoubleClicked ==
    /\ Take("dblclk")
    /\ double_clicked' = TRUE
    /\ Goto(Main, "pid")
    /\ UNCHANGED <<runner, sharedVars, launchVars, objectVars, settingVars,
                   double_click_timer_running>>

SettingsCommand ==
    /\ Take("menu")
    /\ Goto(Main, "pid")
    /\ UNCHANGED <<runner, sharedVars, launchVars, objectVars, settingVars, trayVars>>

(* open_oobe_window and open_scoobe_window ask nothing.                    *)
OpenOobeWindow ==
    /\ Take("oobe")
    /\ SpawnLaunch
    /\ UNCHANGED <<runner, at, sharedVars, save_settings, ipc, in_callback, settingVars, trayVars>>

RunOnMainThread ==
    \E m \in FromSettings :
        /\ Take(m)
        /\ DispatchMessage(m)
        /\ UNCHANGED <<runner, sharedVars, launchVars, objectVars, file, trayVars>>

(* Exit and killrunner destroy the window, and with it its messages.       *)
WindowDestroyed ==
    /\ \E m \in {"exit", "killrunner"} : at[Main] = "idle" /\ queue # <<>> /\ Head(queue) = m
    /\ queue' = <<>>
    /\ CloseSettingsWindow
    /\ runner' = "down"
    /\ UNCHANGED <<sharedVars, at, launchVars, ipc, in_callback, settingVars, trayVars>>

(* The thread of a click: click_timer_elapsed, after its sleep.            *)
TimerElapses(c) ==
    /\ at[c] = "sleep"
    /\ double_click_timer_running' = FALSE
    /\ Goto(c, "elapsed")
    /\ UNCHANGED <<runner, queue, sharedVars, launchVars, objectVars, settingVars,
                   double_clicked>>

TimerOpens(c) ==
    /\ at[c] = "elapsed"
    /\ Goto(c, IF double_clicked THEN "idle" ELSE "pid")
    /\ UNCHANGED <<runner, queue, sharedVars, launchVars, objectVars, settingVars, trayVars>>

---------------------------------------------------------------------------
WindowProc ==
    \/ IconClicked \/ IconDoubleClicked \/ SettingsCommand
    \/ OpenOobeWindow \/ RunOnMainThread \/ WindowDestroyed

(* A step of the thread in question; nothing moves in a runner that is     *)
(* down but Settings, which is of no interest then.                        *)
MainStep ==
    /\ runner = "up"
    /\ WindowProc \/ ((Open(Main) \/ DispatchReceivedJson) /\ UNCHANGED trayVars)
ClickerStep(c) ==
    /\ runner = "up"
    /\ TimerElapses(c) \/ TimerOpens(c) \/ (Open(c) /\ UNCHANGED trayVars)
LaunchStep(l) ==
    /\ runner = "up"
    /\ RunSettingsWindow(l)
    /\ UNCHANGED trayVars
CallbackStep(l) ==
    /\ runner = "up"
    /\ CallbackReturns(l)
    /\ UNCHANGED trayVars
SettingsStep(l) ==
    /\ runner = "up"
    /\ (Len(queue) < MaxQueue /\ SettingsSends(l)) \/ SettingsExits(l)
    /\ UNCHANGED trayVars
UserStep ==
    /\ runner = "up"
    /\ Input

Next ==
    \/ MainStep
    \/ \E c \in Clicker : ClickerStep(c)
    \/ \E l \in Launch : LaunchStep(l) \/ CallbackStep(l) \/ SettingsStep(l)
    \/ UserStep

Spec == Init /\ [][Next]_vars

(* The runner's threads are scheduled; nobody has to click, and Settings   *)
(* need not send or exit.                                                  *)
Fairness ==
    /\ WF_vars(MainStep)
    /\ \A c \in Clicker : WF_vars(ClickerStep(c))
    /\ \A l \in Launch : WF_vars(LaunchStep(l)) /\ WF_vars(CallbackStep(l))
FairSpec == Spec /\ Fairness

---------------------------------------------------------------------------
(* Every variable has a value of its type.                                 *)
TypeOK ==
    /\ runner \in {"up", "down", "crashed"}
    /\ queue \in Seq(Message)
    /\ g_isLaunchInProgress \in BOOLEAN
    /\ g_settings_process_id \in Launch \cup {None}
    /\ current_settings_ipc \in Launch \cup {None}
    /\ ipc_mutex \in Launch \cup {Main, None}
    /\ at \in [Opener -> {"idle", "sleep", "elapsed", "apply", "lock", "answer"} \cup OpenPc]
    /\ pc \in [Launch -> LaunchPc]
    /\ save_settings \in [Launch -> Setting]
    /\ process \in [Launch -> {"none", "running", "failed"}]
    /\ ipc \subseteq Launch
    /\ in_callback \in [Launch -> BOOLEAN]
    /\ general \in Setting /\ file \in Setting
    /\ double_click_timer_running \in BOOLEAN
    /\ double_clicked \in BOOLEAN

(* The main thread answers to an ipc that is alive, whichever launches are *)
(* starting and ending beside it (ipc_mutex in dispatch_received_json and  *)
(* run_settings_window).                                                   *)
AnswersLiveIpc ==
    at[Main] = "answer" /\ current_settings_ipc # None
        => current_settings_ipc \in ipc

(* Once no thread has anything to do, the next click finds the runner as   *)
(* it was at its start: no timer runs, no ipc and no process are recorded, *)
(* and no launch seems to be in progress unless one has failed to start    *)
(* the process.  A launch whose end() never returns always has something   *)
(* to do (the globals of settings_window.cpp and tray_icon.cpp).     *)
Quiet ==
    /\ runner = "up"
    /\ \A o \in Opener : at[o] = "idle"
    /\ \A l \in Launch : pc[l] = "off"
Reopenable ==
    Quiet =>
        /\ ~double_click_timer_running
        /\ g_settings_process_id = None
        /\ current_settings_ipc = None
        /\ ipc_mutex = None
        /\ g_isLaunchInProgress => \E l \in Launch : process[l] = "failed"

(* The main thread always returns to its messages: a launch that ends the  *)
(* ipc with ipc_mutex held waits for the callback, and the callback does   *)
(* not wait for the main thread (receive_json_send_to_main_thread posts).  *)
(* The exception is what TwoWayPipe's EndReturns is about: end() then never *)
(* returns, and the main thread waits for the mutex for ever.              *)
MainReturns ==
    (at[Main] # "idle")
        ~> (at[Main] = "idle" \/ runner # "up" \/ \E l \in Launch : pc[l] = "hung")

(* A Settings window that has been closed is forgotten, so that the next   *)
(* click opens another (run_settings_window after its wait).  As long as   *)
(* another one is open, its messages may keep the mutex busy; and an end() *)
(* that never returns keeps it.                                            *)
ClosedWindowIsForgotten ==
    \A l \in Launch :
        (pc[l] = "wait" /\ process[l] = "none")
            ~> \/ pc[l] = "off" \/ runner # "up"
               \/ \E k \in Launch : process[k] = "running" \/ pc[k] = "hung"
=============================================================================
