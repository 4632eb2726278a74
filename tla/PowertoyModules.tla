--------------------------- MODULE PowertoyModules ---------------------------
(***************************************************************************)
(* The runner's modules: loading them and enabling those that are to run   *)
(* (runner/main.cpp, general_settings.cpp), applying what the Settings     *)
(* window sends, and keeping their hotkeys in step (powertoy_module.cpp).  *)
(* It all happens on the runner's main thread, a message at a time, and so *)
(* do key presses; several modules are enabled or disabled one by one, so  *)
(* that other programs, and the end of the runner, may come in between.    *)
(* Only opening the Settings window has threads of its own: each notes     *)
(* what every module is, and saves it later (run_settings_window).         *)
(*                                                                         *)
(* A module's own reaction to a hotkey is modelled for HotkeyEx only, as   *)
(* Shortcut Guide's: it starts its process, or tells a running one to exit *)
(* (ShortcutGuideModuleInterface/dllmain.cpp).  A process that cannot be   *)
(* started counts as one that exits at once.                               *)
(***************************************************************************)
EXTENDS CentralizedKeyboardHook

CONSTANTS
    Trackers,         \* the modules that may ask for long presses
    DefaultOn,        \* the modules that are enabled by default
    Gpo,              \* module -> "enabled", "disabled" or "none"
    SettingsThread,   \* the threads of run_settings_window there may be at once
    MaxDescriptors,   \* bound on the long-press descriptors of a module
    MaxHotkeys        \* bound on the WM_HOTKEY messages that are pending

ASSUME ModulesAssumption ==
    /\ Trackers \subseteq Module /\ DefaultOn \subseteq Module
    /\ Gpo \in [Module -> {"enabled", "disabled", "none"}]
    /\ MaxDescriptors \in Nat /\ MaxHotkeys \in Nat

VARIABLES
    phase,        \* of the runner: loading modules, saying that one failed
                  \* to load, starting the enabled ones, running, applying
                  \* what the user chose, ending, or down
    loaded,       \* modules()
    tried,        \* the modules whose library has been loaded or has failed to
    pending,      \* those still to be enabled or disabled
    enabled,      \* module -> is_enabled()
    config,       \* module -> its settings, on disk and in memory
    saved,        \* the "enabled" object of the general settings file
    opening,      \* the Settings threads that have not saved yet
    snapshot,     \* Settings thread -> module -> what it noted of it
    fresh,        \* those that began when all modules were as the user last chose
    astray,       \* a Settings thread that was not has saved what it noted
    registry,     \* CentralizedHotkeys
    descriptors,  \* CentralizedKeyboardHook
    process,      \* module -> its process
    messages,     \* the WM_HOTKEY messages in the main thread's queue
    taken,        \* shortcuts other programs have registered
    down, lastDown,         \* the keyboard
    vkCodePressed, timers,  \* what the hook thinks of it
    undisturbed   \* timers whose descriptors have been there all along

settingsVars == <<opening, snapshot, fresh, astray>>
runnerVars == <<phase, loaded, tried, pending, enabled, saved, settingsVars>>
hookVars == <<registry, descriptors>>
keyVars == <<down, lastDown, vkCodePressed, timers, undisturbed>>
vars == <<runnerVars, config, hookVars, process, messages, taken, keyVars>>

(* get_hotkeys, GetHotkeyEx and keep_track_of_pressed_win_key; a module    *)
(* that tracks long presses has no HotkeyEx.                               *)
Config == {c \in [hotkeys : SUBSET Hotkey, hotkeyEx : Shortcut \cup {NoShortcut},
                  tracks : BOOLEAN] : c.tracks => c.hotkeyEx = NoShortcut}
ConfigOf(m) == {c \in Config : c.tracks => m \in Trackers}

(* The "enabled" object: module -> "on", "off" or, for one that is not in  *)
(* it, "none".                                                             *)
EnabledObject == [Module -> {"on", "off", "none"}]
NoEntries == [m \in Module |-> "none"]

(* What a Settings thread has noted so far. *)
Snapshot == [Module -> {"unread", "on", "off", "none"}]
NothingRead == [m \in Module |-> "unread"]

Init ==
    /\ phase = "down"
    /\ loaded = {} /\ tried = {} /\ pending = {}
    /\ enabled = [m \in Module |-> FALSE]
    /\ config \in [Module -> Config] /\ \A m \in Module : config[m] \in ConfigOf(m)
    /\ saved \in EnabledObject   \* by an earlier version, or before a policy was set
    /\ opening = {} /\ fresh = {} /\ astray = FALSE
    /\ snapshot = [t \in SettingsThread |-> NothingRead]
    /\ registry = EmptyRegistry
    /\ descriptors = NoDescriptors
    /\ process = [m \in Module |-> "none"]
    /\ messages = <<>>
    /\ taken \in SUBSET Shortcut
    /\ down = {} /\ lastDown = VK_DISABLED
    /\ vkCodePressed = VK_DISABLED
    /\ timers = {} /\ undisturbed = {}

---------------------------------------------------------------------------
(* What the runner's handlers do to a module *)

(* A timer is undisturbed while its key has the same number of             *)
(* descriptors.                                                            *)
DescriptorsBecome(d) ==
    /\ descriptors' = d
    /\ undisturbed' = {x \in undisturbed :
           d.pressedKeyDescriptors[x] = descriptors.pressedKeyDescriptors[x]}
    /\ \A x \in WinKey \X Module : d.pressedKeyDescriptors[x] <= MaxDescriptors

(* PowertoyModule::update_hotkeys, on the descriptors d. *)
update_hotkeys(d, m, c) == SetHotkeyAction(ClearModuleHotkeys(d, m), m, c.hotkeys)

(* Mutant: a module's shortcut is registered though it is disabled. *)
MutIgnoreEnabled(d, m, c, on) ==
    LET r == UnregisterHotkeysForModule(registry, m)
    IN  /\ registry' = IF c.hotkeyEx # NoShortcut
                       THEN AddHotkeyAction(r, c.hotkeyEx, m, Shortcut \ taken)
                       ELSE r
        /\ DescriptorsBecome(IF c.tracks THEN AddPressedKeyAction(d, m) ELSE d)

(* PowertoyModule::UpdateHotkeyEx, of a module that is enabled or is not,  *)
(* when the hook's descriptors are d.                                      *)
UpdateHotkeyEx(d, m, c, on) ==
    LET r == UnregisterHotkeysForModule(registry, m)
    IN  /\ registry' = IF c.hotkeyEx # NoShortcut /\ on
                       THEN AddHotkeyAction(r, c.hotkeyEx, m, Shortcut \ taken)
                       ELSE r
        /\ DescriptorsBecome(IF c.tracks THEN AddPressedKeyAction(d, m) ELSE d)

(* TerminateProcess signals the exit event; the process exits later. *)
Terminate(s) == IF s = "running" THEN "exiting" ELSE s

(* enable() or disable(), and UpdateHotkeyEx after it. *)
SetEnabled(m, on) ==
    /\ enabled' = [enabled EXCEPT ![m] = on]
    /\ process' = [process EXCEPT ![m] = IF on THEN @ ELSE Terminate(@)]
    /\ UpdateHotkeyEx(descriptors, m, config[m], on)

(* A group policy decides, if it is set. *)
Target(m, on) == IF Gpo[m] = "none" THEN on ELSE Gpo[m] = "enabled"

(* OnHotkeyEx *)
OnHotkeyEx(m, s) == IF ~enabled[m] THEN s
                    ELSE IF s = "none" THEN "running" ELSE Terminate(s)

---------------------------------------------------------------------------
(* The main thread handles messages; so does the box it shows meanwhile.   *)
Pumping == phase \in {"running", "message box"}

RunnerStart ==
    /\ phase = "down"
    /\ phase' = "loading"
    /\ UNCHANGED <<loaded, tried, pending, enabled, saved, settingsVars, config, hookVars, process, messages,
                   taken, keyVars>>

(* load_powertoy: the constructor sets up the hotkeys of a module that is  *)
(* not enabled yet.                                                        *)
LoadModule(m) ==
    /\ phase = "loading" /\ m \notin tried
    /\ tried' = tried \cup {m}
    /\ loaded' = loaded \cup {m}
    /\ UpdateHotkeyEx(update_hotkeys(descriptors, m, config[m]), m, config[m], enabled[m])
    /\ UNCHANGED <<phase, pending, enabled, saved, settingsVars, config, process, messages, taken,
                   down, lastDown, vkCodePressed, timers>>

LoadFails(m) ==
    /\ phase = "loading" /\ m \notin tried
    /\ phase' = "message box"
    /\ tried' = tried \cup {m}
    /\ UNCHANGED <<loaded, pending, enabled, saved, settingsVars, config, hookVars, process, messages, taken, keyVars>>

DismissMessageBox ==
    /\ phase = "message box"
    /\ phase' = "loading"
    /\ UNCHANGED <<loaded, tried, pending, enabled, saved, settingsVars, config, hookVars, process, messages,
                   taken, keyVars>>

(* Mutant: the settings file goes before the group policy. *)
MutSettingsFirst(m) ==
    IF saved[m] = "none" THEN Target(m, m \in DefaultOn) ELSE saved[m] = "on"

(* Whether start_enabled_powertoys enables m. *)
ShouldBeEnabled(m) ==
    Target(m, IF saved[m] = "none" THEN m \in DefaultOn ELSE saved[m] = "on")

(* start_enabled_powertoys decides for every module, then enables one      *)
(* after the other, in whatever order their names have.                    *)
StartEnabledPowertoys ==
    /\ phase = "loading" /\ tried = Module
    /\ phase' = "starting"
    /\ pending' = {m \in loaded : ShouldBeEnabled(m)}
    /\ UNCHANGED <<loaded, tried, enabled, saved, settingsVars, config, hookVars, process, messages, taken, keyVars>>

StartModule(m) ==
    /\ phase = "starting" /\ m \in pending
    /\ pending' = pending \ {m}
    /\ SetEnabled(m, TRUE)
    /\ UNCHANGED <<phase, loaded, tried, saved, settingsVars, config, messages, taken,
                   down, lastDown, vkCodePressed, timers>>

ModulesStarted ==
    /\ phase = "starting" /\ pending = {}
    /\ phase' = "running"
    /\ UNCHANGED <<loaded, tried, pending, enabled, saved, settingsVars, config, hookVars, process, messages,
                   taken, keyVars>>

(* get_general_settings lists the modules that are loaded. *)
GeneralSettings(on) ==
    [m \in Module |-> IF m \notin loaded THEN "none" ELSE IF on[m] THEN "on" ELSE "off"]

(* apply_general_settings with an "enabled" object from the Settings       *)
(* window, which names some modules: those whose state is to change are    *)
(* enabled or disabled one after the other, and then the settings saved.   *)
ApplyGeneralSettings(object) ==
    /\ phase = "running"
    /\ phase' = "applying"
    /\ pending' = {m \in loaded : /\ object[m] # "none"
                                  /\ enabled[m] # Target(m, object[m] = "on")}
    /\ fresh' = {}
    /\ UNCHANGED <<loaded, tried, enabled, saved, opening, snapshot, astray, config, hookVars,
                   process, messages, taken, keyVars>>

SwitchModule(m) ==
    /\ phase = "applying" /\ m \in pending
    /\ pending' = pending \ {m}
    /\ SetEnabled(m, ~enabled[m])
    /\ UNCHANGED <<phase, loaded, tried, saved, settingsVars, config, messages, taken,
                   down, lastDown, vkCodePressed, timers>>

(* The main thread saves, and nothing a Settings thread saved remains. *)
SaveNow == saved' = GeneralSettings(enabled) /\ astray' = FALSE

SettingsApplied ==
    /\ phase = "applying" /\ pending = {}
    /\ phase' = "running"
    /\ SaveNow
    /\ UNCHANGED <<loaded, tried, pending, enabled, opening, snapshot, fresh, config, hookVars,
                   process, messages, taken, keyVars>>

(* run_settings_window begins, on a thread of its own, at a click on the   *)
(* tray icon: the box that says that a module failed to load serves clicks *)
(* too.                                                                    *)
OpenSettings(t) ==
    /\ Pumping /\ t \notin opening
    /\ opening' = opening \cup {t}
    /\ fresh' = IF phase = "running" THEN fresh \cup {t} ELSE fresh
    /\ UNCHANGED <<phase, loaded, tried, pending, enabled, saved, snapshot, astray, config,
                   hookVars, process, messages, taken, keyVars>>

(* It goes through the modules (get_general_settings), while the main      *)
(* thread goes on with whatever it does: a module that is loaded after the *)
(* thread has passed its place is not noted.                               *)
NoteModule(t, m) ==
    /\ t \in opening /\ snapshot[t][m] = "unread"
    /\ snapshot' = [snapshot EXCEPT ![t][m] = GeneralSettings(enabled)[m]]
    /\ UNCHANGED <<phase, loaded, tried, pending, enabled, saved, opening, fresh, astray, config,
                   hookVars, process, messages, taken, keyVars>>

Noted(t) == t \in opening /\ \A m \in Module : snapshot[t][m] # "unread"

(* ... and saves what it noted, for the Settings process to read. *)
SaveSettings(t) ==
    /\ Noted(t)
    /\ saved' = snapshot[t]
    /\ astray' = (t \notin fresh)
    /\ opening' = opening \ {t} /\ fresh' = fresh \ {t}
    /\ snapshot' = [snapshot EXCEPT ![t] = NothingRead]
    /\ UNCHANGED <<phase, loaded, tried, pending, enabled, config, hookVars, process, messages,
                   taken, keyVars>>

(* send_json_config_to_module *)
SendConfig(m, c) ==
    /\ phase = "running" /\ m \in loaded
    /\ config' = [config EXCEPT ![m] = c]
    /\ UpdateHotkeyEx(update_hotkeys(descriptors, m, c), m, c, enabled[m])
    /\ UNCHANGED <<runnerVars, process, messages, taken, down, lastDown, vkCodePressed, timers>>

(* The message loop has returned 0: the settings are saved once more. *)
SaveOnClosing ==
    /\ phase = "running"
    /\ phase' = "ending"
    /\ SaveNow
    /\ UNCHANGED <<loaded, tried, pending, enabled, opening, snapshot, fresh, config, hookVars,
                   process, messages, taken, keyVars>>

(* Some thread may be rewriting the settings file. *)
Saving == \/ phase = "running"
          \/ phase = "applying" /\ pending = {}
          \/ \E t \in SettingsThread : Noted(t)

(* The runner ends or is killed: its window's registrations, hook, timers  *)
(* and threads go with it, and so do the processes its modules started.  A *)
(* file that is half-written then has no entries for the next start.       *)
RunnerExit ==
    /\ phase # "down"
    /\ phase' = "down"
    /\ loaded' = {} /\ tried' = {} /\ pending' = {}
    /\ enabled' = [m \in Module |-> FALSE]
    /\ \/ saved' = saved
       \/ Saving /\ saved' = NoEntries
    /\ opening' = {} /\ fresh' = {} /\ astray' = FALSE
    /\ snapshot' = [t \in SettingsThread |-> NothingRead]
    /\ registry' = EmptyRegistry
    /\ descriptors' = NoDescriptors
    /\ process' = [m \in Module |-> "none"]
    /\ messages' = <<>>
    /\ vkCodePressed' = VK_DISABLED
    /\ timers' = {} /\ undisturbed' = {}
    /\ UNCHANGED <<config, taken, down, lastDown>>

---------------------------------------------------------------------------
(* Shortcuts registered with Windows *)

(* Another program registers or gives up a shortcut. *)
OtherProgram(s) ==
    /\ s \notin registry.registered
    /\ taken' = IF s \in taken THEN taken \ {s} ELSE taken \cup {s}
    /\ UNCHANGED <<runnerVars, config, hookVars, process, messages, keyVars>>

PressShortcut(s) ==
    /\ s \in registry.registered
    /\ Len(messages) < MaxHotkeys
    /\ messages' = Append(messages, s)
    /\ UNCHANGED <<runnerVars, config, hookVars, process, taken, keyVars>>

(* PopulateHotkey.  If the shortcut has been unregistered since it was     *)
(* pressed, the first element of an empty vector is called: nothing may    *)
(* come of it, or any module's action.                                     *)
PopulateHotkey ==
    /\ Pumping
    /\ messages # <<>>
    /\ messages' = Tail(messages)
    /\ LET wanting == registry.actions[Head(messages)]
       IN  \/ /\ wanting # <<>>
              /\ process' = [process EXCEPT ![Head(wanting)] = OnHotkeyEx(Head(wanting), @)]
           \/ /\ wanting = <<>>
              /\ \/ UNCHANGED process
                 \/ \E m \in loaded : process' = [process EXCEPT ![m] = OnHotkeyEx(m, @)]
    /\ UNCHANGED <<runnerVars, config, hookVars, taken, keyVars>>

---------------------------------------------------------------------------
(* The keyboard and KeyboardHookProc.  While the main thread does not      *)
(* handle messages for long, as at start-up, Windows does not wait for the *)
(* hook; while it applies the user's choice, a key event waits.  A key     *)
(* that is held down repeats until another key goes down.                  *)

Hooked == Pumping /\ TracksSomething(descriptors)

(* handled: the key completes a module's hotkey, and the key-up event that *)
(* is sent then to keep the Start menu closed passes through the hook too. *)
KeyDown(k, handled) ==
    /\ phase # "applying"
    /\ k \notin down \/ k = lastDown
    /\ handled => Pumping /\ k \notin WinKey
                   /\ \E x \in Hotkey \X Module : descriptors.hotkeyDescriptors[x] > 0
    /\ down' = down \cup {k}
    /\ lastDown' = k
    /\ IF Hooked
       THEN /\ vkCodePressed' = IF handled THEN VK_DISABLED ELSE k
            /\ timers' = TimersOnDown(descriptors, timers, vkCodePressed, k)
            /\ undisturbed' = (undisturbed \cap timers') \cup (timers' \ timers)
       ELSE UNCHANGED <<vkCodePressed, timers, undisturbed>>
    /\ UNCHANGED <<runnerVars, config, hookVars, process, messages, taken>>

KeyUp(k) ==
    /\ phase # "applying"
    /\ k \in down
    /\ down' = down \ {k}
    /\ lastDown' = IF lastDown = k THEN VK_DISABLED ELSE lastDown
    /\ IF Hooked
       THEN /\ vkCodePressed' = VK_DISABLED
            /\ timers' = TimersOnUp(descriptors, timers, k)
            /\ undisturbed' = undisturbed \cap timers'
       ELSE UNCHANGED <<vkCodePressed, timers, undisturbed>>
    /\ UNCHANGED <<runnerVars, config, hookVars, process, messages, taken>>

(* OnHotkeyEx n times; from the third on it changes nothing. *)
Repeated(m, s, n) == CASE n = 0 -> s
                       [] n = 1 -> OnHotkeyEx(m, s)
                       [] OTHER -> OnHotkeyEx(m, OnHotkeyEx(m, s))

(* PressedKeyTimerProc: the action runs once for every descriptor with the *)
(* timer's id, the timer is killed.                                        *)
PressedKeyTimerProc(x) ==
    LET m == x[2]
        n == descriptors.pressedKeyDescriptors[x]
    IN  /\ Pumping
        /\ x \in timers
        /\ process' = [process EXCEPT ![m] = Repeated(m, @, n)]
        /\ timers' = timers \ {x}
        /\ undisturbed' = undisturbed \ {x}
        /\ UNCHANGED <<runnerVars, config, hookVars, messages, taken, down, lastDown, vkCodePressed>>

(* Another process signals the module's event, which a thread waits for. *)
TriggerEvent(m) ==
    /\ m \in loaded
    /\ process' = [process EXCEPT ![m] = OnHotkeyEx(m, @)]
    /\ UNCHANGED <<runnerVars, config, hookVars, messages, taken, keyVars>>

(* The module's process has shown what it shows, or was told to exit. *)
ProcessExits(m) ==
    /\ process[m] # "none"
    /\ process' = [process EXCEPT ![m] = "none"]
    /\ UNCHANGED <<runnerVars, config, hookVars, messages, taken, keyVars>>

Next ==
    \/ RunnerStart \/ DismissMessageBox \/ StartEnabledPowertoys \/ ModulesStarted
    \/ SettingsApplied \/ PopulateHotkey \/ SaveOnClosing \/ RunnerExit
    \/ \E t \in SettingsThread : \/ OpenSettings(t) \/ SaveSettings(t)
                                 \/ \E m \in Module : NoteModule(t, m)
    \/ \E m \in Module : \/ LoadModule(m) \/ LoadFails(m) \/ StartModule(m) \/ SwitchModule(m)
                        \/ TriggerEvent(m) \/ ProcessExits(m)
    \/ \E object \in EnabledObject : ApplyGeneralSettings(object)
    \/ \E m \in Module : \E c \in ConfigOf(m) : SendConfig(m, c)
    \/ \E s \in Shortcut : OtherProgram(s) \/ PressShortcut(s)
    \/ \E k \in Key : KeyUp(k) \/ \E handled \in BOOLEAN : KeyDown(k, handled)
    \/ \E x \in WinKey \X Module : PressedKeyTimerProc(x)

Spec == Init /\ [][Next]_vars

---------------------------------------------------------------------------
(* Type invariant of the runner's modules and hotkeys. *)
TypeOK ==
    /\ phase \in {"down", "loading", "message box", "starting", "running", "applying", "ending"}
    /\ loaded \subseteq tried /\ tried \subseteq Module /\ pending \subseteq loaded
    /\ enabled \in [Module -> BOOLEAN]
    /\ \A m \in Module : config[m] \in ConfigOf(m)
    /\ saved \in EnabledObject
    /\ opening \subseteq SettingsThread /\ fresh \subseteq opening /\ astray \in BOOLEAN
    /\ snapshot \in [SettingsThread -> Snapshot]
    /\ registry \in Registry
    /\ descriptors \in Descriptors
    /\ process \in [Module -> {"none", "running", "exiting"}]
    /\ messages \in Seq(Shortcut) /\ Len(messages) <= MaxHotkeys
    /\ taken \subseteq Shortcut \ registry.registered
    /\ down \subseteq Key
    /\ lastDown \in down \cup {VK_DISABLED}
    /\ vkCodePressed \in Key \cup {VK_DISABLED}
    /\ timers \subseteq WinKey \X Module /\ undisturbed \subseteq timers

Count(q, m) == Cardinality({k \in DOMAIN q : q[k] = m})

(* The registry holds exactly the shortcuts of enabled modules, each once, *)
(* whatever was enabled, disabled and configured in whatever order.        *)
RegistryFollowsModules ==
    \A m \in Module, s \in Shortcut :
        Count(registry.actions[s], m) =
            IF m \in loaded /\ enabled[m] /\ config[m].hotkeyEx = s THEN 1 ELSE 0

(* No shortcut is kept from other programs once no module wants it. *)
NothingLeaked == \A s \in registry.registered : registry.actions[s] # <<>>

(* A shortcut that several modules want stays registered when one of them  *)
(* lets go of it.                                                          *)
SharedShortcutKept ==
    [][\A s \in registry.registered :
          registry'.actions[s] # <<>> => s \in registry'.registered]_vars

(* The hook looks for exactly the hotkeys the modules' settings name. *)
HookFollowsConfig ==
    \A m \in Module, h \in Hotkey :
        descriptors.hotkeyDescriptors[<<h, m>>] =
            IF m \in loaded /\ h \in config[m].hotkeys THEN 1 ELSE 0

(* Where a group policy is set it holds, and where none is and the file    *)
(* has an entry, a running runner's module is as the file says, whenever   *)
(* the runner was killed and whatever a Settings thread saves that began   *)
(* when the modules ran as the user last chose.  One that began while      *)
(* modules were loading, or before the user's last choice, writes over the *)
(* file what is no longer so; the modules then differ from it until the    *)
(* main thread saves again.                                                *)
RunsAsSaved ==
    phase = "running" => \A m \in loaded :
        /\ Gpo[m] # "none" => enabled[m] = (Gpo[m] = "enabled")
        /\ Gpo[m] = "none" /\ saved[m] # "none" /\ ~astray => enabled[m] = (saved[m] = "on")

(* A long press is one: when the timer of a Windows key makes a module act *)
(* then that key is still down, whatever else was pressed and released and *)
(* unless the settings changed meanwhile.                                  *)
LongPressMeansHeld ==
    [][\A x \in undisturbed :
          PressedKeyTimerProc(x) /\ process' # process => x[1] \in down]_vars
=============================================================================
