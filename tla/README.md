# PowerToys: specifications, model checking and proofs

TLA+ specifications of the parts of PowerToys whose correctness depends on the
order in which processes, threads and callbacks happen to run, the TLC runs that
check them on small instances, and TLAPS proofs of what matters most for
instances of any size. Paths are relative to the repository root.

1. [The system and its parts](#1-the-system-and-its-parts)
2. [Plan](#2-plan)
3. [The update system](#3-the-update-system)
4. [The pipe between the runner and Settings](#4-the-pipe-between-the-runner-and-settings)
5. [Modules, hotkeys and the keyboard hook](#5-modules-hotkeys-and-the-keyboard-hook)
6. [The Settings window and the tray icon](#6-the-settings-window-and-the-tray-icon)
7. [Keyboard Manager's engine](#7-keyboard-managers-engine)
8. [PowerRename](#8-powerrename)
9. [Runs](#9-runs)
10. [Proofs](#10-proofs)
11. [What is not modelled](#11-what-is-not-modelled)

To check a run: `tlc -config Update_concurrent.cfg MCUpdate`. To check the
proofs: `tlapm UpdateProofs.tla`, and likewise `PipeProofs`, `ModulesProofs`,
`EngineProofs`, `KeysProofs`, `HandlerProofs`, `SettingsProofs` and `RenameProofs`.

## 1. The system and its parts

PowerToys is one *runner* process that loads every utility ("module") as a DLL,
a *Settings* process the runner starts and talks to over two named pipes, an
*updater* (PowerToys.Update) that replaces the whole installation, and, for many
utilities, a worker process of its own.

### Parts that are modelled

| part | state it keeps | operations | what is hard | what makes it correct |
|---|---|---|---|---|
| Update state file (`src/common/updating/updateState.cpp`) | `UpdateState.json`, a named mutex | `read`, `store` | rewritten in place; writers in three processes; a writer may be killed | writers exclude each other; the mutex is left over a whole file; a version never believes what an older one wrote |
| GitHub check, download, cleanup (`src/common/updating/updating.cpp`) | the `Updates` directory | version query, download with retries, cleanup | two downloads of the same file, cleanup beside a download | no needed installer is deleted; downloads give up |
| Runner update checks (`src/runner/UpdateUtils.cpp`) | the worker's copy of the state, `isUpdateCheckThreadRunning` | periodic check, manual check, start-up cleanup | state read before a sleep of a day, stored after it | a check ends; what is stored is sound and not stale |
| Updater (`src/Update/PowerToys.Update.cpp`) | installer path handed from stage 1 to stage 2 | obtain, close the runner, install, record | runs while the runner it kills may be storing | never installs what is not newer; the latest release gets installed in the end |
| Message queue (`src/common/interop/async_message_queue.h`) | a queue, a flag, a condition variable | `queue_message`, `pop_message`, `interrupt` | lost wake-ups | a consumer is woken for a message and for an interrupt |
| Two-way pipe (`src/common/interop/two_way_pipe_message_ipc.cpp`) | two queues, three threads, a detached thread per connection, `closed` | `start`, `send`, `end` | threads of two processes; a peer that exits; cancelling a wait that has not begun | at most once delivery, silence after `end`, `end` returns |
| Registered hotkeys (`src/runner/centralized_hotkeys.cpp`) | shortcut → the modules that want it | add, unregister, serve `WM_HOTKEY` | one shortcut wanted by several modules; a key press still queued when its shortcut goes | registered exactly while an enabled module wants it |
| Keyboard hook (`src/runner/centralized_kb_hook.cpp`) | two multisets of descriptors, the last pressed key, timers | set, add, clear, hook procedure, timer | key events that are not seen; descriptors changed while a timer runs | descriptors follow the settings; a long press is one |
| Modules and general settings (`src/runner/powertoy_module.cpp`, `general_settings.cpp`, `main.cpp`) | which modules are loaded and enabled, `settings.json` | load, start enabled ones, apply settings, configure, save | policies, defaults and the file disagree; crash between change and save | modules run as saved, or as the policy says |
| Settings window (`src/runner/settings_window.cpp`) | `current_settings_ipc` under `ipc_mutex`, `g_settings_process_id`, `g_isLaunchInProgress` | open, a launch per thread, dispatch of what Settings sends, close | launches overlap; an object is deleted beside its users; a mutex is held across a call that waits | what the main thread answers to is alive; the window can be opened again; the main thread never waits for ever |
| Tray icon (`src/runner/tray_icon.cpp`) | the queue of the main thread, the double-click flag and thread | clicks, commands, messages from other threads, the end of the window | a second click while the first one's thread sleeps | a click always opens something |
| Keyboard Manager's engine (`src/modules/keyboardmanager/KeyboardManagerEngineLibrary`) | tables of remappings, which of them is invoked | the hook procedure, reload of the settings | the hook is called again for what it sends; keys pressed and released in any order; the focus moves | nothing stays pressed that the user does not hold; one remapping at a time; it settles |
| PowerRename (`src/modules/powerrename/lib`) | the items, three events, a critical section, two worker threads | typing, preview, rename, messages | workers cancelled at any point; messages pumped while files are renamed | preview, button and list agree with criteria and disk; a rename gives the promised names |

### How they interact

The runner's worker threads and the updater share the state file and the `Updates`
directory; the Settings window starts manual checks through the pipe and the
updater through the runner, and the updater closes the runner. Messages from
Settings arrive on the pipe's input thread, which posts them to the runner's main
thread; everything in section 5 happens on that thread. `run_settings_window`
creates and destroys the runner's end of the pipe, holding `ipc_mutex`. Keyboard
Manager's engine and PowerRename are processes of their own: they share nothing
with the runner but settings files, and what the user does.

### Parts that are not modelled

Elevation and restarts, the Settings application, and the other utilities; section
11 gives the reasons, and `PROJECT.json` lists each with its sources.

## 2. Plan

Done, in this order: the update system with its proofs, the pipe, the runner's
modules and hotkeys, the Settings window with the tray icon and its proofs,
Keyboard Manager's engine, PowerRename. Still planned:

1. `RunnerLifecycle`: the single-instance mutex, scheduled restarts
   (`restart_elevated.cpp`), the exit code that decides whether settings are saved,
   and the restore of a backup followed by a restart.
2. `KeyboardListener` (Quick Accent), `Awake` (tasks that replace each other),
   `QueryResults` (PowerToys Run: late results of cancelled queries),
   `LayoutAssignedWindows` (FancyZones), `AlwaysOnTop`, and `FileWatcher` (a poll
   beside a writer), as far as they go.
3. Proofs: the keys that remain down where a key is remapped to a shortcut, and where
  applications and the system have tables at once (section 10 says what is proved
  without them); `MenuOnlyWhenTapped`.

Abstract specifications: `MessageChannel` is the one there is, and `TwoWayPipe` is
shown to implement it, by TLC and by proof.

## 3. The update system

### Modules

* `UpdateState` is `common/updating/updateState.cpp`: the file (does its text
  parse, which version stamped it, what it says), the named mutex, and `read` and
  `store`. A write is two steps, since the file is truncated and then written.
* `Updating` is `common/updating/updating.cpp`: what GitHub may answer, the
  `Updates` directory, `cleanup_updates`, and `download_new_version` attempt by
  attempt.
* `UpdateUtils` is the runner: `PeriodicUpdateWorker`, `CheckForUpdatesCallback`,
  `ProcessNewVersionInfo`, the start-up cleanup thread and the request for the date
  of the last check. All are threads of one process and die with it.
* `PowerToysUpdate` is the updater: stage 1 (obtain, close the runner, start stage
  2) and stage 2 (install), with the state each ending records.
* `UpdateSystem` composes them and states the properties; `MCUpdate` is for TLC.

Versions are numbers; a release page or an installer is named by its version. Dates,
toasts and the length of the sleep are left out. A killed process loses its memory,
its half-made download stays partial, its half-made write stays torn, and the mutex
it held is `Abandoned`, which the next acquirer is not told. `ObtainInstaller` dereferences the answer of GitHub before it tests
it, so without an answer the updater may also conclude that it is up to date
(`ObtainUpToDate`).

### Properties

`WritersHoldMutex`, `ResetsOnlyWhatIsLost`: the file under concurrent writers and
crashes; a reader replaces it by a default one only if there was none, if another
version wrote it, or if a process died writing it.
`RecordedStateIsSound`, `HandedInstallerIsNewer`: neither a state file left by the
previous version nor one rewritten from a stale copy ever makes a version install
itself or an older one. `CleanupRemovesOnlyOld`: a check that is about to empty the
Updates directory does not find the release it is to download recorded as ready;
`update_installed` and the theorem have it for the periodic worker alone. It
does not hold with a manual check beside the worker, which cleans up before it
downloads what the other has just recorded as ready, and no property covers that
case: `UpdateGetsInstalled` is checked with one worker, an updater and the cleanup
thread (with a manual check too it does not finish), so it shows nothing of what two
checkers do to each other. `ManualCheckEnds` and `UpdateGetsInstalled` are
liveness.

### Fairness

Every started thread takes its steps, strongly fair because the named mutex is handed
to waiting threads in turn. Starting a check or an updater, and dying, are nobody's
duty. `UpdateGetsInstalled` assumes, in its own premise `Settled`, that failures come
to an end, that the user asks for the update whenever it is offered, and that
checks (a day apart) do not for ever fall into updates (minutes long).

### Bounds

`MaxVersion` caps the releases: two let a version be upgraded and run again on what
the former one left behind. `MaxDownloadAttempts` is three in the code; one and two
distinguish a first and a last attempt, and `update_installed` has two, so that a
retry meets what the attempt before it left. The proofs hold for every value of both.

## 4. The pipe between the runner and Settings

### Modules

* `AsyncMessageQueue`: the queue's operations as functions of its value. Since the
  waiting consumer is part of the value (`asleep`), a notification that wakes nobody
  is lost, as in the code.
* `TwoWayPipe`: both ends with all their threads. `output_pc`, `input_pc` and
  `server_pc` say where each end's threads are; `instance` is the pipe instance the
  server thread holds, `handlers` the detached threads; `end_pc` is how far `end()`
  has got. A client's write and the closing of its handle are one step, since
  nothing distinguishes what the server sees in between. `Faults` permits
  system calls on a sound pipe to fail.
* `MessageChannel`: what the ends may rely on. A message is delivered at most once,
  perhaps out of order, perhaps not at all, and not after `end()` has returned.
  `ImplementsChannel` is the refinement; its mapping collects the messages in every
  queue, thread and connection that may still be delivered.

A message of which nothing could be read arrives as a text of zeros (`Blank`),
which the code does not trim and which the callbacks of both programs fail to parse.
The access rights put on a pipe and the reading of long messages in blocks are left
out. The model keeps a deleted end for ever, so it says nothing of a detached thread
that outlives the object (see the hazards in `PROJECT.json`).

### Properties

Besides the refinement: no wake-up is lost (`ReceivedGetsDispatched`) and `end()`
gets past the first two joins (`EndPassesQueues`). `EndReturns` fails: `CancelIoEx`
finds nothing to cancel when the server thread is about to create its pipe or to
wait on it, and the third join waits for ever, with `ipc_mutex` held (`pipe_end`).
That what is sent is received in the end is not claimed: a message sent before the
peer has created its pipe is dropped.

### Fairness and bounds

Every thread that can take a step takes one (weak fairness per thread), and the
program starts its end and sends its messages; exits and `end()` are optional.
One message is sent in one direction; the texts of zeros that failing calls give rise to
are others, and meet it in every queue and overtake it. The refinement was checked with two
messages as well, without fairness (598,000 states), and is proved for any number.
Which of the two ends ends and which exits follows the
program: the runner calls `end()`, the Settings process exits.

## 5. Modules, hotkeys and the keyboard hook

### Modules

* `CentralizedHotkeys` and `CentralizedKeyboardHook` are the two registries as
  values, so that a handler can pass one through several calls. Ids of shortcuts,
  which are unique for ever, are left out. A long-press timer is named by key and
  module, as its id is in the code.
* `PowertoyModules` is what the main thread does: load the modules, start those
  that are to run, apply what Settings sends, serve `WM_HOTKEY`, run the hook and the
  timers, exit. The order in which modules are handled is that of a map over their
  names, hence any order. The main thread handles one message at a time, so a handler
  is a step; only the two loops that enable or disable several modules, at start and
  in `apply_general_settings`, take a step per module (`pending` is what they have
  left, `phase` "starting" and "applying"), since other programs, the modules' own
  threads, the Settings window's thread and the end of the runner may come in between.
  While it loads and starts modules the hook sees no keys, except in the box that
  reports a module that failed to load; while it applies settings a key event waits
  for it. Other programs take and give up shortcuts,
  and keys are pressed as a keyboard does it: a held key repeats until another one
  goes down. A key that completes a hotkey also sends the extra key-up event the
  hook itself sees.

A module's own reaction is Shortcut Guide's, the one module with both a registered
hotkey and a long press. A `WM_HOTKEY` whose shortcut was unregistered meanwhile
calls the first element of an empty vector: any module's action, or none.

The settings a module has (`config`) are its hotkeys for the hook, its shortcut and
whether it tracks the Windows key. Opening Settings starts a thread that goes through
the modules and saves what it noted of them later (`OpenSettings`, `NoteModule`,
`SaveSettings`), whatever the main thread does in between; clicks are served while a
message box says that a module failed to load, so this thread may begin, and go on,
while modules are loaded and started. A runner that ends while a save is due may leave a
file without entries. `SettingsWindow` has the rest of that thread. Left out: two saves
that tear the file between them, and Settings opened during the message box that
sends something before the box is dismissed (what Settings sends comes to a running runner).
`undisturbed` is not program state: it records which timers have had the same
descriptors since they were set, so that properties can leave out the timers whose
module was reconfigured while the key was held.

### Properties

`RegistryFollowsModules`, `NothingLeaked`, `SharedShortcutKept` and
`HookFollowsConfig` relate what is registered to what is enabled and configured, after
any sequence of calls. `RunsAsSaved` says that at every start, wherever the runner was
killed, the modules run as the file says, or by default where it has no entry, and that a
policy always wins. Between the save of a Settings thread that began before the
modules ran as last chosen and the next save of the main thread (`astray`) file and modules
differ, and the property excepts the file then; `fresh` and `astray` record that and are
no program state. That opening Settings keeps the user's choices is not claimed, since it
does not hold: opened while modules are being loaded, from the box that says that one of
them could not be, Settings records those that are loaded and not started yet as off
(`settings_window.cpp:362`, `:399`), and none of them is then started. `LongPressMeansHeld` says that a timer makes a
module act only while its key is down. Two things are in the model and are not
claimed, as no line of the repository does: any key that goes up makes the hook
forget the key that is still held, so a chord may count as a long press; and after
a start each timer has two descriptors, of which the second call ends what the
first started.

### Bounds

Two modules, one under a policy that enables it, and one shortcut they may share; one
hotkey; a Windows key and another key; two descriptors per timer
(`MaxDescriptors`, what a start leaves behind) and one pending `WM_HOTKEY`
(`MaxHotkeys`). There are two Settings threads, since one may save what it noted while the
other is still noting. Shortcuts and keys have nothing to do with what is saved, so a
constraint of the run (`SettingsAlone`) has the Settings threads only where no module wants a
shortcut or a key and none is pressed, until the file is the user's choice again. There is no liveness here: every handler ends, as its loops are over
the modules. The proofs hold for any number of each.

## 6. The Settings window and the tray icon

### Modules

* `SettingsWindow` is `settings_window.cpp`. A launch is a thread that goes through
  `run_settings_window` step by step: it reads the settings, saves them,
  creates the process, publishes the ipc under the mutex, records the process, waits for
  it to exit, takes the mutex, ends the ipc, gives the mutex back and clears what it
  recorded. `open_settings_window` runs on the main thread and on a click's thread
  and is split where it tests and then uses something. The main thread's
  `dispatch_received_json` applies, takes the mutex, answers.
* `TrayIcon` is `tray_icon.cpp` with the message loop: the queue of the main thread,
  clicks and double clicks, the thread that waits to tell them apart, the Settings
  and Exit commands, work posted by other threads.

An ipc object is named by the launch that made it. An opener that uses
`current_settings_ipc` without the mutex after it was deleted may crash the runner
(`runner = "crashed"`). `end()` waits for the callback and then returns, or does not
return at all, as `TwoWayPipe` shows (`ExitHangs`): the launch keeps the mutex, and the
main thread, when it next answers Settings, waits for ever. A message in
transit when Settings exits counts as lost; a runner counts as down as soon as its window is
destroyed; malformed JSON is left out; `powertoys` and `action` messages are taken
as one kind that is answered. Opening does nothing when all names in `Launch` are in
use, which is a bound.

### Properties

`AnswersLiveIpc`: what the main thread answers to, under the mutex, has not been
deleted, however many launches overlap. `Reopenable`: when every launch, click and
message is over, nothing keeps the window from being opened, unless a launch has
failed to create its process (`g_isLaunchInProgress` then stays set).
`MainReturns`: the mutex held across `end()`, which waits for the callback, does not
stop the main thread, because the callback only posts. `ClosedWindowIsForgotten`
is the end of every launch. Both have one exception, an `end()` that never returns
(`pc[l] = "hung"`): that this can happen is the finding of `pipe_end`, and then the main thread
may indeed hang and the closed window stays recorded. `Reopenable` says nothing then,
as the launch is not over.

Known and not claimed: two launches may overlap, as the flag is tested by one thread
and set by another, and then two Settings processes run; that a launch saves a copy of
the settings it read before, over what the main thread may have saved meanwhile, is
section 5's.

### Fairness and bounds

Weak fairness for the main thread, a click's threads, each launch and each callback;
none for the user and for the Settings process. Two launches, one click thread and one
waiting message: every pair of threads meets. The settings have one value, as no
property tells them apart. The proofs hold for any number of each.

## 7. Keyboard Manager's engine

### Modules

* `Shortcut` is `common/Shortcut.cpp` and the helpers that make key events: what
  matches the keyboard's state, which modifiers two shortcuts share, which events
  press or release them.
* `KeyboardManagerEngine` is the hook. One action is one call of it. What a handler
  sends with `SendInput` is hooked event by event before the system sees the
  event the handler is at, so `pending` is a stack. `keys` is what the system takes
  to be down, `physical` what the user holds.

* `KeysExplained` says why a key is down (section 10); it models no code.

What a table may hold is what the editor saves (`ConfigAssumption`): a source is a key or a
valid shortcut, with a modifier and an action key (`IsValidShortcut`), a target is a
key or a valid shortcut; `ApplyShortcutRemappings` and `ApplySingleKeyRemappings` skip the
rest. `GoesDown` and `GoesUp` are the two conditions of `SetModifierKeyEvents`, for each family of
modifiers, and `ModifierKeysDown` and `ModifierKeysUp` send the events in the code's two orders.

The system's view of the keyboard is that of the tests' `MockedInput`. Caps Lock and
Num Lock, whose extra events the hook handles itself, are left out, and so are two
Windows keys held at once. Settings are reloaded and the editor is opened only
while no key is held and none is stuck: reloading forgets what is invoked, and
with keys held it does leave modifiers down.

### Properties

`NoRemapLeft` and `OnlyActionKeyStuck`: once the user holds no key, no remapping is
under way and nothing is down for the system. The exception is in the name. With
Ctrl+A remapped to Alt+B, A pressed while Ctrl and another key are held is passed
on, as the shortcut is not exact; the other key is released, A repeats, and the
shortcut is invoked; the release of A is then swallowed
(`KeyboardEventHandlers.cpp:464`), so A stays down for the system. Beyond that both hold for
the tables of `MCKeyboard` and, by proof, for all tables that are `Plain`. Outside those
they fail. TLC finds four ways with such a table in `Config`, against what
`doc/devdocs/modules/keyboardmanager/keyboardeventhandlers.md` and the comment at
`KeyboardEventHandlers.cpp:321` ("reset the keyboard back to the state of the keys actually
being pressed down") say:

* Alt+A to Ctrl+B and Alt+B to the key X: Alt down, A down and up, B down and up, Alt up,
  and X is still down. Case 5 takes over to a shortcut that is remapped to a
  key, presses the key (line 590) and does not set `isShortcutInvoked` (line 612), so
  that no later case concerns the key.
* Win+A to Ctrl+B and Win+B to Ctrl+A, with the right Windows key: hold it, A, B, then press
  another key, and the left Windows key is still down when all are released. When case 5 takes
  over the Windows key is released, so that lines 616 to 623 find neither side down.
* A to X, X to Y and Ctrl+B to Alt+A: with Ctrl+B invoked press A, and Y is still
  down when all are released. Case 5 sends X again without a flag (line 660), which is
  remapped a second time; its release is not.
* in one application Ctrl+A to Alt+B and Ctrl+B to Alt+A: with Ctrl+B invoked move the
  focus, then press A. Case 5 forgets the application whose shortcut it has just
  invoked (lines 672 to 675), so that no later event concerns it: Ctrl+A stays invoked, Alt and B
  down.

`EveryKeyExplained` (in `KeysExplained`) is why the two hold: at every moment each key that
will be down when the pending events have been seen has its reason. It is the inductive
invariant of section 10, and part of the run.

`OneRemapAtATime` (in `KeysExplained`): one shortcut at a time, though the focus moves
meanwhile, under tables that are `Plain` or have shortcuts of the system only.
`OneRemapInvoked` says it of all tables, as `keyboardeventhandlers.md:25` does, and fails
(`keyboard_two_tables`): with Ctrl+A to Ctrl+B for the system and Ctrl+B to A for an application
both are invoked at once, since one table only is asked whether a shortcut is.
The last of the four ways above also contradicts `keyboardeventhandlers.md:61`.
`EventsFit`: each case allocates its array from sizes it computes and fills it
elsewhere; it is never overrun. `MenuOnlyWhenTapped`: the system sees a lone tap of Alt or Windows only if the user
made one. That depends on the keyboard: with Ctrl+A to the key B, hold left Ctrl and A, press
left Alt, press and hold right Ctrl, release Alt, and the system sees Alt tapped, because case 4
swallows the right Ctrl. `Settles`: what the
handlers send comes to an end, though it goes through the hook again.

### Fairness and bounds

Weak fairness of the hook. Eighteen tables (`MCKeyboard`), fifteen of them `Plain`, cover the kinds of remappings:
key to key, key to shortcut, shortcut to key, to shortcut and to nothing, shared
and disjoint modifiers, shortcuts of the system, of one application and of two, targets
that are sources of others. The tables in which the properties fail are named above. Five keys: three modifiers and two others, each pressed, held and
released at any time.

## 8. PowerRename

### Module

`PowerRenameManager` has three threads. The window's thread (`ui` is the stack of
what it is doing) changes the criteria, which calls back `_PerformRegExRename`: cancel
the worker, wait for it, create another, signal it. The regex worker goes through the
items, testing the cancel event before each, and posts that it is complete
whether it is or was cancelled. Rename waits for that worker, creates the file
operation's worker and pumps messages until it has exited; that one goes from the
deepest items up, queues a rename for each, rewrites the list at once if the
window is to stay open, and then performs the queue. `path`, `original` and
`newName` are the list; `disk` is what the items are called in truth.

Names matter. `Originally` and `Replaced` are constants: what each item is called, and
what criteria make of each name. Two files of a folder never have one name on disk. A
path leads to whichever item has it now (`At`), so that one queued for an item could
rename another, or nothing. The operations are performed with `FOF_RENAMEONCOLLISION`
(`PowerRenameManager.cpp:16`), so `Perform` has three outcomes: the system renames the
file to the new name; it gives the file any other free name because one beside it has the
new name (`collided`); it refuses (`refused`, which also stands for a file in the
way that is not in the list). Nobody looks at the result.

`_PerformRegExRename` enters the critical section and never leaves it. The window's
thread may enter again, the worker, which calls the manager back when a name is made
from a file's time, may not: had it been the first to enter, or were the section left, it
would cancel and wait for itself (`regEx.pc = "stuck"`).

The criteria are abstract values: each has its entry in `Replaced`, is empty, uses
the file's time, or is no regular expression. A file whose time cannot be read fails as
a malformed term does (`RegExThrows`). Calls on an item are whole, although
the item's lock is shared even in its writers (`PowerRenameItem.cpp:125`). DoRename's
several reads of the criteria are one step. What was selected is taken to be in one
folder, and no other program moves what is listed. Left out:
selection and filters of the list, its enumeration, threads that cannot be created,
the recently used terms.

### Properties

`PreviewFollowsCriteria`, `ButtonFollowsCount`: whatever is typed while workers run,
in the end the list shows what the criteria make of the names, and the button is
enabled if there is something to rename. The exceptions are a worker that failed and
one that took its predecessor's cancellation for its own: the cancel event is reset
after the new thread has been created, and the event it waits for was set long
before. `ListFollowsDisk`: while the window stays open its list has every item
where it is on disk; not so once a rename was refused or has collided, for the list was
rewritten before and is not told. `RenamesAsPromised`: if the user does not type
meanwhile, each item gets the name shown when Rename was pressed. That is claimed
where each can be given its name in the order of the list (`Compatible`): no two items of
a folder get one name, and an item gets one that another has only if that other is renamed
before. Elsewhere the system gives some item a name nobody was shown, which is what
`FOF_RENAMEONCOLLISION` asks for. `WindowAnswers`: the window's
thread comes back from everything it does. `FailureResetsNames` is what a comment
in `DoRename` says of a search term that is no regular expression, and fails
(`rename_reset`).

What the user types while a rename goes on starts a regex worker beside the file
operation's. A new name may then be taken back between its test and its use, which
ends the program (`window = "crashed"`): in the model, and claimed nowhere
(`FileOpTakes` has the three ways an item is dealt with: passed over, queued, or that one).

### Fairness and bounds

Weak fairness of the window's thread and of both workers, none of the user. Three
items (a folder, what is in it, and one beside it) tell apart depth order, list order
and the paths of children; two changes and one rename (`MaxChanges`, `MaxRenames`) let
a change meet a worker that replaces another while files are renamed. There are
three names. "plain" criteria turn them around, so that an item gets the name that the
item before it gives away, or that an item after it still has; "dated" criteria give
both items of a folder one name. Without `WindowAnswers` two renames, one after the other,
were checked as well (12.5 million states). Rename is not pressed again while messages are pumped for the first press, though
the loop would dispatch that message too: a bound of the model (`PressRename`).

## 9. Runs

| run | expects | distinct states | question |
|---|---|---|---|
| `update_concurrent` | pass | 652,131 | worker, manual check and updater over one file, dying anywhere |
| `update_check_ends` | pass | 30,062 | a manual check ends |
| `update_installed` | pass | 44,603 | the latest release gets installed; a lone worker keeps its installer |
| `pipe_channel` | pass | 102,248 | the two ends implement the channel; no lost wake-up |
| `pipe_end` | violation | | `end()` may never return |
| `modules_hotkeys` | pass | 2,636,689 | hotkeys, settings and long presses agree; modules run as saved, whoever saves and whenever the runner dies |
| `settings_window` | pass | 3,639,720 | overlapping launches, clicks and messages |
| `settings_live` | pass | 166,814 | the main thread returns, a closed window is forgotten, unless `end()` never returns |
| `keyboard_remap` | pass | 279,212 | remappings under any order of keys; every key that is down has its reason |
| `keyboard_two_tables` | violation | | a shortcut of the system and one of an application are invoked at once |
| `rename_preview` | pass | 732,519 | preview, list, button and disk agree; renames give the promised names; the window's thread comes back |
| `rename_reset` | violation | | a failed worker leaves older names |

Deadlock is not checked: in each system everything may legitimately come to rest
(all processes off, both ends ended, nothing published any more, nothing typed).
Every property of a passing run has a mutant in `PROJECT.json`, a plausible slip in
one mapped definition (operators named `Mut...`) that makes TLC find it violated.

The findings, each with the line it contradicts, are in `PROJECT.json`.

## 10. Proofs

`UpdateProofs` proves, for any sets of threads and updaters, any number of releases
and of download attempts:

| theorem | statement |
|---|---|
| `TypeCorrect` | `Spec => []TypeOK` |
| `StateFileSound` | `Spec => []RecordedStateIsSound` |
| `UpdaterHandsNewer` | `Spec => []HandedInstallerIsNewer` |
| `MutexExcludes` | `Spec => []WritersHoldMutex` |
| `ResetsAreForced` | `Spec => ResetsOnlyWhatIsLost` |
| `WorkerKeepsWhatIsReady` | `Spec => []CleanupRemovesOnlyOld`, with one worker and no manual checks |

Assumptions on the constants: there is at least one version and one attempt,
`NoProc` and `Abandoned` are no processes, and the kinds of processes are disjoint and together
all of them.

`RecordedStateIsSound` is not inductive: a check stores what it remembers, so that
what every process remembers must be sound too (`MemoryIsSound`); it remembers a
download target, which must be newer than the version that runs
(`TargetIsNewer`); both survive because only released versions are ever named
(`AllReleased`), and an upgrade changes the version only of processes that are
off and remember nothing (`OffIsBlank`). The conjunction `SoundnessInv` is inductive
relative to `TypeOK`. The proof goes action by action: `ReadSound` and `StoreSound`
treat the shared operations, `LocalStep` the steps that leave the file alone, and
`CheckerSound` and `UpdaterSound` the two kinds of processes. `WritersHoldMutex` is
inductive as it stands. `ResetsOnlyWhatIsLost` needs `TornIsHeld`: a torn file is under
a mutex that somebody holds or that a dead holder abandoned, never under one that was
let go, because a thread gives the mutex up only past both steps of its write.
`CleanupRemovesOnlyOld` spans the day the worker sleeps between reading the file and
asking GitHub. `CleanupInv` adds that the file, if it records an installer as ready,
still records the one the worker remembers (`CheckerRemembers`), which is so because
nobody else stores such a state: updaters only final ones (`UpdatersRecordNone`), the
other threads only resets. A second checker breaks it, hence the theorem's hypotheses;
the code has one worker, and manual checks are the user's choice.

`PipeProofs` proves, for any texts and either of the two kinds of faults:

| theorem | statement |
|---|---|
| `PipeTyped` | `Spec => []TypeOK` |
| `PipeIsChannel` | `Spec => ImplementsChannel` |

The second is the refinement: every step of the two programs, their threads and
`end()` is a step of `MessageChannel` or leaves the channel alone. What maps to the
channel is the set of messages on their way, so the proof needs that a message is never in
two places: otherwise it would be delivered twice, or be lost and still arrive.
`PipeInv` says so. `AtOnePlace` lists the places (not sent, output queue, the thread that
opens or writes, a pipe instance, a detached thread before and after its read, input
queue, input thread) and which exclude each other; a connection may outlast
its message, hence the two forms `Waiting` and `WaitingWritten`. `Single` says
that it is in such a place once, `TextsOnly` that only what was sent is there, and `EndInv`
that `end()` has joined the input thread before it returns, so that nothing is
delivered afterwards. For each action one lemma shows what it does to the
places (`NothingNew` for those that move nothing) and one what step of the channel it is.

`ModulesProofs` proves, for any modules, shortcuts, hotkeys, keys and group policies:

| theorem | statement |
|---|---|
| `ModulesTyped` | `Spec => []TypeOK` |
| `ModulesInvariant` | `Spec => []ModulesInv` |
| `RegistryIsRight` | `Spec => []RegistryFollowsModules` |
| `NothingIsLeaked` | `Spec => []NothingLeaked` |
| `SharedShortcutIsKept` | `Spec => SharedShortcutKept` |
| `HookIsRight` | `Spec => []HookFollowsConfig` |
| `ModulesRunAsSaved` | `Spec => []RunsAsSaved` |
| `LongPressIsHeld` | `Spec => LongPressMeansHeld` |

Assumptions: `NoShortcut` is no shortcut, `VK_DISABLED` no key, the Windows keys are keys,
a policy is one of three things. That a module which tracks long presses has no
shortcut is part of what a configuration is (`Config`).

`RegistryInv` states `RegistryFollowsModules` with sets: no list names a module
twice (`Unique`), and its range is the enabled modules that want the shortcut. `RemoveFacts` and
`AppendFacts` say what taking the first occurrence away and appending do to such a
list, `UnregisterFacts` and `AddFacts` lift this to the two operations of
`CentralizedHotkeys`, and `RegistryUpdated` to `UpdateHotkeyEx`, which is the last thing
every handler calls (`Updates`, `UpdateSteps`); `SharedShortcutKept` follows from it, as a shortcut
that was registered is free to be registered again (`taken` in `TypeOK`).
`HookFollowsConfig` is inductive with the types. `RunsAsSaved` is not: half-way
through a loop the modules agree neither with what was saved nor with what was chosen.
`ChoiceInv` says of the modules that are `pending` that they are not as they shall be, and of
the others that they are, and `PhaseInv` that nothing is enabled before; `FreshInv` says what a
Settings thread has noted that began when the modules ran as last chosen, so that its
save changes nothing. `UndisturbedInv` is what
`LongPressMeansHeld` needs: the key of an undisturbed timer is down, or its module is
disabled, because the release of a key with descriptors is only missed in phases
in which nothing that tracks it is enabled; and starting a module that tracks adds a
descriptor (`PressedInv`), which disturbs the timer.

`EngineProofs` proves, for any tables the editor may save and any keyboard:

| theorem | statement |
|---|---|
| `EngineInvariant` | `Spec => []EngineInv` |
| `KeyboardTyped` | `Spec => []TypeOK` |
| `EventsAlwaysFit` | `Spec => []EventsFit` |
| `OneShortcutOfATable` | `Spec => []OneInTable` |
| `OneRemapOfTheSystem` | `Spec => [](DOMAIN config.shortcuts \subseteq {OSLevel} => OneRemapInvoked)` |

Assumptions: `ConfigAssumption` (section 7), the physical keys are virtual keys, and
neither a key nor `VK_DISABLED` is `NoKey`. The condition of the last theorem is needed (`keyboard_two_tables`). What holds
with any tables is `OneInTable`, at most one in each.

`EventsFit` is about sizes that the code computes and events that it counts elsewhere.
`DownCounted` and `UpCounted` say that as many events are sent as there are families
of modifiers for which `GoesDown` or `GoesUp` holds; `FamiliesCounted` turns
that into a sum over the four. Seven lemmas bound the count by the size of a
shortcut: all its modifiers (`DownAll`, `UpAll`), those another does not have
(`DownApart`, `UpApart`), and one fewer or one more for the modifier that the user has
released (`DownButReleased`, `DownApartButReleased`, `UpAndReleased`). That last
difference is why case 1 allocates by whether the released key is a modifier of the
target too. Each handler then has a lemma that adds its parts up (`...Fits`) and one for
the rest of the invariant (`...Keeps`). `OneInTable` is inductive with the types:
a shortcut is found pressed only when none of its table is invoked (`PressedAlone`), and
`NextShortcut` sets one and resets the only other.

`KeysProofs` and `HandlerProofs` prove what is left down, for any keyboard and any set of
tables the editor may save, which may replace each other in any order:

| theorem | statement |
|---|---|
| `ActivatedAppHasShortcut` | `Spec => []ActivatedIsInvoked` |
| `KeysAlwaysExplained` | `Spec /\ []OneHeldIfPlain => []EveryKeyExplained` |
| `NoRemapIsLeft` | `Spec /\ []OneHeldIfPlain => [](PlainTables => NoRemapLeft)` |
| `OnlyActionKeysStick` | `Spec /\ []OneHeldIfPlain => [](PlainTables /\ OrphansAreActionKeys(config) => OnlyActionKeyStuck)` |
| `OneRemapAmongApplications` | `Spec /\ []OneHeldIfPlain => []OneRemapAtATime` |

`PlainTables` says that the table in use is `Plain` (or that none is, while the settings are
loaded); `EveryKeyExplained` is `PlainTables => KeysInv` with the two facts that hold whatever
the tables: the repeating key is held, and `activatedApp` has a shortcut invoked. Those two facts are why a plain
table that follows one that is not finds nothing under way (`PlainStep`). The conditions, each with what
happens without it (the four cases are those of section 7):

* `PlainKeys`: a key is remapped to a key or to nothing, not to a shortcut, whose
  keys the argument does not follow. Where a target is remapped too, neither it nor
  its own target is a modifier (the third case).
* `PlainShortcuts`: applications have shortcuts only if the system has none, since the
  two tables do not know of each other (`keyboard_two_tables`). Where a
  shortcut takes over from another of the same modifiers, the table is the system's
  (the fourth case), the side of the Windows key is not left open (the second), and the
  key it is remapped to, if it is one, is no modifier (the first).
* `OrphansAreActionKeys`: the keys that a chain or a takeover leaves behind are among those that
  `OnlyActionKeyStuck` excuses. Without chains and takeovers to a key there are none.
* `OneHeldIfPlain`: while the table is plain the user does not hold two keys of one modifier,
  such as both Ctrl keys. The
  handlers release and press Ctrl as one key, so that the other key's Ctrl
  is gone or left over.

Neither property says anything of a moment at which keys are held, hence `KeysInv`. It looks
at what will be down when the hook has seen all that is pending (`Final`) and gives
each such key a reason (`Explained`): the user holds a key that stands for it and no
invoked shortcut has released it (`Hides`); it is part of what an invoked shortcut has
pressed (`KeysOf`); or it is one of those the handlers leave behind (`Left`). And an
invoked shortcut has its modifiers held (`HeldFor`), so none is invoked when nothing
is held. `EventsInOrder` is why this survives re-entrance: all but the last of the
pending events are the handlers' own and pass through, and the last is of a
key the user holds or has just let go of; `AppsInOrder` keeps `activatedApp` with the table
whose shortcut is invoked.

`KeysProofs` treats the events: what each sequence of key events does to the keys that
are down (`SendSent`, `TwoSent`, `FourSent`, `UpSent`, `DownSent`), so that a handler is
one set expression. `HandlerProofs` has one lemma for each action (`...Explained`). The
hard ones are case 1 (`ModifierOfShortcutReleased`), where the modifiers pressed again must
be those still held, and case 5, where the second shortcut inherits what the first has
released (`NextFacts`, `AfterNext`) or the current key is sent again (`SeenAgain`).

`SettingsProofs` proves, for any sets of launches, click threads and settings and
any number of waiting messages:

| theorem | statement |
|---|---|
| `SettingsTyped` | `Spec => []TypeOK` |
| `SettingsInvariant` | `Spec => []IInv` |
| `SettingsAnswersLiveIpc` | `Spec => []AnswersLiveIpc` |
| `SettingsReopenable` | `Spec => []Reopenable` |

Neither property is inductive. `IInv` adds to `TypeOK`: who is in a section holds the
mutex and a held mutex has a holder in one (`HoldersHoldMutex`, `MutexIsHeld`), the current ipc is
one that exists (`CurrentIpcExists`), so that the main thread, which found it under
the mutex, still finds it there; a recorded process belongs to a launch that is not
over (`RecordedAreLaunched`), a set flag has a launch on its way or a failed one
for its cause (`FlagHasCause`), and the double-click flag has its thread
(`TimerHasThread`), so that nothing is left when all is over. There is one lemma
per action, and in each one step per conjunct that the action can disturb.

`RenameProofs` proves, for any number of items, any tree of folders, any criteria
and any number of changes and renames:

| theorem | statement |
|---|---|
| `RenameTyped` | `Spec => []TypeOK` |
| `PreviewIsRight` | `Spec => []PreviewFollowsCriteria` |
| `ButtonIsRight` | `Spec => []ButtonFollowsCount` |
| `ListIsRight` | `Spec => []ListFollowsDisk` |
| `RenamesAreAsPromised` | `Spec => []RenamesAsPromised` |

Assumptions: items are listed in the order of a walk through the tree, so that each is at
most one level deeper than the one before; the empty search term uses no file's time and
is no malformed expression; two items of a folder have two names at first.

The invariant, `RenameInv`, follows what the window's thread still has to do.
`CallsInv` says in which order calls can be on its stack, hence that the critical section is
left by nobody (`SectionHeld`) and `HandOver` that the file operation's worker is only created
where there is no regex worker left. Once no other regex worker is to come (`Last`), what the
worker has passed is right (`PreviewInv`), and the button agrees with the count when
nothing is posted (`ButtonInv`). For the disk: an item has one operation in the queue, and the
worker goes from the deepest up (`QueueInv`), a path in the list is made of the
names in the list (`PathInv`), and the list is ahead of the disk exactly by what is queued
(`ListInv`). That a queued path still leads to its own item (`FromInv`) rests on two facts:
what is in a folder is renamed before the folder, and two items of a folder have two
names (`DiskInv`), so that a path leads to one item (lemma `OnePlace`). `PromiseInv` follows
a promised name from the list into the queue and onto the disk. `ClashInv` says why nobody
stands in the way: only what was promised is queued, no two items of a folder were
promised one name, and who has a name that is promised to another is still to be
renamed, and earlier; so that a rename that promised anything never collides
(`NoClashInv`). The exceptions are those of the properties: a refused rename, a
collision (for the list only), a window about to close, what the user types meanwhile.

Every one of these invariants was first checked by TLC on the instance of the
component's run.

Only model-checked: all liveness (the prover has no rules for fairness), namely
`ManualCheckEnds`, `UpdateGetsInstalled`, `ReceivedGetsDispatched`, `EndPassesQueues`, `MainReturns`,
`ClosedWindowIsForgotten`, `Settles` and `WindowAnswers`; of section 7 `MenuOnlyWhenTapped`, which needs
the converse of `KeysInv` as well (each modifier the user holds is down unless a shortcut hides
it, which a takeover to a key breaks); and `NoRemapLeft` and `OnlyActionKeyStuck`
under the tables of the run that are not `Plain`: a key remapped to a shortcut,
tables of the system and of an application together, a takeover from a shortcut of any
Windows key.

## 11. What is not modelled

* Restarts with changed elevation, file watchers, Quick Accent, Awake, PowerToys Run,
  FancyZones and Always on Top: planned, section 2.
* The Keyboard Manager's editor, mouse utilities and the Hosts File Editor: user
  interface over one file or one gesture; later, if at all.
* JavaScript: the repository's own is the registration of a few languages with the
  Monaco editor (`monacoSpecialLanguages.js`, `customLanguages/`), tables without
  state; the rest under `Assets/Monaco` is the vendored editor.
* Mouse Without Borders: a network protocol too large to model faithfully beside the
  rest. Video Conference Mute: its state is in drivers and other processes.
* The start-up task, the action runner, bug reports, telemetry, File Locksmith, Image
  Resizer: calls to the system or loops over independent files, without state that
  an order of events could spoil.
* Color Picker, Crop and Lock, Measure Tool, Peek, preview handlers, Registry
  Preview, Text Extractor, Paste as Plain Text, the Shortcut Guide overlay: drawing
  and file formats.
* The installer: that it replaces the version and ends running processes is an
  assumption of `PowerToysUpdate`.
