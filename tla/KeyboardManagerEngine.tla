------------------------- MODULE KeyboardManagerEngine -------------------------
(* The keyboard hook of the Keyboard Manager's engine: KeyboardManager.cpp,    *)
(* KeyboardEventHandlers.cpp and State.cpp of KeyboardManagerEngineLibrary.    *)
(* An action is one call of the hook.  What a handler sends with SendInput     *)
(* goes through the hook, event by event, before the system sees the event the *)
(* handler is at: `pending' is the stack of what is still to be hooked.  The   *)
(* system's view of the keyboard is that of the tests' MockedInput.            *)
EXTENDS Shortcut, TLC

CONSTANTS
  OSLevel,          \* the table of the shortcuts that hold in every application
  App,              \* applications; one that has no table has no shortcuts
  NoActivatedApp,
  VK_DISABLED,      \* the target of a key or a shortcut that is disabled
  Config,           \* the remappings a user may have saved
  PhysicalKey       \* the keys of the keyboard

(* What the editor saves: remappings of a key or of a valid shortcut, which   *)
(* has a modifier and an action key, to one or the other.  A target is a key, *)
(* or a shortcut when its key is NoKey.                                       *)
TargetType == [key : VirtualKey \cup {VK_DISABLED}, shortcut : {EmptyShortcut}]
                  \cup [key : {NoKey}, shortcut : ValidShortcut]
ASSUME ConfigAssumption ==
    \A c \in Config :
        /\ \A k \in DOMAIN c.keys : c.keys[k] \in TargetType
        /\ \A a \in DOMAIN c.shortcuts : \A s \in DOMAIN c.shortcuts[a] :
              s \in ValidShortcut /\ c.shortcuts[a][s] \in TargetType
ASSUME KeysAssumption ==
    /\ PhysicalKey \subseteq VirtualKey /\ NoKey \notin VirtualKey \cup {VK_DISABLED}
    /\ VK_DISABLED \notin VirtualKey /\ NoActivatedApp \notin App

VARIABLES
  config,           \* singleKeyReMap, and osLevelShortcutReMap with appSpecificShortcutReMap
  remaps,           \* what a RemapShortcut keeps beside its target
  activatedApp,     \* activatedAppSpecificShortcutTarget
  foreground,       \* the application that has the focus
  loadingSettings, editorIsRunning,
  keys,             \* the keys that are down for the system
  physical, last,   \* the keys the user holds, and the one that repeats
  pending,          \* the events the hook is still to be called for
  spare,            \* entries of the array of the last SendInput that were not filled
  alone             \* keys pressed with nothing after: by the user, for the system

tables == <<config, remaps, activatedApp>>
flags  == <<foreground, loadingSettings, editorIsRunning>>
user   == <<physical, last>>
vars   == <<tables, flags, keys, user, pending, spare, alone>>

NotInvoked == [isShortcutInvoked |-> FALSE, winKeyInvoked |-> "Disabled",
               isOriginalActionKeyPressed |-> FALSE]

TypeOK ==
    /\ config \in Config
    /\ DOMAIN remaps = DOMAIN config.shortcuts
    /\ \A a \in DOMAIN remaps :
          remaps[a] \in [DOMAIN config.shortcuts[a] ->
                           [isShortcutInvoked : BOOLEAN,
                            winKeyInvoked : {"Disabled", "Left", "Right"},
                            isOriginalActionKeyPressed : BOOLEAN]]
    /\ activatedApp \in App \cup {NoActivatedApp}
    /\ foreground \in App /\ loadingSettings \in BOOLEAN /\ editorIsRunning \in BOOLEAN
    /\ keys \subseteq VirtualKey /\ physical \subseteq PhysicalKey
    /\ last \in PhysicalKey \cup {NoKey}
    /\ \A i \in DOMAIN pending : pending[i].vk \in VirtualKey \cup {VK_DISABLED}

(* ClearOSLevelShortcuts, ClearAppSpecificShortcuts, and what is added to the *)
(* tables: RemapShortcut's constructor.                                       *)
Fresh(c) == [a \in DOMAIN c.shortcuts |-> [s \in DOMAIN c.shortcuts[a] |-> NotInvoked]]

Init ==
    /\ config \in Config
    /\ remaps = Fresh(config)
    /\ activatedApp = NoActivatedApp
    /\ foreground \in App
    /\ loadingSettings = FALSE /\ editorIsRunning = FALSE
    /\ keys = {} /\ physical = {} /\ last = NoKey
    /\ pending = <<>> /\ spare = 0
    /\ alone = [user |-> NoKey, tapped |-> FALSE, system |-> NoKey]

---------------------------------------------------------------------------
(* What the handlers ask.                                                   *)

e == Head(pending)

Target(a, s) == config.shortcuts[a][s]
RemapToKey(t) == t.key # NoKey
Disables(t) == t.key = VK_DISABLED
TargetKey(t) == FilterArtificialKeys(t.key)
IsTargetPressed(t) ==
    IF RemapToKey(t) THEN TargetKey(t) \in keys ELSE t.shortcut.actionKey \in keys

(* CheckShortcutRemapInvoked *)
Invoked(a) == {s \in DOMAIN remaps[a] : remaps[a][s].isShortcutInvoked}

(* The case of HandleShortcutRemapEvent an event is for shortcut s.  What it  *)
(* is no case of, the system gets.                                            *)
Case(a, s) ==
    LET t == Target(a, s)
        modifier == IsModifierOf(s, e.vk)
        reverted == \/ ~RemapToKey(t) \/ Disables(t) \/ ~IsTargetPressed(t)
    IN  IF ~remaps[a][s].isShortcutInvoked
        THEN IF /\ CheckModifiersKeyboardState(s, keys)
                /\ e.vk = s.actionKey /\ ~e.up
                /\ \/ IsKeyboardStateClearExceptShortcut(s, keys)
                   \/ RemapToKey(t) /\ ~Disables(t)
             THEN "pressed" ELSE "none"
        ELSE IF modifier /\ e.up THEN "modifier released"
        ELSE IF ~RemapToKey(t) /\ ~CheckModifiersKeyboardState(t.shortcut, keys) THEN "none"
        ELSE IF e.vk = s.actionKey
             THEN IF e.up THEN "action key released" ELSE "repeated"
        ELSE IF e.up THEN "none"
        ELSE IF modifier THEN "modifier pressed"
        ELSE IF reverted THEN "other key" ELSE "none"

(* The loop over the sorted shortcuts of a table: while one is invoked the    *)
(* others are skipped, and the longest that has a case is taken.              *)
Reacting(a) ==
    {s \in DOMAIN remaps[a] : (Invoked(a) # {} => s \in Invoked(a)) /\ Case(a, s) # "none"}

(* Mutant: the shortcuts of the application that has the focus, always. *)
MutQueriedApp == foreground

(* HandleAppSpecificShortcutRemapEvent: the application whose shortcut is     *)
(* invoked goes before the one that has the focus.                            *)
QueriedApp == IF activatedApp = NoActivatedApp THEN foreground ELSE activatedApp

(* HandleKeyboardHookEvent: which handler returns 1. *)
Suspended == loadingSettings \/ editorIsRunning
MutSingle == ~Suspended /\ e.vk \in DOMAIN config.keys     \* Mutant: ours too
Single == ~Suspended /\ e.flag = "none" /\ e.vk \in DOMAIN config.keys
ByApp  == /\ ~Suspended /\ ~Single /\ e.flag # "shortcut"
          /\ QueriedApp \in DOMAIN remaps /\ Reacting(QueriedApp) # {}
ByOS   == /\ ~Suspended /\ ~Single /\ e.flag # "shortcut" /\ ~ByApp
          /\ Reacting(OSLevel) # {}

Handled(a, s, case) ==
    /\ pending # <<>>
    /\ IF ByApp THEN a = QueriedApp ELSE ByOS /\ a = OSLevel
    /\ s \in Reacting(a) /\ \A x \in Reacting(a) : Size(x) <= Size(s)
    /\ Case(a, s) = case

---------------------------------------------------------------------------
(* What the handlers do.                                                    *)

(* SendVirtualInput of the events, in an array of `allocated' entries. *)
Sends(allocated, events) ==
    /\ pending' = events \o Tail(pending)
    /\ spare' = allocated - Len(events)

Swallows == Sends(0, <<>>)

Send(k, up) == SetKeyEvent(k, up, "shortcut")
Extra(condition) == IF condition THEN 1 ELSE 0
MutDummy == <<>>                                           \* Mutant: none is sent
Dummy == SetDummyKeyEvent("shortcut")
Up(s, win, compare, released) == ModifierKeysUp(s, win, "shortcut", compare, released)
Down(s, win, compare, released) == ModifierKeysDown(s, win, "shortcut", compare, released)

(* Mutant: the side that the shortcut asks for. *)
MutWinKey(default) == IF <<"win", "Left">> \in keys THEN "Both" ELSE default

(* Which Windows key was pressed. *)
WinKey(default) == IF <<"win", "Right">> \in keys THEN "Right"
                   ELSE IF <<"win", "Left">> \in keys THEN "Left" ELSE default

Activate(a) == activatedApp' = IF a = OSLevel THEN activatedApp ELSE a
Deactivate(a) == activatedApp' = IF a = OSLevel THEN activatedApp ELSE NoActivatedApp
MutReset(a, s) == remaps' = [remaps EXCEPT ![a][s].winKeyInvoked = "Disabled"]
Reset(a, s) == remaps' = [remaps EXCEPT ![a][s] = NotInvoked]

KeepRest == UNCHANGED <<config, flags, keys, user, alone>>

(* HandleSingleKeyRemapEvent *)
RemapSingleKey ==
    /\ pending # <<>> /\ Single
    /\ LET t == config.keys[e.vk]
           sc == t.shortcut
           action == SetKeyEvent(sc.actionKey, e.up, "single key")
       IN  CASE Disables(t) -> Swallows
             [] RemapToKey(t) /\ ~Disables(t) ->
                  Sends(1, SetKeyEvent(TargetKey(t), e.up, "single key"))
             [] ~RemapToKey(t) ->
                  Sends(Size(sc),
                        IF e.up
                        THEN action \o ModifierKeysUp(sc, "Disabled", "single key", EmptyShortcut, NoKey)
                        ELSE ModifierKeysDown(sc, "Disabled", "single key", EmptyShortcut, NoKey) \o action)
    /\ UNCHANGED <<remaps, activatedApp>> /\ KeepRest

(* The shortcut is pressed. *)
ShortcutToShortcut(a, s) ==
    /\ Handled(a, s, "pressed") /\ ~RemapToKey(Target(a, s))
    /\ LET t == Target(a, s).shortcut
           win == WinKey(remaps[a][s].winKeyInvoked)
           common == GetCommonModifiersCount(s, t)
           new == Down(t, win, s, NoKey) \o Send(t.actionKey, FALSE)
       IN  /\ IF common = Size(s) - 1
              THEN Sends(Size(t) - common, new)
              ELSE Sends(2 + (Size(s) - 1) + Size(t) - 2 * common,
                         Dummy \o Up(s, win, t, NoKey) \o new)
           /\ remaps' = [remaps EXCEPT ![a][s].isShortcutInvoked = TRUE, ![a][s].winKeyInvoked = win]
    /\ Activate(a) /\ KeepRest

ShortcutToKey(a, s) ==
    /\ Handled(a, s, "pressed") /\ RemapToKey(Target(a, s))
    /\ LET t == Target(a, s)
           win == WinKey(remaps[a][s].winKeyInvoked)
       IN  /\ Sends(2 + (Size(s) - 1) + Extra(~Disables(t)),
                    Dummy \o Up(s, win, EmptyShortcut, NoKey)
                          \o Optional(~Disables(t), Send(TargetKey(t), FALSE)))
           /\ remaps' = [remaps EXCEPT ![a][s] =
                           [isShortcutInvoked |-> TRUE, winKeyInvoked |-> win,
                            isOriginalActionKeyPressed |-> Disables(t) \/ @.isOriginalActionKeyPressed]]
    /\ Activate(a) /\ KeepRest

(* Case 1: a modifier of the shortcut goes up before the action key. *)
ModifierReleased(a, s) ==
    /\ Handled(a, s, "modifier released")
    /\ LET t == Target(a, s)
           sc == t.shortcut
           win == remaps[a][s].winKeyInvoked
           common == GetCommonModifiersCount(s, sc)
           pressed == IsTargetPressed(t) /\ ~Disables(t)
       IN  IF RemapToKey(t)
           THEN Sends(Size(s) - 1 + 2 + Extra(pressed) - 1,
                      Optional(pressed, Send(TargetKey(t), TRUE))
                      \o Down(s, win, EmptyShortcut, e.vk) \o Dummy)
           ELSE Sends((IF IsModifierOf(sc, e.vk)
                       THEN (Size(sc) - common) + (Size(s) - 1 - common)
                       ELSE (Size(sc) - 1) + (Size(s) - 2) - 2 * common) + 2 + Extra(pressed),
                      Optional(pressed, Send(sc.actionKey, TRUE))
                      \o Up(sc, win, s, e.vk) \o Down(s, win, sc, e.vk) \o Dummy)
    /\ Reset(a, s) /\ Deactivate(a) /\ KeepRest

(* Case 2: the keyboard repeats the action key. *)
ActionKeyRepeated(a, s) ==
    /\ Handled(a, s, "repeated")
    /\ LET t == Target(a, s)
       IN  IF Disables(t)
           THEN Swallows /\ remaps' = [remaps EXCEPT ![a][s].isOriginalActionKeyPressed = TRUE]
           ELSE /\ Sends(1, Send(IF RemapToKey(t) THEN TargetKey(t) ELSE t.shortcut.actionKey, FALSE))
                /\ UNCHANGED remaps
    /\ UNCHANGED activatedApp /\ KeepRest

(* Case 3: the action key goes up.  A key target goes up with it; unless the  *)
(* keyboard is clear but for that key, the remapping is over.                 *)
ActionKeyReleased(a, s) ==
    /\ Handled(a, s, "action key released")
    /\ LET t == Target(a, s)
           r == remaps[a][s]
           target == IF TargetKey(t) \in Modifiers THEN SetKeyCodes({TargetKey(t)}, NoKey)
                                                   ELSE SetKeyCodes({}, TargetKey(t))
       IN  CASE Disables(t) ->
                  /\ Swallows
                  /\ remaps' = [remaps EXCEPT ![a][s].isOriginalActionKeyPressed = FALSE]
                  /\ UNCHANGED activatedApp
             [] ~RemapToKey(t) ->
                  Sends(1, Send(t.shortcut.actionKey, TRUE)) /\ UNCHANGED <<remaps, activatedApp>>
             [] RemapToKey(t) /\ ~Disables(t) /\ IsKeyboardStateClearExceptShortcut(target, keys) ->
                  Sends(1, Send(TargetKey(t), TRUE)) /\ UNCHANGED <<remaps, activatedApp>>
             [] RemapToKey(t) /\ ~Disables(t) /\ ~IsKeyboardStateClearExceptShortcut(target, keys) ->
                  /\ Sends(1 + (Size(s) - 1) + 2,
                           Send(TargetKey(t), TRUE) \o Down(s, r.winKeyInvoked, EmptyShortcut, NoKey) \o Dummy)
                  /\ Reset(a, s)
                  /\ activatedApp' = NoActivatedApp
    /\ KeepRest

(* Case 4: a modifier of the shortcut goes down once more. *)
ModifierPressed(a, s) ==
    /\ Handled(a, s, "modifier pressed")
    /\ Swallows
    /\ UNCHANGED <<remaps, activatedApp>> /\ KeepRest

(* Case 5: another key goes down.  With the modifiers of the shortcut it may  *)
(* be a shortcut of the same table, which then takes over.                    *)
With(s) == [s EXCEPT !.actionKey = e.vk]

NextShortcut(a, s) ==
    /\ Handled(a, s, "other key") /\ ~RemapToKey(Target(a, s))
    /\ With(s) \in DOMAIN remaps[a]
    /\ LET from == Target(a, s).shortcut
           t == Target(a, With(s))
           to == t.shortcut
           pressed == from.actionKey \in keys
           win == remaps[a][s].winKeyInvoked
           lastUp == Optional(pressed, Send(from.actionKey, TRUE))
       IN  /\ IF RemapToKey(t)
              THEN Sends(Size(from) - 1 + 1 + Extra(pressed),
                         Up(from, win, EmptyShortcut, NoKey) \o lastUp \o Send(t.key, FALSE))
              ELSE Sends((Size(from) - 1) + (Size(to) - 1) - 2 * GetCommonModifiersCount(from, to)
                           + 1 + Extra(pressed),
                         Up(from, win, to, NoKey) \o lastUp
                         \o Down(to, win, from, NoKey) \o Send(to.actionKey, FALSE))
           /\ remaps' = [remaps EXCEPT
                           ![a][With(s)].isShortcutInvoked = @ \/ ~RemapToKey(t),
                           ![a][With(s)].winKeyInvoked = WinKey(@),
                           ![a][s] = NotInvoked]
    /\ Deactivate(a) /\ KeepRest

(* It is none: the system sees again what the user holds, and then the key,   *)
(* which is hooked once more as if the user had pressed it.                   *)
RevertShortcut(a, s) ==
    /\ Handled(a, s, "other key") /\ ~RemapToKey(Target(a, s))
    /\ With(s) \notin DOMAIN remaps[a]
    /\ LET t == Target(a, s).shortcut
           win == remaps[a][s].winKeyInvoked
           pressed == t.actionKey \in keys
       IN  Sends(Size(t) + (Size(s) - 1) - 2 * GetCommonModifiersCount(s, t) + 2 * Extra(pressed),
                 Optional(pressed, Send(t.actionKey, TRUE))
                 \o Up(t, win, s, NoKey) \o Down(s, win, t, NoKey)
                 \o Optional(pressed, Send(s.actionKey, FALSE))
                 \o SetKeyEvent(e.vk, FALSE, "none"))
    /\ Reset(a, s) /\ Deactivate(a) /\ KeepRest

RevertKey(a, s) ==
    /\ Handled(a, s, "other key") /\ RemapToKey(Target(a, s))
    /\ LET r == remaps[a][s]
           original == Disables(Target(a, s)) /\ r.isOriginalActionKeyPressed
       IN  Sends(Size(s) + Extra(original),
                 Down(s, r.winKeyInvoked, EmptyShortcut, NoKey)
                 \o Optional(original, Send(s.actionKey, FALSE))
                 \o SetKeyEvent(e.vk, FALSE, "none"))
    /\ Reset(a, s)
    /\ activatedApp' = NoActivatedApp
    /\ KeepRest

(* The hook returns 0 and the system gets the event.  A modifier's key stands *)
(* for the common one too, whose release is that of both.                     *)
Sides(k) == {<<k[1], "Left">>, <<k[1], "Right">>, <<k[1], "Both">>}
NoSuchKey == {DUMMY_KEY, VK_DISABLED, <<"win", "Both">>}
Common(k) == IF k \in Modifiers /\ k[1] # "win" THEN <<k[1], "Both">> ELSE k
Released(k) == IF k \in Modifiers /\ k[2] = "Both" THEN Sides(k) ELSE {k, Common(k)}

PassedOn ==
    /\ pending # <<>> /\ ~Single /\ ~ByApp /\ ~ByOS
    /\ keys' = IF e.up THEN keys \ Released(e.vk)
               ELSE keys \cup ({e.vk, Common(e.vk)} \ NoSuchKey)
    /\ alone' = [alone EXCEPT !.system = IF e.up THEN NoKey ELSE e.vk]
    /\ Swallows
    /\ UNCHANGED <<tables, flags, user>>

---------------------------------------------------------------------------
(* The user, the windows, and the settings' thread.                         *)

(* A bound: settings change and the editor opens while no key is held and no   *)
(* remapping is under way.                                                     *)
Quiet == /\ pending = <<>>
         /\ physical = {}
         /\ \A a \in DOMAIN remaps : Invoked(a) = {}

KeyDown(k) ==
    /\ pending = <<>>
    /\ k \notin physical \/ last = k
    /\ physical' = physical \cup {k} /\ last' = k
    /\ pending' = SetKeyEvent(k, FALSE, "none")
    /\ alone' = [alone EXCEPT !.user = k, !.tapped = FALSE]
    /\ UNCHANGED <<tables, flags, keys, spare>>

KeyUp(k) ==
    /\ pending = <<>> /\ k \in physical
    /\ physical' = physical \ {k} /\ last' = IF last = k THEN NoKey ELSE last
    /\ pending' = SetKeyEvent(k, TRUE, "none")
    /\ alone' = [alone EXCEPT !.tapped = (alone.user = k), !.user = NoKey]
    /\ UNCHANGED <<tables, flags, keys, spare>>

Focus(a) ==
    /\ pending = <<>> /\ a # foreground
    /\ foreground' = a
    /\ UNCHANGED <<tables, loadingSettings, editorIsRunning, keys, user, pending, spare, alone>>

(* changeSettingsCallback, on a thread of its own; bound: not while a key is  *)
(* stuck that the tables it replaces explain.                                 *)
LoadSettingsStart ==
    /\ ~loadingSettings /\ Quiet /\ keys = {}
    /\ loadingSettings' = TRUE
    /\ UNCHANGED <<tables, foreground, editorIsRunning, keys, user, pending, spare, alone>>

LoadSettingsEnd ==
    /\ loadingSettings /\ Quiet
    /\ loadingSettings' = FALSE
    /\ config' \in Config
    /\ remaps' = Fresh(config')
    /\ UNCHANGED <<activatedApp, foreground, editorIsRunning, keys, user, pending, spare, alone>>

(* The editor's event is set while one of its windows is open. *)
ToggleEditor ==
    /\ Quiet
    /\ editorIsRunning' = ~editorIsRunning
    /\ UNCHANGED <<tables, foreground, loadingSettings, keys, user, pending, spare, alone>>

OnShortcut(a, s) ==
    \/ ShortcutToShortcut(a, s) \/ ShortcutToKey(a, s)
    \/ ModifierReleased(a, s) \/ ActionKeyRepeated(a, s) \/ ActionKeyReleased(a, s)
    \/ ModifierPressed(a, s)
    \/ NextShortcut(a, s) \/ RevertShortcut(a, s) \/ RevertKey(a, s)

Hook ==
    \/ RemapSingleKey
    \/ \E a \in DOMAIN remaps : \E s \in DOMAIN remaps[a] : OnShortcut(a, s)
    \/ PassedOn

Next ==
    \/ Hook
    \/ \E k \in PhysicalKey : KeyDown(k) \/ KeyUp(k)
    \/ \E a \in App : Focus(a)
    \/ LoadSettingsStart \/ LoadSettingsEnd \/ ToggleEditor

Spec == Init /\ [][Next]_vars /\ WF_vars(Hook)

---------------------------------------------------------------------------
AtRest == pending = <<>> /\ physical = {}

(* What a handler does not release no one will: when the user holds no key,  *)
(* the system thinks that none is down ("reset the keyboard back to the state *)
(* of the keys actually being pressed down", case 1), neither a modifier nor a*)
(* target that the handlers pressed.  The exception is the action key of a    *)
(* shortcut: if it was passed on before the shortcut became exact, case 3     *)
(* swallows its release.  The README names tables for which it does not hold. *)
ShortcutActionKeys ==
    {s.actionKey : s \in UNION {DOMAIN config.shortcuts[a] : a \in DOMAIN config.shortcuts}}
OnlyActionKeyStuck == AtRest => keys \subseteq ShortcutActionKeys

(* ... and no shortcut is still taken for pressed, which would swallow what   *)
(* the user types next, or keep an application's shortcuts in force in another*)
NoRemapLeft == AtRest =>
    activatedApp = NoActivatedApp /\ \A a \in DOMAIN remaps : Invoked(a) = {}

(* "two remaps don't occur simultaneously at a time"                          *)
(* (keyboardeventhandlers.md): neither two shortcuts of a table, nor one of an *)
(* application with one of the system.  The code asks one table only whether  *)
(* a shortcut is invoked, so that with tables of both this can fail.          *)
OneRemapInvoked ==
    Cardinality(UNION {{<<a, s>> : s \in Invoked(a)} : a \in DOMAIN remaps}) <= 1

(* What a handler sends fits in the array it has allocated, whose size it has *)
(* computed from the two shortcuts and the keys they have in common.          *)
EventsFit == spare >= 0

(* A Windows or an Alt key opens a menu when the system sees it pressed and   *)
(* released alone.  The handlers, which release and press the modifiers of    *)
(* shortcuts, show that to the system only when the user has tapped a key     *)
(* (unless a Windows or an Alt key is what a shortcut is remapped to, or      *)
(* single keys are remapped).                                                 *)
KeyTargets == UNION {{TargetKey(Target(a, s)) : s \in DOMAIN remaps[a]} : a \in DOMAIN remaps}
SeenTapped(k) == /\ pending # <<>> /\ e.vk = k /\ e.up
                 /\ alone.system = k /\ alone'.system = NoKey
MenuOnlyWhenTapped ==
    [][DOMAIN config.keys = {} =>
         \A k \in Modifiers \ KeyTargets : SeenTapped(k) => alone.tapped]_vars

(* What the handlers send is not remapped for ever: a key event leads to      *)
(* finitely many, and the next one of the user is handled.                    *)
Settles == pending # <<>> ~> pending = <<>>
=============================================================================
