------------------------------- MODULE Shortcut -------------------------------
(* Shortcuts of the Keyboard Manager (keyboardmanager/common/Shortcut.cpp and *)
(* Helpers.cpp): a side for each modifier, and an action key.  The keyboard's *)
(* state, that the code asks for one key at a time, is a parameter: the set   *)
(* of the keys that are down.                                                 *)
EXTENDS Integers, FiniteSets, Sequences

CONSTANTS
  ActionKey,     \* the keys that are not modifiers
  NoKey,         \* NULL
  DUMMY_KEY      \* sent so that a modifier is not seen pressed and released alone

Families == {"win", "ctrl", "alt", "shift"}

ModifierKey == {"Disabled", "Left", "Right", "Both"}

(* VK_LWIN is <<"win", "Left">>, VK_CONTROL is <<"ctrl", "Both">>; the code   *)
(* made up <<"win", "Both">>, VK_WIN_BOTH, for the Windows keys.              *)
Modifiers == Families \X {"Left", "Right", "Both"}
VirtualKey == ActionKey \cup Modifiers \cup {DUMMY_KEY}

ASSUME ModifiersApart ==
    ActionKey \cap Modifiers = {} /\ DUMMY_KEY \notin ActionKey \cup Modifiers

ShortcutType == [mod : [Families -> ModifierKey], actionKey : ActionKey \cup {NoKey}]

EmptyShortcut == [mod |-> [f \in Families |-> "Disabled"], actionKey |-> NoKey]

(* Shortcut(keys) *)
SetKeyCodes(keys, action) ==
    [mod |-> [f \in Families |-> IF \E k \in keys : k[1] = f
                                 THEN (CHOOSE k \in keys : k[1] = f)[2] ELSE "Disabled"],
     actionKey |-> action]

Used(s) == {f \in Families : s.mod[f] # "Disabled"}

(* IsValidShortcut *)
ValidShortcut == {s \in ShortcutType : Used(s) # {} /\ s.actionKey # NoKey}

Size(s) == Cardinality(Used(s)) + (IF s.actionKey = NoKey THEN 0 ELSE 1)

(* GetWinKey, GetCtrlKey, GetAltKey, GetShiftKey.  A shortcut that takes both *)
(* Windows keys gives the one it was invoked with.                            *)
GetKey(s, f, winKeyInvoked) ==
    IF s.mod[f] = "Disabled" THEN NoKey
    ELSE IF f = "win" /\ s.mod[f] = "Both"
         THEN <<f, IF winKeyInvoked = "Disabled" THEN "Left" ELSE winKeyInvoked>>
         ELSE <<f, s.mod[f]>>

(* CheckWinKey, CheckCtrlKey, CheckAltKey, CheckShiftKey *)
CheckKey(s, f, k) ==
    \/ s.mod[f] # "Disabled" /\ k = <<f, s.mod[f]>> /\ k # <<"win", "Both">>
    \/ s.mod[f] = "Both" /\ k \in {<<f, "Left">>, <<f, "Right">>}

IsModifierOf(s, k) == \E f \in Families : CheckKey(s, f, k)

CheckModifiersKeyboardState(s, keys) ==
    \A f \in Used(s) :
       IF f = "win" /\ s.mod[f] = "Both"
       THEN keys \cap {<<f, "Left">>, <<f, "Right">>} # {}
       ELSE <<f, s.mod[f]>> \in keys

IsKeyboardStateClearExceptShortcut(s, keys) ==
    \A k \in keys \ {DUMMY_KEY} :
       IF k \in Modifiers
       THEN IF k[2] = "Both" THEN s.mod[k[1]] # "Disabled" ELSE s.mod[k[1]] \in {k[2], "Both"}
       ELSE k = s.actionKey

GetCommonModifiersCount(s, t) == Cardinality({f \in Used(s) : s.mod[f] = t.mod[f]})

FilterArtificialKeys(k) == IF k = <<"win", "Both">> THEN <<"win", "Left">> ELSE k

---------------------------------------------------------------------------
(* Key events.  The flag is dwExtraInfo: "none" for the user's own events.    *)
KeyEvent == [vk : VirtualKey, up : BOOLEAN, flag : {"none", "single key", "shortcut"}]

SetKeyEvent(k, up, flag) == <<[vk |-> k, up |-> up, flag |-> flag]>>

SetDummyKeyEvent(flag) ==
    SetKeyEvent(DUMMY_KEY, FALSE, flag) \o SetKeyEvent(DUMMY_KEY, TRUE, flag)

Optional(condition, events) == IF condition THEN events ELSE <<>>

(* SetModifierKeyEvents presses or releases the modifiers of s that compare   *)
(* has not.  The key the user has just released does not go down, and goes up *)
(* even if compare has it.                                                    *)
Differs(s, win, compare, f) ==
    /\ GetKey(s, f, win) # NoKey
    /\ compare = EmptyShortcut \/ GetKey(s, f, win) # GetKey(compare, f, win)

(* Mutant: a modifier goes down though the user has just released it. *)
MutGoesDown(s, win, compare, released, f) == Differs(s, win, compare, f)

GoesDown(s, win, compare, released, f) ==
    Differs(s, win, compare, f) /\ ~CheckKey(s, f, released)

(* Mutant: a modifier both shortcuts have is released too. *)
MutGoesUp(s, win, compare, released, f) == GetKey(s, f, win) # NoKey

GoesUp(s, win, compare, released, f) ==
    Differs(s, win, compare, f) \/ (GetKey(s, f, win) # NoKey /\ CheckKey(s, f, released))

ModifierKeysDown(s, win, flag, compare, released) ==
    LET Press(f) == Optional(GoesDown(s, win, compare, released, f),
                             SetKeyEvent(GetKey(s, f, win), FALSE, flag))
    IN  Press("win") \o Press("ctrl") \o Press("alt") \o Press("shift")

ModifierKeysUp(s, win, flag, compare, released) ==
    LET Release(f) == Optional(GoesUp(s, win, compare, released, f),
                               SetKeyEvent(GetKey(s, f, win), TRUE, flag))
    IN  Release("shift") \o Release("alt") \o Release("ctrl") \o Release("win")
=============================================================================
