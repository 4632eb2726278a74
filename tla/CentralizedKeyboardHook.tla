----------------------- MODULE CentralizedKeyboardHook -----------------------
(***************************************************************************)
(* runner/centralized_kb_hook.cpp: the hotkeys and the long presses of the *)
(* Windows keys that the runner's low-level keyboard hook looks for.  The  *)
(* hook, the timers and everything that changes the descriptors run on the *)
(* runner's main thread, so each is one step.                              *)
(***************************************************************************)
EXTENDS CentralizedHotkeys, Integers

CONSTANTS
    Hotkey,         \* the hotkeys of the hook
    Key,            \* keys of the keyboard
    WinKey,         \* VK_LWIN and VK_RWIN
    VK_DISABLED     \* vkCodePressed when no key is

ASSUME KeyAssumption == WinKey \subseteq Key /\ VK_DISABLED \notin Key

(* The hook's descriptors, as a value: two multisets.  Which of several    *)
(* modules' equal hotkeys is found first is left out.                      *)
Descriptors == [hotkeyDescriptors : [Hotkey \X Module -> Nat],
                pressedKeyDescriptors : [WinKey \X Module -> Nat]]

NoDescriptors == [hotkeyDescriptors |-> [x \in Hotkey \X Module |-> 0],
                  pressedKeyDescriptors |-> [x \in WinKey \X Module |-> 0]]

SetHotkeyAction(d, m, hs) ==
    [hotkeyDescriptors |-> [x \in Hotkey \X Module |->
        d.hotkeyDescriptors[x] + IF x[1] \in hs /\ x[2] = m THEN 1 ELSE 0],
     pressedKeyDescriptors |-> d.pressedKeyDescriptors]

(* Once for VK_LWIN and once for VK_RWIN. *)
AddPressedKeyAction(d, m) ==
    [hotkeyDescriptors |-> d.hotkeyDescriptors,
     pressedKeyDescriptors |-> [x \in WinKey \X Module |->
        d.pressedKeyDescriptors[x] + IF x[2] = m THEN 1 ELSE 0]]

(* Mutant: the hotkeys of the hook are left in place. *)
MutClearPressedOnly(d, m) ==
    [hotkeyDescriptors |-> d.hotkeyDescriptors,
     pressedKeyDescriptors |->
        [x \in WinKey \X Module |-> IF x[2] = m THEN 0 ELSE d.pressedKeyDescriptors[x]]]

ClearModuleHotkeys(d, m) ==
    [hotkeyDescriptors |->
        [x \in Hotkey \X Module |-> IF x[2] = m THEN 0 ELSE d.hotkeyDescriptors[x]],
     pressedKeyDescriptors |->
        [x \in WinKey \X Module |-> IF x[2] = m THEN 0 ELSE d.pressedKeyDescriptors[x]]]

(* The timers of key k's descriptors; a timer's id is made of the module   *)
(* and the key.                                                            *)
Tracked(d, k) == {x \in WinKey \X Module : x[1] = k /\ d.pressedKeyDescriptors[x] > 0}
TracksSomething(d) == \E k \in WinKey : Tracked(d, k) # {}

(* What KeyboardHookProc makes of the running timers when k goes down      *)
(* while vk was thought to be pressed, and when k goes up.                 *)
TimersOnDown(d, timers, vk, k) ==
    IF vk = VK_DISABLED THEN timers \cup Tracked(d, k)
    ELSE IF vk # k THEN timers \ Tracked(d, vk) ELSE timers

(* Mutant: releasing the key does not stop its timers. *)
MutUpKeepsTimer(d, timers, k) == timers

TimersOnUp(d, timers, k) == timers \ Tracked(d, k)
=============================================================================
