------------------------------ MODULE MCKeyboard ------------------------------
(* KeyboardManagerEngine for TLC: tables of remappings on a small keyboard.    *)
EXTENDS KeysExplained

CONSTANTS A, B, edge, other

LCtrl == <<"ctrl", "Left">>
LAlt  == <<"alt", "Left">>
LWin  == <<"win", "Left">>
LShift == <<"shift", "Left">>
Ctrl  == <<"ctrl", "Both">>
Alt   == <<"alt", "Both">>
Win   == <<"win", "Both">>
Shift == <<"shift", "Both">>

ToKey(k) == [key |-> k, shortcut |-> EmptyShortcut]
To(mods, k) == [key |-> NoKey, shortcut |-> SetKeyCodes(mods, k)]
Sc(mods, k) == SetKeyCodes(mods, k)

Keys(remapped, os) == [keys |-> remapped, shortcuts |-> (OSLevel :> os)]
Shortcuts(os) == Keys(<<>>, os)
InEdge(os, app) == [keys |-> <<>>, shortcuts |-> (OSLevel :> os) @@ (edge :> app)]
InTwo(first, second) == [keys |-> <<>>,
                         shortcuts |-> (OSLevel :> <<>>) @@ (edge :> first) @@ (other :> second)]

MCConfig == {
  Shortcuts((Sc({Ctrl}, A) :> To({Alt}, B)) @@ (Sc({Ctrl}, B) :> To({Alt}, A))),
  Shortcuts((Sc({Ctrl}, A) :> To({Alt}, B)) @@ (Sc({Ctrl}, B) :> ToKey(A))),
  Shortcuts((Sc({Ctrl}, A) :> ToKey(B)) @@ (Sc({Ctrl, Alt}, A) :> To({Ctrl}, A))),
  Shortcuts(Sc({Ctrl}, A) :> ToKey(Win)),
  Shortcuts(Sc({Win}, A) :> To({Ctrl}, B)),
  Shortcuts(Sc({Win}, A) :> To({Win, Ctrl}, B)),
  Shortcuts((Sc({Win}, A) :> ToKey(VK_DISABLED)) @@ (Sc({Win}, B) :> To({Ctrl}, A))),
  Keys(A :> To({Ctrl}, B), Sc({Ctrl}, B) :> To({Alt}, A)),
  Keys((A :> ToKey(B)) @@ (B :> ToKey(A)), Sc({Ctrl}, A) :> To({Alt}, A)),
  Keys(LCtrl :> ToKey(LShift), Sc({Shift}, A) :> To({Ctrl}, B)),
  Keys(A :> ToKey(LShift), Sc({Ctrl, Shift}, B) :> To({Alt}, B)),
  Keys(B :> ToKey(VK_DISABLED), Sc({Win}, A) :> ToKey(LAlt)),
  Shortcuts((Sc({LCtrl}, A) :> To({LAlt}, B)) @@ (Sc({Win}, B) :> ToKey(Shift))),
  Shortcuts((Sc({LWin}, A) :> ToKey(VK_DISABLED)) @@ (Sc({LWin}, B) :> To({Ctrl}, A))),
  InEdge(<<>>, (Sc({Ctrl}, A) :> ToKey(B)) @@ (Sc({Alt}, B) :> To({Ctrl}, A))),
  InEdge(<<>>, Sc({Ctrl}, A) :> To({Alt}, B)),
  InEdge(Sc({Ctrl}, A) :> ToKey(B), Sc({Ctrl}, A) :> To({Alt}, B)),
  InTwo(Sc({Ctrl}, A) :> To({Ctrl}, B), Sc({Ctrl}, B) :> ToKey(A))
  }

(* An application's shortcut that begins with what an invoked shortcut of the  *)
(* system leaves pressed.                                                      *)
MCTwoTables == {InEdge(Sc({Ctrl}, A) :> To({Ctrl}, B), Sc({Ctrl}, B) :> ToKey(A))}

MCPhysicalKey == {LCtrl, LAlt, LWin, A, B}
=============================================================================
