------------------------- MODULE CentralizedHotkeys -------------------------
(***************************************************************************)
(* runner/centralized_hotkeys.cpp: the shortcuts the runner's window has   *)
(* registered with Windows, and for each the modules that want it, of      *)
(* which only the first is served.  The registry is a value, so that a     *)
(* handler can update it several times.  An id, once given to a shortcut,  *)
(* is its own for ever and is left out.                                    *)
(***************************************************************************)
EXTENDS SequencesExt

CONSTANTS
    Module,        \* the utilities, by their key
    Shortcut,      \* what RegisterHotKey can be asked for
    NoShortcut     \* not a shortcut

ASSUME NoShortcutAssumption == NoShortcut \notin Shortcut

Registry == [actions : [Shortcut -> Seq(Module)], registered : SUBSET Shortcut]

EmptyRegistry == [actions |-> [s \in Shortcut |-> <<>>], registered |-> {}]

(* Mutant: a shortcut counts as registered though RegisterHotKey failed. *)
MutIgnoreFailure(r, s, m, free) ==
    [actions |-> [r.actions EXCEPT ![s] = Append(@, m)],
     registered |-> r.registered \cup {s}]

(* free: the shortcuts no other program has registered. *)
AddHotkeyAction(r, s, m, free) ==
    [actions |-> [r.actions EXCEPT ![s] = Append(@, m)],
     registered |-> IF r.actions[s] = <<>> THEN r.registered \cup ({s} \cap free)
                                           ELSE r.registered]

(* Mutant: the shortcut is unregistered although others want it. *)
MutUnregisterShared(r, m) ==
    LET left == [s \in Shortcut |-> RemoveFirst(r.actions[s], m)]
    IN  [actions |-> left,
         registered |-> {s \in r.registered : left[s] = r.actions[s]}]

(* Mutant: an unused shortcut stays registered. *)
MutUnregisterNever(r, m) ==
    [r EXCEPT !.actions = [s \in Shortcut |-> RemoveFirst(r.actions[s], m)]]

UnregisterHotkeysForModule(r, m) ==
    LET left == [s \in Shortcut |-> RemoveFirst(r.actions[s], m)]
    IN  [actions |-> left,
         registered |-> {s \in r.registered : left[s] = r.actions[s] \/ left[s] # <<>>}]
=============================================================================
