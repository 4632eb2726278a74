----------------------------- MODULE KeysExplained -----------------------------
(* Why the system takes a key to be down.  A key is down because the user      *)
(* holds one that stands for it, because the target of an invoked shortcut has *)
(* it, or because the handlers leave it behind.  What the handlers have sent   *)
(* and the hook has not yet seen counts as done.                               *)
EXTENDS KeyboardManagerEngine

---------------------------------------------------------------------------
(* The tables the argument is for.  In the others the handlers leave modifiers *)
(* or targets pressed: the README has the tables and the steps.               *)

Image(c, k) == TargetKey(c.keys[k])

(* Case 5 passes from one shortcut to another of the same modifiers. *)
TakesOver(c, a, s, x) ==
    /\ {s, x} \subseteq DOMAIN c.shortcuts[a] /\ s # x /\ s.mod = x.mod
    /\ ~RemapToKey(c.shortcuts[a][s])

ActionKeys(c) == {s.actionKey : s \in UNION {DOMAIN c.shortcuts[a] : a \in DOMAIN c.shortcuts}}

(* Keys that the handlers may press and never release: the second target of a  *)
(* key whose target is remapped too, the key that a shortcut taken over to is  *)
(* remapped to.                                                               *)
Orphans(c) ==
    {Image(c, Image(c, k)) : k \in {j \in DOMAIN c.keys : Image(c, j) \in DOMAIN c.keys}}
      \cup UNION {UNION {{c.shortcuts[a][x].key :
                             x \in {y \in DOMAIN c.shortcuts[a] : TakesOver(c, a, s, y)}}
                           : s \in DOMAIN c.shortcuts[a]}
                  : a \in DOMAIN c.shortcuts}

(* What OnlyActionKeyStuck excuses anyway. *)
OrphansAreActionKeys(c) == Orphans(c) \cap VirtualKey \subseteq ActionKeys(c)

OneWinKey(s) == s.mod["win"] # "Both"

(* A key stands for one key; targets that are remapped too are no modifiers.  *)
PlainKeys(c) == \A k \in DOMAIN c.keys :
    /\ RemapToKey(c.keys[k])
    /\ Image(c, k) \in DOMAIN c.keys => {Image(c, k), Image(c, Image(c, k))} \cap Modifiers = {}

(* A shortcut of the system is not invoked on top of one of an application.    *)
(* Where a shortcut takes over from another it is the system's, neither side   *)
(* of the Windows key is left open, and no modifier is left behind.            *)
PlainShortcuts(c) == \A a \in DOMAIN c.shortcuts : \A s \in DOMAIN c.shortcuts[a] :
    /\ a # OSLevel /\ OSLevel \in DOMAIN c.shortcuts => DOMAIN c.shortcuts[OSLevel] = {}
    /\ \A x \in DOMAIN c.shortcuts[a] : TakesOver(c, a, s, x) =>
          /\ a = OSLevel /\ OneWinKey(s)
          /\ IF RemapToKey(c.shortcuts[a][x]) THEN c.shortcuts[a][x].key \notin Modifiers
                                              ELSE OneWinKey(c.shortcuts[a][x].shortcut)

Plain(c) == PlainKeys(c) /\ PlainShortcuts(c)

(* While the settings' thread loads them no table is used. *)
PlainTables == Plain(config) \/ loadingSettings

---------------------------------------------------------------------------
(* What the user holds.                                                     *)

(* What a key of the keyboard is for the handlers of shortcuts. *)
Shows(k) == IF ~Suspended /\ k \in DOMAIN config.keys THEN Image(config, k) ELSE k

SameFamily(g, h) == g \in Modifiers /\ h \in Modifiers /\ g[1] = h[1]

(* The user does not hold two keys for one modifier at a time, such as both    *)
(* Ctrl keys.                                                                 *)
OneHeld == \A k, l \in physical : SameFamily(Shows(k), Shows(l)) => k = l
OneHeldIfPlain == PlainTables => OneHeld

---------------------------------------------------------------------------
(* What will be down when the hook has seen all that is pending.            *)

Counterparts(k) == {k, Common(k)}

PressesKey(ev, g) == ev.flag = "shortcut" /\ ~ev.up /\ g \in Counterparts(ev.vk) \ NoSuchKey
ReleasesKey(ev, g) == ev.flag = "shortcut" /\ ev.up /\ g \in Released(ev.vk)

Stays(q, g) == \A i \in DOMAIN q : ~ReleasesKey(q[i], g)
GoesIn(q, g) == \E i \in DOMAIN q : /\ PressesKey(q[i], g)
                                   /\ \A j \in DOMAIN q : j > i => ~ReleasesKey(q[j], g)

Final(K, q) == {g \in VirtualKey : (g \in K /\ Stays(q, g)) \/ GoesIn(q, g)}

---------------------------------------------------------------------------
(* Why a key is down.                                                       *)

Latest == pending[Len(pending)]
Late == pending # <<>> /\ Latest.flag # "shortcut"
Effect(ev) == IF ev.flag = "none" THEN Shows(ev.vk) ELSE ev.vk

(* A key the user lets go of counts until its event has been handled. *)
Holding == {Shows(k) : k \in physical} \cup (IF Late /\ Latest.up THEN {Effect(Latest)} ELSE {})
ByHand(g) == \E h \in Holding : g \in Counterparts(h)

WinKeyOf(a, s) == remaps[a][s].winKeyInvoked

(* Modifiers of an invoked shortcut have been released, but for those its      *)
(* target has too.                                                            *)
Hides(a, s, g) ==
    /\ g \in Modifiers /\ g[1] \in Used(s)
    /\ \/ RemapToKey(Target(a, s))
       \/ GetKey(Target(a, s).shortcut, g[1], WinKeyOf(a, s)) # GetKey(s, g[1], WinKeyOf(a, s))

KeysOf(a, s) ==
    LET t == Target(a, s)
    IN  IF RemapToKey(t)
        THEN {g \in Counterparts(TargetKey(t)) : TargetKey(t) \in Final(keys, pending)}
        ELSE {t.shortcut.actionKey}
               \cup UNION {Counterparts(GetKey(t.shortcut, f, WinKeyOf(a, s))) : f \in Used(t.shortcut)}

Left == IF loadingSettings THEN {} ELSE ActionKeys(config) \cup Orphans(config)

Explained(g) ==
    \/ g \in Left
    \/ ByHand(g) /\ \A a \in DOMAIN remaps : \A s \in Invoked(a) : ~Hides(a, s, g)
    \/ \E a \in DOMAIN remaps : \E s \in Invoked(a) : g \in KeysOf(a, s)

(* An invoked shortcut's modifiers are held, and the keyboard does not repeat  *)
(* one of them.                                                               *)
HeldFor(a, s) ==
    /\ \A f \in Used(s) : ByHand(GetKey(s, f, WinKeyOf(a, s)))
    /\ last # NoKey /\ Shows(last) \in Modifiers => Shows(last)[1] \notin Used(s)

EventsInOrder ==
    /\ \A i \in 1 .. Len(pending) - 1 : pending[i].flag = "shortcut"
    /\ Late /\ ~Latest.up =>
          /\ last \in physical
          /\ Effect(Latest) = Shows(last) \/ (Effect(Latest) \in Left /\ Shows(last) \notin Modifiers)
    /\ Late /\ Latest.up => \A k \in physical : ~SameFamily(Effect(Latest), Shows(k))
    /\ Late /\ Latest.flag = "single key" =>
          ~Suspended /\ \E k \in DOMAIN config.keys : Latest.vk = Image(config, k)

(* An application's shortcuts are in force in others only while one is invoked. *)
ActivatedIsInvoked ==
    activatedApp # NoActivatedApp =>
        activatedApp \in DOMAIN remaps /\ activatedApp # OSLevel /\ Invoked(activatedApp) # {}

AppsInOrder ==
    /\ \A a \in DOMAIN remaps : Invoked(a) # {} =>
          ~Suspended /\ (a = OSLevel \/ (a = activatedApp /\ a # NoActivatedApp))
    /\ ActivatedIsInvoked

LastHeld == last \in physical \cup {NoKey}

KeysInv ==
    /\ LastHeld
    /\ EventsInOrder /\ AppsInOrder
    /\ \A a \in DOMAIN remaps : \A s \in Invoked(a) : HeldFor(a, s)
    /\ \A g \in Final(keys, pending) : Explained(g)

(* Whatever the user presses, holds and releases, wherever the focus is, and   *)
(* whatever tables are loaded after whichever: under a plain table, each key   *)
(* that will be down once the pending events have been seen has its reason,    *)
(* and an invoked shortcut has its modifiers held.  So the handlers release    *)
(* what they pressed and press again what they released, in each of the six    *)
(* cases of HandleShortcutRemapEvent.                                          *)
EveryKeyExplained == /\ LastHeld /\ ActivatedIsInvoked
                     /\ PlainTables => KeysInv

(* No two shortcuts are invoked at once, of one table or of several, while the *)
(* tables are plain or no application has one: also when one takes over from   *)
(* another, and when the focus moves from the application whose shortcut is    *)
(* invoked to another one with shortcuts.  Where the system and an application *)
(* both have some it does not hold (OneRemapInvoked).                          *)
OneRemapAtATime ==
    PlainTables \/ DOMAIN config.shortcuts \subseteq {OSLevel} => OneRemapInvoked
=============================================================================
