---------------------------- MODULE ModulesProofs ----------------------------
(***************************************************************************)
(* The runner's registered shortcuts, its hook's descriptors and its       *)
(* modules follow the settings, for any modules, shortcuts, hotkeys and    *)
(* group policies and any order of loading, enabling and configuring.      *)
(***************************************************************************)
EXTENDS PowertoyModules, SequenceTheorems, FiniteSetTheorems, TLAPS

---------------------------------------------------------------------------
(* Sequences in which nothing is twice *)

Unique(q) == \A k, l \in DOMAIN q : q[k] = q[l] => k = l

LEMMA AppendFacts ==
    ASSUME NEW S, NEW q \in Seq(S), NEW m \in S, Unique(q), m \notin Range(q)
    PROVE  /\ Append(q, m) \in Seq(S) /\ Unique(Append(q, m)) /\ Append(q, m) # <<>>
           /\ Range(Append(q, m)) = Range(q) \cup {m}
<1> DEFINE t == Append(q, m)
<1>1. PICK n \in Nat : n = Len(q) /\ DOMAIN q = 1 .. n
  BY LenProperties
<1>2. t \in Seq(S) /\ DOMAIN t = 1 .. n + 1 /\ t[n + 1] = m /\ \A k \in 1 .. n : t[k] = q[k]
  <2>1. /\ t \in Seq(S) /\ Len(t) = Len(q) + 1 /\ t[Len(q) + 1] = m
        /\ \A k \in 1 .. Len(q) : t[k] = q[k]
    BY AppendProperties
  <2> QED
    BY <1>1, <2>1, LenProperties
<1> HIDE DEF t
<1>3. /\ n + 1 \in DOMAIN t /\ \A k \in DOMAIN q : k \in DOMAIN t /\ t[k] = q[k]
      /\ \A k \in DOMAIN t : k \in DOMAIN q \/ k = n + 1
  BY <1>1, <1>2
<1>4. Range(t) = Range(q) \cup {m}
  BY <1>2, <1>3 DEF Range
<1>5. Unique(t)
  BY <1>2, <1>3 DEF Unique, Range
<1>6. t # <<>>
  BY <1>3, EmptySeq
<1> QED
  BY <1>2, <1>4, <1>5, <1>6 DEF t

LEMMA RemoveFacts ==
    ASSUME NEW S, NEW q \in Seq(S), NEW m, Unique(q)
    PROVE  /\ RemoveFirst(q, m) \in Seq(S) /\ Unique(RemoveFirst(q, m))
           /\ Range(RemoveFirst(q, m)) = Range(q) \ {m}
           /\ m \notin Range(q) => RemoveFirst(q, m) = q
           /\ m \in Range(q) => RemoveFirst(q, m) # q
<1>1. PICK n \in Nat : n = Len(q) /\ DOMAIN q = 1 .. n
  BY LenProperties
<1>2. CASE m \notin Range(q)
  <2>1. RemoveFirst(q, m) = q
    BY <1>1, <1>2 DEF RemoveFirst, Range
  <2> QED
    BY <1>2, <2>1
<1>3. CASE m \in Range(q)
  <2>1. PICK i \in 1 .. n : q[i] = m
    BY <1>1, <1>3 DEF Range
  <2>2. {k \in 1 .. Len(q) : q[k] = m} = {i}
    BY <1>1, <2>1 DEF Unique
  <2>3. RemoveFirst(q, m) = RemoveAt(q, i)
    BY <1>1, <2>1, <2>2 DEF RemoveFirst, SelectInSeq, Min
  <2> DEFINE t == RemoveAt(q, i)
  <2>4. /\ t \in Seq(S) /\ DOMAIN t = 1 .. n - 1
        /\ \A k \in 1 .. n - 1 : t[k] = IF k < i THEN q[k] ELSE q[k + 1]
    <3> DEFINE u == SubSeq(q, 1, i - 1)
               v == SubSeq(q, i + 1, n)
    <3>1. \A k \in 1 .. n : q[k] \in S
      BY <1>1, ElementOfSeq
    <3>2. u \in Seq(S) /\ Len(u) = i - 1 /\ \A k \in 1 .. i - 1 : u[k] = q[k]
      <4>1. /\ u \in Seq(S) /\ Len(u) = IF 1 <= i - 1 THEN (i - 1) - 1 + 1 ELSE 0
            /\ \A k \in 1 .. (i - 1) - 1 + 1 : u[k] = q[1 + k - 1]
        BY <3>1, SubSeqProperties
      <4> HIDE DEF u
      <4> QED
        BY <4>1
    <3>3. v \in Seq(S) /\ Len(v) = n - i /\ \A k \in 1 .. n - i : v[k] = q[i + k]
      <4>1. /\ v \in Seq(S) /\ Len(v) = IF i + 1 <= n THEN n - (i + 1) + 1 ELSE 0
            /\ \A k \in 1 .. n - (i + 1) + 1 : v[k] = q[(i + 1) + k - 1]
        BY <3>1, SubSeqProperties
      <4> HIDE DEF v
      <4> QED
        BY <4>1
    <3>4. t = u \o v
      BY <1>1 DEF RemoveAt
    <3> HIDE DEF u, v, t
    <3>5. /\ t \in Seq(S) /\ Len(t) = Len(u) + Len(v)
          /\ \A k \in 1 .. Len(u) + Len(v) : t[k] = IF k <= Len(u) THEN u[k] ELSE v[k - Len(u)]
      BY <3>2, <3>3, <3>4, ConcatProperties
    <3>6. ASSUME NEW k \in 1 .. n - 1 PROVE t[k] = IF k < i THEN q[k] ELSE q[k + 1]
      BY <3>2, <3>3, <3>5
    <3>7. DOMAIN t = 1 .. n - 1
      BY <3>2, <3>3, <3>5, LenProperties
    <3> QED
      BY <3>5, <3>6, <3>7
  <2> HIDE DEF t
  <2>5. \A k \in DOMAIN t : \E l \in DOMAIN q : l # i /\ t[k] = q[l]
    BY <1>1, <2>4
  <2>6. ASSUME NEW l \in DOMAIN q, l # i PROVE \E k \in DOMAIN t : t[k] = q[l]
    <3>1. CASE l < i
      BY <1>1, <2>4, <2>6, <3>1
    <3>2. CASE l > i
      <4>1. l - 1 \in 1 .. n - 1 /\ ~(l - 1 < i) /\ (l - 1) + 1 = l
        BY <1>1, <3>2
      <4> QED
        BY <2>4, <4>1
    <3> QED
      BY <1>1, <2>6, <3>1, <3>2
  <2>7. Range(t) = Range(q) \ {m}
    BY <1>1, <2>1, <2>5, <2>6 DEF Range, Unique
  <2>8. ASSUME NEW k \in DOMAIN t, NEW l \in DOMAIN t, t[k] = t[l] PROVE k = l
    <3>1. PICK x \in DOMAIN q : x = (IF k < i THEN k ELSE k + 1) /\ t[k] = q[x]
      BY <1>1, <2>4
    <3>2. PICK y \in DOMAIN q : y = (IF l < i THEN l ELSE l + 1) /\ t[l] = q[y]
      BY <1>1, <2>4
    <3>3. x = y
      BY <2>8, <3>1, <3>2 DEF Unique
    <3> QED
      BY <2>4, <3>1, <3>2, <3>3
  <2>9. t # q
    BY <1>1, <1>3, <2>7
  <2> QED
    BY <1>3, <2>3, <2>4, <2>7, <2>8, <2>9 DEF Unique, t
<1> QED
  BY <1>2, <1>3
---------------------------------------------------------------------------
(* The inductive invariant *)

TypeInv == TypeOK /\ config \in [Module -> Config]

(* A shortcut's list names each module that wants it, and is enabled, once.*)
RegistryInv ==
    \A s \in Shortcut :
        /\ Unique(registry.actions[s])
        /\ Range(registry.actions[s]) = {m \in loaded : enabled[m] /\ config[m].hotkeyEx = s}

(* Only a loaded module that tracks long presses has descriptors for them. *)
PressedInv ==
    \A x \in WinKey \X Module :
        descriptors.pressedKeyDescriptors[x] > 0 => x[2] \in loaded /\ config[x[2]].tracks

(* What the runner's phase says of its modules. *)
PhaseInv ==
    /\ \A m \in Module : m \notin loaded => ~enabled[m]
    /\ phase \in {"down", "loading", "message box"} => \A m \in Module : ~enabled[m]
    /\ phase = "down" => loaded = {}
    /\ phase \notin {"starting", "applying"} => pending = {}

(* Half-way through enabling modules or switching them: those that are     *)
(* left are as they were, no group policy is against the others.           *)
ChoiceInv ==
    /\ phase = "starting" => \A m \in loaded :
          /\ m \in pending => ~enabled[m]
          /\ Gpo[m] # "none" => (enabled[m] \/ m \in pending <=> Gpo[m] = "enabled")
          /\ Gpo[m] = "none" /\ saved[m] # "none" /\ ~astray
                => (enabled[m] \/ m \in pending <=> saved[m] = "on")
    /\ phase = "applying" => \A m \in loaded :
          Gpo[m] # "none" => m \notin pending /\ enabled[m] = (Gpo[m] = "enabled")
    /\ RunsAsSaved

(* A fresh Settings thread has noted what still is so. *)
FreshInv ==
    /\ fresh # {} => phase \in {"running", "ending"}
    /\ \A t \in fresh, m \in Module : snapshot[t][m] \in {"unread", GeneralSettings(enabled)[m]}
    /\ \A t \in SettingsThread \ opening : snapshot[t] = NothingRead

(* The hook sees the release of a key whose timer no handler has disturbed,*)
(* unless the module is disabled.                                          *)
UndisturbedInv ==
    \A x \in undisturbed :
        /\ descriptors.pressedKeyDescriptors[x] > 0
        /\ phase = "ending" \/ x[1] \in down \/ ~enabled[x[2]]
        /\ phase = "starting" => ~enabled[x[2]]

ModulesInv == /\ TypeInv /\ RegistryInv /\ NothingLeaked /\ HookFollowsConfig /\ PressedInv
              /\ PhaseInv /\ ChoiceInv /\ FreshInv /\ UndisturbedInv
---------------------------------------------------------------------------
(* The registry and the descriptors *)

LEMMA ConfigFacts ==
    ASSUME NEW m \in Module, NEW c \in ConfigOf(m)
    PROVE  /\ c \in Config /\ c.hotkeys \in SUBSET Hotkey /\ c.tracks \in BOOLEAN
           /\ c.hotkeyEx \in Shortcut \cup {NoShortcut}
  BY DEF ConfigOf, Config

LEMMA UnregisterFacts ==
    ASSUME NEW r \in Registry, NEW m \in Module,
           \A s \in Shortcut : Unique(r.actions[s]),
           \A s \in r.registered : r.actions[s] # <<>>
    PROVE  LET u == UnregisterHotkeysForModule(r, m)
           IN  /\ u \in Registry
               /\ \A s \in Shortcut : /\ Unique(u.actions[s])
                                      /\ Range(u.actions[s]) = Range(r.actions[s]) \ {m}
               /\ u.registered \subseteq r.registered
               /\ \A s \in u.registered : u.actions[s] # <<>>
               /\ \A s \in r.registered : u.actions[s] # <<>> => s \in u.registered
<1> DEFINE left == [s \in Shortcut |-> RemoveFirst(r.actions[s], m)]
           gone == {s \in r.registered : left[s] = r.actions[s] \/ left[s] # <<>>}
           u == UnregisterHotkeysForModule(r, m)
<1>1. ASSUME NEW s \in Shortcut
      PROVE  /\ left[s] \in Seq(Module) /\ Unique(left[s])
             /\ Range(left[s]) = Range(r.actions[s]) \ {m}
  <2>1. r.actions[s] \in Seq(Module) /\ Unique(r.actions[s])
    BY DEF Registry
  <2> QED
    BY <2>1, RemoveFacts
<1>2. left \in [Shortcut -> Seq(Module)] /\ r.registered \subseteq Shortcut
  BY <1>1 DEF Registry
<1>3. u = [actions |-> left, registered |-> gone]
  BY DEF UnregisterHotkeysForModule
<1>4. /\ gone \subseteq r.registered
      /\ \A s \in gone : left[s] # <<>>
      /\ \A s \in r.registered : left[s] # <<>> => s \in gone
  OBVIOUS
<1> HIDE DEF left, gone, u
<1>5. u.actions = left /\ u.registered = gone /\ u \in Registry
  BY <1>2, <1>3, <1>4 DEF Registry
<1> QED
  BY <1>1, <1>4, <1>5 DEF u

LEMMA AddFacts ==
    ASSUME NEW r \in Registry, NEW s \in Shortcut, NEW m \in Module, NEW free \in SUBSET Shortcut,
           \A t \in Shortcut : Unique(r.actions[t]),
           \A t \in r.registered : r.actions[t] # <<>>,
           m \notin Range(r.actions[s])
    PROVE  LET a == AddHotkeyAction(r, s, m, free)
           IN  /\ a \in Registry
               /\ \A t \in Shortcut :
                     /\ Unique(a.actions[t])
                     /\ Range(a.actions[t]) = Range(r.actions[t]) \cup IF t = s THEN {m} ELSE {}
               /\ r.registered \subseteq a.registered
               /\ a.registered \subseteq r.registered \cup free
               /\ \A t \in a.registered : a.actions[t] # <<>>
               /\ r.actions[s] = <<>> /\ s \in free => s \in a.registered
               /\ \A t \in Shortcut : t # s => a.actions[t] = r.actions[t]
<1> DEFINE new == [r.actions EXCEPT ![s] = Append(r.actions[s], m)]
           reg == IF r.actions[s] = <<>> THEN r.registered \cup ({s} \cap free) ELSE r.registered
           a == AddHotkeyAction(r, s, m, free)
<1>1. r.actions \in [Shortcut -> Seq(Module)] /\ r.registered \subseteq Shortcut
  BY DEF Registry
<1>2. /\ Append(r.actions[s], m) \in Seq(Module) /\ Append(r.actions[s], m) # <<>>
      /\ Unique(Append(r.actions[s], m))
      /\ Range(Append(r.actions[s], m)) = Range(r.actions[s]) \cup {m}
  BY <1>1, AppendFacts
<1>3. a = [actions |-> new, registered |-> reg]
  BY DEF AddHotkeyAction
<1>4. /\ new \in [Shortcut -> Seq(Module)] /\ new[s] = Append(r.actions[s], m)
      /\ \A t \in Shortcut : t # s => new[t] = r.actions[t]
  BY <1>1, <1>2
<1>5. /\ r.registered \subseteq reg /\ reg \subseteq r.registered \cup free /\ reg \subseteq Shortcut
      /\ \A t \in reg : t \in r.registered \/ t = s
      /\ r.actions[s] = <<>> /\ s \in free => s \in reg
  BY <1>1
<1> HIDE DEF new, reg, a
<1>6. a.actions = new /\ a.registered = reg /\ a \in Registry
  BY <1>3, <1>4, <1>5 DEF Registry
<1>7. \A t \in reg : new[t] # <<>>
  BY <1>1, <1>2, <1>4, <1>5
<1>8. \A t \in Shortcut : /\ Unique(new[t])
                          /\ Range(new[t]) = Range(r.actions[t]) \cup IF t = s THEN {m} ELSE {}
  BY <1>2, <1>4
<1> QED
  BY <1>4, <1>5, <1>6, <1>7, <1>8 DEF a

(* What UpdateHotkeyEx makes of the registry.  A shortcut that was         *)
(* registered can be registered again, since no other program has it.      *)
LEMMA RegistryUpdated ==
    ASSUME TypeInv, RegistryInv, NothingLeaked,
           NEW m \in Module, NEW c \in ConfigOf(m), NEW on \in BOOLEAN, NEW d,
           UpdateHotkeyEx(d, m, c, on)
    PROVE  /\ registry' \in Registry
           /\ \A s \in Shortcut :
                 /\ Unique(registry'.actions[s])
                 /\ Range(registry'.actions[s]) = (Range(registry.actions[s]) \ {m})
                       \cup IF on /\ c.hotkeyEx = s THEN {m} ELSE {}
           /\ \A s \in registry'.registered : registry'.actions[s] # <<>>
           /\ taken \subseteq Shortcut \ registry'.registered
           /\ \A s \in registry.registered :
                 registry'.actions[s] # <<>> => s \in registry'.registered
<1> DEFINE u == UnregisterHotkeysForModule(registry, m)
           a == AddHotkeyAction(u, c.hotkeyEx, m, Shortcut \ taken)
<1>1. /\ registry \in Registry /\ taken \subseteq Shortcut \ registry.registered
      /\ registry.registered \subseteq Shortcut
  BY DEF TypeInv, TypeOK, Registry
<1>2. /\ u \in Registry
      /\ \A s \in Shortcut : /\ Unique(u.actions[s])
                             /\ Range(u.actions[s]) = Range(registry.actions[s]) \ {m}
      /\ u.registered \subseteq registry.registered
      /\ \A s \in u.registered : u.actions[s] # <<>>
      /\ \A s \in registry.registered : u.actions[s] # <<>> => s \in u.registered
  BY <1>1, UnregisterFacts DEF RegistryInv, NothingLeaked
<1>3. registry' = IF c.hotkeyEx # NoShortcut /\ on THEN a ELSE u
  BY DEF UpdateHotkeyEx
<1>4. CASE c.hotkeyEx # NoShortcut /\ on
  <2>1. c.hotkeyEx \in Shortcut /\ m \notin Range(u.actions[c.hotkeyEx])
    BY <1>2, <1>4, ConfigFacts
  <2> HIDE DEF u
  <2>2. /\ a \in Registry
        /\ \A t \in Shortcut :
              /\ Unique(a.actions[t])
              /\ Range(a.actions[t]) = Range(u.actions[t]) \cup IF t = c.hotkeyEx THEN {m} ELSE {}
        /\ u.registered \subseteq a.registered
        /\ a.registered \subseteq u.registered \cup (Shortcut \ taken)
        /\ \A t \in a.registered : a.actions[t] # <<>>
        /\ u.actions[c.hotkeyEx] = <<>> /\ c.hotkeyEx \in Shortcut \ taken
              => c.hotkeyEx \in a.registered
        /\ \A t \in Shortcut : t # c.hotkeyEx => a.actions[t] = u.actions[t]
    BY <1>2, <2>1, AddFacts, SMTT(30)
  <2>3. registry' = a
    BY <1>3, <1>4
  <2> HIDE DEF a
  <2>4. \A s \in Shortcut :
           Range(a.actions[s]) = (Range(registry.actions[s]) \ {m})
                                    \cup IF on /\ c.hotkeyEx = s THEN {m} ELSE {}
    BY <1>2, <1>4, <2>2
  <2>5. \A s \in registry.registered : a.actions[s] # <<>> => s \in a.registered
    BY <1>1, <1>2, <2>2
  <2>6. taken \subseteq Shortcut \ a.registered
    BY <1>1, <1>2, <2>2
  <2> QED
    BY <2>2, <2>3, <2>4, <2>5, <2>6
<1>5. CASE ~(c.hotkeyEx # NoShortcut /\ on)
  <2>1. registry' = u /\ \A s \in Shortcut : ~(on /\ c.hotkeyEx = s)
    BY <1>3, <1>5, NoShortcutAssumption
  <2> HIDE DEF u
  <2> QED
    BY <1>1, <1>2, <2>1
<1> QED
  BY <1>4, <1>5

(* What it makes of the hook's descriptors d. *)
LEMMA DescriptorsUpdated ==
    ASSUME NEW m \in Module, NEW c \in ConfigOf(m), NEW on, NEW d \in Descriptors,
           UpdateHotkeyEx(d, m, c, on)
    PROVE  /\ descriptors' \in Descriptors
           /\ descriptors'.hotkeyDescriptors = d.hotkeyDescriptors
           /\ \A x \in WinKey \X Module :
                 descriptors'.pressedKeyDescriptors[x] =
                    d.pressedKeyDescriptors[x] + IF c.tracks /\ x[2] = m THEN 1 ELSE 0
           /\ undisturbed' = {x \in undisturbed : descriptors'.pressedKeyDescriptors[x]
                                                   = descriptors.pressedKeyDescriptors[x]}
<1> DEFINE more == [x \in WinKey \X Module |-> d.pressedKeyDescriptors[x] + IF x[2] = m THEN 1 ELSE 0]
           a == AddPressedKeyAction(d, m)
<1>1. /\ descriptors' = IF c.tracks THEN a ELSE d
      /\ undisturbed' = {x \in undisturbed : descriptors'.pressedKeyDescriptors[x]
                                              = descriptors.pressedKeyDescriptors[x]}
  BY DEF UpdateHotkeyEx, DescriptorsBecome
<1>2. /\ d.hotkeyDescriptors \in [Hotkey \X Module -> Nat]
      /\ d.pressedKeyDescriptors \in [WinKey \X Module -> Nat]
  BY DEF Descriptors
<1>3. a = [hotkeyDescriptors |-> d.hotkeyDescriptors, pressedKeyDescriptors |-> more]
  BY DEF AddPressedKeyAction
<1>4. more \in [WinKey \X Module -> Nat]
  BY <1>2
<1> HIDE DEF a
<1>5. a \in Descriptors /\ a.hotkeyDescriptors = d.hotkeyDescriptors /\ a.pressedKeyDescriptors = more
  BY <1>2, <1>3, <1>4 DEF Descriptors
<1>6. \A x \in WinKey \X Module :
         descriptors'.pressedKeyDescriptors[x] =
            d.pressedKeyDescriptors[x] + IF c.tracks /\ x[2] = m THEN 1 ELSE 0
  BY <1>1, <1>2, <1>5
<1> QED
  BY <1>1, <1>5, <1>6

LEMMA UpdateHotkeysFacts ==
    ASSUME NEW d \in Descriptors, NEW m \in Module, NEW c \in ConfigOf(m),
           NEW u, u = update_hotkeys(d, m, c)
    PROVE  /\ u \in Descriptors
           /\ \A x \in Hotkey \X Module :
                 u.hotkeyDescriptors[x] = IF x[2] = m THEN IF x[1] \in c.hotkeys THEN 1 ELSE 0
                                          ELSE d.hotkeyDescriptors[x]
           /\ \A x \in WinKey \X Module :
                 u.pressedKeyDescriptors[x] = IF x[2] = m THEN 0 ELSE d.pressedKeyDescriptors[x]
<1> DEFINE h0 == [x \in Hotkey \X Module |-> IF x[2] = m THEN 0 ELSE d.hotkeyDescriptors[x]]
           p == [x \in WinKey \X Module |-> IF x[2] = m THEN 0 ELSE d.pressedKeyDescriptors[x]]
           cl == ClearModuleHotkeys(d, m)
           h1 == [x \in Hotkey \X Module |->
                    cl.hotkeyDescriptors[x] + IF x[1] \in c.hotkeys /\ x[2] = m THEN 1 ELSE 0]
<1>1. /\ d.hotkeyDescriptors \in [Hotkey \X Module -> Nat]
      /\ d.pressedKeyDescriptors \in [WinKey \X Module -> Nat]
  BY DEF Descriptors
<1>2. /\ h0 \in [Hotkey \X Module -> Nat] /\ p \in [WinKey \X Module -> Nat]
      /\ cl.hotkeyDescriptors = h0 /\ cl.pressedKeyDescriptors = p
  BY <1>1 DEF ClearModuleHotkeys
<1>3. u = [hotkeyDescriptors |-> h1, pressedKeyDescriptors |-> cl.pressedKeyDescriptors]
  BY DEF update_hotkeys, SetHotkeyAction
<1> HIDE DEF cl
<1>4. h1 \in [Hotkey \X Module -> Nat]
  BY <1>2
<1>5. \A x \in Hotkey \X Module :
         h1[x] = IF x[2] = m THEN IF x[1] \in c.hotkeys THEN 1 ELSE 0 ELSE d.hotkeyDescriptors[x]
  BY <1>1, <1>2
<1>6. u \in Descriptors /\ u.hotkeyDescriptors = h1 /\ u.pressedKeyDescriptors = p
  BY <1>2, <1>3, <1>4 DEF Descriptors
<1> QED
  BY <1>5, <1>6
---------------------------------------------------------------------------
(* The steps that change what is registered and hooked *)

Updates(m, c, on, d) ==
    /\ UpdateHotkeyEx(d, m, c, on)
    /\ \/ d = update_hotkeys(descriptors, m, c)
       \/ d = descriptors /\ m \in loaded /\ c = config[m]
    /\ loaded' = loaded \cup {m}
    /\ enabled' = [enabled EXCEPT ![m] = on]
    /\ config' = [config EXCEPT ![m] = c]
    /\ UNCHANGED <<messages, taken, down, lastDown, vkCodePressed, timers>>

LEMMA UpdateSteps ==
    ASSUME TypeInv, NEW m \in Module,
           \/ LoadModule(m) \/ StartModule(m) \/ SwitchModule(m)
           \/ \E c \in ConfigOf(m) : SendConfig(m, c)
    PROVE  \E c \in ConfigOf(m), on \in BOOLEAN : \E d : Updates(m, c, on, d)
<1> USE DEF runnerVars
<1>0. /\ config[m] \in ConfigOf(m) /\ enabled[m] \in BOOLEAN /\ pending \subseteq loaded
      /\ config = [config EXCEPT ![m] = config[m]] /\ enabled = [enabled EXCEPT ![m] = enabled[m]]
  BY DEF TypeInv, TypeOK
<1>1. CASE LoadModule(m)
  <2>1. Updates(m, config[m], enabled[m], update_hotkeys(descriptors, m, config[m]))
    BY <1>0, <1>1 DEF LoadModule, Updates
  <2> QED
    BY <1>0, <2>1
<1>2. CASE StartModule(m)
  <2>1. Updates(m, config[m], TRUE, descriptors)
    BY <1>0, <1>2 DEF StartModule, SetEnabled, Updates
  <2> QED
    BY <1>0, <2>1
<1>3. CASE SwitchModule(m)
  <2>1. PICK on \in BOOLEAN : on <=> ~enabled[m]
    OBVIOUS
  <2>2. Updates(m, config[m], on, descriptors)
    BY <1>0, <1>3, <2>1 DEF SwitchModule, SetEnabled, UpdateHotkeyEx, Updates
  <2> QED
    BY <1>0, <2>2
<1>4. ASSUME NEW c \in ConfigOf(m), SendConfig(m, c) PROVE Updates(m, c, enabled[m], update_hotkeys(descriptors, m, c))
  BY <1>0, <1>4 DEF SendConfig, Updates
<1> QED
  BY <1>0, <1>1, <1>2, <1>3, <1>4

LEMMA UpdatedDescriptors ==
    ASSUME TypeInv, NEW m \in Module, NEW c \in ConfigOf(m), NEW on \in BOOLEAN, NEW d,
           Updates(m, c, on, d)
    PROVE  /\ descriptors' \in Descriptors
           /\ \A x \in Hotkey \X Module :
                 descriptors'.hotkeyDescriptors[x] =
                    IF x[2] = m /\ d # descriptors THEN IF x[1] \in c.hotkeys THEN 1 ELSE 0
                    ELSE descriptors.hotkeyDescriptors[x]
           /\ \A x \in WinKey \X Module :
                 descriptors'.pressedKeyDescriptors[x] =
                    (IF x[2] = m /\ d # descriptors THEN 0 ELSE descriptors.pressedKeyDescriptors[x])
                       + IF c.tracks /\ x[2] = m THEN 1 ELSE 0
           /\ undisturbed' = {x \in undisturbed : descriptors'.pressedKeyDescriptors[x]
                                                   = descriptors.pressedKeyDescriptors[x]}
<1>0. descriptors \in Descriptors /\ UpdateHotkeyEx(d, m, c, on)
  BY DEF TypeInv, TypeOK, Updates
<1>1. CASE d = descriptors
  BY <1>0, <1>1, DescriptorsUpdated
<1>2. CASE d # descriptors
  <2>1. d = update_hotkeys(descriptors, m, c)
    BY <1>2 DEF Updates
  <2>2. /\ d \in Descriptors
        /\ \A x \in Hotkey \X Module :
              d.hotkeyDescriptors[x] = IF x[2] = m THEN IF x[1] \in c.hotkeys THEN 1 ELSE 0
                                       ELSE descriptors.hotkeyDescriptors[x]
        /\ \A x \in WinKey \X Module :
              d.pressedKeyDescriptors[x] = IF x[2] = m THEN 0 ELSE descriptors.pressedKeyDescriptors[x]
    BY <1>0, <2>1, UpdateHotkeysFacts
  <2>3. /\ descriptors' \in Descriptors
        /\ descriptors'.hotkeyDescriptors = d.hotkeyDescriptors
        /\ \A x \in WinKey \X Module :
              descriptors'.pressedKeyDescriptors[x] =
                 d.pressedKeyDescriptors[x] + IF c.tracks /\ x[2] = m THEN 1 ELSE 0
        /\ undisturbed' = {x \in undisturbed : descriptors'.pressedKeyDescriptors[x]
                                                = descriptors.pressedKeyDescriptors[x]}
    BY <1>0, <2>2, DescriptorsUpdated
  <2> QED
    BY <1>2, <2>2, <2>3
<1> QED
  BY <1>1, <1>2

LEMMA UpdateKeeps ==
    ASSUME ModulesInv, NEW m \in Module, NEW c \in ConfigOf(m), NEW on \in BOOLEAN, NEW d,
           Updates(m, c, on, d)
    PROVE  RegistryInv' /\ NothingLeaked' /\ HookFollowsConfig' /\ PressedInv'
<1>0. /\ TypeInv /\ TypeOK /\ RegistryInv /\ NothingLeaked /\ HookFollowsConfig /\ PressedInv
      /\ PhaseInv /\ config \in [Module -> Config] /\ enabled \in [Module -> BOOLEAN]
  BY DEF ModulesInv, TypeInv, TypeOK
<1>1. /\ loaded' = loaded \cup {m}
      /\ enabled'[m] = on /\ config'[m] = c
      /\ \A n \in Module : n # m => enabled'[n] = enabled[n] /\ config'[n] = config[n]
  BY <1>0 DEF Updates
<1>2. /\ \A s \in Shortcut :
            /\ Unique(registry'.actions[s])
            /\ Range(registry'.actions[s]) = (Range(registry.actions[s]) \ {m})
                  \cup IF on /\ c.hotkeyEx = s THEN {m} ELSE {}
      /\ \A s \in registry'.registered : registry'.actions[s] # <<>>
  BY <1>0, RegistryUpdated DEF Updates
<1>3. ASSUME NEW s \in Shortcut
      PROVE  Range(registry'.actions[s]) = {n \in loaded' : enabled'[n] /\ config'[n].hotkeyEx = s}
  <2>1. Range(registry.actions[s]) = {n \in loaded : enabled[n] /\ config[n].hotkeyEx = s}
    BY <1>0 DEF RegistryInv
  <2>2. loaded \subseteq Module
    BY <1>0 DEF TypeOK
  <2>3. ASSUME NEW n \in Module
        PROVE  n \in Range(registry'.actions[s]) <=> n \in loaded' /\ enabled'[n] /\ config'[n].hotkeyEx = s
    <3>1. CASE n = m
      BY <1>1, <1>2, <3>1
    <3>2. CASE n # m
      BY <1>1, <1>2, <2>1, <3>2
    <3> QED
      BY <3>1, <3>2
  <2>4. Range(registry'.actions[s]) \subseteq Module /\ loaded' \subseteq Module
    BY <1>1, <1>2, <2>1, <2>2
  <2> QED
    BY <2>3, <2>4
<1>4. RegistryInv' /\ NothingLeaked'
  BY <1>2, <1>3 DEF RegistryInv, NothingLeaked
<1>5. /\ \A x \in Hotkey \X Module :
            descriptors'.hotkeyDescriptors[x] =
               IF x[2] = m /\ d # descriptors THEN IF x[1] \in c.hotkeys THEN 1 ELSE 0
               ELSE descriptors.hotkeyDescriptors[x]
      /\ \A x \in WinKey \X Module :
            descriptors'.pressedKeyDescriptors[x] =
               (IF x[2] = m /\ d # descriptors THEN 0 ELSE descriptors.pressedKeyDescriptors[x])
                  + IF c.tracks /\ x[2] = m THEN 1 ELSE 0
  BY <1>0, UpdatedDescriptors
<1>6. d = descriptors => (m \in loaded /\ c = config[m]) \/ d = update_hotkeys(descriptors, m, c)
  BY DEF Updates
<1>7. HookFollowsConfig'
  <2>1. ASSUME NEW n \in Module, NEW h \in Hotkey
        PROVE  descriptors'.hotkeyDescriptors[<<h, n>>] =
                  IF n \in loaded' /\ h \in config'[n].hotkeys THEN 1 ELSE 0
    <3>1. descriptors.hotkeyDescriptors[<<h, n>>] =
             IF n \in loaded /\ h \in config[n].hotkeys THEN 1 ELSE 0
      BY <1>0 DEF HookFollowsConfig
    <3>2. CASE n # m
      BY <1>1, <1>5, <3>1, <3>2
    <3>3. CASE n = m /\ d # descriptors
      BY <1>1, <1>5, <3>3
    <3>4. CASE n = m /\ d = descriptors /\ m \in loaded /\ c = config[m]
      BY <1>1, <1>5, <3>1, <3>4
    <3>5. CASE n = m /\ d = descriptors /\ d = update_hotkeys(descriptors, m, c)
      <4>0. descriptors \in Descriptors /\ d = update_hotkeys(descriptors, m, c)
        BY <1>0, <3>5 DEF TypeOK
      <4>1. \A x \in Hotkey \X Module : x[2] = m =>
               d.hotkeyDescriptors[x] = IF x[1] \in c.hotkeys THEN 1 ELSE 0
        BY <4>0, UpdateHotkeysFacts
      <4>2. /\ <<h, n>> \in Hotkey \X Module /\ <<h, n>>[1] = h /\ <<h, n>>[2] = m
            /\ m \in loaded' /\ config'[m] = c
        BY <1>1, <3>5
      <4>3. d.hotkeyDescriptors[<<h, n>>] = IF h \in c.hotkeys THEN 1 ELSE 0
        BY <4>1, <4>2
      <4>4. descriptors'.hotkeyDescriptors[<<h, n>>] = descriptors.hotkeyDescriptors[<<h, n>>]
        BY <1>5, <3>5, <4>2
      <4> QED
        BY <3>5, <4>2, <4>3, <4>4
    <3> QED
      BY <1>6, <3>2, <3>3, <3>4, <3>5
  <2> QED
    BY <2>1 DEF HookFollowsConfig
<1>8. PressedInv'
  <2>1. ASSUME NEW x \in WinKey \X Module, descriptors'.pressedKeyDescriptors[x] > 0
        PROVE  x[2] \in loaded' /\ config'[x[2]].tracks
    <3>0. x[2] \in Module /\ descriptors.pressedKeyDescriptors[x] \in Nat
      BY <1>0 DEF TypeOK, Descriptors
    <3>1. CASE x[2] # m
      BY <1>0, <1>1, <1>5, <2>1, <3>0, <3>1 DEF PressedInv
    <3>2. CASE x[2] = m /\ c.tracks
      BY <1>1, <3>2
    <3>3. CASE x[2] = m /\ ~c.tracks
      <4>1. d = descriptors /\ descriptors.pressedKeyDescriptors[x] > 0
        BY <1>5, <2>1, <3>0, <3>3
      <4>2. config[m].tracks
        BY <1>0, <3>3, <4>1 DEF PressedInv
      <4>3. d = update_hotkeys(descriptors, m, c)
        BY <1>6, <3>3, <4>1, <4>2
      <4>4. descriptors \in Descriptors
        BY <1>0 DEF TypeOK
      <4>5. d.pressedKeyDescriptors[x] = 0
        BY <3>3, <4>3, <4>4, UpdateHotkeysFacts
      <4> QED
        BY <4>1, <4>5
    <3> QED
      BY <3>1, <3>2, <3>3
  <2> QED
    BY <2>1 DEF PressedInv
<1> QED
  BY <1>4, <1>7, <1>8

(* The steps of the threads that open the Settings window. *)
SettingsStep == \E t \in SettingsThread : \/ OpenSettings(t) \/ SaveSettings(t)
                                         \/ \E m \in Module : NoteModule(t, m)

(* The other steps change nothing of this, or end the runner.              *)
Quiet == UNCHANGED <<loaded, enabled, config, registry, descriptors>>

LEMMA StepKinds ==
    ASSUME TypeInv, Next
    PROVE  \/ Quiet
           \/ \E m \in Module : \E c \in ConfigOf(m), on \in BOOLEAN : \E d : Updates(m, c, on, d)
           \/ RunnerExit
<1> USE DEF runnerVars, hookVars, Quiet
<1>1. CASE \/ RunnerStart \/ DismissMessageBox \/ StartEnabledPowertoys \/ ModulesStarted
           \/ SettingsApplied \/ SaveOnClosing \/ SettingsStep \/ PopulateHotkey
  BY <1>1 DEF RunnerStart, DismissMessageBox, StartEnabledPowertoys, ModulesStarted,
              SettingsApplied, SaveOnClosing, SaveNow, SettingsStep, OpenSettings, NoteModule,
              SaveSettings, PopulateHotkey
<1>2. CASE \E m \in Module : LoadFails(m) \/ TriggerEvent(m) \/ ProcessExits(m)
  BY <1>2 DEF LoadFails, TriggerEvent, ProcessExits
<1>3. CASE \E object \in EnabledObject : ApplyGeneralSettings(object)
  BY <1>3 DEF ApplyGeneralSettings
<1>4. CASE \E s \in Shortcut : OtherProgram(s) \/ PressShortcut(s)
  BY <1>4 DEF OtherProgram, PressShortcut
<1>5. CASE \E k \in Key : KeyUp(k) \/ \E handled \in BOOLEAN : KeyDown(k, handled)
  BY <1>5 DEF KeyUp, KeyDown
<1>6. CASE \E x \in WinKey \X Module : PressedKeyTimerProc(x)
  BY <1>6 DEF PressedKeyTimerProc
<1>7. ASSUME NEW m \in Module, \/ LoadModule(m) \/ StartModule(m) \/ SwitchModule(m)
                               \/ \E c \in ConfigOf(m) : SendConfig(m, c)
      PROVE  \E c \in ConfigOf(m), on \in BOOLEAN : \E d : Updates(m, c, on, d)
  BY <1>7, UpdateSteps
<1> QED
  BY <1>1, <1>2, <1>3, <1>4, <1>5, <1>6, <1>7 DEF Next, SettingsStep

LEMMA NothingHooked ==
    ASSUME registry = EmptyRegistry, descriptors = NoDescriptors, loaded = {}
    PROVE  RegistryInv /\ NothingLeaked /\ HookFollowsConfig /\ PressedInv
<1>1. RegistryInv /\ NothingLeaked
  BY EmptySeq DEF EmptyRegistry, RegistryInv, NothingLeaked, Unique, Range
<1>2. HookFollowsConfig
  BY DEF NoDescriptors, HookFollowsConfig
<1>3. PressedInv
  BY DEF NoDescriptors, PressedInv
<1> QED
  BY <1>1, <1>2, <1>3

LEMMA HooksNext ==
    ASSUME ModulesInv, [Next]_vars
    PROVE  RegistryInv' /\ NothingLeaked' /\ HookFollowsConfig' /\ PressedInv'
<1>0. TypeInv /\ RegistryInv /\ NothingLeaked /\ HookFollowsConfig /\ PressedInv
  BY DEF ModulesInv
<1>1. CASE Quiet
  BY <1>0, <1>1 DEF Quiet, RegistryInv, NothingLeaked, HookFollowsConfig, PressedInv
<1>2. CASE \E m \in Module : \E c \in ConfigOf(m), on \in BOOLEAN : \E d : Updates(m, c, on, d)
  BY <1>2, UpdateKeeps
<1>3. CASE RunnerExit
  <2>1. registry' = EmptyRegistry /\ descriptors' = NoDescriptors /\ loaded' = {}
    BY <1>3 DEF RunnerExit
  <2>2. RegistryInv' /\ NothingLeaked'
    BY <2>1, EmptySeq DEF EmptyRegistry, RegistryInv, NothingLeaked, Unique, Range
  <2>3. HookFollowsConfig'
    BY <2>1 DEF NoDescriptors, HookFollowsConfig
  <2>4. PressedInv'
    BY <2>1 DEF NoDescriptors, PressedInv
  <2> QED
    BY <2>2, <2>3, <2>4
<1>4. CASE UNCHANGED vars
  BY <1>1, <1>4 DEF vars, runnerVars, hookVars, Quiet
<1> QED
  BY <1>0, <1>1, <1>2, <1>3, <1>4, StepKinds
---------------------------------------------------------------------------
(* Types *)

ProcessState == {"none", "running", "exiting"}

LEMMA ReactionFacts ==
    ASSUME NEW m, NEW n, NEW s \in ProcessState
    PROVE  /\ Terminate(s) \in ProcessState /\ OnHotkeyEx(m, s) \in ProcessState
           /\ Repeated(m, s, n) \in ProcessState
           /\ ~enabled[m] => Repeated(m, s, n) = s
<1>1. \A t \in ProcessState : Terminate(t) \in ProcessState /\ OnHotkeyEx(m, t) \in ProcessState
  BY DEF Terminate, OnHotkeyEx, ProcessState
<1>2. ~enabled[m] => \A t \in ProcessState : OnHotkeyEx(m, t) = t
  BY DEF OnHotkeyEx
<1>3. Repeated(m, s, n) \in {s, OnHotkeyEx(m, s), OnHotkeyEx(m, OnHotkeyEx(m, s))}
  <2>1. CASE n = 0
    BY <2>1 DEF Repeated
  <2>2. CASE n = 1
    BY <2>2 DEF Repeated
  <2>3. CASE n # 0 /\ n # 1
    BY <2>3 DEF Repeated
  <2> QED
    BY <2>1, <2>2, <2>3
<1> QED
  BY <1>1, <1>2, <1>3

(* What a module's process does in any step. *)
LEMMA ProcessTyped ==
    ASSUME TypeInv, NEW m \in Module, NEW s \in ProcessState,
           process' = [process EXCEPT ![m] = s]
    PROVE  process' \in [Module -> ProcessState]
  BY DEF TypeInv, TypeOK, ProcessState

LEMMA GeneralSettingsTyped ==
    ASSUME NEW on
    PROVE  GeneralSettings(on) \in EnabledObject
  BY DEF GeneralSettings, EnabledObject

(* The parts of the types a step of the keyboard or of a process, and a    *)
(* step of a handler, leave alone.                                         *)
KeysTyped == /\ down \subseteq Key /\ lastDown \in down \cup {VK_DISABLED}
             /\ vkCodePressed \in Key \cup {VK_DISABLED}
             /\ timers \subseteq WinKey \X Module /\ undisturbed \subseteq timers

HooksTyped == /\ registry \in Registry /\ descriptors \in Descriptors
              /\ taken \subseteq Shortcut \ registry.registered

RunnerTyped ==
    /\ phase \in {"down", "loading", "message box", "starting", "running", "applying", "ending"}
    /\ loaded \subseteq tried /\ tried \subseteq Module /\ pending \subseteq loaded
    /\ enabled \in [Module -> BOOLEAN] /\ saved \in EnabledObject
    /\ config \in [Module -> Config] /\ \A m \in Module : config[m] \in ConfigOf(m)

SettingsTyped == /\ opening \subseteq SettingsThread /\ fresh \subseteq opening
                 /\ astray \in BOOLEAN /\ snapshot \in [SettingsThread -> Snapshot]

MessagesTyped == messages \in Seq(Shortcut) /\ Len(messages) <= MaxHotkeys

ProcessesTyped == process \in [Module -> ProcessState]

LEMMA TypeParts ==
    /\ TypeInv <=> /\ RunnerTyped /\ SettingsTyped /\ HooksTyped /\ KeysTyped
                   /\ MessagesTyped /\ ProcessesTyped
    /\ TypeInv' <=> /\ RunnerTyped' /\ SettingsTyped' /\ HooksTyped' /\ KeysTyped'
                    /\ MessagesTyped' /\ ProcessesTyped'
  BY Zenon DEF TypeInv, TypeOK, RunnerTyped, SettingsTyped, HooksTyped, KeysTyped, MessagesTyped,
               ProcessesTyped, ProcessState

LEMMA HooksTypedNext ==
    ASSUME ModulesInv, Next
    PROVE  HooksTyped'
<1>0. /\ TypeInv /\ RegistryInv /\ NothingLeaked /\ HooksTyped /\ registry.registered \subseteq Shortcut
  BY TypeParts DEF ModulesInv, HooksTyped, Registry
<1>1. CASE Quiet /\ UNCHANGED taken
  BY <1>0, <1>1 DEF Quiet, HooksTyped
<1>2. ASSUME NEW m \in Module, NEW c \in ConfigOf(m), NEW on \in BOOLEAN, NEW d, Updates(m, c, on, d)
      PROVE  HooksTyped'
  <2>1. registry' \in Registry /\ taken \subseteq Shortcut \ registry'.registered
    BY <1>0, <1>2, RegistryUpdated DEF Updates
  <2>2. descriptors' \in Descriptors
    BY <1>0, <1>2, UpdatedDescriptors
  <2>3. taken' = taken
    BY <1>2 DEF Updates
  <2> QED
    BY <2>1, <2>2, <2>3 DEF HooksTyped
<1>3. CASE RunnerExit
  <2>1. registry' = EmptyRegistry /\ descriptors' = NoDescriptors /\ taken' = taken
    BY <1>3 DEF RunnerExit
  <2>2. registry' \in Registry /\ registry'.registered = {}
    BY <2>1 DEF EmptyRegistry, Registry
  <2>3. descriptors' \in Descriptors
    BY <2>1 DEF NoDescriptors, Descriptors
  <2> QED
    BY <1>0, <2>1, <2>2, <2>3 DEF HooksTyped
<1>4. ASSUME NEW s \in Shortcut, OtherProgram(s) PROVE HooksTyped'
  <2>1. /\ registry' = registry /\ descriptors' = descriptors /\ s \notin registry.registered
        /\ taken' = IF s \in taken THEN taken \ {s} ELSE taken \cup {s}
    BY <1>4 DEF OtherProgram, hookVars
  <2> QED
    BY <1>0, <2>1 DEF HooksTyped
<1>5. Quiet => taken' = taken \/ \E s \in Shortcut : OtherProgram(s)
  BY DEF Next, RunnerStart, DismissMessageBox, StartEnabledPowertoys, ModulesStarted, SettingsApplied,
         SaveOnClosing, SaveNow, SettingsStep, OpenSettings, NoteModule, SaveSettings, PopulateHotkey,
         LoadModule, LoadFails, StartModule, SwitchModule, TriggerEvent,
         ProcessExits, ApplyGeneralSettings, SendConfig, RunnerExit, PressShortcut, KeyUp, KeyDown,
         PressedKeyTimerProc
<1> QED
  BY <1>0, <1>1, <1>2, <1>3, <1>4, <1>5, StepKinds
LEMMA KeysTypedNext ==
    ASSUME ModulesInv, Next
    PROVE  KeysTyped'
<1>0. TypeInv /\ KeysTyped /\ WinKey \subseteq Key
  BY TypeParts, KeyAssumption DEF ModulesInv
<1> USE <1>0 DEF KeysTyped
<1>1. CASE UNCHANGED keyVars
  BY <1>1 DEF keyVars
<1>2. CASE UNCHANGED <<down, lastDown, vkCodePressed, timers>> /\ undisturbed' \subseteq undisturbed
  BY <1>2
<1>3. ASSUME NEW m \in Module, NEW c \in ConfigOf(m), NEW on \in BOOLEAN, NEW d, Updates(m, c, on, d)
      PROVE  UNCHANGED <<down, lastDown, vkCodePressed, timers>> /\ undisturbed' \subseteq undisturbed
  <2>1. undisturbed' \subseteq undisturbed
    BY <1>3, UpdatedDescriptors
  <2> QED
    BY <1>3, <2>1 DEF Updates
<1>4. CASE RunnerExit
  BY <1>4 DEF RunnerExit
<1>5. ASSUME NEW k \in Key, KeyUp(k) PROVE KeysTyped'
  <2>1. down' \subseteq Key /\ lastDown' \in down' \cup {VK_DISABLED}
    BY <1>5 DEF KeyUp
  <2>2. CASE Hooked
    <3>1. /\ vkCodePressed' = VK_DISABLED /\ undisturbed' = undisturbed \cap timers'
          /\ timers' = timers \ Tracked(descriptors, k)
      BY <1>5, <2>2 DEF KeyUp, TimersOnUp
    <3> QED
      BY <2>1, <3>1
  <2>3. CASE ~Hooked
    BY <1>5, <2>1, <2>3 DEF KeyUp
  <2> QED
    BY <2>2, <2>3
<1>6. ASSUME NEW k \in Key, NEW handled \in BOOLEAN, KeyDown(k, handled) PROVE KeysTyped'
  <2>1. down' \subseteq Key /\ lastDown' \in down' \cup {VK_DISABLED}
    BY <1>6 DEF KeyDown
  <2>2. CASE Hooked
    <3>1. /\ vkCodePressed' \in Key \cup {VK_DISABLED}
          /\ undisturbed' = (undisturbed \cap timers') \cup (timers' \ timers)
          /\ timers' = TimersOnDown(descriptors, timers, vkCodePressed, k)
      BY <1>6, <2>2 DEF KeyDown
    <3>2. timers' \subseteq WinKey \X Module
      BY <3>1 DEF TimersOnDown, Tracked
    <3> QED
      BY <2>1, <3>1, <3>2
  <2>3. CASE ~Hooked
    BY <1>6, <2>1, <2>3 DEF KeyDown
  <2> QED
    BY <2>2, <2>3
<1>7. ASSUME NEW x \in WinKey \X Module, PressedKeyTimerProc(x) PROVE KeysTyped'
  <2>1. /\ UNCHANGED <<down, lastDown, vkCodePressed>>
        /\ timers' = timers \ {x} /\ undisturbed' = undisturbed \ {x}
    BY <1>7 DEF PressedKeyTimerProc
  <2> QED
    BY <2>1
<1>8. \/ UNCHANGED keyVars
      \/ \E m \in Module : \E c \in ConfigOf(m), on \in BOOLEAN : \E d : Updates(m, c, on, d)
      \/ RunnerExit
      \/ \E k \in Key : KeyUp(k) \/ \E handled \in BOOLEAN : KeyDown(k, handled)
      \/ \E x \in WinKey \X Module : PressedKeyTimerProc(x)
  <2>1. ASSUME NEW m \in Module, \/ LoadModule(m) \/ StartModule(m) \/ SwitchModule(m)
                                 \/ \E c \in ConfigOf(m) : SendConfig(m, c)
        PROVE  \E c \in ConfigOf(m), on \in BOOLEAN : \E d : Updates(m, c, on, d)
    BY <2>1, UpdateSteps
  <2> QED
    BY <2>1 DEF Next, RunnerStart, DismissMessageBox, StartEnabledPowertoys, ModulesStarted,
           SettingsApplied, SaveOnClosing, SaveNow, SettingsStep, OpenSettings, NoteModule,
           SaveSettings, PopulateHotkey, LoadFails, TriggerEvent, ProcessExits,
           ApplyGeneralSettings, OtherProgram, PressShortcut
<1> QED
  BY <1>1, <1>2, <1>3, <1>4, <1>5, <1>6, <1>7, <1>8

LEMMA MessagesTypedNext ==
    ASSUME ModulesInv, Next
    PROVE  MessagesTyped'
<1>0. MessagesTyped /\ MaxHotkeys \in Nat /\ registry.registered \subseteq Shortcut
  BY TypeParts, ModulesAssumption DEF ModulesInv, HooksTyped, Registry
<1>1. ASSUME NEW s \in Shortcut, PressShortcut(s) PROVE MessagesTyped'
  <2>1. messages' = Append(messages, s) /\ Len(messages) < MaxHotkeys
    BY <1>1 DEF PressShortcut
  <2>2. /\ Append(messages, s) \in Seq(Shortcut) /\ Len(Append(messages, s)) = Len(messages) + 1
        /\ Len(messages) \in Nat
    BY <1>0, AppendProperties, LenProperties DEF MessagesTyped
  <2> QED
    BY <1>0, <2>1, <2>2 DEF MessagesTyped
<1>2. CASE PopulateHotkey
  <2>1. messages' = Tail(messages) /\ messages # <<>>
    BY <1>2 DEF PopulateHotkey
  <2>2. /\ Tail(messages) \in Seq(Shortcut) /\ Len(Tail(messages)) = Len(messages) - 1
        /\ Len(messages) \in Nat
    BY <1>0, <2>1, HeadTailProperties, LenProperties DEF MessagesTyped
  <2> QED
    BY <1>0, <2>1, <2>2 DEF MessagesTyped
<1>3. CASE messages' = <<>>
  BY <1>0, <1>3, EmptySeq DEF MessagesTyped
<1>4. CASE messages' = messages
  BY <1>0, <1>4 DEF MessagesTyped
<1>5. \/ messages' = messages \/ messages' = <<>> \/ PopulateHotkey
      \/ \E s \in Shortcut : PressShortcut(s)
  BY DEF Next, RunnerStart, DismissMessageBox, StartEnabledPowertoys, ModulesStarted, SettingsApplied,
         SaveOnClosing, SaveNow, SettingsStep, OpenSettings, NoteModule, SaveSettings, LoadModule,
         LoadFails, StartModule, SwitchModule, TriggerEvent,
         ProcessExits, ApplyGeneralSettings, SendConfig, RunnerExit, OtherProgram, KeyUp, KeyDown,
         PressedKeyTimerProc
<1> QED
  BY <1>1, <1>2, <1>3, <1>4, <1>5

LEMMA ProcessesTypedNext ==
    ASSUME ModulesInv, Next
    PROVE  ProcessesTyped'
<1>0. TypeInv /\ ProcessesTyped /\ loaded \subseteq Module
  BY TypeParts DEF ModulesInv, RunnerTyped
<1>1. ASSUME NEW m \in Module, NEW s \in ProcessState, process' = [process EXCEPT ![m] = s]
      PROVE  ProcessesTyped'
  BY <1>0, <1>1, ProcessTyped DEF ProcessesTyped
<1>2. ASSUME NEW m \in Module PROVE process[m] \in ProcessState
  BY <1>0 DEF ProcessesTyped
<1>3. ASSUME NEW m \in Module, StartModule(m) \/ SwitchModule(m) PROVE ProcessesTyped'
  <2>1. \/ process' = [process EXCEPT ![m] = process[m]]
        \/ process' = [process EXCEPT ![m] = Terminate(process[m])]
    BY <1>3 DEF StartModule, SwitchModule, SetEnabled
  <2> QED
    BY <1>1, <1>2, <2>1, ReactionFacts
<1>4. ASSUME NEW m \in Module, process' = [process EXCEPT ![m] = OnHotkeyEx(m, process[m])]
      PROVE  ProcessesTyped'
  BY <1>1, <1>2, <1>4, ReactionFacts
<1>5. CASE PopulateHotkey
  <2> DEFINE wanting == registry.actions[Head(messages)]
  <2>1. \/ wanting # <<>> /\ process' = [process EXCEPT ![Head(wanting)] = OnHotkeyEx(Head(wanting), process[Head(wanting)])]
        \/ process' = process
        \/ \E m \in loaded : process' = [process EXCEPT ![m] = OnHotkeyEx(m, process[m])]
    BY <1>5 DEF PopulateHotkey
  <2>2. wanting # <<>> => Head(wanting) \in Module
    <3>1. messages # <<>> /\ messages \in Seq(Shortcut) /\ registry.actions \in [Shortcut -> Seq(Module)]
      BY <1>0, <1>5, TypeParts DEF PopulateHotkey, MessagesTyped, HooksTyped, Registry
    <3>2. Head(messages) \in Shortcut
      BY <3>1, HeadTailProperties
    <3>3. wanting \in Seq(Module)
      BY <3>1, <3>2
    <3> QED
      BY <3>3, HeadTailProperties
  <2> HIDE DEF wanting
  <2>3. CASE process' = process
    BY <1>0, <2>3 DEF ProcessesTyped
  <2> QED
    BY <1>0, <1>4, <2>1, <2>2, <2>3
<1>6. ASSUME NEW x \in WinKey \X Module, PressedKeyTimerProc(x) PROVE ProcessesTyped'
  <2>1. x[2] \in Module /\ process' = [process EXCEPT ![x[2]] =
             Repeated(x[2], process[x[2]], descriptors.pressedKeyDescriptors[x])]
    BY <1>6 DEF PressedKeyTimerProc
  <2> QED
    BY <1>1, <1>2, <2>1, ReactionFacts
<1>7. CASE \E m \in Module : TriggerEvent(m)
  BY <1>4, <1>7 DEF TriggerEvent
<1>8. CASE \E m \in Module : ProcessExits(m)
  BY <1>1, <1>8 DEF ProcessExits, ProcessState
<1>9. CASE RunnerExit
  BY <1>9 DEF RunnerExit, ProcessesTyped, ProcessState
<1>10. \/ process' = process \/ PopulateHotkey
       \/ \E m \in Module : StartModule(m) \/ SwitchModule(m) \/ TriggerEvent(m) \/ ProcessExits(m)
       \/ \E x \in WinKey \X Module : PressedKeyTimerProc(x)
       \/ RunnerExit
  BY DEF Next, RunnerStart, DismissMessageBox, StartEnabledPowertoys, ModulesStarted, SettingsApplied,
         SaveOnClosing, SaveNow, SettingsStep, OpenSettings, NoteModule, SaveSettings, LoadModule,
         LoadFails, ApplyGeneralSettings, SendConfig, OtherProgram,
         PressShortcut, KeyUp, KeyDown
<1> QED
  BY <1>0, <1>3, <1>5, <1>6, <1>7, <1>8, <1>9, <1>10 DEF ProcessesTyped

LEMMA RunnerTypedNext ==
    ASSUME ModulesInv, Next
    PROVE  RunnerTyped'
<1>0. TypeInv /\ RunnerTyped /\ PhaseInv
  BY TypeParts DEF ModulesInv
<1> USE DEF RunnerTyped, runnerVars
<1>1. ASSUME NEW m \in Module, NEW c \in ConfigOf(m), NEW on \in BOOLEAN, NEW d, Updates(m, c, on, d)
      PROVE  /\ enabled' \in [Module -> BOOLEAN]
             /\ config' \in [Module -> Config] /\ \A n \in Module : config'[n] \in ConfigOf(n)
  <2>1. /\ enabled' = [enabled EXCEPT ![m] = on] /\ config' = [config EXCEPT ![m] = c] /\ c \in Config
    BY <1>1 DEF Updates, ConfigOf
  <2> QED
    BY <1>0, <2>1
<1>2. ASSUME NEW m \in Module, \/ LoadModule(m) \/ StartModule(m) \/ SwitchModule(m)
                               \/ \E c \in ConfigOf(m) : SendConfig(m, c)
      PROVE  RunnerTyped'
  <2>1. /\ enabled' \in [Module -> BOOLEAN]
        /\ config' \in [Module -> Config] /\ \A n \in Module : config'[n] \in ConfigOf(n)
    BY <1>0, <1>1, <1>2, UpdateSteps
  <2>2. /\ phase' = phase /\ saved' = saved
        /\ \/ loaded' = loaded /\ tried' = tried
           \/ loaded' = loaded \cup {m} /\ tried' = tried \cup {m}
        /\ pending' \subseteq pending
    BY <1>2 DEF LoadModule, StartModule, SwitchModule, SendConfig
  <2> QED
    BY <1>0, <2>1, <2>2
<1>3. CASE RunnerExit
  <2>1. /\ phase' = "down" /\ loaded' = {} /\ tried' = {} /\ pending' = {}
        /\ enabled' = [m \in Module |-> FALSE] /\ config' = config
        /\ saved' \in {saved, NoEntries}
    BY <1>3 DEF RunnerExit
  <2>2. saved' \in EnabledObject
    BY <1>0, <2>1 DEF NoEntries, EnabledObject
  <2> QED
    BY <1>0, <2>1, <2>2
<1>4. CASE SettingsApplied \/ SaveOnClosing
  BY <1>0, <1>4, GeneralSettingsTyped DEF SettingsApplied, SaveOnClosing, SaveNow
<1>5. CASE RunnerStart \/ DismissMessageBox \/ StartEnabledPowertoys \/ ModulesStarted
  BY <1>0, <1>5 DEF RunnerStart, DismissMessageBox, StartEnabledPowertoys, ModulesStarted
<1>6. CASE \E m \in Module : LoadFails(m)
  BY <1>0, <1>6 DEF LoadFails
<1>7. CASE \E object \in EnabledObject : ApplyGeneralSettings(object)
  BY <1>0, <1>7 DEF ApplyGeneralSettings
<1>8. CASE UNCHANGED <<phase, loaded, tried, pending, enabled, saved, config>>
  BY <1>0, <1>8
<1>9. ASSUME NEW t \in SettingsThread, SaveSettings(t) PROVE RunnerTyped'
  <2>1. /\ saved' = snapshot[t] /\ snapshot[t] \in Snapshot
        /\ \A m \in Module : snapshot[t][m] # "unread"
    BY <1>0, <1>9, TypeParts DEF SaveSettings, Noted, SettingsTyped
  <2>2. saved' \in EnabledObject
    BY <2>1 DEF Snapshot, EnabledObject
  <2> QED
    BY <1>0, <1>9, <2>2 DEF SaveSettings
<1>10. SettingsStep => \/ UNCHANGED <<phase, loaded, tried, pending, enabled, saved, config>>
                       \/ \E t \in SettingsThread : SaveSettings(t)
  BY DEF SettingsStep, OpenSettings, NoteModule
<1>11. \/ UNCHANGED <<phase, loaded, tried, pending, enabled, saved, config>>
       \/ \E m \in Module : \/ LoadModule(m) \/ StartModule(m) \/ SwitchModule(m)
                            \/ \E c \in ConfigOf(m) : SendConfig(m, c)
       \/ RunnerExit
       \/ SettingsApplied \/ SaveOnClosing \/ SettingsStep
       \/ RunnerStart \/ DismissMessageBox \/ StartEnabledPowertoys \/ ModulesStarted
       \/ \E m \in Module : LoadFails(m)
       \/ \E object \in EnabledObject : ApplyGeneralSettings(object)
  BY DEF Next, SettingsStep, PopulateHotkey, TriggerEvent, ProcessExits, OtherProgram, PressShortcut,
         KeyUp, KeyDown, PressedKeyTimerProc
<1> QED
  BY <1>2, <1>3, <1>4, <1>5, <1>6, <1>7, <1>8, <1>9, <1>10, <1>11

LEMMA SettingsTypedNext ==
    ASSUME ModulesInv, Next
    PROVE  SettingsTyped'
<1>0. TypeInv /\ SettingsTyped
  BY TypeParts DEF ModulesInv
<1> USE DEF SettingsTyped
<1>1. CASE UNCHANGED settingsVars
  BY <1>0, <1>1 DEF settingsVars
<1>2. ASSUME NEW t \in SettingsThread, OpenSettings(t) PROVE SettingsTyped'
  BY <1>0, <1>2 DEF OpenSettings
<1>3. ASSUME NEW t \in SettingsThread, NEW m \in Module, NoteModule(t, m) PROVE SettingsTyped'
  <2>1. GeneralSettings(enabled)[m] \in {"unread", "on", "off", "none"}
    BY DEF GeneralSettings
  <2>2. snapshot' \in [SettingsThread -> Snapshot]
    BY <1>0, <1>3, <2>1 DEF NoteModule, Snapshot
  <2> QED
    BY <1>0, <1>3, <2>2 DEF NoteModule
<1>4. NothingRead \in Snapshot
  BY DEF NothingRead, Snapshot
<1>5. ASSUME NEW t \in SettingsThread, SaveSettings(t) PROVE SettingsTyped'
  BY <1>0, <1>4, <1>5 DEF SaveSettings
<1>6. CASE SettingsApplied \/ SaveOnClosing
  BY <1>0, <1>6 DEF SettingsApplied, SaveOnClosing, SaveNow
<1>7. CASE \E object \in EnabledObject : ApplyGeneralSettings(object)
  BY <1>0, <1>7 DEF ApplyGeneralSettings
<1>8. CASE RunnerExit
  BY <1>0, <1>4, <1>8 DEF RunnerExit
<1>9. \/ UNCHANGED settingsVars \/ SettingsStep \/ SettingsApplied \/ SaveOnClosing \/ RunnerExit
      \/ \E object \in EnabledObject : ApplyGeneralSettings(object)
  BY DEF Next, SettingsStep, runnerVars, RunnerStart, DismissMessageBox, StartEnabledPowertoys,
         ModulesStarted, PopulateHotkey, LoadModule, LoadFails, StartModule, SwitchModule, SendConfig,
         TriggerEvent, ProcessExits, OtherProgram, PressShortcut, KeyUp, KeyDown, PressedKeyTimerProc
<1> QED
  BY <1>1, <1>2, <1>3, <1>5, <1>6, <1>7, <1>8, <1>9 DEF SettingsStep

LEMMA TypeNext ==
    ASSUME ModulesInv, [Next]_vars
    PROVE  TypeInv'
<1>1. CASE Next
  BY <1>1, TypeParts, HooksTypedNext, KeysTypedNext, MessagesTypedNext, ProcessesTypedNext, RunnerTypedNext,
     SettingsTypedNext
<1>2. CASE UNCHANGED vars
  BY <1>2 DEF ModulesInv, vars, runnerVars, settingsVars, hookVars, keyVars, TypeInv, TypeOK
<1> QED
  BY <1>1, <1>2
---------------------------------------------------------------------------
(* The runner's phases, and the user's choice *)

(* The steps during which no module is enabled, disabled or chosen.        *)
Settled == UNCHANGED <<phase, loaded, pending, enabled, saved, settingsVars>>

LEMMA RunnerSteps ==
    ASSUME Next
    PROVE  \/ Settled
           \/ RunnerStart \/ DismissMessageBox \/ StartEnabledPowertoys \/ ModulesStarted
           \/ SettingsApplied \/ SaveOnClosing \/ SettingsStep
           \/ \E m \in Module : LoadModule(m) \/ LoadFails(m) \/ StartModule(m) \/ SwitchModule(m)
           \/ \E object \in EnabledObject : ApplyGeneralSettings(object)
           \/ RunnerExit
  BY DEF Next, Settled, SettingsStep, runnerVars, PopulateHotkey, TriggerEvent, ProcessExits,
         OtherProgram, PressShortcut, KeyUp, KeyDown, PressedKeyTimerProc, SendConfig

(* A Settings thread changes nothing of the modules.                       *)
LEMMA SettingsSteps ==
    ASSUME SettingsStep
    PROVE  UNCHANGED <<phase, loaded, pending, enabled>>
  BY DEF SettingsStep, OpenSettings, NoteModule, SaveSettings

LEMMA PhaseNext ==
    ASSUME ModulesInv, [Next]_vars
    PROVE  PhaseInv'
<1>0. /\ PhaseInv /\ TypeOK /\ loaded \subseteq Module /\ pending \subseteq loaded
      /\ enabled \in [Module -> BOOLEAN]
  BY DEF ModulesInv, TypeInv, TypeOK
<1> USE DEF PhaseInv
<1>1. CASE Settled \/ UNCHANGED vars
  BY <1>0, <1>1 DEF Settled, vars, runnerVars
<1>2. CASE RunnerStart \/ DismissMessageBox \/ StartEnabledPowertoys \/ ModulesStarted
  BY <1>0, <1>2 DEF RunnerStart, DismissMessageBox, StartEnabledPowertoys, ModulesStarted
<1>3. CASE SettingsApplied \/ SaveOnClosing \/ SettingsStep
  BY <1>0, <1>3, SettingsSteps DEF SettingsApplied, SaveOnClosing
<1>4. CASE \E m \in Module : LoadModule(m) \/ LoadFails(m)
  BY <1>0, <1>4 DEF LoadModule, LoadFails
<1>5. ASSUME NEW m \in Module, StartModule(m) \/ SwitchModule(m) PROVE PhaseInv'
  <2>1. /\ phase \in {"starting", "applying"} /\ phase' = phase /\ loaded' = loaded /\ m \in loaded
        /\ \A n \in Module : n # m => enabled'[n] = enabled[n]
    BY <1>0, <1>5 DEF StartModule, SwitchModule, SetEnabled
  <2> QED
    BY <1>0, <2>1
<1>6. CASE \E object \in EnabledObject : ApplyGeneralSettings(object)
  BY <1>0, <1>6 DEF ApplyGeneralSettings
<1>7. CASE RunnerExit
  <2>1. phase' = "down" /\ loaded' = {} /\ pending' = {} /\ enabled' = [m \in Module |-> FALSE]
    BY <1>7 DEF RunnerExit
  <2> QED
    BY <2>1
<1> QED
  BY <1>1, <1>2, <1>3, <1>4, <1>5, <1>6, <1>7, RunnerSteps

LEMMA ChoiceNext ==
    ASSUME ModulesInv, [Next]_vars
    PROVE  ChoiceInv'
<1>0. /\ TypeOK /\ PhaseInv /\ ChoiceInv /\ FreshInv /\ loaded \subseteq Module
      /\ enabled \in [Module -> BOOLEAN] /\ saved \in EnabledObject
  BY DEF ModulesInv, TypeInv, TypeOK
<1>1. CASE Settled \/ UNCHANGED vars
  <2>1. /\ phase' = phase /\ loaded' = loaded /\ pending' = pending /\ enabled' = enabled
        /\ saved' = saved /\ astray' = astray
    BY <1>1 DEF Settled, vars, runnerVars, settingsVars
  <2> QED
    BY <1>0, <2>1 DEF ChoiceInv, RunsAsSaved
<1>2. ASSUME phase' \notin {"starting", "applying", "running"} PROVE ChoiceInv'
  BY <1>2 DEF ChoiceInv, RunsAsSaved
<1>3. CASE \/ RunnerStart \/ DismissMessageBox \/ SaveOnClosing \/ RunnerExit
           \/ \E m \in Module : LoadModule(m) \/ LoadFails(m)
  BY <1>2, <1>3 DEF RunnerStart, DismissMessageBox, SaveOnClosing, RunnerExit, LoadModule, LoadFails
<1>4. CASE StartEnabledPowertoys
  <2>1. /\ phase' = "starting" /\ pending' = {m \in loaded : ShouldBeEnabled(m)} /\ phase = "loading"
        /\ loaded' = loaded /\ enabled' = enabled /\ saved' = saved
    BY <1>4 DEF StartEnabledPowertoys
  <2>2. \A m \in Module : ~enabled[m]
    BY <1>0, <2>1 DEF PhaseInv
  <2>3. ASSUME NEW m \in loaded
        PROVE  /\ Gpo[m] # "none" => (m \in pending' <=> Gpo[m] = "enabled")
               /\ Gpo[m] = "none" /\ saved[m] # "none" => (m \in pending' <=> saved[m] = "on")
    BY <2>1 DEF ShouldBeEnabled, Target
  <2> QED
    BY <1>0, <2>1, <2>2, <2>3 DEF ChoiceInv, RunsAsSaved
<1>5. CASE ModulesStarted
  <2>1. /\ phase' = "running" /\ pending = {} /\ phase = "starting"
        /\ loaded' = loaded /\ enabled' = enabled /\ saved' = saved /\ astray' = astray
    BY <1>5 DEF ModulesStarted, settingsVars
  <2>2. \A m \in loaded :
           /\ Gpo[m] # "none" => (enabled[m] <=> Gpo[m] = "enabled")
           /\ Gpo[m] = "none" /\ saved[m] # "none" /\ ~astray => (enabled[m] <=> saved[m] = "on")
           /\ enabled[m] \in BOOLEAN
    BY <1>0, <2>1 DEF ChoiceInv
  <2> QED
    BY <2>1, <2>2 DEF ChoiceInv, RunsAsSaved
<1>6. CASE SettingsApplied
  <2>1. /\ phase = "applying" /\ phase' = "running"
        /\ loaded' = loaded /\ enabled' = enabled /\ saved' = GeneralSettings(enabled)
    BY <1>6 DEF SettingsApplied, SaveNow
  <2>2. \A m \in loaded : enabled[m] = (saved'[m] = "on")
    BY <1>0, <2>1 DEF GeneralSettings
  <2>3. \A m \in loaded : Gpo[m] # "none" => enabled[m] = (Gpo[m] = "enabled")
    BY <1>0, <2>1 DEF ChoiceInv
  <2> QED
    BY <2>1, <2>2, <2>3 DEF ChoiceInv, RunsAsSaved
<1>7. CASE SettingsStep
  <2>1. phase' = phase /\ loaded' = loaded /\ pending' = pending /\ enabled' = enabled
    BY <1>7, SettingsSteps
  <2>2. CASE saved' = saved /\ astray' = astray
    BY <1>0, <2>1, <2>2 DEF ChoiceInv, RunsAsSaved
  <2>3. CASE astray'
    BY <1>0, <2>1, <2>3 DEF ChoiceInv, RunsAsSaved
  <2>4. ASSUME NEW t \in fresh, Noted(t), saved' = snapshot[t] PROVE ChoiceInv'
    <3>1. phase \in {"running", "ending"}
      BY <1>0 DEF FreshInv
    <3>2. \A m \in Module : saved'[m] = GeneralSettings(enabled)[m]
      BY <1>0, <2>4 DEF FreshInv, Noted
    <3>3. \A m \in loaded : enabled[m] = (saved'[m] = "on")
      BY <1>0, <3>2 DEF GeneralSettings
    <3>4. phase = "running" => \A m \in loaded : Gpo[m] # "none" => enabled[m] = (Gpo[m] = "enabled")
      BY <1>0 DEF ChoiceInv, RunsAsSaved
    <3> QED
      BY <2>1, <3>1, <3>3, <3>4 DEF ChoiceInv, RunsAsSaved
  <2>5. \/ saved' = saved /\ astray' = astray
        \/ astray'
        \/ \E t \in fresh : Noted(t) /\ saved' = snapshot[t]
    BY <1>7 DEF SettingsStep, OpenSettings, NoteModule, SaveSettings
  <2> QED
    BY <2>2, <2>3, <2>4, <2>5
<1>8. ASSUME NEW m \in Module, StartModule(m) PROVE ChoiceInv'
  <2>1. /\ phase = "starting" /\ phase' = phase /\ m \in pending /\ pending' = pending \ {m}
        /\ enabled' = [enabled EXCEPT ![m] = TRUE] /\ loaded' = loaded /\ saved' = saved
        /\ astray' = astray
    BY <1>8 DEF StartModule, SetEnabled, settingsVars
  <2>2. ASSUME NEW n \in loaded
        PROVE  /\ n \in pending' => ~enabled'[n]
               /\ enabled'[n] \/ n \in pending' <=> enabled[n] \/ n \in pending
    <3>1. n \in pending => ~enabled[n]
      BY <1>0, <2>1 DEF ChoiceInv
    <3> QED
      BY <1>0, <2>1, <3>1
  <2> QED
    BY <1>0, <2>1, <2>2 DEF ChoiceInv, RunsAsSaved
<1>9. ASSUME NEW m \in Module, SwitchModule(m) PROVE ChoiceInv'
  <2>1. /\ phase = "applying" /\ phase' = phase /\ m \in pending /\ pending' = pending \ {m}
        /\ \A n \in Module : n # m => enabled'[n] = enabled[n]
        /\ loaded' = loaded /\ saved' = saved
    BY <1>0, <1>9 DEF SwitchModule, SetEnabled
  <2>2. \A n \in loaded : Gpo[n] # "none" => n # m /\ n \notin pending /\ enabled[n] = (Gpo[n] = "enabled")
    BY <1>0, <2>1 DEF ChoiceInv
  <2> QED
    BY <1>0, <2>1, <2>2 DEF ChoiceInv, RunsAsSaved
<1>10. ASSUME NEW object \in EnabledObject, ApplyGeneralSettings(object) PROVE ChoiceInv'
  <2>1. /\ phase = "running" /\ phase' = "applying" /\ loaded' = loaded /\ enabled' = enabled
        /\ pending' = {m \in loaded : object[m] # "none" /\ enabled[m] # Target(m, object[m] = "on")}
    BY <1>10 DEF ApplyGeneralSettings
  <2>2. \A m \in loaded : Gpo[m] # "none" =>
           enabled[m] = (Gpo[m] = "enabled") /\ Target(m, object[m] = "on") = (Gpo[m] = "enabled")
    BY <1>0, <2>1 DEF ChoiceInv, RunsAsSaved, Target
  <2> QED
    BY <2>1, <2>2 DEF ChoiceInv, RunsAsSaved
<1> QED
  BY <1>1, <1>3, <1>4, <1>5, <1>6, <1>7, <1>8, <1>9, <1>10, RunnerSteps

(* What a fresh Settings thread has noted stays so until the user chooses  *)
(* again: no module changes while the runner runs otherwise.               *)
LEMMA FreshNext ==
    ASSUME ModulesInv, [Next]_vars
    PROVE  FreshInv'
<1>0. /\ FreshInv /\ fresh \subseteq opening /\ opening \subseteq SettingsThread
      /\ snapshot \in [SettingsThread -> Snapshot]
  BY DEF ModulesInv, TypeInv, TypeOK
<1> USE DEF FreshInv
<1>1. ASSUME loaded' = loaded, enabled' = enabled PROVE GeneralSettings(enabled)' = GeneralSettings(enabled)
  BY <1>1 DEF GeneralSettings
<1>2. CASE Settled \/ UNCHANGED vars
  <2>1. UNCHANGED <<phase, loaded, enabled, opening, snapshot, fresh>>
    BY <1>2 DEF Settled, vars, runnerVars, settingsVars
  <2> QED
    BY <1>0, <1>1, <2>1
<1>3. CASE fresh' = {} /\ UNCHANGED <<opening, snapshot>>
  BY <1>0, <1>3
<1>4. CASE \/ RunnerStart \/ DismissMessageBox \/ StartEnabledPowertoys \/ ModulesStarted
           \/ SettingsApplied
           \/ \E m \in Module : LoadModule(m) \/ LoadFails(m) \/ StartModule(m) \/ SwitchModule(m)
           \/ \E object \in EnabledObject : ApplyGeneralSettings(object)
  <2>1. /\ opening' = opening /\ snapshot' = snapshot
        /\ fresh' = {} \/ (fresh' = fresh /\ phase \notin {"running", "ending"})
    BY <1>4 DEF RunnerStart, DismissMessageBox, StartEnabledPowertoys, ModulesStarted, SettingsApplied,
                LoadModule, LoadFails, StartModule, SwitchModule, ApplyGeneralSettings, settingsVars
  <2> QED
    BY <1>0, <1>3, <2>1
<1>5. CASE SaveOnClosing
  <2>1. phase' = "ending" /\ UNCHANGED <<loaded, enabled, opening, snapshot, fresh>>
    BY <1>5 DEF SaveOnClosing
  <2> QED
    BY <1>0, <1>1, <2>1
<1>6. CASE RunnerExit
  BY <1>6 DEF RunnerExit
<1>7. ASSUME NEW t \in SettingsThread, OpenSettings(t) PROVE FreshInv'
  <2>1. /\ UNCHANGED <<phase, loaded, enabled, snapshot>> /\ opening' = opening \cup {t}
        /\ fresh' \subseteq fresh \cup {t} /\ (t \in fresh' => t \in fresh \/ phase = "running")
        /\ snapshot[t] = NothingRead
    BY <1>0, <1>7 DEF OpenSettings
  <2>2. \A m \in Module : snapshot[t][m] = "unread"
    BY <2>1 DEF NothingRead
  <2>3. fresh' # {} => phase \in {"running", "ending"}
    BY <1>0, <2>1
  <2> QED
    BY <1>0, <1>1, <2>1, <2>2, <2>3
<1>8. ASSUME NEW t \in SettingsThread, NEW m \in Module, NoteModule(t, m) PROVE FreshInv'
  <2>1. /\ UNCHANGED <<phase, loaded, enabled, opening, fresh>> /\ t \in opening
        /\ snapshot' = [snapshot EXCEPT ![t][m] = GeneralSettings(enabled)[m]]
    BY <1>8 DEF NoteModule
  <2>2. ASSUME NEW u \in SettingsThread, NEW n \in Module
        PROVE  snapshot'[u][n] \in {snapshot[u][n], GeneralSettings(enabled)[n]}
    BY <1>0, <2>1 DEF Snapshot
  <2>3. \A u \in SettingsThread \ opening : snapshot'[u] = snapshot[u]
    BY <1>0, <2>1
  <2> QED
    BY <1>0, <1>1, <2>1, <2>2, <2>3
<1>9. ASSUME NEW t \in SettingsThread, SaveSettings(t) PROVE FreshInv'
  <2>1. /\ UNCHANGED <<phase, loaded, enabled>> /\ opening' = opening \ {t}
        /\ fresh' = fresh \ {t} /\ snapshot' = [snapshot EXCEPT ![t] = NothingRead]
    BY <1>9 DEF SaveSettings
  <2> QED
    BY <1>0, <1>1, <2>1
<1> QED
  BY <1>2, <1>4, <1>5, <1>6, <1>7, <1>8, <1>9, RunnerSteps DEF SettingsStep
---------------------------------------------------------------------------
(* Undisturbed timers *)

LEMMA UndisturbedNext ==
    ASSUME ModulesInv, [Next]_vars
    PROVE  UndisturbedInv'
<1>0. /\ TypeInv /\ PhaseInv /\ PressedInv /\ UndisturbedInv /\ descriptors \in Descriptors
      /\ enabled \in [Module -> BOOLEAN] /\ undisturbed \subseteq WinKey \X Module
      /\ timers \subseteq WinKey \X Module /\ undisturbed \subseteq timers
  BY DEF ModulesInv, TypeInv, TypeOK
<1>1. ASSUME undisturbed' \subseteq undisturbed, down' = down, enabled' = enabled,
             phase' = "starting" => phase = "starting", phase = "ending" => phase' = "ending",
             \A x \in undisturbed' : descriptors'.pressedKeyDescriptors[x] = descriptors.pressedKeyDescriptors[x]
      PROVE  UndisturbedInv'
  BY <1>0, <1>1 DEF UndisturbedInv
<1>2. ASSUME NEW m \in Module, LoadModule(m) \/ \E c \in ConfigOf(m) : SendConfig(m, c)
      PROVE  UndisturbedInv'
  <2>1. down' = down /\ enabled' = enabled /\ phase' = phase
    BY <1>2 DEF LoadModule, SendConfig, runnerVars
  <2>2. PICK c \in ConfigOf(m), on \in BOOLEAN : \E d : Updates(m, c, on, d)
    BY <1>0, <1>2, UpdateSteps
  <2>3. ASSUME NEW d, Updates(m, c, on, d)
        PROVE  undisturbed' = {x \in undisturbed : descriptors'.pressedKeyDescriptors[x]
                                                    = descriptors.pressedKeyDescriptors[x]}
    BY <1>0, <2>3, UpdatedDescriptors
  <2> QED
    BY <1>1, <2>1, <2>2, <2>3
<1>3. ASSUME NEW m \in Module, StartModule(m) \/ SwitchModule(m) PROVE UndisturbedInv'
  <2>1. /\ down' = down /\ phase' = phase
        /\ \A n \in Module : n # m => enabled'[n] = enabled[n]
    BY <1>0, <1>3 DEF StartModule, SwitchModule, SetEnabled
  <2>2. config[m] \in ConfigOf(m)
    BY <1>0 DEF TypeInv, TypeOK
  <2>3. PICK on : UpdateHotkeyEx(descriptors, m, config[m], on)
    BY <1>3 DEF StartModule, SwitchModule, SetEnabled
  <2>4. /\ \A x \in WinKey \X Module :
              descriptors'.pressedKeyDescriptors[x] =
                 descriptors.pressedKeyDescriptors[x] + IF config[m].tracks /\ x[2] = m THEN 1 ELSE 0
        /\ undisturbed' = {x \in undisturbed : descriptors'.pressedKeyDescriptors[x]
                                                = descriptors.pressedKeyDescriptors[x]}
    BY <1>0, <2>2, <2>3, DescriptorsUpdated
  <2>5. ASSUME NEW x \in undisturbed' PROVE x \in undisturbed /\ x[2] # m
    <3>1. /\ x \in undisturbed /\ x \in WinKey \X Module
          /\ descriptors'.pressedKeyDescriptors[x] = descriptors.pressedKeyDescriptors[x]
      BY <1>0, <2>4
    <3>2. descriptors.pressedKeyDescriptors[x] \in Nat /\ descriptors.pressedKeyDescriptors[x] > 0
      BY <1>0, <3>1 DEF Descriptors, UndisturbedInv
    <3>3. x[2] = m => config[m].tracks
      BY <1>0, <3>1, <3>2 DEF PressedInv
    <3> QED
      BY <2>4, <3>1, <3>2, <3>3
  <2>6. ASSUME NEW x \in undisturbed' PROVE x[2] \in Module /\ enabled'[x[2]] = enabled[x[2]]
    BY <1>0, <2>1, <2>5
  <2>7. \A x \in undisturbed' : descriptors'.pressedKeyDescriptors[x] = descriptors.pressedKeyDescriptors[x]
    BY <2>4
  <2> QED
    BY <1>0, <2>1, <2>5, <2>6, <2>7 DEF UndisturbedInv
<1>4. CASE RunnerExit
  BY <1>4 DEF RunnerExit, UndisturbedInv
<1>5. CASE StartEnabledPowertoys
  <2>1. /\ phase = "loading" /\ enabled' = enabled /\ undisturbed' = undisturbed /\ down' = down
        /\ descriptors' = descriptors
    BY <1>5 DEF StartEnabledPowertoys, hookVars, keyVars
  <2>2. \A x \in undisturbed : x[2] \in Module /\ ~enabled[x[2]]
    BY <1>0, <2>1 DEF PhaseInv
  <2> QED
    BY <1>0, <2>1, <2>2 DEF UndisturbedInv
<1>6. ASSUME NEW k \in Key, KeyUp(k) PROVE UndisturbedInv'
  <2>1. /\ down' = down \ {k} /\ enabled' = enabled /\ phase' = phase /\ phase # "applying"
        /\ descriptors' = descriptors
    BY <1>6 DEF KeyUp, runnerVars, hookVars
  <2>2. CASE Hooked
    <3>1. undisturbed' = undisturbed \cap (timers \ Tracked(descriptors, k))
      BY <1>6, <2>2 DEF KeyUp, TimersOnUp
    <3>2. \A x \in undisturbed' : x[1] # k
      BY <1>0, <3>1 DEF UndisturbedInv, Tracked
    <3> QED
      BY <1>0, <2>1, <3>1, <3>2 DEF UndisturbedInv
  <2>3. CASE ~Hooked
    <3>1. undisturbed' = undisturbed
      BY <1>6, <2>3 DEF KeyUp
    <3>2. ASSUME NEW x \in undisturbed PROVE phase = "ending" \/ ~enabled[x[2]]
      <4>1. x[1] \in WinKey /\ x[2] \in Module /\ x \in Tracked(descriptors, x[1])
        BY <1>0 DEF UndisturbedInv, Tracked
      <4>2. ~Pumping
        BY <2>3, <4>1 DEF Hooked, TracksSomething
      <4>3. phase \in {"down", "loading", "starting", "ending"}
        BY <1>0, <2>1, <4>2 DEF Pumping, TypeInv, TypeOK
      <4> QED
        BY <1>0, <4>1, <4>3 DEF PhaseInv, UndisturbedInv
    <3> QED
      BY <1>0, <2>1, <3>1, <3>2 DEF UndisturbedInv
  <2> QED
    BY <2>2, <2>3
<1>7. ASSUME NEW k \in Key, NEW handled \in BOOLEAN, KeyDown(k, handled) PROVE UndisturbedInv'
  <2>1. /\ down' = down \cup {k} /\ enabled' = enabled /\ phase' = phase
        /\ descriptors' = descriptors
    BY <1>7 DEF KeyDown, runnerVars, hookVars
  <2>2. CASE Hooked
    <3>1. /\ undisturbed' = (undisturbed \cap timers') \cup (timers' \ timers)
          /\ timers' = TimersOnDown(descriptors, timers, vkCodePressed, k)
      BY <1>7, <2>2 DEF KeyDown
    <3>2. timers' \ timers \subseteq Tracked(descriptors, k)
      BY <3>1 DEF TimersOnDown
    <3>3. \A x \in timers' \ timers : descriptors.pressedKeyDescriptors[x] > 0 /\ x[1] = k
      BY <3>2 DEF Tracked
    <3>4. phase # "starting"
      BY <2>2 DEF Hooked, Pumping
    <3> QED
      BY <1>0, <2>1, <3>1, <3>3, <3>4 DEF UndisturbedInv
  <2>3. CASE ~Hooked
    <3>1. undisturbed' = undisturbed
      BY <1>7, <2>3 DEF KeyDown
    <3> QED
      BY <1>0, <2>1, <3>1 DEF UndisturbedInv
  <2> QED
    BY <2>2, <2>3
<1>8. CASE \E x \in WinKey \X Module : PressedKeyTimerProc(x)
  BY <1>1, <1>8 DEF PressedKeyTimerProc, runnerVars, hookVars
<1>9. CASE \/ RunnerStart \/ DismissMessageBox \/ ModulesStarted \/ SettingsApplied \/ SaveOnClosing \/ SettingsStep
           \/ PopulateHotkey \/ UNCHANGED vars
  BY <1>1, <1>9 DEF RunnerStart, DismissMessageBox, ModulesStarted, SettingsApplied, SaveOnClosing,
                    SaveNow, SettingsStep, OpenSettings, NoteModule, SaveSettings,
                    PopulateHotkey, vars, runnerVars, hookVars, keyVars
<1>10. CASE \/ \E m \in Module : LoadFails(m) \/ TriggerEvent(m) \/ ProcessExits(m)
            \/ \E object \in EnabledObject : ApplyGeneralSettings(object)
            \/ \E s \in Shortcut : OtherProgram(s) \/ PressShortcut(s)
  BY <1>1, <1>10 DEF LoadFails, TriggerEvent, ProcessExits, ApplyGeneralSettings, OtherProgram,
                     PressShortcut, runnerVars, hookVars, keyVars
<1> QED
  BY <1>2, <1>3, <1>4, <1>5, <1>6, <1>7, <1>8, <1>9, <1>10 DEF Next, SettingsStep
---------------------------------------------------------------------------
(* The invariant holds *)

LEMMA InitModules == Init => ModulesInv
<1> SUFFICES ASSUME Init PROVE ModulesInv
  OBVIOUS
<1>1. RegistryInv /\ NothingLeaked /\ HookFollowsConfig /\ PressedInv
  BY NothingHooked DEF Init
<1>2. RunnerTyped /\ SettingsTyped
  BY DEF Init, RunnerTyped, SettingsTyped, EnabledObject, NothingRead, Snapshot
<1>3. HooksTyped
  <2>1. registry \in Registry /\ registry.registered = {}
    BY DEF Init, EmptyRegistry, Registry
  <2>2. descriptors \in Descriptors
    BY DEF Init, NoDescriptors, Descriptors
  <2> QED
    BY <2>1, <2>2 DEF Init, HooksTyped
<1>4. KeysTyped /\ ProcessesTyped
  BY DEF Init, KeysTyped, ProcessesTyped, ProcessState
<1>5. MessagesTyped
  BY EmptySeq, ModulesAssumption DEF Init, MessagesTyped
<1>6. TypeInv
  BY <1>2, <1>3, <1>4, <1>5, TypeParts
<1>7. PhaseInv /\ ChoiceInv /\ FreshInv /\ UndisturbedInv
  BY DEF Init, PhaseInv, ChoiceInv, RunsAsSaved, FreshInv, UndisturbedInv
<1> QED
  BY <1>1, <1>6, <1>7 DEF ModulesInv

LEMMA ModulesInductive == ModulesInv /\ [Next]_vars => ModulesInv'
  BY HooksNext, TypeNext, PhaseNext, ChoiceNext, FreshNext, UndisturbedNext DEF ModulesInv

(* Every reachable state of the runner has the inductive invariant: this   *)
(* is what the handlers of main.cpp, general_settings.cpp and              *)
(* powertoy_module.cpp keep between them, in whatever order they run.      *)
THEOREM ModulesInvariant == Spec => []ModulesInv
<1>1. Init => ModulesInv
  BY InitModules
<1>2. ModulesInv /\ [Next]_vars => ModulesInv'
  BY ModulesInductive
<1> QED
  BY <1>1, <1>2, PTL DEF Spec

(* Types.  Among them, that Windows never gives a shortcut to the runner   *)
(* and to another program at once (CentralizedHotkeys::AddHotkeyAction).   *)
THEOREM ModulesTyped == Spec => []TypeOK
<1>1. ModulesInv => TypeOK
  BY DEF ModulesInv, TypeInv
<1> QED
  BY <1>1, ModulesInvariant, PTL

LEMMA CountOfUnique ==
    ASSUME NEW q, NEW m, Unique(q)
    PROVE  Count(q, m) = IF m \in Range(q) THEN 1 ELSE 0
<1> DEFINE places == {k \in DOMAIN q : q[k] = m}
<1>1. CASE m \in Range(q)
  <2>1. PICK k \in DOMAIN q : q[k] = m
    BY <1>1 DEF Range
  <2>2. places = {k}
    BY <2>1 DEF Unique
  <2> HIDE DEF places
  <2>3. Cardinality(places) = 1
    BY <2>2, FS_Singleton
  <2> QED
    BY <1>1, <2>3 DEF Count, places
<1>2. CASE m \notin Range(q)
  <2>1. places = {}
    BY <1>2 DEF Range
  <2> HIDE DEF places
  <2>2. Cardinality(places) = 0
    BY <2>1, FS_EmptySet
  <2> QED
    BY <1>2, <2>2 DEF Count, places
<1> QED
  BY <1>1, <1>2

(* A shortcut's list of actions names exactly the enabled modules whose    *)
(* settings name the shortcut, each once: update_hotkeys and UpdateHotkeyEx*)
(* in powertoy_module.cpp, called after whatever changes a module.         *)
THEOREM RegistryIsRight == Spec => []RegistryFollowsModules
<1>1. ModulesInv => RegistryFollowsModules
  <2> SUFFICES ASSUME ModulesInv, NEW m \in Module, NEW s \in Shortcut
               PROVE  Count(registry.actions[s], m) =
                         IF m \in loaded /\ enabled[m] /\ config[m].hotkeyEx = s THEN 1 ELSE 0
    BY DEF RegistryFollowsModules
  <2>1. /\ Unique(registry.actions[s])
        /\ Range(registry.actions[s]) = {n \in loaded : enabled[n] /\ config[n].hotkeyEx = s}
    BY DEF ModulesInv, RegistryInv
  <2>2. Count(registry.actions[s], m) = IF m \in Range(registry.actions[s]) THEN 1 ELSE 0
    BY <2>1, CountOfUnique
  <2> QED
    BY <2>1, <2>2
<1> QED
  BY <1>1, ModulesInvariant, PTL

(* UnregisterHotkeysForModule gives a shortcut back to Windows when no     *)
(* module wants it any more.                                               *)
THEOREM NothingIsLeaked == Spec => []NothingLeaked
<1>1. ModulesInv => NothingLeaked
  BY DEF ModulesInv
<1> QED
  BY <1>1, ModulesInvariant, PTL

(* The keyboard hook looks for exactly the hotkeys that the settings of    *)
(* the loaded modules name, each once (centralized_kb_hook.cpp).           *)
THEOREM HookIsRight == Spec => []HookFollowsConfig
<1>1. ModulesInv => HookFollowsConfig
  BY DEF ModulesInv
<1> QED
  BY <1>1, ModulesInvariant, PTL

(* A running runner's modules are as the group policies, and then the      *)
(* settings file, say: start_enabled_powertoys and apply_general_settings, *)
(* and a crash between any two of their steps.                             *)
THEOREM ModulesRunAsSaved == Spec => []RunsAsSaved
<1>1. ModulesInv => RunsAsSaved
  BY DEF ModulesInv, ChoiceInv
<1> QED
  BY <1>1, ModulesInvariant, PTL

(* UnregisterHotkeysForModule and AddHotkeyAction: a shortcut that another *)
(* module still wants is still registered after the step.                  *)
THEOREM SharedShortcutIsKept == Spec => SharedShortcutKept
<1> DEFINE Kept == \A s \in registry.registered :
                      registry'.actions[s] # <<>> => s \in registry'.registered
<1>1. ModulesInv /\ [Next]_vars => [Kept]_vars
  <2> SUFFICES ASSUME ModulesInv, Next PROVE Kept
    OBVIOUS
  <2>0. TypeInv /\ RegistryInv /\ NothingLeaked /\ registry.registered \subseteq Shortcut
    BY DEF ModulesInv, TypeInv, TypeOK, Registry
  <2>1. CASE Quiet
    BY <2>1 DEF Quiet
  <2>2. ASSUME NEW m \in Module, NEW c \in ConfigOf(m), NEW on \in BOOLEAN, NEW d, Updates(m, c, on, d)
        PROVE  Kept
    BY <2>0, <2>2, RegistryUpdated DEF Updates
  <2>3. CASE RunnerExit
    BY <2>0, <2>3 DEF RunnerExit, EmptyRegistry
  <2> QED
    BY <2>0, <2>1, <2>2, <2>3, StepKinds
<1> QED
  BY <1>1, ModulesInvariant, PTL DEF Spec, SharedShortcutKept

(* PressedKeyTimerProc: a module acts on a long press only while the       *)
(* Windows key is down, unless the settings changed since the press.       *)
THEOREM LongPressIsHeld == Spec => LongPressMeansHeld
<1> DEFINE Held == \A x \in undisturbed :
                      PressedKeyTimerProc(x) /\ process' # process => x[1] \in down
<1>1. ModulesInv /\ [Next]_vars => [Held]_vars
  <2> SUFFICES ASSUME ModulesInv, NEW x \in undisturbed, PressedKeyTimerProc(x), process' # process
               PROVE  x[1] \in down
    OBVIOUS
  <2>1. /\ x[2] \in Module /\ process \in [Module -> ProcessState]
        /\ x[1] \in down \/ ~enabled[x[2]]
    BY DEF ModulesInv, TypeInv, TypeOK, ProcessState, UndisturbedInv, PressedKeyTimerProc, Pumping
  <2>2. process' = [process EXCEPT ![x[2]] =
                       Repeated(x[2], process[x[2]], descriptors.pressedKeyDescriptors[x])]
    BY DEF PressedKeyTimerProc
  <2>3. ASSUME ~enabled[x[2]] PROVE FALSE
    <3>1. Repeated(x[2], process[x[2]], descriptors.pressedKeyDescriptors[x]) = process[x[2]]
      BY <2>1, <2>3, ReactionFacts
    <3> QED
      BY <2>1, <2>2, <3>1
  <2> QED
    BY <2>1, <2>3
<1> QED
  BY <1>1, ModulesInvariant, PTL DEF Spec, LongPressMeansHeld
=============================================================================
