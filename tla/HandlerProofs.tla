----------------------------- MODULE HandlerProofs -----------------------------
(***************************************************************************)
(* One lemma per action of Keyboard Manager's hook: whatever the handlers  *)
(* do, each key that is down for the system keeps an explanation.  Then    *)
(* the theorems: no key is left down, and no remapping under way, once the *)
(* user holds no key.                                                      *)
(***************************************************************************)
EXTENDS KeysProofs

---------------------------------------------------------------------------
(* What the tables allow *)

LEMMA DisabledKey ==
    ASSUME NEW t, Disables(t)
    PROVE  TargetKey(t) = VK_DISABLED
<1>1. <<"win", "Both">> \in Modifiers
  BY DEF Modifiers, Families
<1>2. VK_DISABLED \notin Modifiers
  BY KeysAssumption DEF VirtualKey
<1> QED
  BY <1>1, <1>2 DEF Disables, TargetKey, FilterArtificialKeys

LEMMA PlainTarget ==
    ASSUME EngineInv, Plain(config), NEW a \in DOMAIN remaps, NEW s \in DOMAIN remaps[a]
    PROVE  /\ config \in Config /\ a \in DOMAIN config.shortcuts /\ s \in DOMAIN config.shortcuts[a]
           /\ DOMAIN remaps = DOMAIN config.shortcuts
           /\ \A b \in DOMAIN remaps : DOMAIN remaps[b] = DOMAIN config.shortcuts[b]
           /\ Target(a, s) = config.shortcuts[a][s]
           /\ s \in ValidShortcut /\ s \in ShortcutType
           /\ Target(a, s) \in TargetType
           /\ remaps[a][s].winKeyInvoked \in Side
<1>1. TypeOK
  BY DEF EngineInv
<1>2. /\ s \in ValidShortcut /\ Target(a, s) \in TargetType /\ remaps[a][s].winKeyInvoked \in Side
  BY <1>1, TableFacts
<1>3. TablesOK
  BY <1>1, TypesOfTables
<1> QED
  BY <1>2, <1>3 DEF TablesOK, Target, ValidShortcut

(* The keys that the handlers may leave down are no modifiers. *)
LEMMA LeftFacts ==
    ASSUME EngineInv, Plain(config)
    PROVE  /\ Left \cap Modifiers = {}
           /\ ~loadingSettings =>
                 \A a \in DOMAIN remaps : \A s \in DOMAIN remaps[a] : s.actionKey \in Left
<1>1. config \in Config /\ NoKey \notin Modifiers
  BY KeysAssumption DEF EngineInv, TypeOK, VirtualKey
<1>2. ActionKeys(config) \cap Modifiers = {}
  <2>1. \A a \in DOMAIN config.shortcuts : \A s \in DOMAIN config.shortcuts[a] : s \in ValidShortcut
    BY <1>1, ConfigAssumption
  <2> QED
    BY <2>1, ActionKeyFacts DEF ActionKeys
<1>3. Orphans(config) \cap Modifiers = {}
  <2> SUFFICES ASSUME NEW g \in Orphans(config), g \in Modifiers PROVE FALSE
    OBVIOUS
  <2>1. CASE \E k \in DOMAIN config.keys : Image(config, k) \in DOMAIN config.keys
                                          /\ g = Image(config, Image(config, k))
    BY <2>1 DEF Plain, PlainKeys
  <2>2. CASE \E a \in DOMAIN config.shortcuts : \E s \in DOMAIN config.shortcuts[a] :
                \E x \in DOMAIN config.shortcuts[a] :
                   TakesOver(config, a, s, x) /\ g = config.shortcuts[a][x].key
    <3>1. PICK a \in DOMAIN config.shortcuts : \E s \in DOMAIN config.shortcuts[a] :
                \E x \in DOMAIN config.shortcuts[a] :
                   TakesOver(config, a, s, x) /\ g = config.shortcuts[a][x].key
      BY <2>2
    <3>2. PICK s \in DOMAIN config.shortcuts[a], x \in DOMAIN config.shortcuts[a] :
                   TakesOver(config, a, s, x) /\ g = config.shortcuts[a][x].key
      BY <3>1
    <3>3. RemapToKey(config.shortcuts[a][x]) => g \notin Modifiers
      BY <3>2 DEF Plain, PlainShortcuts
    <3>4. ~RemapToKey(config.shortcuts[a][x]) => g = NoKey
      BY <3>2 DEF RemapToKey
    <3> QED
      BY <1>1, <3>3, <3>4
  <2> QED
    BY <2>1, <2>2 DEF Orphans
<1>4. \A a \in DOMAIN remaps : \A s \in DOMAIN remaps[a] : s.actionKey \in ActionKeys(config)
  BY PlainTarget DEF ActionKeys
<1> QED
  BY <1>2, <1>3, <1>4 DEF Left

LEMMA OrphanFacts ==
    ASSUME EngineInv, ~loadingSettings
    PROVE  /\ \A k \in DOMAIN config.keys : Image(config, k) \in DOMAIN config.keys =>
                 Image(config, Image(config, k)) \in Left
           /\ \A a \in DOMAIN config.shortcuts : \A s, x \in DOMAIN config.shortcuts[a] :
                 TakesOver(config, a, s, x) => config.shortcuts[a][x].key \in Left
<1>1. \A k \in DOMAIN config.keys : Image(config, k) \in DOMAIN config.keys =>
         Image(config, Image(config, k)) \in Orphans(config)
  BY DEF Orphans
<1>2. ASSUME NEW a \in DOMAIN config.shortcuts, NEW s \in DOMAIN config.shortcuts[a],
             NEW x \in DOMAIN config.shortcuts[a], TakesOver(config, a, s, x)
      PROVE  config.shortcuts[a][x].key \in Orphans(config)
  <2>1. config.shortcuts[a][x].key \in
           {config.shortcuts[a][y].key : y \in {z \in DOMAIN config.shortcuts[a] : TakesOver(config, a, s, z)}}
    BY <1>2
  <2> QED
    BY <2>1 DEF Orphans
<1> QED
  BY <1>1, <1>2 DEF Left

(* Only one shortcut is invoked, of the tables of the system and of the    *)
(* applications.                                                           *)
LEMMA UniqueInvoked ==
    ASSUME EngineInv, AppsInOrder, Plain(config),
           NEW a \in DOMAIN remaps, NEW s \in Invoked(a),
           NEW b \in DOMAIN remaps, NEW x \in Invoked(b)
    PROVE  a = b /\ s = x
<1>1. s \in DOMAIN remaps[a] /\ x \in DOMAIN remaps[b]
  BY DEF Invoked
<1>2. (a = OSLevel \/ a = activatedApp) /\ (b = OSLevel \/ b = activatedApp)
  BY DEF AppsInOrder, ActivatedIsInvoked
<1>3. s \in DOMAIN config.shortcuts[a] /\ x \in DOMAIN config.shortcuts[b]
      /\ a \in DOMAIN config.shortcuts /\ b \in DOMAIN config.shortcuts
  BY <1>1, PlainTarget
<1>4. a # b => FALSE
  <2>1. ASSUME NEW c \in DOMAIN config.shortcuts, NEW y \in DOMAIN config.shortcuts[c], c # OSLevel,
               OSLevel \in DOMAIN config.shortcuts
        PROVE  DOMAIN config.shortcuts[OSLevel] = {}
    BY <2>1 DEF Plain, PlainShortcuts
  <2> QED
    BY <1>2, <1>3, <2>1
<1>5. a = b => s = x
  BY DEF EngineInv, OneInTable
<1> QED
  BY <1>4, <1>5

LEMMA OnlyThis ==
    ASSUME EngineInv, AppsInOrder, Plain(config), NEW a \in DOMAIN remaps, NEW s \in Invoked(a)
    PROVE  /\ \A b \in DOMAIN remaps : \A x \in Invoked(b) : b = a /\ x = s
           /\ activatedApp = IF a = OSLevel THEN NoActivatedApp ELSE a
           /\ ~Suspended /\ ~loadingSettings
<1>1. \A b \in DOMAIN remaps : \A x \in Invoked(b) : b = a /\ x = s
  BY UniqueInvoked
<1>2. ~Suspended /\ (a = OSLevel \/ (a = activatedApp /\ a # NoActivatedApp))
  BY DEF AppsInOrder, ActivatedIsInvoked
<1>3. activatedApp # NoActivatedApp =>
         activatedApp \in DOMAIN remaps /\ activatedApp # OSLevel /\ Invoked(activatedApp) # {}
  BY DEF AppsInOrder, ActivatedIsInvoked
<1>4. activatedApp # NoActivatedApp => activatedApp = a /\ a # OSLevel
  BY <1>1, <1>3
<1> QED
  BY <1>1, <1>2, <1>4 DEF Suspended

(* A shortcut found pressed is the first: nothing is invoked. *)
LEMMA PressedNone ==
    ASSUME EngineInv, AppsInOrder, Plain(config),
           NEW a \in DOMAIN remaps, NEW s \in DOMAIN remaps[a], Handled(a, s, "pressed")
    PROVE  /\ \A b \in DOMAIN remaps : Invoked(b) = {}
           /\ activatedApp = NoActivatedApp
           /\ a # OSLevel => a # NoActivatedApp
<1>1. Invoked(a) = {}
  BY PressedAlone
<1>2. a = OSLevel \/ a = QueriedApp
  BY DEF Handled
<1>3. a # OSLevel => activatedApp = NoActivatedApp
  <2> SUFFICES ASSUME a # OSLevel, activatedApp # NoActivatedApp PROVE FALSE
    OBVIOUS
  <2>1. a = activatedApp
    BY <1>2 DEF QueriedApp
  <2> QED
    BY <1>1, <2>1 DEF AppsInOrder, ActivatedIsInvoked
<1>4. ASSUME NEW b \in DOMAIN remaps, NEW x \in Invoked(b) PROVE FALSE
  <2>1. b = OSLevel \/ b = activatedApp
    BY DEF AppsInOrder, ActivatedIsInvoked
  <2>2. x \in DOMAIN remaps[b]
    BY DEF Invoked
  <2>3. /\ s \in DOMAIN config.shortcuts[a] /\ x \in DOMAIN config.shortcuts[b]
        /\ a \in DOMAIN config.shortcuts /\ b \in DOMAIN config.shortcuts
    BY <2>2, PlainTarget
  <2>4. a # b
    BY <1>1
  <2>5. b # NoActivatedApp \/ b = OSLevel
    BY DEF AppsInOrder, ActivatedIsInvoked
  <2>6. (a = OSLevel /\ b # OSLevel) \/ (a # OSLevel /\ b = OSLevel)
    BY <1>3, <2>1, <2>4, <2>5
  <2>7. ASSUME NEW c \in DOMAIN config.shortcuts, NEW y \in DOMAIN config.shortcuts[c], c # OSLevel,
               OSLevel \in DOMAIN config.shortcuts
        PROVE  DOMAIN config.shortcuts[OSLevel] = {}
    BY <2>7 DEF Plain, PlainShortcuts
  <2> QED
    BY <2>3, <2>6, <2>7
<1>5. \A b \in DOMAIN remaps : Invoked(b) = {}
  BY <1>4
<1>6. activatedApp = NoActivatedApp
  BY <1>5 DEF AppsInOrder, ActivatedIsInvoked
<1>7. a # OSLevel => a \in App
  BY HandledTable DEF EngineInv
<1> QED
  BY <1>5, <1>6, <1>7, KeysAssumption

(* What handles an event of a shortcut that is not found pressed. *)
LEMMA HandledInvoked ==
    ASSUME NEW a \in DOMAIN remaps, NEW s \in DOMAIN remaps[a], NEW case, Handled(a, s, case),
           case # "pressed"
    PROVE  s \in Invoked(a)
<1>1. Case(a, s) = case /\ Case(a, s) # "none"
  BY DEF Handled, Reacting
<1>2. remaps[a][s].isShortcutInvoked
  BY <1>1 DEF Case
<1> QED
  BY <1>2 DEF Invoked

(* The remapping is over. *)
LEMMA AfterReset ==
    ASSUME EngineInv, AppsInOrder, Plain(config),
           NEW a \in DOMAIN remaps, NEW s \in Invoked(a),
           Reset(a, s), Deactivate(a) \/ activatedApp' = NoActivatedApp
    PROVE  /\ \A b \in DOMAIN remaps' : Invoked(b)' = {}
           /\ activatedApp' = NoActivatedApp
<1>1. remaps' = [remaps EXCEPT ![a][s] = NotInvoked]
  BY DEF Reset
<1>2. \A b \in DOMAIN remaps : \A x \in Invoked(b) : b = a /\ x = s
  BY UniqueInvoked
<1>3. ASSUME NEW b \in DOMAIN remaps', NEW x \in DOMAIN remaps'[b]
      PROVE  ~remaps'[b][x].isShortcutInvoked
  <2>1. b \in DOMAIN remaps /\ x \in DOMAIN remaps[b]
    BY <1>1, <1>3
  <2>2. CASE b = a /\ x = s
    <3>1. remaps'[b][x] = NotInvoked
      BY <1>1, <2>1, <2>2
    <3> QED
      BY <3>1, NotInvokedRemap
  <2>3. CASE ~(b = a /\ x = s)
    <3>1. remaps'[b][x] = remaps[b][x]
      BY <1>1, <2>1, <2>3
    <3> QED
      BY <1>2, <2>1, <2>3, <3>1 DEF Invoked
  <2> QED
    BY <2>2, <2>3
<1>4. \A b \in DOMAIN remaps' : Invoked(b)' = {}
  BY <1>3 DEF Invoked
<1>5. activatedApp' = NoActivatedApp
  BY OnlyThis DEF Deactivate
<1> QED
  BY <1>4, <1>5

(* A shortcut is invoked, and no other. *)
LEMMA AfterInvoke ==
    ASSUME EngineInv, NEW a \in DOMAIN remaps, NEW s \in DOMAIN remaps[a], NEW v,
           remaps' = [remaps EXCEPT ![a][s] = v], v.isShortcutInvoked,
           \A b \in DOMAIN remaps : Invoked(b) = {}
    PROVE  /\ DOMAIN remaps' = DOMAIN remaps /\ remaps'[a][s] = v
           /\ \A b \in DOMAIN remaps' : \A x \in Invoked(b)' : b = a /\ x = s
           /\ s \in Invoked(a)'
<1>1. ASSUME NEW b \in DOMAIN remaps', NEW x \in Invoked(b)'
      PROVE  b = a /\ x = s
  <2> SUFFICES ASSUME ~(b = a /\ x = s) PROVE FALSE
    OBVIOUS
  <2>1. b \in DOMAIN remaps /\ x \in DOMAIN remaps[b] /\ remaps'[b][x].isShortcutInvoked
    BY <1>1 DEF Invoked
  <2>2. remaps'[b][x] = remaps[b][x]
    BY <2>1
  <2> QED
    BY <2>1, <2>2 DEF Invoked
<1>2. remaps'[a][s] = v /\ a \in DOMAIN remaps' /\ s \in DOMAIN remaps'[a]
  OBVIOUS
<1> QED
  BY <1>1, <1>2 DEF Invoked

(* Nothing changes but the use of the action key of a disabled shortcut. *)
LEMMA SameInvoked ==
    ASSUME NEW a \in DOMAIN remaps, NEW s \in DOMAIN remaps[a], TypeOK, NEW b,
           remaps' = [remaps EXCEPT ![a][s].isOriginalActionKeyPressed = b]
    PROVE  /\ DOMAIN remaps' = DOMAIN remaps
           /\ \A c \in DOMAIN remaps : Invoked(c)' = Invoked(c)
           /\ \A c \in DOMAIN remaps : \A x \in DOMAIN remaps[c] :
                 WinKeyOf(c, x)' = WinKeyOf(c, x)
<1>1. ASSUME NEW c \in DOMAIN remaps
      PROVE  /\ DOMAIN remaps'[c] = DOMAIN remaps[c]
             /\ \A x \in DOMAIN remaps[c] :
                   /\ remaps'[c][x].isShortcutInvoked = remaps[c][x].isShortcutInvoked
                   /\ remaps'[c][x].winKeyInvoked = remaps[c][x].winKeyInvoked
  <2>1. DOMAIN remaps'[c] = DOMAIN remaps[c]
    OBVIOUS
  <2>2. ASSUME NEW x \in DOMAIN remaps[c]
        PROVE  /\ remaps'[c][x].isShortcutInvoked = remaps[c][x].isShortcutInvoked
               /\ remaps'[c][x].winKeyInvoked = remaps[c][x].winKeyInvoked
    <3>1. CASE c = a /\ x = s
      <4>1. remaps[a][s] \in Remap
        BY TableFacts
      <4>2. remaps'[c][x] = [remaps[a][s] EXCEPT !.isOriginalActionKeyPressed = b]
        BY <3>1
      <4> QED
        BY <3>1, <4>1, <4>2 DEF Remap
    <3>2. CASE ~(c = a /\ x = s)
      BY <3>2
    <3> QED
      BY <3>1, <3>2
  <2> QED
    BY <2>1, <2>2
<1> QED
  BY <1>1 DEF Invoked, WinKeyOf

---------------------------------------------------------------------------
(* What the user holds *)

LEMMA HoldingFacts ==
    /\ ~(Late /\ Latest.up) => Holding = {Shows(k) : k \in physical}
    /\ \A h \in Holding : (\E k \in physical : h = Shows(k)) \/ (Late /\ Latest.up /\ h = Effect(Latest))
  BY DEF Holding

(* Two keys for one modifier are one key. *)
LEMMA SameHand ==
    ASSUME OneHeld, ~(Late /\ Latest.up), NEW g, NEW h, ByHand(g), ByHand(h), SameFamily(g, h)
    PROVE  g \in Released(h)
<1>1. PICK k \in physical : g \in Counterparts(Shows(k))
  BY HoldingFacts DEF ByHand
<1>2. PICK l \in physical : h \in Counterparts(Shows(l))
  BY HoldingFacts DEF ByHand
<1>3. Shows(k) \in Modifiers /\ Shows(k)[1] = g[1] /\ Shows(l) \in Modifiers /\ Shows(l)[1] = h[1]
  BY <1>1, <1>2, CounterpartFacts DEF SameFamily
<1>4. k = l
  BY <1>3 DEF OneHeld, SameFamily
<1> QED
  BY <1>1, <1>2, <1>4, ReleasedFacts

(* The event of a shortcut has the effect of its own key. *)
LEMMA EffectOfEvent ==
    ASSUME e.flag # "shortcut", e \in Event, ~Single
    PROVE  Effect(e) = e.vk
<1>1. CASE e.flag = "none"
  <2>1. Suspended \/ e.vk \notin DOMAIN config.keys
    BY <1>1 DEF Single
  <2> QED
    BY <1>1, <2>1 DEF Effect, Shows
<1>2. CASE e.flag # "none"
  BY <1>2 DEF Effect
<1> QED
  BY <1>1, <1>2

(* What is left of the flags when the hook handles an event. *)
LEMMA RestOfState ==
    ASSUME KeepRest
    PROVE  /\ config' = config /\ keys' = keys /\ physical' = physical /\ last' = last
           /\ loadingSettings' = loadingSettings /\ editorIsRunning' = editorIsRunning
           /\ Left' = Left /\ (Suspended' <=> Suspended)
           /\ \A k : Shows(k)' = Shows(k)
           /\ OneHeld' <=> OneHeld
<1>1. /\ config' = config /\ keys' = keys /\ physical' = physical /\ last' = last
      /\ loadingSettings' = loadingSettings /\ editorIsRunning' = editorIsRunning
  BY DEF KeepRest, flags, user
<1>2. Suspended' <=> Suspended
  BY <1>1 DEF Suspended
<1>3. \A k : Shows(k)' = Shows(k)
  BY <1>1, <1>2 DEF Shows
<1>4. Left' = Left
  BY <1>1 DEF Left
<1>5. OneHeld' <=> OneHeld
  BY <1>1, <1>3 DEF OneHeld
<1> QED
  BY <1>1, <1>2, <1>3, <1>4, <1>5

(* What the handlers of shortcuts have sent is not late. *)
LEMMA SentIsEarly ==
    ASSUME pending' \in Seq(Sent)
    PROVE  ~Late' /\ EventsInOrder' /\ Holding' = {Shows(k)' : k \in physical'}
<1>1. \A i \in 1 .. Len(pending') : pending'[i].flag = "shortcut"
  BY DEF Sent
<1>2. pending' # <<>> => Len(pending') \in 1 .. Len(pending')
  BY EmptySeq
<1>3. ~Late'
  BY <1>1, <1>2 DEF Late, Latest
<1>4. \A i \in 1 .. Len(pending') - 1 : i \in 1 .. Len(pending')
  OBVIOUS
<1>5. EventsInOrder'
  BY <1>1, <1>3, <1>4 DEF EventsInOrder
<1>6. Holding' = {Shows(k)' : k \in physical'}
  BY <1>3 DEF Holding
<1> QED
  BY <1>3, <1>5, <1>6

LEMMA OnlyExplained ==
    ASSUME EngineInv, KeysInv, Plain(config), NEW a \in DOMAIN remaps, NEW s \in Invoked(a),
           NEW g \in Final(keys, pending)
    PROVE  g \in Left \/ (ByHand(g) /\ ~Hides(a, s, g)) \/ g \in KeysOf(a, s)
<1>1. \A b \in DOMAIN remaps : \A x \in Invoked(b) : b = a /\ x = s
  BY OnlyThis DEF KeysInv
<1>2. Explained(g)
  BY DEF KeysInv
<1> QED
  BY <1>1, <1>2 DEF Explained

LEMMA NoneExplained ==
    ASSUME KeysInv, \A b \in DOMAIN remaps : Invoked(b) = {}, NEW g \in Final(keys, pending)
    PROVE  g \in Left \/ ByHand(g)
<1>1. Explained(g)
  BY DEF KeysInv
<1> QED
  BY <1>1 DEF Explained

(* What a handler of shortcuts finds, and what it leaves. *)
LEMMA HandledSent ==
    ASSUME EngineInv, KeysInv, KeepRest,
           NEW a \in DOMAIN remaps, NEW s \in DOMAIN remaps[a], NEW case, Handled(a, s, case),
           NEW n, NEW q \in Seq(Sent), Sends(n, q)
    PROVE  /\ pending' = q /\ Final(keys', pending') = Final(keys, q)
           /\ EventsInOrder' /\ ~Late'
           /\ \A g : ByHand(g) => ByHand(g)' \/ (e.up /\ g \in Counterparts(e.vk))
<1>1. /\ Tail(pending) = <<>> /\ Late /\ Latest = e /\ e \in Event /\ e.flag # "shortcut" /\ ~Single
  BY HandledLast
<1>2. q \in Seq(Event)
  BY SentAreEvents
<1>3. pending' = q
  BY <1>1, <1>2, SentPending
<1>4. EventsInOrder' /\ ~Late' /\ Holding' = {Shows(k)' : k \in physical'}
  BY <1>3, SentIsEarly
<1>5. keys' = keys /\ physical' = physical /\ \A k : Shows(k)' = Shows(k)
  BY RestOfState
<1>6. Holding' = {Shows(k) : k \in physical}
  BY <1>4, <1>5
<1>7. Effect(e) = e.vk
  BY <1>1, EffectOfEvent
<1>8. \A h \in Holding : h \in Holding' \/ (e.up /\ h = e.vk)
  BY <1>1, <1>6, <1>7, HoldingFacts
<1>9. Final(keys', pending') = Final(keys, q)
  BY <1>3, <1>5
<1> QED
  BY <1>3, <1>4, <1>8, <1>9 DEF ByHand

(* No remapping is under way any more: what is down is left, or held. *)
LEMMA ResetKeeps ==
    ASSUME KeysInv, KeepRest, EventsInOrder',
           \A b \in DOMAIN remaps' : Invoked(b)' = {}, activatedApp' = NoActivatedApp,
           \A g \in Final(keys', pending') : g \in Left \/ ByHand(g)'
    PROVE  KeysInv'
<1>1. last' \in physical' \cup {NoKey} /\ Left' = Left
  BY RestOfState DEF KeysInv, LastHeld
<1>2. AppsInOrder'
  BY DEF AppsInOrder, ActivatedIsInvoked
<1>3. \A g \in Final(keys', pending') : Explained(g)'
  BY <1>1 DEF Explained
<1> QED
  BY <1>1, <1>2, <1>3 DEF KeysInv, LastHeld

(* A remapping goes on, or takes over: the only one that is invoked. *)
LEMMA InvokedKeeps ==
    ASSUME KeysInv, KeepRest, EventsInOrder', ~Suspended, NEW a \in DOMAIN remaps', NEW s \in Invoked(a)',
           \A b \in DOMAIN remaps' : \A x \in Invoked(b)' : b = a /\ x = s,
           activatedApp' = IF a = OSLevel THEN NoActivatedApp ELSE a,
           a # OSLevel => a # NoActivatedApp,
           HeldFor(a, s)',
           \A g \in Final(keys', pending') :
              g \in Left \/ (ByHand(g)' /\ ~Hides(a, s, g)') \/ g \in KeysOf(a, s)'
    PROVE  KeysInv'
<1>1. last' \in physical' \cup {NoKey} /\ Left' = Left /\ ~Suspended'
  BY RestOfState DEF KeysInv, LastHeld
<1>2. AppsInOrder'
  BY <1>1 DEF AppsInOrder, ActivatedIsInvoked
<1>3. \A b \in DOMAIN remaps' : \A x \in Invoked(b)' : HeldFor(b, x)'
  OBVIOUS
<1>4. ASSUME NEW g \in Final(keys', pending') PROVE Explained(g)'
  <2>1. CASE g \in Left
    BY <1>1, <2>1 DEF Explained
  <2>2. CASE ByHand(g)' /\ ~Hides(a, s, g)'
    <3>1. \A b \in DOMAIN remaps' : \A x \in Invoked(b)' : ~Hides(b, x, g)'
      BY <2>2
    <3> QED
      BY <2>2, <3>1 DEF Explained
  <2>3. CASE g \in KeysOf(a, s)'
    BY <2>3 DEF Explained
  <2> QED
    BY <2>1, <2>2, <2>3
<1> QED
  BY <1>1, <1>2, <1>3, <1>4 DEF KeysInv, LastHeld

LEMMA ExplainedHeld ==
    ASSUME KeysInv, NEW a \in DOMAIN remaps, NEW s \in Invoked(a)
    PROVE  /\ HeldFor(a, s)
           /\ \A f \in Used(s) : \E h \in Holding : GetKey(s, f, WinKeyOf(a, s)) \in Counterparts(h)
  BY DEF KeysInv, HeldFor, ByHand

---------------------------------------------------------------------------
(* A shortcut is pressed *)

LEMMA PressedFacts ==
    ASSUME EngineInv, NEW a \in DOMAIN remaps, NEW s \in DOMAIN remaps[a], Handled(a, s, "pressed")
    PROVE  /\ e.vk = s.actionKey /\ ~e.up
           /\ \A f \in Used(s) : GetKey(s, f, WinKey(remaps[a][s].winKeyInvoked)) \in keys
<1>1. Case(a, s) = "pressed"
  BY DEF Handled
<1>2. CheckModifiersKeyboardState(s, keys) /\ e.vk = s.actionKey /\ ~e.up
  BY <1>1 DEF Case
<1>3. ASSUME NEW f \in Used(s)
      PROVE  GetKey(s, f, WinKey(remaps[a][s].winKeyInvoked)) \in keys
  <2>1. s.mod[f] # "Disabled"
    BY DEF Used
  <2>2. CASE f = "win" /\ s.mod[f] = "Both"
    <3>1. <<"win", "Left">> \in keys \/ <<"win", "Right">> \in keys
      BY <1>2, <2>2 DEF CheckModifiersKeyboardState
    <3> QED
      BY <2>2, <3>1 DEF GetKey, WinKey
  <2>3. CASE ~(f = "win" /\ s.mod[f] = "Both")
    BY <1>2, <2>1, <2>3 DEF CheckModifiersKeyboardState, GetKey
  <2> QED
    BY <2>2, <2>3
<1> QED
  BY <1>2, <1>3

(* Its modifiers are held, and the keyboard does not repeat one of them. *)
LEMMA PressedHeld ==
    ASSUME EngineInv, KeysInv, Plain(config),
           NEW a \in DOMAIN remaps, NEW s \in DOMAIN remaps[a], Handled(a, s, "pressed")
    PROVE  /\ \A f \in Used(s) : ByHand(GetKey(s, f, WinKey(remaps[a][s].winKeyInvoked)))
           /\ last # NoKey => Shows(last) \notin Modifiers
           /\ ~(Late /\ Latest.up) /\ ~e.up /\ ~Suspended
           /\ \A g \in keys : g \in Left \/ ByHand(g)
<1> DEFINE win == WinKey(remaps[a][s].winKeyInvoked)
<1>1. /\ e.vk = s.actionKey /\ ~e.up
      /\ \A f \in Used(s) : GetKey(s, f, win) \in keys
  BY PressedFacts
<1>2. /\ Late /\ Latest = e /\ e \in Event /\ e.flag # "shortcut" /\ ~Single /\ ~Suspended
      /\ Final(keys, pending) = keys
  BY HandledLast
<1>3. /\ s \in ValidShortcut /\ s \in ShortcutType
  BY PlainTarget
<1>4. win \in Side
  BY TableFacts DEF EngineInv
<1>5. \A b \in DOMAIN remaps : Invoked(b) = {}
  BY PressedNone DEF KeysInv
<1>6. \A g \in keys : g \in Left \/ ByHand(g)
  BY <1>2, <1>5, NoneExplained
<1>7. Left \cap Modifiers = {}
  BY LeftFacts
<1>8. \A f \in Used(s) : ByHand(GetKey(s, f, win))
  <2> SUFFICES ASSUME NEW f \in Used(s) PROVE ByHand(GetKey(s, f, win))
    OBVIOUS
  <2>1. GetKey(s, f, win) \in Modifiers
    BY <1>3, <1>4, KeyOfUsed
  <2> QED
    BY <1>1, <1>6, <1>7, <2>1
<1>9. last # NoKey => Shows(last) \notin Modifiers
  <2>1. e.vk \notin Modifiers
    BY <1>1, <1>3, ActionKeyFacts
  <2>2. Effect(e) = e.vk
    BY <1>2, EffectOfEvent
  <2>3. Effect(e) = Shows(last) \/ Shows(last) \notin Modifiers
    BY <1>1, <1>2 DEF KeysInv, EventsInOrder
  <2> QED
    BY <2>1, <2>2, <2>3
<1> QED
  BY <1>1, <1>2, <1>6, <1>8, <1>9

(* What is down then is the target's, or it was down before and is not one of *)
(* the modifiers that the shortcut hides.                                     *)
LEMMA PressedKeeps ==
    ASSUME EngineInv, KeysInv, Plain(config), OneHeld, KeepRest,
           NEW a \in DOMAIN remaps, NEW s \in DOMAIN remaps[a], Handled(a, s, "pressed"),
           NEW n, NEW q \in Seq(Sent), Sends(n, q), Activate(a),
           NEW v, remaps' = [remaps EXCEPT ![a][s] = v], v.isShortcutInvoked,
           v.winKeyInvoked = WinKey(remaps[a][s].winKeyInvoked),
           \A g \in Final(keys, q) :
              \/ g \in KeysOf(a, s)'
              \/ g \in keys /\ (Hides(a, s, g)' =>
                                  g \notin Released(GetKey(s, g[1], v.winKeyInvoked)))
    PROVE  KeysInv'
<1> DEFINE win == v.winKeyInvoked
<1>1. /\ \A f \in Used(s) : ByHand(GetKey(s, f, win))
      /\ last # NoKey => Shows(last) \notin Modifiers
      /\ ~(Late /\ Latest.up) /\ ~e.up /\ ~Suspended
      /\ \A g \in keys : g \in Left \/ ByHand(g)
  BY PressedHeld
<1>2. /\ EventsInOrder' /\ Final(keys', pending') = Final(keys, q)
      /\ \A g : ByHand(g) => ByHand(g)'
  BY <1>1, HandledSent
<1>3. /\ DOMAIN remaps' = DOMAIN remaps /\ remaps'[a][s] = v
      /\ \A b \in DOMAIN remaps' : \A x \in Invoked(b)' : b = a /\ x = s
      /\ s \in Invoked(a)' /\ a \in DOMAIN remaps'
  <2>1. \A b \in DOMAIN remaps : Invoked(b) = {}
    BY PressedNone DEF KeysInv
  <2> QED
    BY <2>1, AfterInvoke
<1>4. activatedApp' = (IF a = OSLevel THEN NoActivatedApp ELSE a) /\ (a # OSLevel => a # NoActivatedApp)
  BY PressedNone DEF KeysInv, Activate
<1>5. WinKeyOf(a, s)' = win
  BY <1>3 DEF WinKeyOf
<1>6. last' = last /\ \A k : Shows(k)' = Shows(k)
  BY RestOfState
<1>7. HeldFor(a, s)'
  BY <1>1, <1>2, <1>5, <1>6 DEF HeldFor
<1>8. s \in ShortcutType /\ win \in Side
  BY PlainTarget, TableFacts DEF EngineInv
<1>9. ASSUME NEW g \in Final(keys', pending')
      PROVE  g \in Left \/ (ByHand(g)' /\ ~Hides(a, s, g)') \/ g \in KeysOf(a, s)'
  <2> SUFFICES ASSUME g \in keys, Hides(a, s, g)' => g \notin Released(GetKey(s, g[1], win)), ByHand(g),
                      Hides(a, s, g)'
               PROVE  FALSE
    BY <1>1, <1>2
  <2>1. g \in Modifiers /\ g[1] \in Used(s)
    BY DEF Hides
  <2>2. GetKey(s, g[1], win) \in Modifiers /\ GetKey(s, g[1], win)[1] = g[1] /\ ByHand(GetKey(s, g[1], win))
    BY <1>1, <1>8, <2>1, KeyOfUsed
  <2>3. SameFamily(g, GetKey(s, g[1], win))
    BY <2>1, <2>2 DEF SameFamily
  <2>4. g \in Released(GetKey(s, g[1], win))
    BY <1>1, <2>2, <2>3, SameHand
  <2> QED
    BY <2>4
<1> QED
  BY <1>1, <1>2, <1>3, <1>4, <1>7, <1>9, InvokedKeeps

(* Shortcuts that have all their modifiers in common have the same keys. *)
LEMMA AllInCommon ==
    ASSUME NEW s \in ValidShortcut, NEW t \in ValidShortcut,
           GetCommonModifiersCount(s, t) = Size(s) - 1, NEW f \in Used(s), NEW win
    PROVE  GetKey(t, f, win) = GetKey(s, f, win)
<1>1. /\ CommonFamilies(s, t) \in SUBSET Used(s)
      /\ GetCommonModifiersCount(s, t) = Cardinality(CommonFamilies(s, t))
  BY CommonCounted
<1>2. Used(s) \in SUBSET Families /\ Cardinality(Used(s)) \in Nat /\ Size(s) = Cardinality(Used(s)) + 1
  BY UsedCounted
<1>3. IsFiniteSet(Used(s))
  BY <1>2, FamiliesCounted
<1>4. Cardinality(CommonFamilies(s, t)) = Cardinality(Used(s))
  BY <1>1, <1>2
<1>5. CommonFamilies(s, t) = Used(s)
  BY <1>1, <1>3, <1>4, FS_Subset
<1>6. s.mod[f] = t.mod[f]
  BY <1>5 DEF CommonFamilies
<1> QED
  BY <1>6 DEF GetKey

(* The keys of a shortcut and those it hides, after a handler. *)
LEMMA KeysAfter ==
    ASSUME KeepRest, NEW a, NEW s, NEW win, WinKeyOf(a, s)' = win, NEW t, t = Target(a, s)
    PROVE  /\ RemapToKey(t) =>
                KeysOf(a, s)' = {g \in Counterparts(TargetKey(t)) : TargetKey(t) \in Final(keys', pending')}
           /\ ~RemapToKey(t) =>
                /\ t.shortcut.actionKey \in KeysOf(a, s)'
                /\ \A f \in Used(t.shortcut) : Counterparts(GetKey(t.shortcut, f, win)) \subseteq KeysOf(a, s)'
           /\ \A g : Hides(a, s, g)' <=>
                /\ g \in Modifiers /\ g[1] \in Used(s)
                /\ RemapToKey(t) \/ GetKey(t.shortcut, g[1], win) # GetKey(s, g[1], win)
<1>1. Target(a, s)' = t
  BY RestOfState DEF Target
<1>2. RemapToKey(t) =>
         KeysOf(a, s)' = {g \in Counterparts(TargetKey(t)) : TargetKey(t) \in Final(keys', pending')}
  BY <1>1 DEF KeysOf
<1>3. ~RemapToKey(t) =>
         KeysOf(a, s)' = {t.shortcut.actionKey}
                           \cup UNION {Counterparts(GetKey(t.shortcut, f, win)) : f \in Used(t.shortcut)}
  BY <1>1 DEF KeysOf
<1>4. \A g : Hides(a, s, g)' <=>
         /\ g \in Modifiers /\ g[1] \in Used(s)
         /\ RemapToKey(t) \/ GetKey(t.shortcut, g[1], win) # GetKey(s, g[1], win)
  BY <1>1 DEF Hides
<1> QED
  BY <1>2, <1>3, <1>4

LEMMA ShortcutToShortcutExplained ==
    ASSUME EngineInv, KeysInv, Plain(config), OneHeld,
           NEW a \in DOMAIN remaps, NEW s \in DOMAIN remaps[a], ShortcutToShortcut(a, s)
    PROVE  KeysInv'
<1> DEFINE t == Target(a, s).shortcut
           win == WinKey(remaps[a][s].winKeyInvoked)
           v == [remaps[a][s] EXCEPT !.isShortcutInvoked = TRUE, !.winKeyInvoked = win]
           common == GetCommonModifiersCount(s, t)
           up == Dummy \o Up(s, win, t, NoKey)
           down == Down(t, win, s, NoKey)
           key == Send(t.actionKey, FALSE)
           q == IF common = Size(s) - 1 THEN down \o key ELSE up \o (down \o key)
           K1 == IF common = Size(s) - 1 THEN keys ELSE Final(keys, up)
<1>1. /\ Handled(a, s, "pressed") /\ ~RemapToKey(Target(a, s)) /\ Activate(a) /\ KeepRest
      /\ remaps' = [remaps EXCEPT ![a][s].isShortcutInvoked = TRUE, ![a][s].winKeyInvoked = win]
      /\ \E n : Sends(n, q)
  BY DEF ShortcutToShortcut
<1>2. /\ s \in ValidShortcut /\ s \in ShortcutType /\ t \in ValidShortcut /\ t.actionKey \in VirtualKey
      /\ t \in ShortcutType /\ win \in Side /\ remaps[a][s] \in Remap
  BY <1>1, PlainTarget, TargetFacts, TableFacts DEF EngineInv, ValidShortcut
<1>3. keys \in SUBSET VirtualKey
  BY DEF EngineInv, TypeOK
<1>4. remaps' = [remaps EXCEPT ![a][s] = v] /\ v.isShortcutInvoked /\ v.winKeyInvoked = win
  BY <1>1, <1>2 DEF Remap
<1>5. WinKeyOf(a, s)' = win
  <2>1. remaps'[a][s] = v
    BY <1>4
  <2> QED
    BY <1>4, <2>1 DEF WinKeyOf
<1> HIDE DEF win, v, t
<1>6. /\ up \in Seq(Sent) /\ Final(keys, up) \subseteq keys
      /\ \A f \in Families : GoesUp(s, win, t, NoKey, f) =>
            Final(keys, up) \cap Released(GetKey(s, f, win)) = {}
  <2>1. Dummy \in Seq(Sent) /\ Final(keys, Dummy) \subseteq keys /\ Final(keys, Dummy) \in SUBSET VirtualKey
    BY <1>3, DummySent, FinalTyped
  <2>2. /\ Up(s, win, t, NoKey) \in Seq(Sent)
        /\ Final(Final(keys, Dummy), Up(s, win, t, NoKey)) \subseteq Final(keys, Dummy)
        /\ \A f \in Families : GoesUp(s, win, t, NoKey, f) =>
              Final(Final(keys, Dummy), Up(s, win, t, NoKey)) \cap Released(GetKey(s, f, win)) = {}
    BY <1>2, <2>1, UpSent
  <2> QED
    BY <2>1, <2>2, TwoSent
<1>7. K1 \in SUBSET VirtualKey /\ K1 \subseteq keys
  BY <1>3, <1>6
<1>8. /\ down \o key \in Seq(Sent)
      /\ \A g \in Final(K1, down \o key) :
            g \in K1 \/ g = t.actionKey \/ \E f \in Used(t) : g \in Counterparts(GetKey(t, f, win))
  <2> HIDE DEF K1
  <2>1. /\ down \in Seq(Sent)
        /\ \A g \in Final(K1, down) :
              g \in K1 \/ \E f \in Families : /\ GoesDown(t, win, s, NoKey, f)
                                             /\ g \in Counterparts(GetKey(t, f, win))
    BY <1>2, <1>7, DownSent
  <2>2. key \in Seq(Sent) /\ Final(Final(K1, down), key) = Final(K1, down) \cup (Counterparts(t.actionKey) \ NoSuchKey)
    <3>1. Final(K1, down) \in SUBSET VirtualKey
      BY FinalTyped
    <3> QED
      BY <1>2, <3>1, PressSent
  <2>3. Counterparts(t.actionKey) = {t.actionKey}
    BY <1>2, ActionKeyFacts
  <2>4. \A f \in Families : GoesDown(t, win, s, NoKey, f) => f \in Used(t)
    BY <1>2, DownCases
  <2> HIDE DEF down, key
  <2>5. down \o key \in Seq(Sent) /\ Final(K1, down \o key) = Final(Final(K1, down), key)
    BY <2>1, <2>2, TwoSent
  <2> QED
    BY <2>1, <2>2, <2>3, <2>4, <2>5
<1>9. q \in Seq(Sent) /\ Final(keys, q) = Final(K1, down \o key)
  <2> HIDE DEF up, down, key
  <2> QED
    BY <1>6, <1>8, TwoSent
<1> HIDE DEF up, down, key, q
<1>10. ASSUME NEW g \in Final(keys, q)
       PROVE  \/ g \in KeysOf(a, s)'
              \/ g \in keys /\ (Hides(a, s, g)' => g \notin Released(GetKey(s, g[1], win)))
  <2>1. /\ t.actionKey \in KeysOf(a, s)'
        /\ \A f \in Used(t) : Counterparts(GetKey(t, f, win)) \subseteq KeysOf(a, s)'
        /\ Hides(a, s, g)' => g[1] \in Used(s) /\ GetKey(t, g[1], win) # GetKey(s, g[1], win)
    BY <1>1, <1>5, KeysAfter DEF t
  <2>2. g \in K1 => g \in keys /\ (Hides(a, s, g)' => g \notin Released(GetKey(s, g[1], win)))
    <3>1. CASE common = Size(s) - 1
      <4>1. \A f \in Used(s) : GetKey(t, f, win) = GetKey(s, f, win)
        BY <1>2, <3>1, AllInCommon
      <4> QED
        BY <2>1, <3>1, <4>1
    <3>2. CASE common # Size(s) - 1
      <4>1. Hides(a, s, g)' => GoesUp(s, win, t, NoKey, g[1]) /\ g[1] \in Families
        BY <1>2, <2>1, UpCases, KeyOfUsed
      <4> QED
        BY <1>6, <3>2, <4>1
    <3> QED
      BY <3>1, <3>2
  <2> QED
    BY <1>8, <1>9, <2>1, <2>2
<1> QED
  <2>1. PICK n : Sends(n, q)
    BY <1>1 DEF q, up, down, key, t, win
  <2>2. v.winKeyInvoked = WinKey(remaps[a][s].winKeyInvoked)
    BY <1>4 DEF win
  <2> QED
    BY <1>1, <1>4, <1>9, <1>10, <2>1, <2>2, PressedKeeps

LEMMA NoSuchFacts ==
    ASSUME NEW k, NEW g \in Counterparts(k) \ NoSuchKey
    PROVE  k \in Counterparts(k) \ NoSuchKey
<1>1. k \in NoSuchKey => Counterparts(k) = {k}
  <2>1. DUMMY_KEY \notin Modifiers /\ VK_DISABLED \notin Modifiers
    BY ModifiersApart, KeysAssumption DEF VirtualKey
  <2>2. <<"win", "Both">>[1] = "win"
    OBVIOUS
  <2> QED
    BY <2>1, <2>2 DEF NoSuchKey, Counterparts, Common
<1> QED
  BY <1>1 DEF Counterparts

LEMMA ShortcutToKeyExplained ==
    ASSUME EngineInv, KeysInv, Plain(config), OneHeld,
           NEW a \in DOMAIN remaps, NEW s \in DOMAIN remaps[a], ShortcutToKey(a, s)
    PROVE  KeysInv'
<1> DEFINE t == Target(a, s)
           k == TargetKey(t)
           win == WinKey(remaps[a][s].winKeyInvoked)
           v == [isShortcutInvoked |-> TRUE, winKeyInvoked |-> win,
                 isOriginalActionKeyPressed |-> Disables(t) \/ remaps[a][s].isOriginalActionKeyPressed]
           up == Up(s, win, EmptyShortcut, NoKey)
           key == Optional(~Disables(t), Send(k, FALSE))
           q == Dummy \o up \o key
           K1 == Final(keys, Dummy)
           K2 == Final(K1, up)
<1>1. /\ Handled(a, s, "pressed") /\ RemapToKey(t) /\ Activate(a) /\ KeepRest
      /\ remaps' = [remaps EXCEPT ![a][s] = v]
      /\ \E n : Sends(n, q)
  BY DEF ShortcutToKey
<1>2. /\ s \in ShortcutType /\ k \in VirtualKey \cup {VK_DISABLED} /\ win \in Side
  BY <1>1, PlainTarget, TargetFacts, TableFacts DEF EngineInv
<1>3. keys \in SUBSET VirtualKey
  BY DEF EngineInv, TypeOK
<1>4. v.isShortcutInvoked /\ v.winKeyInvoked = win
  OBVIOUS
<1> HIDE DEF v
<1>5. WinKeyOf(a, s)' = win
  <2>1. remaps'[a][s] = v
    BY <1>1
  <2> QED
    BY <1>4, <2>1 DEF WinKeyOf
<1> HIDE DEF win, t, k
<1>6. Dummy \in Seq(Sent) /\ K1 \subseteq keys /\ K1 \in SUBSET VirtualKey
  BY <1>3, DummySent, FinalTyped
<1> HIDE DEF K1
<1>7. /\ up \in Seq(Sent) /\ K2 \subseteq K1 /\ K2 \in SUBSET VirtualKey
      /\ \A f \in Families : GoesUp(s, win, EmptyShortcut, NoKey, f) =>
            K2 \cap Released(GetKey(s, f, win)) = {}
  BY <1>2, <1>6, UpSent, FinalTyped
<1> HIDE DEF K2
<1>8. /\ key \in Seq(Sent)
      /\ Final(K2, key) = IF ~Disables(t) THEN K2 \cup (Counterparts(k) \ NoSuchKey) ELSE K2
  <2>1. (~Disables(t)) \in BOOLEAN
    BY DEF Disables
  <2> QED
    BY <1>2, <1>7, <2>1, OptionalPress
<1> HIDE DEF up, key
<1>9. q \in Seq(Sent) /\ Final(keys, q) = Final(K2, key)
  <2>1. q \in Seq(Sent) /\ Final(keys, q) = Final(Final(Final(keys, Dummy), up), key)
    BY <1>6, <1>7, <1>8, ThreeSent
  <2> QED
    BY <2>1 DEF K1, K2
<1>10. ASSUME NEW g \in Final(keys, q)
       PROVE  \/ g \in KeysOf(a, s)'
              \/ g \in keys /\ (Hides(a, s, g)' => g \notin Released(GetKey(s, g[1], win)))
  <2>1. CASE g \in K2
    <3>1. Hides(a, s, g)' => g[1] \in Used(s)
      BY <1>5, KeysAfter, <1>1
    <3>2. Hides(a, s, g)' => GoesUp(s, win, EmptyShortcut, NoKey, g[1]) /\ g[1] \in Families
      BY <1>2, <3>1, UpCases, KeyOfUsed
    <3> QED
      BY <1>6, <1>7, <2>1, <3>2
  <2>2. CASE g \notin K2
    <3>1. g \in Counterparts(k) \ NoSuchKey /\ ~Disables(t)
      BY <1>8, <1>9, <2>2
    <3>2. k \in Counterparts(k) \ NoSuchKey
      BY <3>1, NoSuchFacts
    <3>3. k \in Final(keys, q)
      BY <1>8, <1>9, <3>1, <3>2
    <3>4. k \in Final(keys', pending')
      BY <1>1, <1>9, <3>3, HandledSent
    <3>5. KeysOf(a, s)' = {h \in Counterparts(k) : k \in Final(keys', pending')}
      BY <1>1, <1>5, KeysAfter DEF t, k
    <3> QED
      BY <3>1, <3>4, <3>5
  <2> QED
    BY <2>1, <2>2
<1> QED
  <2>1. PICK n : Sends(n, q)
    BY <1>1
  <2>2. v.winKeyInvoked = WinKey(remaps[a][s].winKeyInvoked)
    BY <1>4 DEF win
  <2> HIDE DEF q
  <2> QED
    BY <1>1, <1>4, <1>9, <1>10, <2>1, <2>2, PressedKeeps

---------------------------------------------------------------------------
(* A shortcut is invoked *)

LEMMA InvokedFacts ==
    ASSUME EngineInv, Plain(config),
           NEW a \in DOMAIN remaps, NEW s \in DOMAIN remaps[a], NEW case, Handled(a, s, case),
           case # "pressed"
    PROVE  /\ s \in Invoked(a) /\ s \in ValidShortcut /\ s \in ShortcutType
           /\ Target(a, s) \in TargetType /\ WinKeyOf(a, s) \in Side
           /\ TargetKey(Target(a, s)) \in VirtualKey \cup {VK_DISABLED} \/ ~RemapToKey(Target(a, s))
           /\ RemapToKey(Target(a, s)) \/
                /\ Target(a, s).shortcut \in ValidShortcut /\ Target(a, s).shortcut \in ShortcutType
                /\ Target(a, s).shortcut.actionKey \in VirtualKey
           /\ keys \in SUBSET VirtualKey
           /\ e.vk \in VirtualKey \cup {VK_DISABLED}
<1>1. s \in Invoked(a)
  BY HandledInvoked
<1>2. /\ s \in ValidShortcut /\ s \in ShortcutType
      /\ Target(a, s) \in TargetType /\ WinKeyOf(a, s) \in Side
  BY PlainTarget DEF WinKeyOf
<1>3. keys \in SUBSET VirtualKey /\ e.vk \in VirtualKey \cup {VK_DISABLED}
  BY HandledFacts DEF EngineInv, TypeOK
<1> QED
  BY <1>1, <1>2, <1>3, TargetFacts DEF ValidShortcut

(* The modifiers that a handler presses once more are those the user holds. *)
LEMMA DownAgain ==
    ASSUME EngineInv, KeysInv, Plain(config), KeepRest,
           NEW a \in DOMAIN remaps, NEW s \in DOMAIN remaps[a], NEW case, Handled(a, s, case),
           case # "pressed",
           \A g : ByHand(g) => ByHand(g)' \/ (e.up /\ g \in Counterparts(e.vk)),
           NEW f \in Used(s),
           e.up => \/ e.vk \notin Modifiers \/ ~CheckKey(s, f, e.vk)
                   \/ GetKey(s, f, WinKeyOf(a, s)) \notin Counterparts(e.vk),
           NEW g \in Counterparts(GetKey(s, f, WinKeyOf(a, s)))
    PROVE  ByHand(g)'
<1>0. PICK k : k = GetKey(s, f, WinKeyOf(a, s))
  OBVIOUS
<1>1. s \in Invoked(a) /\ s \in ShortcutType /\ WinKeyOf(a, s) \in Side
  BY InvokedFacts
<1>2. ByHand(k)
  BY <1>0, <1>1 DEF KeysInv, HeldFor
<1>3. k \in Modifiers
  BY <1>0, <1>1, KeyOfUsed
<1>4. e.up => k \notin Counterparts(e.vk)
  BY <1>0, <1>1, <1>3, HeldIsChecked, CounterpartFacts
<1>5. ByHand(k)'
  BY <1>2, <1>4
<1>6. PICK h \in Holding' : k \in Counterparts(h)
  BY <1>5 DEF ByHand
<1>7. g \in Counterparts(h)
  BY <1>0, <1>6, CounterpartFacts
<1> QED
  BY <1>7 DEF ByHand

LEMMA ModifierReleasedFacts ==
    ASSUME EngineInv, KeysInv, Plain(config),
           NEW a \in DOMAIN remaps, NEW s \in DOMAIN remaps[a], Handled(a, s, "modifier released")
    PROVE  /\ e.up /\ e.vk \in Modifiers /\ e.vk[1] \in Used(s) /\ CheckKey(s, e.vk[1], e.vk)
           /\ \A h \in Holding : SameFamily(e.vk, h) => h = e.vk
<1>1. Case(a, s) = "modifier released"
  BY DEF Handled
<1>2. e.up /\ IsModifierOf(s, e.vk)
  BY <1>1 DEF Case
<1>3. s \in ShortcutType
  BY PlainTarget
<1>4. e.vk \in Modifiers /\ e.vk[1] \in Used(s) /\ CheckKey(s, e.vk[1], e.vk)
  <2>1. PICK f \in Families : CheckKey(s, f, e.vk)
    BY <1>2 DEF IsModifierOf
  <2>2. e.vk \in Modifiers /\ e.vk[1] = f /\ f \in Used(s)
    BY <1>3, <2>1, CheckedFamily
  <2> QED
    BY <2>1, <2>2
<1>5. Late /\ Latest = e /\ Effect(e) = e.vk
  BY HandledLast, EffectOfEvent
<1>6. \A k \in physical : ~SameFamily(e.vk, Shows(k))
  BY <1>2, <1>5 DEF KeysInv, EventsInOrder
<1>7. \A h \in Holding : SameFamily(e.vk, h) => h = e.vk
  BY <1>5, <1>6, HoldingFacts
<1> QED
  BY <1>2, <1>4, <1>7

LEMMA ModifierOfKeyReleased ==
    ASSUME EngineInv, KeysInv, Plain(config),
           NEW a \in DOMAIN remaps, NEW s \in DOMAIN remaps[a], ModifierReleased(a, s),
           RemapToKey(Target(a, s))
    PROVE  KeysInv'
<1> DEFINE t == Target(a, s)
           k == TargetKey(t)
           win == WinKeyOf(a, s)
           pressed == IsTargetPressed(t) /\ ~Disables(t)
           release == Optional(pressed, Send(k, TRUE))
           down == Down(s, win, EmptyShortcut, e.vk)
           q == release \o down \o Dummy
           K1 == Final(keys, release)
           K2 == Final(K1, down)
<1>1. /\ Handled(a, s, "modifier released") /\ KeepRest /\ Reset(a, s) /\ Deactivate(a)
      /\ \E n : Sends(n, q)
  BY DEF ModifierReleased, WinKeyOf
<1>2. /\ s \in Invoked(a) /\ s \in ShortcutType /\ win \in Side
      /\ k \in VirtualKey \cup {VK_DISABLED} /\ keys \in SUBSET VirtualKey
  BY <1>1, InvokedFacts
<1>3. /\ e.up /\ e.vk \in Modifiers /\ e.vk[1] \in Used(s)
  BY <1>1, ModifierReleasedFacts
<1>4. pressed \in BOOLEAN /\ (k \in keys => pressed)
  <2>1. Disables(t) => k = VK_DISABLED
    BY DisabledKey
  <2> QED
    BY <1>2, <2>1, KeysAssumption DEF IsTargetPressed
<1> HIDE DEF pressed, win, k
<1>5. release \in Seq(Sent) /\ K1 = (IF pressed THEN keys \ Released(k) ELSE keys) /\ K1 \in SUBSET VirtualKey
  <2>1. release \in Seq(Sent) /\ K1 = (IF pressed THEN keys \ Released(k) ELSE keys)
    BY ONLY <1>2, <1>4, OptionalRelease
  <2>2. K1 \in SUBSET VirtualKey
    BY ONLY FinalTyped
  <2> QED
    BY <2>1, <2>2
<1> HIDE DEF K1
<1>6. /\ down \in Seq(Sent) /\ K2 \in SUBSET VirtualKey
      /\ \A g \in K2 : g \in K1 \/ \E f \in Families : /\ GoesDown(s, win, EmptyShortcut, e.vk, f)
                                                      /\ g \in Counterparts(GetKey(s, f, win))
  BY <1>2, <1>5, DownSent, FinalTyped
<1> HIDE DEF K2
<1>7. Dummy \in Seq(Sent) /\ Final(K2, Dummy) \subseteq K2
  BY <1>6, DummySent
<1> HIDE DEF release, down
<1>8. q \in Seq(Sent) /\ Final(keys, q) \subseteq K2
  <2>1. q \in Seq(Sent) /\ Final(keys, q) = Final(Final(Final(keys, release), down), Dummy)
    BY <1>5, <1>6, <1>7, ThreeSent
  <2> QED
    BY <1>7, <2>1 DEF K1, K2
<1>9. PICK n : Sends(n, q)
  BY <1>1
<1> HIDE DEF q
<1>10. /\ EventsInOrder' /\ Final(keys', pending') = Final(keys, q)
       /\ \A g : ByHand(g) => ByHand(g)' \/ (e.up /\ g \in Counterparts(e.vk))
  BY <1>1, <1>8, <1>9, HandledSent
<1>11. ASSUME NEW g \in K1
       PROVE  g \in Left \/ ByHand(g)'
  <2>1. g \in keys /\ (pressed => g \notin Released(k))
    BY <1>5
  <2>2. g \in Final(keys, pending) /\ Final(keys, pending) = keys
    BY <1>1, <2>1, HandledLast
  <2>3. g \in Left \/ (ByHand(g) /\ ~Hides(a, s, g)) \/ g \in KeysOf(a, s)
    BY <1>2, <2>2, OnlyExplained
  <2>4. g \in KeysOf(a, s) => FALSE
    <3>1. g \in KeysOf(a, s) => g \in Counterparts(k) /\ k \in keys
      BY <2>2 DEF KeysOf, k, t
    <3> QED
      BY <1>4, <2>1, <3>1, ReleasedFacts
  <2>5. ~Hides(a, s, g) => g \notin Counterparts(e.vk)
    BY <1>3, CounterpartFacts DEF Hides
  <2> QED
    BY <1>10, <2>3, <2>4, <2>5
<1>12. ASSUME NEW f \in Families, GoesDown(s, win, EmptyShortcut, e.vk, f),
              NEW g \in Counterparts(GetKey(s, f, win))
       PROVE  ByHand(g)'
  <2>1. f \in Used(s) /\ ~CheckKey(s, f, e.vk)
    BY <1>2, <1>12, DownCases
  <2> QED
    BY <1>1, <1>10, <1>12, <2>1, DownAgain DEF win
<1>13. \A g \in Final(keys', pending') : g \in Left \/ ByHand(g)'
  BY <1>6, <1>8, <1>10, <1>11, <1>12
<1>14. (\A b \in DOMAIN remaps' : Invoked(b)' = {}) /\ activatedApp' = NoActivatedApp
  BY <1>1, <1>2, AfterReset DEF KeysInv
<1> QED
  BY <1>1, <1>10, <1>13, <1>14, ResetKeeps

(* What is down when a target that is a shortcut has lost its action key. *)
LEMMA DownForTarget ==
    ASSUME EngineInv, KeysInv, Plain(config),
           NEW a \in DOMAIN remaps, NEW s \in DOMAIN remaps[a], NEW case, Handled(a, s, case),
           case # "pressed", ~RemapToKey(Target(a, s)),
           NEW g \in keys, g # Target(a, s).shortcut.actionKey
    PROVE  \/ g \in Left
           \/ ByHand(g) /\ ~Hides(a, s, g)
           \/ \E f \in Used(Target(a, s).shortcut) :
                 g \in Counterparts(GetKey(Target(a, s).shortcut, f, WinKeyOf(a, s)))
<1>1. s \in Invoked(a)
  BY InvokedFacts
<1>2. g \in Final(keys, pending)
  BY HandledLast
<1>3. g \in Left \/ (ByHand(g) /\ ~Hides(a, s, g)) \/ g \in KeysOf(a, s)
  BY <1>1, <1>2, OnlyExplained
<1> QED
  BY <1>3 DEF KeysOf

(* A modifier of the target that is still down when they have gone up is one  *)
(* that does not go up.                                                       *)
LEMMA StillDown ==
    ASSUME NEW sc \in ShortcutType, NEW f \in Used(sc), NEW win \in Side, NEW compare, NEW released,
           NEW g \in Counterparts(GetKey(sc, f, win)), NEW K, g \in K,
           GoesUp(sc, win, compare, released, f) => K \cap Released(GetKey(sc, f, win)) = {}
    PROVE  /\ compare # EmptyShortcut
           /\ GetKey(sc, f, win) = GetKey(compare, f, win)
           /\ ~CheckKey(sc, f, released)
<1>1. g \in Released(GetKey(sc, f, win))
  BY ReleasedFacts
<1>2. ~GoesUp(sc, win, compare, released, f)
  BY <1>1
<1> QED
  BY <1>2, UpCases

LEMMA ModifierOfShortcutReleased ==
    ASSUME EngineInv, KeysInv, Plain(config),
           NEW a \in DOMAIN remaps, NEW s \in DOMAIN remaps[a], ModifierReleased(a, s),
           ~RemapToKey(Target(a, s))
    PROVE  KeysInv'
<1> DEFINE t == Target(a, s)
           sc == t.shortcut
           win == WinKeyOf(a, s)
           pressed == IsTargetPressed(t) /\ ~Disables(t)
           release == Optional(pressed, Send(sc.actionKey, TRUE))
           up == Up(sc, win, s, e.vk)
           down == Down(s, win, sc, e.vk)
           q == release \o up \o down \o Dummy
           K1 == Final(keys, release)
           K2 == Final(K1, up)
           K3 == Final(K2, down)
<1>1. /\ Handled(a, s, "modifier released") /\ KeepRest /\ Reset(a, s) /\ Deactivate(a)
      /\ \E n : Sends(n, q)
  BY DEF ModifierReleased, WinKeyOf
<1>2. /\ s \in Invoked(a) /\ s \in ShortcutType /\ s \in ValidShortcut /\ win \in Side
      /\ sc \in ValidShortcut /\ sc \in ShortcutType
      /\ sc.actionKey \in VirtualKey \cup {VK_DISABLED} /\ keys \in SUBSET VirtualKey
  BY <1>1, InvokedFacts
<1>3. /\ e.up /\ e.vk \in Modifiers /\ e.vk[1] \in Used(s)
      /\ \A h \in Holding : SameFamily(e.vk, h) => h = e.vk
  BY <1>1, ModifierReleasedFacts
<1>4. pressed \in BOOLEAN /\ (sc.actionKey \in keys => pressed)
  <2>1. ~Disables(t)
    BY KeysAssumption DEF Disables, RemapToKey
  <2> QED
    BY <2>1 DEF IsTargetPressed
<1> HIDE DEF pressed, win, sc
<1>5. /\ release \in Seq(Sent) /\ K1 \in SUBSET VirtualKey
      /\ K1 = (IF pressed THEN keys \ Released(sc.actionKey) ELSE keys)
  <2>1. release \in Seq(Sent) /\ K1 = (IF pressed THEN keys \ Released(sc.actionKey) ELSE keys)
    BY ONLY <1>2, <1>4, OptionalRelease
  <2>2. K1 \in SUBSET VirtualKey
    BY ONLY FinalTyped
  <2> QED
    BY <2>1, <2>2
<1>6. K1 \subseteq keys /\ sc.actionKey \notin K1
  BY <1>2, <1>4, <1>5, ActionKeyFacts
<1> HIDE DEF K1
<1>7. /\ up \in Seq(Sent) /\ K2 \subseteq K1 /\ K2 \in SUBSET VirtualKey
      /\ \A f \in Families : GoesUp(sc, win, s, e.vk, f) => K2 \cap Released(GetKey(sc, f, win)) = {}
  BY <1>2, <1>5, UpSent, FinalTyped
<1> HIDE DEF K2
<1>8. /\ down \in Seq(Sent) /\ K3 \in SUBSET VirtualKey
      /\ \A g \in K3 : g \in K2 \/ \E f \in Families : /\ GoesDown(s, win, sc, e.vk, f)
                                                      /\ g \in Counterparts(GetKey(s, f, win))
  BY <1>2, <1>7, DownSent, FinalTyped
<1> HIDE DEF K3
<1>9. Dummy \in Seq(Sent) /\ Final(K3, Dummy) \subseteq K3
  BY <1>8, DummySent
<1> HIDE DEF release, up, down
<1>10. q \in Seq(Sent) /\ Final(keys, q) \subseteq K3
  <2>1. q \in Seq(Sent) /\ Final(keys, q) = Final(Final(Final(Final(keys, release), up), down), Dummy)
    BY <1>5, <1>7, <1>8, <1>9, FourSent
  <2> QED
    BY <1>9, <2>1 DEF K1, K2, K3
<1>11. PICK n : Sends(n, q)
  BY <1>1
<1> HIDE DEF q
<1>12. /\ EventsInOrder' /\ Final(keys', pending') = Final(keys, q)
       /\ \A g : ByHand(g) => ByHand(g)' \/ (e.up /\ g \in Counterparts(e.vk))
  BY <1>1, <1>10, <1>11, HandledSent
<1>13. ASSUME NEW f \in Used(s)
       PROVE  /\ GetKey(s, f, win) \in Modifiers /\ GetKey(s, f, win)[1] = f
              /\ \E h \in Holding : GetKey(s, f, win) \in Counterparts(h)
  BY <1>2, KeyOfUsed, ExplainedHeld DEF win
<1>14. ASSUME NEW g \in K2
       PROVE  g \in Left \/ ByHand(g)'
  <2>1. \/ g \in Left
        \/ ByHand(g) /\ ~Hides(a, s, g)
        \/ \E f \in Used(sc) : /\ g \in Counterparts(GetKey(sc, f, win))
                               /\ GetKey(sc, f, win) = GetKey(s, f, win)
                               /\ ~CheckKey(sc, f, e.vk)
    <3>1. g \in keys /\ g # sc.actionKey
      BY <1>6, <1>7
    <3>2. \/ g \in Left
          \/ ByHand(g) /\ ~Hides(a, s, g)
          \/ \E f \in Used(sc) : g \in Counterparts(GetKey(sc, f, win))
      BY <1>1, <3>1, DownForTarget DEF sc, win
    <3>3. ASSUME NEW f \in Used(sc), g \in Counterparts(GetKey(sc, f, win))
          PROVE  GetKey(sc, f, win) = GetKey(s, f, win) /\ ~CheckKey(sc, f, e.vk)
      <4>1. f \in Families
        BY <1>2, KeyOfUsed
      <4>2. GoesUp(sc, win, s, e.vk, f) => K2 \cap Released(GetKey(sc, f, win)) = {}
        BY <1>7, <4>1
      <4> QED
        BY <1>2, <3>3, <4>2, StillDown
    <3> QED
      BY <3>2, <3>3
  <2>2. CASE ByHand(g) /\ ~Hides(a, s, g) /\ g \in Counterparts(e.vk)
    <3> DEFINE f == e.vk[1]
               x == GetKey(s, f, win)
    <3>1. g \in Modifiers /\ g[1] = f
      BY <1>3, <2>2, CounterpartFacts
    <3>2. GetKey(sc, f, win) = x
      BY <1>3, <2>2, <3>1 DEF Hides, win, sc
    <3>3. x \in Modifiers /\ x[1] = f
      BY <1>3, <1>13
    <3>4. x \in Counterparts(e.vk)
      <4>1. PICK h \in Holding : x \in Counterparts(h)
        BY <1>3, <1>13
      <4>2. h \in Modifiers /\ h[1] = f
        BY <3>3, <4>1, CounterpartFacts
      <4>3. h = e.vk
        BY <1>3, <4>2 DEF SameFamily
      <4> QED
        BY <4>1, <4>3
    <3>5. f \in Families /\ f \in Used(sc)
      <4>1. f \in Families
        BY <1>2, <1>3, KeyOfUsed
      <4>2. x # NoKey
        BY <3>3, KeysAssumption DEF VirtualKey
      <4> QED
        BY <3>2, <4>1, <4>2, UnusedHasNoKey
    <3>6. CheckKey(sc, f, e.vk)
      BY <1>2, <3>2, <3>4, <3>5, HeldIsChecked
    <3>7. GoesUp(sc, win, s, e.vk, f)
      BY <1>2, <3>5, <3>6, UpCases
    <3>8. g \in Released(x)
      BY <2>2, <3>4, ReleasedFacts
    <3> QED
      BY <1>7, <3>2, <3>5, <3>7, <3>8
  <2>3. CASE \E f \in Used(sc) : /\ g \in Counterparts(GetKey(sc, f, win))
                                 /\ GetKey(sc, f, win) = GetKey(s, f, win)
                                 /\ ~CheckKey(sc, f, e.vk)
    <3>1. PICK f \in Used(sc) : /\ g \in Counterparts(GetKey(sc, f, win))
                                /\ GetKey(sc, f, win) = GetKey(s, f, win)
                                /\ ~CheckKey(sc, f, e.vk)
      BY <2>3
    <3>2. f \in Used(s)
      BY <1>2, <3>1, KeyOfUsed, UnusedHasNoKey
    <3>3. GetKey(s, f, win) \notin Counterparts(e.vk)
      BY <1>2, <3>1, HeldIsChecked
    <3> QED
      BY <1>1, <1>12, <3>1, <3>2, <3>3, DownAgain DEF win
  <2> QED
    BY <1>12, <2>1, <2>2, <2>3
<1>15. ASSUME NEW f \in Families, GoesDown(s, win, sc, e.vk, f),
              NEW g \in Counterparts(GetKey(s, f, win))
       PROVE  ByHand(g)'
  <2>1. f \in Used(s) /\ ~CheckKey(s, f, e.vk)
    BY <1>2, <1>15, DownCases
  <2> QED
    BY <1>1, <1>12, <1>15, <2>1, DownAgain DEF win
<1>16. \A g \in Final(keys', pending') : g \in Left \/ ByHand(g)'
  BY <1>8, <1>10, <1>12, <1>14, <1>15
<1>17. (\A b \in DOMAIN remaps' : Invoked(b)' = {}) /\ activatedApp' = NoActivatedApp
  BY <1>1, <1>2, AfterReset DEF KeysInv
<1> QED
  BY <1>1, <1>12, <1>16, <1>17, ResetKeeps

---------------------------------------------------------------------------
(* The remapping goes on *)

GoesOn ==
    /\ DOMAIN remaps' = DOMAIN remaps /\ activatedApp' = activatedApp
    /\ \A c \in DOMAIN remaps : Invoked(c)' = Invoked(c)
    /\ \A c \in DOMAIN remaps : \A x \in DOMAIN remaps[c] : WinKeyOf(c, x)' = WinKeyOf(c, x)

LEMMA SameGoesOn == ASSUME UNCHANGED <<remaps, activatedApp>> PROVE GoesOn
  BY DEF GoesOn, Invoked, WinKeyOf

LEMMA GoesOnKeeps ==
    ASSUME EngineInv, KeysInv, Plain(config), KeepRest, EventsInOrder', GoesOn,
           NEW a \in DOMAIN remaps, NEW s \in DOMAIN remaps[a], s \in Invoked(a),
           \A g \in Modifiers : ByHand(g) => ByHand(g)',
           \A g \in Final(keys', pending') :
              g \in Left \/ (ByHand(g)' /\ ~Hides(a, s, g)) \/ g \in KeysOf(a, s)'
    PROVE  KeysInv'
<1>1. /\ \A b \in DOMAIN remaps : \A x \in Invoked(b) : b = a /\ x = s
      /\ activatedApp = IF a = OSLevel THEN NoActivatedApp ELSE a
      /\ ~Suspended
  BY OnlyThis DEF KeysInv
<1>2. a # OSLevel => a # NoActivatedApp
  BY DEF KeysInv, AppsInOrder, ActivatedIsInvoked
<1>3. /\ a \in DOMAIN remaps' /\ s \in Invoked(a)' /\ WinKeyOf(a, s)' = WinKeyOf(a, s)
      /\ \A b \in DOMAIN remaps' : \A x \in Invoked(b)' : b = a /\ x = s
      /\ activatedApp' = IF a = OSLevel THEN NoActivatedApp ELSE a
  BY <1>1 DEF GoesOn
<1>4. s \in ShortcutType /\ WinKeyOf(a, s) \in Side
  BY PlainTarget DEF WinKeyOf
<1>5. HeldFor(a, s)'
  <2>1. HeldFor(a, s)
    BY DEF KeysInv
  <2>2. last' = last /\ \A k : Shows(k)' = Shows(k)
    BY RestOfState
  <2>3. PICK w : w = WinKeyOf(a, s)
    OBVIOUS
  <2>4. \A f \in Used(s) : GetKey(s, f, w) \in Modifiers /\ ByHand(GetKey(s, f, w))
    BY <1>4, <2>1, <2>3, KeyOfUsed DEF HeldFor
  <2>5. \A f \in Used(s) : ByHand(GetKey(s, f, w))'
    BY <2>4
  <2>6. WinKeyOf(a, s)' = w
    BY <1>3, <2>3
  <2> QED
    BY <2>1, <2>2, <2>5, <2>6 DEF HeldFor
<1>6. \A g : Hides(a, s, g)' <=> Hides(a, s, g)
  BY <1>3, KeysAfter DEF Hides
<1> QED
  BY <1>1, <1>2, <1>3, <1>5, <1>6, InvokedKeeps

LEMMA ModifierPressedExplained ==
    ASSUME EngineInv, KeysInv, Plain(config),
           NEW a \in DOMAIN remaps, NEW s \in DOMAIN remaps[a], ModifierPressed(a, s)
    PROVE  KeysInv'
<1>1. /\ Handled(a, s, "modifier pressed") /\ KeepRest /\ Sends(0, <<>>)
      /\ UNCHANGED <<remaps, activatedApp>>
  BY DEF ModifierPressed, Swallows
<1>2. /\ s \in Invoked(a) /\ keys \in SUBSET VirtualKey
  BY <1>1, InvokedFacts
<1>3. ~e.up
  <2>1. Case(a, s) = "modifier pressed"
    BY <1>1 DEF Handled
  <2> QED
    BY <2>1 DEF Case
<1>4. <<>> \in Seq(Sent)
  BY EmptySeq
<1>5. /\ EventsInOrder' /\ Final(keys', pending') = keys
      /\ \A g : ByHand(g) => ByHand(g)'
  BY <1>1, <1>2, <1>3, <1>4, HandledSent, FinalNone
<1>6. Final(keys, pending) = keys
  BY <1>1, HandledLast
<1>7. \A g \in KeysOf(a, s) : g \in KeysOf(a, s)'
  <2>1. WinKeyOf(a, s)' = WinKeyOf(a, s) /\ Target(a, s)' = Target(a, s)
    BY <1>1, RestOfState DEF WinKeyOf, Target
  <2> QED
    BY <1>5, <1>6, <2>1 DEF KeysOf
<1>8. \A g \in keys : g \in Left \/ (ByHand(g)' /\ ~Hides(a, s, g)) \/ g \in KeysOf(a, s)'
  BY <1>2, <1>5, <1>6, <1>7, OnlyExplained
<1> QED
  BY <1>1, <1>2, <1>5, <1>8, SameGoesOn, GoesOnKeeps

(* The target of a shortcut, when a handler has left its Windows key. *)
LEMMA KeysOfTarget ==
    ASSUME KeepRest, NEW a, NEW s, WinKeyOf(a, s)' = WinKeyOf(a, s),
           RemapToKey(Target(a, s)) /\ TargetKey(Target(a, s)) \in Final(keys, pending)
              => TargetKey(Target(a, s)) \in Final(keys', pending'),
           NEW g \in KeysOf(a, s)
    PROVE  g \in KeysOf(a, s)'
<1>1. Target(a, s)' = Target(a, s)
  BY RestOfState DEF Target
<1> QED
  BY <1>1 DEF KeysOf

(* The action key of a disabled shortcut goes nowhere. *)
LEMMA DisabledGoesOn ==
    ASSUME EngineInv, KeysInv, Plain(config), KeepRest,
           NEW a \in DOMAIN remaps, NEW s \in DOMAIN remaps[a], NEW case, Handled(a, s, case),
           case # "pressed", e.vk = s.actionKey, Sends(0, <<>>),
           GoesOn
    PROVE  KeysInv'
<1>1. /\ s \in Invoked(a) /\ s \in ValidShortcut /\ keys \in SUBSET VirtualKey
  BY InvokedFacts
<1>2. <<>> \in Seq(Sent)
  BY EmptySeq
<1>3. /\ EventsInOrder' /\ Final(keys', pending') = keys
      /\ \A g : ByHand(g) => ByHand(g)' \/ g \in Counterparts(e.vk)
  BY <1>1, <1>2, HandledSent, FinalNone
<1>4. Counterparts(e.vk) = {s.actionKey} /\ s.actionKey \notin Modifiers
  BY <1>1, ActionKeyFacts
<1>5. s.actionKey \in Left
  BY <1>1, OnlyThis, LeftFacts DEF KeysInv
<1>6. Final(keys, pending) = keys
  BY HandledLast
<1>7. \A g \in KeysOf(a, s) : g \in KeysOf(a, s)'
  <2>1. WinKeyOf(a, s)' = WinKeyOf(a, s)
    BY DEF GoesOn
  <2> QED
    BY <1>3, <1>6, <2>1, KeysOfTarget
<1>8. \A g \in keys : g \in Left \/ (ByHand(g)' /\ ~Hides(a, s, g)) \/ g \in KeysOf(a, s)'
  BY <1>1, <1>3, <1>4, <1>5, <1>6, <1>7, OnlyExplained
<1>9. \A g \in Modifiers : ByHand(g) => ByHand(g)'
  BY <1>3, <1>4
<1> QED
  BY <1>1, <1>3, <1>8, <1>9, GoesOnKeeps

LEMMA ActionKeyRepeatedExplained ==
    ASSUME EngineInv, KeysInv, Plain(config),
           NEW a \in DOMAIN remaps, NEW s \in DOMAIN remaps[a], ActionKeyRepeated(a, s)
    PROVE  KeysInv'
<1> DEFINE t == Target(a, s)
           k == IF RemapToKey(t) THEN TargetKey(t) ELSE t.shortcut.actionKey
           q == Send(k, FALSE)
<1>1. /\ Handled(a, s, "repeated") /\ KeepRest
  BY DEF ActionKeyRepeated
<1>2. /\ s \in Invoked(a) /\ keys \in SUBSET VirtualKey /\ k \in VirtualKey \cup {VK_DISABLED}
      /\ ~RemapToKey(t) => t.shortcut \in ValidShortcut
  BY <1>1, InvokedFacts
<1>3. ~e.up /\ e.vk = s.actionKey
  <2>1. Case(a, s) = "repeated"
    BY <1>1 DEF Handled
  <2> QED
    BY <2>1 DEF Case
<1>4. CASE Disables(t)
  <2>1. /\ Sends(0, <<>>) /\ UNCHANGED activatedApp
        /\ remaps' = [remaps EXCEPT ![a][s].isOriginalActionKeyPressed = TRUE]
    BY <1>4 DEF ActionKeyRepeated, Swallows
  <2>2. GoesOn
    BY <2>1, SameInvoked DEF GoesOn, EngineInv
  <2> QED
    BY <1>1, <1>3, <2>1, <2>2, DisabledGoesOn
<1>5. CASE ~Disables(t)
  <2>1. Sends(1, q) /\ UNCHANGED <<remaps, activatedApp>>
    BY <1>5 DEF ActionKeyRepeated
  <2> HIDE DEF k
  <2>2. q \in Seq(Sent) /\ Final(keys, q) = keys \cup (Counterparts(k) \ NoSuchKey)
    BY <1>2, PressSent
  <2> HIDE DEF q
  <2>3. /\ EventsInOrder' /\ Final(keys', pending') = keys \cup (Counterparts(k) \ NoSuchKey)
        /\ \A g : ByHand(g) => ByHand(g)'
    BY <1>1, <1>3, <2>1, <2>2, HandledSent
  <2>4. Final(keys, pending) = keys
    BY <1>1, HandledLast
  <2>5. WinKeyOf(a, s)' = WinKeyOf(a, s)
    BY <2>1 DEF WinKeyOf
  <2>6. \A g \in KeysOf(a, s) : g \in KeysOf(a, s)'
    BY <1>1, <2>3, <2>4, <2>5, KeysOfTarget
  <2>7. ASSUME NEW g \in Counterparts(k) \ NoSuchKey
        PROVE  g \in KeysOf(a, s)'
    <3>1. k \in Final(keys', pending')
      BY <2>3, <2>7, NoSuchFacts
    <3>2. CASE RemapToKey(t)
      <4>1. KeysOf(a, s)' = {h \in Counterparts(k) : k \in Final(keys', pending')}
        BY <1>1, <2>5, <3>2, KeysAfter DEF k
      <4> QED
        BY <2>7, <3>1, <4>1
    <3>3. CASE ~RemapToKey(t)
      <4>1. k = t.shortcut.actionKey /\ Counterparts(k) = {k}
        BY <1>2, <3>3, ActionKeyFacts DEF k
      <4>2. t.shortcut.actionKey \in KeysOf(a, s)'
        BY <1>1, <2>5, <3>3, KeysAfter
      <4> QED
        BY <2>7, <4>1, <4>2
    <3> QED
      BY <3>2, <3>3
  <2>8. \A g \in Final(keys', pending') : g \in Left \/ (ByHand(g)' /\ ~Hides(a, s, g)) \/ g \in KeysOf(a, s)'
    BY <1>2, <2>3, <2>4, <2>6, <2>7, OnlyExplained
  <2> QED
    BY <1>1, <1>2, <2>1, <2>3, <2>8, SameGoesOn, GoesOnKeeps
<1> QED
  BY <1>4, <1>5

LEMMA ActionKeyReleasedExplained ==
    ASSUME EngineInv, KeysInv, Plain(config),
           NEW a \in DOMAIN remaps, NEW s \in DOMAIN remaps[a], ActionKeyReleased(a, s)
    PROVE  KeysInv'
<1> DEFINE t == Target(a, s)
           k == TargetKey(t)
           win == WinKeyOf(a, s)
           down == Down(s, win, EmptyShortcut, NoKey)
           last3 == Send(k, TRUE) \o down \o Dummy
<1>1. Handled(a, s, "action key released") /\ KeepRest
  BY DEF ActionKeyReleased
<1>2. /\ s \in Invoked(a) /\ s \in ValidShortcut /\ s \in ShortcutType /\ win \in Side
      /\ keys \in SUBSET VirtualKey /\ t \in TargetType
      /\ RemapToKey(t) => k \in VirtualKey \cup {VK_DISABLED}
      /\ ~RemapToKey(t) => /\ t.shortcut \in ValidShortcut
                           /\ t.shortcut.actionKey \in VirtualKey \cup {VK_DISABLED}
  BY <1>1, InvokedFacts
<1>3. e.up /\ e.vk = s.actionKey
  <2>1. Case(a, s) = "action key released"
    BY <1>1 DEF Handled
  <2> QED
    BY <2>1 DEF Case
<1>4. Counterparts(e.vk) = {s.actionKey} /\ s.actionKey \notin Modifiers /\ s.actionKey \in Left
  <2>1. ~loadingSettings
    BY <1>2, OnlyThis DEF KeysInv
  <2> QED
    BY <1>2, <1>3, <2>1, ActionKeyFacts, LeftFacts
<1>5. Final(keys, pending) = keys
  BY <1>1, HandledLast
<1>6. \/ /\ Disables(t) /\ Swallows
         /\ remaps' = [remaps EXCEPT ![a][s].isOriginalActionKeyPressed = FALSE]
         /\ UNCHANGED activatedApp
      \/ /\ ~RemapToKey(t)
         /\ Sends(1, Send(t.shortcut.actionKey, TRUE))
         /\ UNCHANGED <<remaps, activatedApp>>
      \/ /\ RemapToKey(t)
         /\ Sends(1, Send(k, TRUE))
         /\ UNCHANGED <<remaps, activatedApp>>
      \/ /\ RemapToKey(t)
         /\ Sends(1 + (Size(s) - 1) + 2, last3)
         /\ Reset(a, s)
         /\ activatedApp' = NoActivatedApp
  BY <1>2, ReleasedCases DEF WinKeyOf
<1>7. CASE /\ Disables(t) /\ Swallows
           /\ remaps' = [remaps EXCEPT ![a][s].isOriginalActionKeyPressed = FALSE]
           /\ UNCHANGED activatedApp
  <2>1. Sends(0, <<>>)
    BY <1>7 DEF Swallows
  <2>2. GoesOn
    BY <1>7, SameInvoked DEF GoesOn, EngineInv
  <2> QED
    BY <1>1, <1>3, <2>1, <2>2, DisabledGoesOn
<1>8. ASSUME NEW n, NEW q \in Seq(Sent), Sends(n, q)
      PROVE  /\ EventsInOrder' /\ Final(keys', pending') = Final(keys, q)
             /\ \A g : ByHand(g) => ByHand(g)' \/ g = s.actionKey
  BY <1>1, <1>4, <1>8, HandledSent
<1>9. \A g \in keys : g \in Left \/ (ByHand(g) /\ ~Hides(a, s, g)) \/ g \in KeysOf(a, s)
  BY <1>2, <1>5, OnlyExplained
<1> HIDE DEF k, win
<1>10. CASE /\ ~RemapToKey(t)
            /\ Sends(1, Send(t.shortcut.actionKey, TRUE))
            /\ UNCHANGED <<remaps, activatedApp>>
  <2> DEFINE q == Send(t.shortcut.actionKey, TRUE)
  <2>1. q \in Seq(Sent) /\ Final(keys, q) = keys \ Released(t.shortcut.actionKey)
    BY <1>2, <1>10, ReleaseSent
  <2> HIDE DEF q
  <2>2. /\ EventsInOrder' /\ Final(keys', pending') \subseteq keys
        /\ \A g : ByHand(g) => ByHand(g)' \/ g = s.actionKey
    BY <1>8, <1>10, <2>1 DEF q
  <2>3. \A g \in KeysOf(a, s) : g \in KeysOf(a, s)'
    BY <1>1, <1>10, KeysOfTarget DEF WinKeyOf
  <2>4. \A g \in Final(keys', pending') : g \in Left \/ (ByHand(g)' /\ ~Hides(a, s, g)) \/ g \in KeysOf(a, s)'
    BY <1>4, <1>9, <2>2, <2>3
  <2>5. \A g \in Modifiers : ByHand(g) => ByHand(g)'
    BY <1>4, <2>2
  <2> QED
    BY <1>1, <1>2, <1>10, <2>2, <2>4, <2>5, SameGoesOn, GoesOnKeeps
<1>11. ASSUME RemapToKey(t), NEW g \in keys \ Released(k)
       PROVE  g \in Left \/ (ByHand(g) /\ ~Hides(a, s, g))
  <2>1. g \in KeysOf(a, s) => g \in Counterparts(k)
    BY <1>11 DEF KeysOf, k
  <2> QED
    BY <1>9, <1>11, <2>1, ReleasedFacts
<1>12. CASE RemapToKey(t) /\ Sends(1, Send(k, TRUE)) /\ UNCHANGED <<remaps, activatedApp>>
  <2> DEFINE q == Send(k, TRUE)
  <2>1. q \in Seq(Sent) /\ Final(keys, q) = keys \ Released(k)
    BY <1>2, <1>12, ReleaseSent
  <2> HIDE DEF q
  <2>2. /\ EventsInOrder' /\ Final(keys', pending') = keys \ Released(k)
        /\ \A g : ByHand(g) => ByHand(g)' \/ g = s.actionKey
    BY <1>8, <1>12, <2>1 DEF q
  <2>3. \A g \in Final(keys', pending') : g \in Left \/ (ByHand(g)' /\ ~Hides(a, s, g)) \/ g \in KeysOf(a, s)'
    BY <1>4, <1>11, <1>12, <2>2
  <2>4. \A g \in Modifiers : ByHand(g) => ByHand(g)'
    BY <1>4, <2>2
  <2> QED
    BY <1>1, <1>2, <1>12, <2>2, <2>3, <2>4, SameGoesOn, GoesOnKeeps
<1>13. CASE /\ RemapToKey(t)
            /\ Sends(1 + (Size(s) - 1) + 2, last3)
            /\ Reset(a, s)
            /\ activatedApp' = NoActivatedApp
  <2> DEFINE release == Send(k, TRUE)
             K1 == Final(keys, release)
             K2 == Final(K1, down)
  <2>1. release \in Seq(Sent) /\ K1 = keys \ Released(k) /\ K1 \in SUBSET VirtualKey
    <3>1. k \in VirtualKey \cup {VK_DISABLED} /\ keys \in SUBSET VirtualKey
      BY <1>2, <1>13
    <3>2. release \in Seq(Sent) /\ (keys \in SUBSET VirtualKey => K1 = keys \ Released(k))
      BY ONLY <3>1, ReleaseSent
    <3>3. K1 \in SUBSET VirtualKey
      BY ONLY FinalTyped
    <3> QED
      BY ONLY <3>1, <3>2, <3>3
  <2> HIDE DEF K1
  <2>2. /\ down \in Seq(Sent) /\ K2 \in SUBSET VirtualKey
        /\ \A g \in K2 : g \in K1 \/ \E f \in Families : /\ GoesDown(s, win, EmptyShortcut, NoKey, f)
                                                        /\ g \in Counterparts(GetKey(s, f, win))
    BY <1>2, <2>1, DownSent, FinalTyped
  <2> HIDE DEF K2
  <2>3. Dummy \in Seq(Sent) /\ Final(K2, Dummy) \subseteq K2
    BY <2>2, DummySent
  <2>4. last3 \in Seq(Sent) /\ Final(keys, last3) \subseteq K2
    <3> HIDE DEF down, release
    <3>1. /\ release \o down \o Dummy \in Seq(Sent)
          /\ Final(keys, release \o down \o Dummy) = Final(Final(Final(keys, release), down), Dummy)
      BY <2>1, <2>2, <2>3, ThreeSent
    <3> QED
      BY <2>3, <3>1 DEF K1, K2, release
  <2> HIDE DEF last3, down
  <2>5. /\ EventsInOrder' /\ Final(keys', pending') \subseteq K2
        /\ \A g : ByHand(g) => ByHand(g)' \/ g = s.actionKey
    BY <1>8, <1>13, <2>4
  <2>6. ASSUME NEW f \in Families, GoesDown(s, win, EmptyShortcut, NoKey, f),
               NEW g \in Counterparts(GetKey(s, f, win))
        PROVE  ByHand(g)'
    <3>1. f \in Used(s)
      BY <1>2, <2>6, DownCases
    <3>2. \A h : ByHand(h) => ByHand(h)' \/ (e.up /\ h \in Counterparts(e.vk))
      BY <1>3, <1>4, <2>5
    <3> QED
      BY <1>1, <1>3, <1>4, <2>6, <3>1, <3>2, DownAgain DEF win
  <2>7. \A g \in Final(keys', pending') : g \in Left \/ ByHand(g)'
    BY <1>4, <1>11, <1>13, <2>1, <2>2, <2>5, <2>6
  <2>8. (\A b \in DOMAIN remaps' : Invoked(b)' = {}) /\ activatedApp' = NoActivatedApp
    BY <1>2, <1>13, AfterReset DEF KeysInv
  <2> QED
    BY <1>1, <2>5, <2>7, <2>8, ResetKeeps
<1> QED
  BY <1>6, <1>7, <1>10, <1>12, <1>13

---------------------------------------------------------------------------
(* Another key goes down *)

LEMMA OtherKeyFacts ==
    ASSUME EngineInv, NEW a \in DOMAIN remaps, NEW s \in DOMAIN remaps[a], Handled(a, s, "other key")
    PROVE  /\ ~e.up /\ e.vk # s.actionKey
           /\ RemapToKey(Target(a, s)) => TargetKey(Target(a, s)) \notin keys
<1>1. Case(a, s) = "other key"
  BY DEF Handled
<1>2. /\ ~e.up /\ e.vk # s.actionKey
      /\ ~RemapToKey(Target(a, s)) \/ Disables(Target(a, s)) \/ ~IsTargetPressed(Target(a, s))
  BY <1>1 DEF Case
<1>3. Disables(Target(a, s)) => TargetKey(Target(a, s)) = VK_DISABLED
  BY DisabledKey
<1>4. VK_DISABLED \notin keys
  BY KeysAssumption DEF EngineInv, TypeOK
<1> QED
  BY <1>2, <1>3, <1>4 DEF IsTargetPressed

(* The shortcut that takes over has the modifiers of the one that is over. *)
LEMMA NextFacts ==
    ASSUME EngineInv, KeysInv, Plain(config),
           NEW a \in DOMAIN remaps, NEW s \in DOMAIN remaps[a], NextShortcut(a, s)
    PROVE  /\ With(s) \in DOMAIN remaps[a] /\ With(s) # s /\ With(s).mod = s.mod
           /\ With(s) \in ShortcutType
           /\ TakesOver(config, a, s, With(s))
           /\ a = OSLevel /\ OneWinKey(s)
           /\ RemapToKey(Target(a, With(s))) =>
                Target(a, With(s)).key \notin Modifiers /\ Target(a, With(s)).key \in VirtualKey \cup {VK_DISABLED}
           /\ ~RemapToKey(Target(a, With(s))) =>
                /\ OneWinKey(Target(a, With(s)).shortcut)
                /\ Target(a, With(s)).shortcut \in ValidShortcut
                /\ Target(a, With(s)).shortcut \in ShortcutType
                /\ Target(a, With(s)).shortcut.actionKey \in VirtualKey
<1>0. PICK w : w = With(s)
  OBVIOUS
<1>1. /\ w \in DOMAIN remaps[a] /\ Handled(a, s, "other key") /\ ~RemapToKey(Target(a, s))
  BY <1>0 DEF NextShortcut
<1>2. s \in ShortcutType /\ e.vk # s.actionKey
  BY <1>1, PlainTarget, OtherKeyFacts
<1>3. w.mod = s.mod /\ w.actionKey = e.vk /\ w # s
  BY <1>0, <1>2 DEF With, ShortcutType
<1>4. /\ a \in DOMAIN config.shortcuts /\ s \in DOMAIN config.shortcuts[a]
      /\ Target(a, s) = config.shortcuts[a][s]
  BY PlainTarget
<1>5. /\ w \in DOMAIN config.shortcuts[a] /\ Target(a, w) = config.shortcuts[a][w]
      /\ Target(a, w) \in TargetType /\ w \in ShortcutType
  BY <1>1, PlainTarget
<1>6. TakesOver(config, a, s, w)
  BY <1>1, <1>3, <1>4, <1>5 DEF TakesOver
<1>7. /\ a = OSLevel /\ OneWinKey(s)
      /\ IF RemapToKey(config.shortcuts[a][w]) THEN config.shortcuts[a][w].key \notin Modifiers
                                               ELSE OneWinKey(config.shortcuts[a][w].shortcut)
  BY <1>4, <1>5, <1>6 DEF Plain, PlainShortcuts
<1>8. /\ RemapToKey(Target(a, w)) => Target(a, w).key \in VirtualKey \cup {VK_DISABLED}
      /\ ~RemapToKey(Target(a, w)) => /\ Target(a, w).shortcut \in ValidShortcut
                                      /\ Target(a, w).shortcut.actionKey \in VirtualKey
  BY <1>5, TargetFacts
<1> QED
  BY <1>0, <1>1, <1>3, <1>5, <1>6, <1>7, <1>8 DEF ValidShortcut

(* It is invoked in its place, unless its target is a key. *)
LEMMA AfterNext ==
    ASSUME EngineInv, KeysInv, Plain(config),
           NEW a \in DOMAIN remaps, NEW s \in DOMAIN remaps[a], NextShortcut(a, s),
           NEW w, w = With(s)
    PROVE  /\ a \in DOMAIN remaps'
           /\ \A b \in DOMAIN remaps' : \A x \in Invoked(b)' : b = a /\ x = w /\ ~RemapToKey(Target(a, w))
           /\ ~RemapToKey(Target(a, w)) => w \in Invoked(a)'
           /\ activatedApp' = NoActivatedApp
<1> DEFINE to == RemapToKey(Target(a, w))
           v == [remaps[a][w] EXCEPT !.isShortcutInvoked = @ \/ ~to, !.winKeyInvoked = WinKey(@)]
<1>1. /\ Handled(a, s, "other key") /\ Deactivate(a)
      /\ remaps' = [remaps EXCEPT ![a][w].isShortcutInvoked = @ \/ ~to,
                                  ![a][w].winKeyInvoked = WinKey(@),
                                  ![a][s] = NotInvoked]
  BY DEF NextShortcut
<1>2. /\ w \in DOMAIN remaps[a] /\ w # s /\ a = OSLevel
  BY NextFacts
<1>3. s \in Invoked(a)
  BY <1>1, HandledInvoked
<1>4. \A b \in DOMAIN remaps : \A x \in Invoked(b) : b = a /\ x = s
  BY <1>3, UniqueInvoked DEF KeysInv
<1>5. remaps[a][w] \in Remap /\ ~remaps[a][w].isShortcutInvoked
  BY <1>2, <1>4, TableFacts DEF EngineInv, Invoked
<1>6. v.isShortcutInvoked = ~to
  BY <1>5 DEF Remap
<1>7. remaps'[a] = [remaps[a] EXCEPT ![w] = v, ![s] = NotInvoked]
  BY <1>1, <1>2
<1>8. DOMAIN remaps' = DOMAIN remaps /\ \A b \in DOMAIN remaps \ {a} : remaps'[b] = remaps[b]
  BY <1>1
<1> HIDE DEF v, to
<1>9. /\ DOMAIN remaps'[a] = DOMAIN remaps[a] /\ remaps'[a][s] = NotInvoked /\ remaps'[a][w] = v
      /\ \A x \in DOMAIN remaps[a] \ {s, w} : remaps'[a][x] = remaps[a][x]
  BY <1>2, <1>7
<1>10. ASSUME NEW b \in DOMAIN remaps', NEW x \in DOMAIN remaps'[b], remaps'[b][x].isShortcutInvoked
       PROVE  b = a /\ x = w /\ ~to
  <2>1. CASE b # a
    <3>1. b \in DOMAIN remaps /\ remaps'[b] = remaps[b]
      BY <1>8, <1>10, <2>1
    <3>2. x \in Invoked(b)
      BY <1>10, <3>1 DEF Invoked
    <3> QED
      BY <1>4, <2>1, <3>1, <3>2
  <2>2. CASE b = a
    <3>1. x # s
      BY <1>9, <1>10, <2>2, NotInvokedRemap
    <3>2. x = w
      BY <1>4, <1>9, <1>10, <2>2, <3>1 DEF Invoked
    <3> QED
      BY <1>6, <1>9, <1>10, <2>2, <3>2
  <2> QED
    BY <2>1, <2>2
<1>11. \A b \in DOMAIN remaps' : \A x \in Invoked(b)' : b = a /\ x = w /\ ~to
  BY <1>10 DEF Invoked
<1>12. ~to => w \in Invoked(a)'
  BY <1>2, <1>6, <1>9 DEF Invoked
<1>13. activatedApp' = NoActivatedApp
  BY <1>1, <1>2, <1>3, OnlyThis DEF Deactivate, KeysInv
<1> QED
  BY <1>8, <1>11, <1>12, <1>13 DEF to

(* The target of the shortcut that is over goes up, but for what it has in    *)
(* common with the next one.                                                  *)
LEMMA TargetUp ==
    ASSUME NEW from \in ValidShortcut, NEW win \in Side, NEW compare,
           NEW K \in SUBSET VirtualKey,
           NEW lastUp, lastUp = IF from.actionKey \in K THEN Send(from.actionKey, TRUE) ELSE <<>>
    PROVE  LET q == Up(from, win, compare, NoKey) \o lastUp
           IN  /\ q \in Seq(Sent) /\ Final(K, q) \subseteq K /\ from.actionKey \notin Final(K, q)
               /\ \A f \in Families : GoesUp(from, win, compare, NoKey, f) =>
                     Final(K, q) \cap Released(GetKey(from, f, win)) = {}
<1> DEFINE up == Up(from, win, compare, NoKey)
           q == up \o lastUp
           K1 == Final(K, up)
           one == Send(from.actionKey, TRUE)
<1>1. from \in ShortcutType /\ from.actionKey \in VirtualKey \cup {VK_DISABLED}
  BY ActionKeyFacts
<1>2. /\ up \in Seq(Sent) /\ K1 \subseteq K /\ K1 \in SUBSET VirtualKey
      /\ \A f \in Families : GoesUp(from, win, compare, NoKey, f) => K1 \cap Released(GetKey(from, f, win)) = {}
  BY <1>1, UpSent, FinalTyped
<1> HIDE DEF K1
<1>3. one \in Seq(Sent) /\ Final(K1, one) = K1 \ Released(from.actionKey)
  BY <1>1, <1>2, ReleaseSent
<1>4. from.actionKey \in Released(from.actionKey)
  BY ActionKeyFacts
<1>5. lastUp = IF from.actionKey \in K THEN one ELSE <<>>
  OBVIOUS
<1> HIDE DEF up, one
<1>6. up \o <<>> = up
  BY <1>2
<1>7. q = IF from.actionKey \in K THEN up \o one ELSE up
  BY <1>5, <1>6
<1> HIDE DEF q
<1>8. from.actionKey \in K => q \in Seq(Sent) /\ Final(K, q) = Final(K1, one)
  BY ONLY <1>2, <1>3, <1>7, TwoSent DEF K1
<1>9. from.actionKey \notin K => q = up /\ Final(K, q) = K1
  BY <1>7 DEF K1
<1>10. /\ q \in Seq(Sent) /\ Final(K, q) \subseteq K /\ from.actionKey \notin Final(K, q)
       /\ \A f \in Families : GoesUp(from, win, compare, NoKey, f) =>
             Final(K, q) \cap Released(GetKey(from, f, win)) = {}
  BY ONLY <1>2, <1>3, <1>4, <1>8, <1>9
<1> QED
  BY <1>10 DEF q, up

LEMMA NextToKeyExplained ==
    ASSUME EngineInv, KeysInv, Plain(config),
           NEW a \in DOMAIN remaps, NEW s \in DOMAIN remaps[a], NextShortcut(a, s),
           RemapToKey(Target(a, With(s)))
    PROVE  KeysInv'
<1> DEFINE from == Target(a, s).shortcut
           k == Target(a, With(s)).key
           win == WinKeyOf(a, s)
           pressed == from.actionKey \in keys
           lastUp == Optional(pressed, Send(from.actionKey, TRUE))
           up == Up(from, win, EmptyShortcut, NoKey) \o lastUp
           key == Send(k, FALSE)
           q == up \o key
           K1 == Final(keys, up)
<1>1. /\ Handled(a, s, "other key") /\ ~RemapToKey(Target(a, s)) /\ KeepRest
      /\ \E n : Sends(n, q)
  BY DEF NextShortcut, WinKeyOf
<1>2. /\ s \in Invoked(a) /\ win \in Side /\ from \in ValidShortcut /\ from \in ShortcutType
      /\ keys \in SUBSET VirtualKey
  BY <1>1, InvokedFacts
<1>3. /\ TakesOver(config, a, s, With(s)) /\ k \notin Modifiers /\ k \in VirtualKey \cup {VK_DISABLED}
      /\ With(s) \in DOMAIN remaps[a]
  BY NextFacts
<1>4. k \in Left
  <2>1. /\ a \in DOMAIN config.shortcuts /\ Target(a, With(s)) = config.shortcuts[a][With(s)]
        /\ s \in DOMAIN config.shortcuts[a] /\ With(s) \in DOMAIN config.shortcuts[a]
    BY <1>3, PlainTarget
  <2>2. ~loadingSettings
    BY <1>2, OnlyThis DEF KeysInv
  <2> QED
    BY <1>3, <2>1, <2>2, OrphanFacts
<1>5. ~e.up
  BY <1>1, OtherKeyFacts
<1>14. lastUp = IF from.actionKey \in keys THEN Send(from.actionKey, TRUE) ELSE <<>>
  BY DEF Optional
<1> HIDE DEF k, win, from, lastUp
<1>6. /\ up \in Seq(Sent) /\ K1 \subseteq keys /\ from.actionKey \notin K1
      /\ \A f \in Families : GoesUp(from, win, EmptyShortcut, NoKey, f) => K1 \cap Released(GetKey(from, f, win)) = {}
  BY ONLY <1>2, <1>14, TargetUp
<1> HIDE DEF up, K1
<1>7. key \in Seq(Sent) /\ Final(K1, key) = K1 \cup (Counterparts(k) \ NoSuchKey)
  BY <1>2, <1>3, <1>6, PressSent
<1> HIDE DEF key
<1>8. q \in Seq(Sent) /\ Final(keys, q) = Final(K1, key)
  BY <1>6, <1>7, TwoSent DEF K1
<1>9. PICK n : Sends(n, q)
  BY <1>1
<1> HIDE DEF q
<1>10. /\ EventsInOrder' /\ Final(keys', pending') = Final(keys, q)
       /\ \A g : ByHand(g) => ByHand(g)'
  BY <1>1, <1>5, <1>8, <1>9, HandledSent
<1>11. ASSUME NEW g \in K1
       PROVE  g \in Left \/ ByHand(g)'
  <2>1. g \in keys /\ g # from.actionKey
    BY <1>6
  <2>2. \/ g \in Left
        \/ ByHand(g) /\ ~Hides(a, s, g)
        \/ \E f \in Used(from) : g \in Counterparts(GetKey(from, f, win))
    BY <1>1, <2>1, DownForTarget DEF from, win
  <2>3. ASSUME NEW f \in Used(from), g \in Counterparts(GetKey(from, f, win))
        PROVE  FALSE
    <3>1. f \in Families
      BY <1>2, KeyOfUsed
    <3>2. GoesUp(from, win, EmptyShortcut, NoKey, f) => K1 \cap Released(GetKey(from, f, win)) = {}
      BY <1>6, <3>1
    <3> QED
      BY <1>2, <2>3, <3>2, StillDown
  <2> QED
    BY <1>10, <2>2, <2>3
<1>12. \A g \in Counterparts(k) : g \in Left
  BY <1>3, <1>4, CounterpartFacts
<1>13. \A g \in Final(keys', pending') : g \in Left \/ ByHand(g)'
  BY <1>7, <1>8, <1>10, <1>11, <1>12
<1>15. (\A b \in DOMAIN remaps' : Invoked(b)' = {}) /\ activatedApp' = NoActivatedApp
  <2>1. PICK w : w = With(s)
    OBVIOUS
  <2> QED
    BY <2>1, AfterNext
<1> QED
  BY <1>1, <1>10, <1>13, <1>15, ResetKeeps

LEMMA NextToShortcutExplained ==
    ASSUME EngineInv, KeysInv, Plain(config), OneHeld,
           NEW a \in DOMAIN remaps, NEW s \in DOMAIN remaps[a], NextShortcut(a, s),
           ~RemapToKey(Target(a, With(s)))
    PROVE  KeysInv'
<1> DEFINE from == Target(a, s).shortcut
           to == Target(a, With(s)).shortcut
           win == WinKeyOf(a, s)
           pressed == from.actionKey \in keys
           lastUp == Optional(pressed, Send(from.actionKey, TRUE))
           up == Up(from, win, to, NoKey) \o lastUp
           down == Down(to, win, from, NoKey)
           key == Send(to.actionKey, FALSE)
           q == up \o down \o key
           K1 == Final(keys, up)
           K2 == Final(K1, down)
<1>0. PICK w : w = With(s)
  OBVIOUS
<1>1. /\ Handled(a, s, "other key") /\ ~RemapToKey(Target(a, s)) /\ KeepRest
      /\ \E n : Sends(n, q)
  BY DEF NextShortcut, WinKeyOf
<1>2. /\ s \in Invoked(a) /\ win \in Side /\ from \in ValidShortcut /\ from \in ShortcutType
      /\ keys \in SUBSET VirtualKey /\ s \in ShortcutType
  BY <1>1, InvokedFacts
<1>3. /\ w \in DOMAIN remaps[a] /\ w.mod = s.mod /\ w \in ShortcutType
      /\ a = OSLevel /\ OneWinKey(s)
      /\ OneWinKey(to) /\ to \in ValidShortcut /\ to \in ShortcutType
      /\ to.actionKey \in VirtualKey \cup {VK_DISABLED}
      /\ ~RemapToKey(Target(a, w)) /\ to = Target(a, w).shortcut
  BY <1>0, NextFacts
<1>4. ~e.up
  BY <1>1, OtherKeyFacts
<1>5. ~Suspended
  BY <1>2, OnlyThis DEF KeysInv
<1>23. lastUp = IF from.actionKey \in keys THEN Send(from.actionKey, TRUE) ELSE <<>>
  BY DEF Optional
<1> HIDE DEF win, from, to, lastUp
<1>6. /\ up \in Seq(Sent) /\ K1 \subseteq keys /\ from.actionKey \notin K1
      /\ \A f \in Families : GoesUp(from, win, to, NoKey, f) => K1 \cap Released(GetKey(from, f, win)) = {}
  BY ONLY <1>2, <1>23, TargetUp
<1> HIDE DEF up, K1
<1>7. /\ down \in Seq(Sent) /\ K2 \in SUBSET VirtualKey
      /\ \A g \in K2 : g \in K1 \/ \E f \in Families : /\ GoesDown(to, win, from, NoKey, f)
                                                      /\ g \in Counterparts(GetKey(to, f, win))
  BY <1>2, <1>3, <1>6, DownSent, FinalTyped
<1> HIDE DEF down, K2
<1>8. key \in Seq(Sent) /\ Final(K2, key) = K2 \cup (Counterparts(to.actionKey) \ NoSuchKey)
  BY <1>3, <1>7, PressSent
<1> HIDE DEF key
<1>9. q \in Seq(Sent) /\ Final(keys, q) = Final(K2, key)
  <2>1. q \in Seq(Sent) /\ Final(keys, q) = Final(Final(Final(keys, up), down), key)
    BY <1>6, <1>7, <1>8, ThreeSent
  <2> QED
    BY <2>1 DEF K1, K2
<1>10. PICK n : Sends(n, q)
  BY <1>1
<1> HIDE DEF q
<1>11. /\ EventsInOrder' /\ Final(keys', pending') = Final(keys, q)
       /\ \A g : ByHand(g) => ByHand(g)'
  BY <1>1, <1>4, <1>9, <1>10, HandledSent
<1>12. /\ a \in DOMAIN remaps' /\ w \in Invoked(a)' /\ activatedApp' = NoActivatedApp
       /\ \A b \in DOMAIN remaps' : \A x \in Invoked(b)' : b = a /\ x = w
  BY <1>0, <1>3, AfterNext
<1>13. PICK win2 : win2 = WinKeyOf(a, w)'
  OBVIOUS
<1>14. \A f, v, v2 : GetKey(s, f, v) = GetKey(w, f, v2) /\ GetKey(to, f, v) = GetKey(to, f, v2)
  BY <1>3 DEF OneWinKey, GetKey
<1>15. Used(w) = Used(s)
  BY <1>3 DEF Used
<1>16. \A f \in Used(s) : ByHand(GetKey(s, f, win))
  BY <1>2 DEF win, KeysInv, HeldFor
<1>17. HeldFor(a, w)'
  <2>1. PICK v : v = win
    OBVIOUS
  <2>2. \A f \in Used(w) : ByHand(GetKey(s, f, v))'
    BY <1>11, <1>15, <1>16, <2>1
  <2>3. \A f \in Used(w) : ByHand(GetKey(w, f, win2))'
    <3>1. \A f : GetKey(w, f, win2) = GetKey(s, f, v)
      BY <1>14
    <3> QED
      BY <2>2, <3>1
  <2>4. last' = last /\ \A k : Shows(k)' = Shows(k)
    BY <1>1, RestOfState
  <2>5. last # NoKey /\ Shows(last) \in Modifiers => Shows(last)[1] \notin Used(w)
    BY <1>2, <1>15 DEF KeysInv, HeldFor
  <2>6. last' # NoKey /\ Shows(last)' \in Modifiers => Shows(last)'[1] \notin Used(w)
    BY <2>4, <2>5
  <2> QED
    BY <1>13, <2>3, <2>6 DEF HeldFor
<1>18. /\ to.actionKey \in KeysOf(a, w)'
       /\ \A f \in Used(to) : Counterparts(GetKey(to, f, win)) \subseteq KeysOf(a, w)'
       /\ \A g : Hides(a, w, g)' =>
             g \in Modifiers /\ g[1] \in Used(s) /\ GetKey(to, g[1], win) # GetKey(s, g[1], win)
  <2>1. /\ to.actionKey \in KeysOf(a, w)'
        /\ \A f \in Used(to) : Counterparts(GetKey(to, f, win2)) \subseteq KeysOf(a, w)'
        /\ \A g : Hides(a, w, g)' =>
             g \in Modifiers /\ g[1] \in Used(w) /\ GetKey(to, g[1], win2) # GetKey(w, g[1], win2)
    <3>1. PICK t : t = Target(a, w)
      OBVIOUS
    <3>2. KeepRest /\ WinKeyOf(a, w)' = win2
      BY <1>1, <1>13
    <3>3. ~RemapToKey(t) /\ t.shortcut = Target(a, w).shortcut /\ to = t.shortcut
      BY <1>3, <3>1
    <3> QED
      BY ONLY <3>1, <3>2, <3>3, KeysAfter
  <2> QED
    BY <1>14, <1>15, <2>1
<1>19. ASSUME NEW g \in K1
       PROVE  g \in Left \/ (ByHand(g)' /\ ~Hides(a, w, g)') \/ g \in KeysOf(a, w)'
  <2>1. g \in keys /\ g # from.actionKey
    BY <1>6
  <2>2. \/ g \in Left
        \/ ByHand(g) /\ ~Hides(a, s, g)
        \/ \E f \in Used(from) : g \in Counterparts(GetKey(from, f, win))
    BY <1>1, <2>1, DownForTarget DEF from, win
  <2>3. ASSUME NEW f \in Used(from), g \in Counterparts(GetKey(from, f, win))
        PROVE  g \in KeysOf(a, w)'
    <3>1. f \in Families /\ GetKey(from, f, win) # NoKey
      BY <1>2, KeyOfUsed
    <3>2. GoesUp(from, win, to, NoKey, f) => K1 \cap Released(GetKey(from, f, win)) = {}
      BY <1>6, <3>1
    <3>3. GetKey(from, f, win) = GetKey(to, f, win)
      BY <1>2, <2>3, <3>2, StillDown
    <3>4. f \in Used(to)
      BY <3>1, <3>3, UnusedHasNoKey
    <3> QED
      BY <1>18, <2>3, <3>3, <3>4
  <2>4. ASSUME ByHand(g), ~Hides(a, s, g), Hides(a, w, g)' PROVE FALSE
    <3> DEFINE f == g[1]
               x == GetKey(s, f, win)
    <3>1. g \in Modifiers /\ f \in Used(s) /\ GetKey(to, f, win) # x
      BY <1>18, <2>4
    <3>2. GetKey(from, f, win) = x
      BY <2>4, <3>1 DEF Hides, win, from
    <3>3. x \in Modifiers /\ x[1] = f /\ x # NoKey /\ f \in Families
      BY <1>2, <3>1, KeyOfUsed
    <3>4. f \in Used(from)
      BY <3>2, <3>3, UnusedHasNoKey
    <3>5. GoesUp(from, win, to, NoKey, f)
      BY <1>2, <3>1, <3>2, <3>4, UpCases
    <3>6. g \in Released(x)
      <4>1. SameFamily(g, x) /\ ByHand(x)
        BY <1>16, <3>1, <3>3 DEF SameFamily
      <4>2. ~(Late /\ Latest.up)
        BY <1>1, <1>4, HandledLast
      <4> QED
        BY <2>4, <4>1, <4>2, SameHand
    <3> QED
      BY <1>6, <3>2, <3>3, <3>5, <3>6
  <2> QED
    BY <1>11, <2>2, <2>3, <2>4
<1>20. ASSUME NEW f \in Families, GoesDown(to, win, from, NoKey, f),
              NEW g \in Counterparts(GetKey(to, f, win))
       PROVE  g \in KeysOf(a, w)'
  <2>1. f \in Used(to)
    BY <1>2, <1>3, <1>20, DownCases
  <2> QED
    BY <1>18, <1>20, <2>1
<1>21. \A g \in Counterparts(to.actionKey) : g \in KeysOf(a, w)'
  BY <1>3, <1>18, ActionKeyFacts
<1>22. \A g \in Final(keys', pending') :
          g \in Left \/ (ByHand(g)' /\ ~Hides(a, w, g)') \/ g \in KeysOf(a, w)'
  BY <1>7, <1>8, <1>9, <1>11, <1>19, <1>20, <1>21
<1> QED
  BY <1>1, <1>3, <1>5, <1>11, <1>12, <1>17, <1>22, InvokedKeeps

(* A key that ends a remapping is hooked once more, as the user's own. *)
LEMMA SeenAgain ==
    ASSUME EngineInv, KeysInv, Plain(config), KeepRest,
           NEW a \in DOMAIN remaps, NEW s \in DOMAIN remaps[a], Handled(a, s, "other key"),
           NEW n, NEW p \in Seq(Sent), Sends(n, p \o SetKeyEvent(e.vk, FALSE, "none"))
    PROVE  /\ Final(keys', pending') = Final(keys, p)
           /\ EventsInOrder'
           /\ \A g : ByHand(g) => ByHand(g)'
<1>1. /\ Tail(pending) = <<>> /\ Late /\ Latest = e /\ e \in Event /\ keys \in SUBSET VirtualKey
      /\ e.flag # "shortcut" /\ ~Suspended /\ ~Single
  BY HandledLast
<1>2. ~e.up
  BY OtherKeyFacts
<1>3. PICK ev : ev = [vk |-> e.vk, up |-> FALSE, flag |-> "none"]
  OBVIOUS
<1>4. ev \in Event /\ ~ev.up /\ ev.flag = "none" /\ ev.vk = e.vk
  BY <1>1, <1>3 DEF Event, Flags
<1>5. SetKeyEvent(e.vk, FALSE, "none") = <<ev>>
  BY <1>3 DEF SetKeyEvent
<1>6. p \in Seq(Event) /\ <<ev>> \in Seq(Event) /\ p \o <<ev>> \in Seq(Event)
  <2>1. p \in Seq(Event)
    BY SentAreEvents
  <2>2. <<ev>> \in Seq(Event)
    BY ONLY <1>4
  <2> QED
    BY <2>1, <2>2, TwoParts
<1>7. pending' = p \o <<ev>>
  BY <1>1, <1>5, <1>6, SentPending
<1>8. /\ Len(pending') = Len(p) + 1 /\ pending'[Len(pending')] = ev /\ pending' # <<>>
      /\ \A i \in 1 .. Len(pending') - 1 : pending'[i] = p[i] /\ i \in 1 .. Len(p)
  <2>1. /\ Len(p \o <<ev>>) = Len(p) + Len(<<ev>>)
        /\ \A i \in 1 .. Len(p) + Len(<<ev>>) :
              (p \o <<ev>>)[i] = IF i <= Len(p) THEN p[i] ELSE <<ev>>[i - Len(p)]
    BY <1>6, ConcatProperties
  <2>2. Len(<<ev>>) = 1 /\ <<ev>>[1] = ev /\ Len(p) \in Nat
    BY ONLY <1>6
  <2>3. \A i \in 1 .. Len(p) : (p \o <<ev>>)[i] = p[i]
    BY ONLY <2>1, <2>2
  <2>4. (p \o <<ev>>)[Len(p) + 1] = ev
    BY ONLY <2>1, <2>2
  <2>5. Len(p \o <<ev>>) = Len(p) + 1
    BY ONLY <2>1, <2>2
  <2>6. p \o <<ev>> # <<>>
    BY ONLY <1>6, <2>2, <2>5, EmptySeq
  <2>7. \A i \in 1 .. Len(p \o <<ev>>) - 1 : i \in 1 .. Len(p)
    BY ONLY <2>2, <2>5
  <2> QED
    BY ONLY <1>7, <2>3, <2>4, <2>5, <2>6, <2>7
<1>9. \A i \in 1 .. Len(pending') - 1 : pending'[i].flag = "shortcut"
  <2>1. \A i \in 1 .. Len(p) : p[i] \in Sent
    <3>1. p \in Seq(Sent)
      OBVIOUS
    <3> QED
      BY ONLY <3>1
  <2>2. \A ev2 \in Sent : ev2.flag = "shortcut"
    BY DEF Sent
  <2> QED
    BY <1>8, <2>1, <2>2
<1>10. Late' /\ Latest' = ev
  BY <1>4, <1>8 DEF Late, Latest
<1>11. /\ keys' = keys /\ physical' = physical /\ last' = last /\ Left' = Left
       /\ \A k : Shows(k)' = Shows(k)
  BY RestOfState
<1>12. Final(keys', pending') = Final(keys, p)
  <2>1. Final(keys, p \o <<ev>>) = Final(Final(keys, p), <<ev>>)
    BY <1>6, FinalConcat
  <2>2. Final(Final(keys, p), <<ev>>) = Final(keys, p)
    BY <1>4, FinalTyped, FinalOne
  <2> QED
    BY <1>7, <1>11, <2>1, <2>2
<1>13. last \in physical /\ (e.vk = Shows(last) \/ (e.vk \in Left /\ Shows(last) \notin Modifiers))
  BY <1>1, <1>2, EffectOfEvent DEF KeysInv, EventsInOrder
<1>14. Shows(e.vk) = e.vk \/ (Shows(e.vk) \in Left /\ e.vk \notin Modifiers)
  <2>1. CASE e.vk \notin DOMAIN config.keys
    BY <2>1 DEF Shows
  <2>2. CASE e.vk \in DOMAIN config.keys
    <3>1. e.flag = "single key"
      BY <1>1, <2>2 DEF Single, Event, Flags
    <3>2. PICK k \in DOMAIN config.keys : e.vk = Image(config, k)
      BY <1>1, <3>1 DEF KeysInv, EventsInOrder
    <3>3. Shows(e.vk) = Image(config, Image(config, k))
      BY <1>1, <2>2, <3>2 DEF Shows
    <3>4. Image(config, k) \in DOMAIN config.keys /\ ~loadingSettings
      BY <1>1, <2>2, <3>2 DEF Suspended
    <3>5. Image(config, Image(config, k)) \in Left
      BY <3>2, <3>4, OrphanFacts
    <3>6. Image(config, k) \notin Modifiers
      BY <3>2, <3>4 DEF Plain, PlainKeys
    <3> QED
      BY <3>2, <3>3, <3>5, <3>6
  <2> QED
    BY <2>1, <2>2
<1>15. Effect(Latest)' = Shows(e.vk)
  <2>1. PICK v : v = e.vk
    OBVIOUS
  <2>2. Effect(Latest)' = Shows(v)'
    BY <1>4, <1>10, <2>1 DEF Effect
  <2> QED
    BY <1>11, <2>1, <2>2
<1>16. PICK l : l = last
  OBVIOUS
<1>17. Shows(last)' = Shows(last)
  <2>1. Shows(last)' = Shows(l)'
    BY <1>11, <1>16 DEF Shows
  <2> QED
    BY <1>11, <1>16, <2>1
<1>18. EventsInOrder'
  <2>1. last' \in physical'
    BY <1>11, <1>13
  <2>2. Effect(Latest)' = Shows(last)' \/ (Effect(Latest)' \in Left' /\ Shows(last)' \notin Modifiers)
    BY <1>11, <1>13, <1>14, <1>15, <1>17
  <2>3. ~Latest'.up /\ Latest'.flag # "single key"
    BY <1>4, <1>10
  <2> QED
    BY <1>9, <2>1, <2>2, <2>3 DEF EventsInOrder
<1>19. Holding' = Holding
  <2>1. Holding = {Shows(k) : k \in physical}
    BY <1>1, <1>2, HoldingFacts
  <2>2. Holding' = {Shows(k)' : k \in physical'}
    BY <1>4, <1>10 DEF Holding
  <2> QED
    BY <1>11, <2>1, <2>2
<1> QED
  BY <1>12, <1>18, <1>19 DEF ByHand

LEMMA RevertShortcutExplained ==
    ASSUME EngineInv, KeysInv, Plain(config),
           NEW a \in DOMAIN remaps, NEW s \in DOMAIN remaps[a], RevertShortcut(a, s)
    PROVE  KeysInv'
<1> DEFINE t == Target(a, s)
           sc == t.shortcut
           win == WinKeyOf(a, s)
           pressed == sc.actionKey \in keys
           release == Optional(pressed, Send(sc.actionKey, TRUE))
           up == Up(sc, win, s, NoKey)
           down == Down(s, win, sc, NoKey)
           press == Optional(pressed, Send(s.actionKey, FALSE))
           p == release \o up \o down \o press
           K1 == Final(keys, release)
           K2 == Final(K1, up)
           K3 == Final(K2, down)
<1>1. /\ Handled(a, s, "other key") /\ KeepRest /\ Reset(a, s) /\ Deactivate(a) /\ ~RemapToKey(t)
      /\ \E n : Sends(n, p \o SetKeyEvent(e.vk, FALSE, "none"))
  BY DEF RevertShortcut, WinKeyOf
<1>2. /\ s \in Invoked(a) /\ s \in ShortcutType /\ s \in ValidShortcut /\ win \in Side
      /\ sc \in ValidShortcut /\ sc \in ShortcutType
      /\ sc.actionKey \in VirtualKey \cup {VK_DISABLED} /\ keys \in SUBSET VirtualKey
  BY <1>1, InvokedFacts
<1>3. ~e.up
  BY <1>1, OtherKeyFacts
<1>4. (pressed \in BOOLEAN) /\ (sc.actionKey \in keys => pressed)
  OBVIOUS
<1>5. s.actionKey \in VirtualKey \cup {VK_DISABLED} /\ s.actionKey \in Left
      /\ Counterparts(s.actionKey) = {s.actionKey}
  <2>1. ~loadingSettings
    BY <1>2, OnlyThis DEF KeysInv
  <2> QED
    BY <1>2, <2>1, LeftFacts, ActionKeyFacts
<1> HIDE DEF pressed, win, sc
<1>6. /\ release \in Seq(Sent) /\ K1 \in SUBSET VirtualKey
      /\ K1 = (IF pressed THEN keys \ Released(sc.actionKey) ELSE keys)
  <2>1. release \in Seq(Sent) /\ K1 = (IF pressed THEN keys \ Released(sc.actionKey) ELSE keys)
    BY ONLY <1>2, <1>4, OptionalRelease
  <2>2. K1 \in SUBSET VirtualKey
    BY ONLY FinalTyped
  <2> QED
    BY <2>1, <2>2
<1>7. K1 \subseteq keys /\ sc.actionKey \notin K1
  BY <1>2, <1>4, <1>6, ActionKeyFacts
<1> HIDE DEF K1
<1>8. /\ up \in Seq(Sent) /\ K2 \subseteq K1 /\ K2 \in SUBSET VirtualKey
      /\ \A f \in Families : GoesUp(sc, win, s, NoKey, f) => K2 \cap Released(GetKey(sc, f, win)) = {}
  BY <1>2, <1>6, UpSent, FinalTyped
<1> HIDE DEF K2
<1>9. /\ down \in Seq(Sent) /\ K3 \in SUBSET VirtualKey
      /\ \A g \in K3 : g \in K2 \/ \E f \in Families : /\ GoesDown(s, win, sc, NoKey, f)
                                                      /\ g \in Counterparts(GetKey(s, f, win))
  BY <1>2, <1>8, DownSent, FinalTyped
<1> HIDE DEF K3
<1>10. /\ press \in Seq(Sent)
       /\ Final(K3, press) = IF pressed THEN K3 \cup (Counterparts(s.actionKey) \ NoSuchKey) ELSE K3
  BY <1>4, <1>5, <1>9, OptionalPress
<1>11. \A g \in Final(K3, press) : g \in K3 \/ g \in Left
  BY <1>5, <1>10
<1> HIDE DEF release, up, down, press
<1>12. p \in Seq(Sent) /\ Final(keys, p) = Final(K3, press)
  <2>1. p \in Seq(Sent) /\ Final(keys, p) = Final(Final(Final(Final(keys, release), up), down), press)
    BY <1>6, <1>8, <1>9, <1>10, FourSent
  <2> QED
    BY <2>1 DEF K1, K2, K3
<1>13. PICK n : Sends(n, p \o SetKeyEvent(e.vk, FALSE, "none"))
  BY <1>1
<1> HIDE DEF p
<1>14. /\ EventsInOrder' /\ Final(keys', pending') = Final(keys, p)
       /\ \A g : ByHand(g) => ByHand(g)'
  BY <1>1, <1>12, <1>13, SeenAgain
<1>15. \A f \in Used(s) : \A g \in Counterparts(GetKey(s, f, win)) : ByHand(g)'
  BY <1>1, <1>3, <1>14, DownAgain DEF win
<1>16. ASSUME NEW g \in K2
       PROVE  g \in Left \/ ByHand(g)'
  <2>1. g \in keys /\ g # sc.actionKey
    BY <1>7, <1>8
  <2>2. \/ g \in Left
        \/ ByHand(g) /\ ~Hides(a, s, g)
        \/ \E f \in Used(sc) : g \in Counterparts(GetKey(sc, f, win))
    BY <1>1, <2>1, DownForTarget DEF sc, win
  <2>3. ASSUME NEW f \in Used(sc), g \in Counterparts(GetKey(sc, f, win))
        PROVE  ByHand(g)'
    <3>1. f \in Families /\ GetKey(sc, f, win) # NoKey
      BY <1>2, KeyOfUsed
    <3>2. GoesUp(sc, win, s, NoKey, f) => K2 \cap Released(GetKey(sc, f, win)) = {}
      BY <1>8, <3>1
    <3>3. GetKey(sc, f, win) = GetKey(s, f, win)
      BY <1>2, <2>3, <3>2, StillDown
    <3>4. f \in Used(s)
      BY <3>1, <3>3, UnusedHasNoKey
    <3> QED
      BY <1>15, <2>3, <3>3, <3>4
  <2> QED
    BY <1>14, <2>2, <2>3
<1>17. ASSUME NEW f \in Families, GoesDown(s, win, sc, NoKey, f), NEW g \in Counterparts(GetKey(s, f, win))
       PROVE  ByHand(g)'
  <2>1. f \in Used(s)
    BY <1>2, <1>17, DownCases
  <2> QED
    BY <1>15, <1>17, <2>1
<1>18. \A g \in Final(keys', pending') : g \in Left \/ ByHand(g)'
  BY <1>9, <1>11, <1>12, <1>14, <1>16, <1>17
<1>19. (\A b \in DOMAIN remaps' : Invoked(b)' = {}) /\ activatedApp' = NoActivatedApp
  BY <1>1, <1>2, AfterReset DEF KeysInv
<1> QED
  BY <1>1, <1>14, <1>18, <1>19, ResetKeeps

LEMMA RevertKeyExplained ==
    ASSUME EngineInv, KeysInv, Plain(config),
           NEW a \in DOMAIN remaps, NEW s \in DOMAIN remaps[a], RevertKey(a, s)
    PROVE  KeysInv'
<1> DEFINE t == Target(a, s)
           win == WinKeyOf(a, s)
           original == Disables(t) /\ remaps[a][s].isOriginalActionKeyPressed
           down == Down(s, win, EmptyShortcut, NoKey)
           press == Optional(original, Send(s.actionKey, FALSE))
           p == down \o press
           K1 == Final(keys, down)
<1>1. /\ Handled(a, s, "other key") /\ KeepRest /\ Reset(a, s) /\ activatedApp' = NoActivatedApp
      /\ RemapToKey(t)
      /\ \E n : Sends(n, p \o SetKeyEvent(e.vk, FALSE, "none"))
  BY DEF RevertKey, WinKeyOf
<1>2. /\ s \in Invoked(a) /\ s \in ShortcutType /\ s \in ValidShortcut /\ win \in Side
      /\ keys \in SUBSET VirtualKey
  BY <1>1, InvokedFacts
<1>3. ~e.up /\ TargetKey(t) \notin keys
  BY <1>1, OtherKeyFacts
<1>4. original \in BOOLEAN
  OBVIOUS
<1>5. s.actionKey \in VirtualKey \cup {VK_DISABLED} /\ s.actionKey \in Left
      /\ Counterparts(s.actionKey) = {s.actionKey}
  <2>1. ~loadingSettings
    BY <1>2, OnlyThis DEF KeysInv
  <2> QED
    BY <1>2, <2>1, LeftFacts, ActionKeyFacts
<1> HIDE DEF original, win
<1>6. /\ down \in Seq(Sent) /\ K1 \in SUBSET VirtualKey
      /\ \A g \in K1 : g \in keys \/ \E f \in Families : /\ GoesDown(s, win, EmptyShortcut, NoKey, f)
                                                        /\ g \in Counterparts(GetKey(s, f, win))
  BY <1>2, DownSent, FinalTyped
<1> HIDE DEF K1
<1>7. /\ press \in Seq(Sent)
      /\ Final(K1, press) = IF original THEN K1 \cup (Counterparts(s.actionKey) \ NoSuchKey) ELSE K1
  BY <1>4, <1>5, <1>6, OptionalPress
<1>8. \A g \in Final(K1, press) : g \in K1 \/ g \in Left
  BY <1>5, <1>7
<1> HIDE DEF down, press
<1>9. p \in Seq(Sent) /\ Final(keys, p) = Final(K1, press)
  BY <1>6, <1>7, TwoSent DEF K1
<1>10. PICK n : Sends(n, p \o SetKeyEvent(e.vk, FALSE, "none"))
  BY <1>1
<1> HIDE DEF p
<1>11. /\ EventsInOrder' /\ Final(keys', pending') = Final(keys, p)
       /\ \A g : ByHand(g) => ByHand(g)'
  BY <1>1, <1>9, <1>10, SeenAgain
<1>12. \A f \in Used(s) : \A g \in Counterparts(GetKey(s, f, win)) : ByHand(g)'
  BY <1>1, <1>3, <1>11, DownAgain DEF win
<1>13. ASSUME NEW g \in keys
       PROVE  g \in Left \/ ByHand(g)'
  <2>1. Final(keys, pending) = keys
    BY <1>1, HandledLast
  <2>2. KeysOf(a, s) = {}
    BY <1>1, <1>3, <2>1 DEF KeysOf
  <2>3. g \in Left \/ (ByHand(g) /\ ~Hides(a, s, g)) \/ g \in KeysOf(a, s)
    BY <1>2, <2>1, OnlyExplained
  <2> QED
    BY <1>11, <2>2, <2>3
<1>14. ASSUME NEW f \in Families, GoesDown(s, win, EmptyShortcut, NoKey, f),
              NEW g \in Counterparts(GetKey(s, f, win))
       PROVE  ByHand(g)'
  <2>1. f \in Used(s)
    BY <1>2, <1>14, DownCases
  <2> QED
    BY <1>12, <1>14, <2>1
<1>15. \A g \in Final(keys', pending') : g \in Left \/ ByHand(g)'
  BY <1>6, <1>8, <1>9, <1>11, <1>13, <1>14
<1>16. (\A b \in DOMAIN remaps' : Invoked(b)' = {}) /\ activatedApp' = NoActivatedApp
  BY <1>1, <1>2, AfterReset DEF KeysInv
<1> QED
  BY <1>1, <1>11, <1>15, <1>16, ResetKeeps

---------------------------------------------------------------------------
(* Nothing is invoked that was not, and nothing is over. *)

LEMMA TablesKeep ==
    ASSUME KeysInv, UNCHANGED <<tables, loadingSettings, editorIsRunning>>, EventsInOrder',
           last' \in physical' \cup {NoKey},
           \A a \in DOMAIN remaps : \A s \in Invoked(a) : HeldFor(a, s)',
           \A g \in Final(keys', pending') :
              \/ g \in Left
              \/ ByHand(g)' /\ \A a \in DOMAIN remaps : \A s \in Invoked(a) : ~Hides(a, s, g)
              \/ \E a \in DOMAIN remaps : \E s \in Invoked(a) :
                    /\ g \in KeysOf(a, s)
                    /\ RemapToKey(Target(a, s)) => TargetKey(Target(a, s)) \in Final(keys', pending')
    PROVE  KeysInv'
<1>1. remaps' = remaps /\ config' = config /\ activatedApp' = activatedApp
  BY DEF tables
<1>2. /\ Left' = Left /\ (Suspended' <=> Suspended)
      /\ \A a : Invoked(a)' = Invoked(a)
      /\ \A a, s : Target(a, s)' = Target(a, s) /\ WinKeyOf(a, s)' = WinKeyOf(a, s)
  BY <1>1 DEF Left, Suspended, Invoked, Target, WinKeyOf
<1>3. AppsInOrder'
  <2>1. AppsInOrder
    BY DEF KeysInv
  <2> QED
    BY <1>1, <1>2, <2>1 DEF AppsInOrder, ActivatedIsInvoked
<1>4. \A a, s, g : Hides(a, s, g)' <=> Hides(a, s, g)
  BY <1>2 DEF Hides
<1>5. \A a, s : \A g \in KeysOf(a, s) :
         (RemapToKey(Target(a, s)) => TargetKey(Target(a, s)) \in Final(keys', pending'))
            => g \in KeysOf(a, s)'
  BY <1>2 DEF KeysOf
<1>6. ASSUME NEW g \in Final(keys', pending')
      PROVE  Explained(g)'
  BY <1>1, <1>2, <1>4, <1>5, <1>6 DEF Explained
<1>7. \A a \in DOMAIN remaps' : \A s \in Invoked(a)' : HeldFor(a, s)'
  BY <1>1, <1>2
<1> QED
  BY <1>3, <1>6, <1>7 DEF KeysInv, LastHeld

LEMMA SameKeysKeep ==
    ASSUME EngineInv, KeysInv, UNCHANGED <<tables, loadingSettings, editorIsRunning>>, EventsInOrder',
           last' \in physical' \cup {NoKey}, Final(keys', pending') = Final(keys, pending),
           \A g \in VirtualKey : ByHand(g) => ByHand(g)',
           \A a \in DOMAIN remaps : \A s \in Invoked(a) :
              last' # NoKey /\ Shows(last)' \in Modifiers => Shows(last)'[1] \notin Used(s)
    PROVE  KeysInv'
<1>1. ASSUME NEW a \in DOMAIN remaps, NEW s \in Invoked(a)
      PROVE  HeldFor(a, s)'
  <2>1. PICK w : w = WinKeyOf(a, s)
    OBVIOUS
  <2>2. s \in DOMAIN remaps[a] /\ WinKeyOf(a, s)' = w
    BY <2>1 DEF Invoked, WinKeyOf, tables
  <2>3. s \in ShortcutType /\ w \in Side
    BY <2>1, <2>2, TableFacts DEF EngineInv, WinKeyOf, ValidShortcut
  <2>4. \A f \in Used(s) : GetKey(s, f, w) \in VirtualKey /\ ByHand(GetKey(s, f, w))
    BY <2>1, <2>3, KeyOfUsed DEF KeysInv, HeldFor
  <2>5. \A f \in Used(s) : ByHand(GetKey(s, f, w))'
    BY <2>4
  <2>6. last' # NoKey /\ Shows(last)' \in Modifiers => Shows(last)'[1] \notin Used(s)
    OBVIOUS
  <2> QED
    BY <2>2, <2>5, <2>6 DEF HeldFor
<1>2. ASSUME NEW g \in Final(keys, pending)
      PROVE  \/ g \in Left
             \/ ByHand(g)' /\ \A a \in DOMAIN remaps : \A s \in Invoked(a) : ~Hides(a, s, g)
             \/ \E a \in DOMAIN remaps : \E s \in Invoked(a) :
                   /\ g \in KeysOf(a, s)
                   /\ RemapToKey(Target(a, s)) => TargetKey(Target(a, s)) \in Final(keys, pending)
  <2>1. Explained(g) /\ g \in VirtualKey
    BY FinalTyped DEF KeysInv
  <2>2. \A a, s : g \in KeysOf(a, s) =>
           (RemapToKey(Target(a, s)) => TargetKey(Target(a, s)) \in Final(keys, pending))
    BY DEF KeysOf
  <2> QED
    BY <2>1, <2>2 DEF Explained
<1> QED
  BY <1>1, <1>2, TablesKeep

LEMMA RemapSingleKeyExplained ==
    ASSUME EngineInv, KeysInv, Plain(config), RemapSingleKey
    PROVE  KeysInv'
<1>1. /\ pending # <<>> /\ e.flag = "none" /\ ~Suspended /\ e.vk \in DOMAIN config.keys
      /\ KeepRest /\ UNCHANGED <<remaps, activatedApp>>
  BY DEF RemapSingleKey, Single
<1>2. /\ pending = <<e>> /\ Tail(pending) = <<>> /\ Late /\ Latest = e /\ e \in Event
      /\ keys \in SUBSET VirtualKey /\ Final(keys, pending) = keys
  BY <1>1, EventLast
<1>3. PICK t : t = config.keys[e.vk]
  OBVIOUS
<1>4. RemapToKey(t) /\ t \in TargetType
  BY <1>1, <1>3, ConfigAssumption DEF Plain, PlainKeys, EngineInv, TypeOK
<1>5. Effect(e) = TargetKey(t)
  BY <1>1, <1>3 DEF Effect, Shows, Image
<1>6. /\ UNCHANGED <<tables, loadingSettings, editorIsRunning>> /\ config' = config
      /\ keys' = keys /\ physical' = physical /\ last' = last /\ Left' = Left
      /\ (Suspended' <=> Suspended) /\ \A k : Shows(k)' = Shows(k)
  BY <1>1, RestOfState DEF tables
<1>7. last' \in physical' \cup {NoKey}
  BY <1>6 DEF KeysInv, LastHeld
<1>8. PICK l : l = last
  OBVIOUS
<1>9. Shows(last)' = Shows(last)
  <2>1. Shows(last)' = Shows(l)'
    BY <1>6, <1>8 DEF Shows
  <2> QED
    BY <1>6, <1>8, <2>1
<1>10. \A a \in DOMAIN remaps : \A s \in Invoked(a) :
          last' # NoKey /\ Shows(last)' \in Modifiers => Shows(last)'[1] \notin Used(s)
  BY <1>6, <1>9 DEF KeysInv, HeldFor
<1>11. CASE Disables(t)
  <2>1. Sends(0, <<>>)
    BY <1>3, <1>4, <1>11 DEF RemapSingleKey, Swallows
  <2>2. pending' = <<>>
    BY <1>2, <2>1 DEF Sends
  <2>3. ~Late' /\ EventsInOrder'
    BY <2>2, SentIsEarly
  <2>4. Final(keys', pending') = Final(keys, pending)
    BY <1>2, <1>6, <2>2, FinalNone
  <2>5. ASSUME NEW g \in VirtualKey, ByHand(g)
        PROVE  ByHand(g)'
    <3>1. PICK h \in Holding : g \in Counterparts(h)
      BY <2>5 DEF ByHand
    <3>2. h # VK_DISABLED
      <4>1. VK_DISABLED \notin Modifiers
        BY KeysAssumption DEF VirtualKey
      <4> QED
        BY <2>5, <3>1, <4>1, CounterpartFacts, KeysAssumption
    <3>3. PICK k \in physical : h = Shows(k)
      BY <1>2, <1>5, <1>11, <3>2, HoldingFacts, DisabledKey
    <3>4. h = Shows(k)' /\ k \in physical'
      BY <1>6, <3>3
    <3>5. h \in Holding'
      BY <2>3, <3>4 DEF Holding
    <3> QED
      BY <3>1, <3>5 DEF ByHand
  <2> QED
    BY <1>6, <1>7, <1>10, <2>3, <2>4, <2>5, SameKeysKeep
<1>12. CASE ~Disables(t)
  <2>1. Sends(1, SetKeyEvent(TargetKey(t), e.up, "single key"))
    BY <1>3, <1>4, <1>12 DEF RemapSingleKey
  <2>2. PICK ev : ev = [vk |-> TargetKey(t), up |-> e.up, flag |-> "single key"]
    OBVIOUS
  <2>3. /\ ev \in Event /\ ev.vk = TargetKey(t) /\ ev.up = e.up /\ ev.flag = "single key"
        /\ <<ev>> \in Seq(Event)
    <3>1. TargetKey(t) \in VirtualKey \cup {VK_DISABLED} /\ e.up \in BOOLEAN
      BY <1>2, <1>4, TargetFacts DEF Event
    <3>2. ev \in Event
      BY <2>2, <3>1 DEF Event, Flags
    <3>3. <<ev>> \in Seq(Event)
      BY ONLY <3>2
    <3> QED
      BY <2>2, <3>2, <3>3
  <2>4. pending' = <<ev>>
    BY <1>2, <2>1, <2>2, <2>3, SentPending DEF SetKeyEvent
  <2>5. Late' /\ Latest' = ev /\ Len(pending') = 1
    BY <2>3, <2>4 DEF Late, Latest
  <2>6. Effect(Latest)' = Effect(Latest) /\ (Latest'.up <=> Latest.up)
    BY <1>2, <1>5, <2>3, <2>5 DEF Effect
  <2>7. Final(keys', pending') = Final(keys, pending)
    BY <1>2, <1>6, <2>3, <2>4, FinalOne
  <2>8. Holding' = Holding
    BY <1>2, <1>6, <2>5, <2>6 DEF Holding
  <2>9. EventsInOrder'
    <3>1. \A i \in 1 .. Len(pending') - 1 : pending'[i].flag = "shortcut"
      BY <2>5
    <3>2. Late' /\ ~Latest'.up =>
            /\ last' \in physical'
            /\ Effect(Latest)' = Shows(last)' \/ (Effect(Latest)' \in Left' /\ Shows(last)' \notin Modifiers)
      BY <1>2, <1>6, <1>9, <2>6 DEF KeysInv, EventsInOrder
    <3>3. Late' /\ Latest'.up => \A k \in physical' : ~SameFamily(Effect(Latest), Shows(k))'
      <4>1. Latest.up => \A k \in physical : ~SameFamily(Effect(Latest), Shows(k))
        BY <1>2 DEF KeysInv, EventsInOrder
      <4> QED
        BY <1>6, <2>6, <4>1 DEF SameFamily
    <3>4. ~Suspended' /\ \E k \in DOMAIN config'.keys : Latest'.vk = Image(config, k)'
      <4>1. Latest'.vk = Image(config, e.vk)
        BY <1>3, <2>3, <2>5 DEF Image
      <4>2. PICK k \in DOMAIN config.keys : Latest'.vk = Image(config, k)
        BY <1>1, <4>1
      <4>3. Image(config, k)' = Image(config, k)
        BY <1>6 DEF Image
      <4> QED
        BY <1>1, <1>6, <4>2, <4>3
    <3> QED
      BY <3>1, <3>2, <3>3, <3>4 DEF EventsInOrder
  <2> QED
    BY <1>6, <1>7, <1>10, <2>7, <2>8, <2>9, SameKeysKeep DEF ByHand
<1> QED
  BY <1>11, <1>12

(* The system gets an event that a handler has sent. *)
LEMMA SentPassedOn ==
    ASSUME EngineInv, KeysInv, PassedOn, e.flag = "shortcut"
    PROVE  KeysInv'
<1>1. /\ pending # <<>> /\ Sends(0, <<>>) /\ UNCHANGED <<tables, flags, user>>
      /\ keys' = IF e.up THEN keys \ Released(e.vk) ELSE keys \cup ({e.vk, Common(e.vk)} \ NoSuchKey)
  BY DEF PassedOn, Swallows
<1>2. pending \in Seq(Event) /\ keys \in SUBSET VirtualKey
  BY DEF EngineInv, Fits, TypeOK
<1>3. /\ pending' = Tail(pending) /\ Tail(pending) \in Seq(Event) /\ e \in Event
      /\ pending = <<e>> \o Tail(pending) /\ <<e>> \in Seq(Event)
  <2>1. e = pending[1] /\ e \in Event /\ Tail(pending) \in Seq(Event)
    BY <1>1, <1>2, EmptySeq, HeadTailProperties DEF e
  <2>2. PICK p, r, ev : p = pending /\ r = Tail(p) /\ ev = Head(p)
    OBVIOUS
  <2>3. p = <<ev>> \o r
    BY ONLY <1>1, <1>2, <2>2
  <2>4. <<ev>> \in Seq(Event)
    BY <2>1, <2>2 DEF e
  <2>5. <<>> \o r = r
    BY <2>1, <2>2
  <2> QED
    BY <1>1, <2>1, <2>2, <2>3, <2>4, <2>5 DEF Sends, e
<1>4. keys' = Final(keys, <<e>>)
  BY <1>1, <1>2, <1>3, FinalOne DEF Counterparts
<1>5. Final(keys', pending') = Final(keys, pending)
  <2>1. PICK r : r = Tail(pending)
    OBVIOUS
  <2>2. Final(keys, <<e>> \o r) = Final(Final(keys, <<e>>), r)
    BY <1>3, <2>1, FinalConcat
  <2> QED
    BY <1>3, <1>4, <2>1, <2>2
<1>6. /\ Len(pending) \in Nat /\ Len(pending) >= 1 /\ Len(pending') = Len(pending) - 1
      /\ \A i \in 1 .. Len(pending') : pending'[i] = pending[i + 1]
      /\ pending' = <<>> <=> Len(pending') = 0
  <2>1. PICK p : p = pending
    OBVIOUS
  <2>2. /\ Len(p) \in Nat /\ Len(p) >= 1 /\ Len(Tail(p)) = Len(p) - 1
        /\ \A i \in 1 .. Len(Tail(p)) : Tail(p)[i] = p[i + 1]
    BY <1>1, <1>2, <2>1, EmptySeq, HeadTailProperties
  <2>3. Tail(p) = <<>> <=> Len(Tail(p)) = 0
    BY <1>3, <2>1, EmptySeq
  <2> QED
    BY <1>3, <2>1, <2>2, <2>3
<1>7. (Late' <=> Late) /\ (Late => Latest' = Latest)
  <2>1. CASE Len(pending) = 1
    <3>1. pending' = <<>> /\ Latest = e
      BY <1>2, <1>6, <2>1 DEF Latest, e
    <3> QED
      BY <3>1 DEF Late
  <2>2. CASE Len(pending) # 1
    <3>1. pending' # <<>> /\ Len(pending') \in 1 .. Len(pending') /\ Len(pending') + 1 = Len(pending)
      BY <1>6, <2>2
    <3>2. Latest' = Latest
      BY <1>6, <3>1 DEF Latest
    <3> QED
      BY <1>1, <3>1, <3>2 DEF Late
  <2> QED
    BY <2>1, <2>2
<1>8. /\ config' = config /\ physical' = physical /\ last' = last
      /\ loadingSettings' = loadingSettings /\ editorIsRunning' = editorIsRunning
  BY <1>1 DEF tables, flags, user
<1>9. Left' = Left /\ (Suspended' <=> Suspended) /\ \A k : Shows(k)' = Shows(k)
  BY <1>8 DEF Left, Suspended, Shows
<1>10. Shows(last)' = Shows(last)
  <2>1. PICK l : l = last
    OBVIOUS
  <2>2. Shows(last)' = Shows(l)'
    BY <1>8, <2>1 DEF Shows
  <2> QED
    BY <1>9, <2>1, <2>2
<1>11. Late => Effect(Latest)' = Effect(Latest)
  <2>1. PICK l : l = Latest
    OBVIOUS
  <2>2. Effect(l)' = Effect(l)
    BY <1>8 DEF Effect, Shows, Suspended
  <2>3. Latest' = l => Effect(Latest)' = Effect(l)'
    BY DEF Effect, Shows
  <2> QED
    BY <1>7, <2>1, <2>2, <2>3
<1>12. Holding' = Holding
  BY <1>7, <1>8, <1>9, <1>11 DEF Holding
<1>13. EventsInOrder'
  <2>1. \A i \in 1 .. Len(pending') - 1 : pending'[i].flag = "shortcut"
    <3>1. \A i \in 1 .. Len(pending) - 1 : pending[i].flag = "shortcut"
      BY DEF KeysInv, EventsInOrder
    <3> QED
      BY <1>6, <3>1
  <2>2. Late' /\ ~Latest'.up =>
          /\ last' \in physical'
          /\ Effect(Latest)' = Shows(last)' \/ (Effect(Latest)' \in Left' /\ Shows(last)' \notin Modifiers)
    BY <1>7, <1>8, <1>9, <1>10, <1>11 DEF KeysInv, EventsInOrder
  <2>3. Late' /\ Latest'.up => \A k \in physical' : ~SameFamily(Effect(Latest), Shows(k))'
    <3>1. Late /\ Latest.up => \A k \in physical : ~SameFamily(Effect(Latest), Shows(k))
      BY DEF KeysInv, EventsInOrder
    <3> QED
      BY <1>7, <1>8, <1>9, <1>11, <3>1 DEF SameFamily
  <2>4. Late' /\ Latest'.flag = "single key" =>
          ~Suspended' /\ \E k \in DOMAIN config'.keys : Latest'.vk = Image(config, k)'
    <3>1. Late /\ Latest.flag = "single key" =>
            ~Suspended /\ \E k \in DOMAIN config.keys : Latest.vk = Image(config, k)
      BY DEF KeysInv, EventsInOrder
    <3>2. \A k : Image(config, k)' = Image(config, k)
      BY <1>8 DEF Image
    <3> QED
      BY <1>7, <1>8, <1>9, <3>1, <3>2
  <2> QED
    BY <2>1, <2>2, <2>3, <2>4 DEF EventsInOrder
<1>14. last' \in physical' \cup {NoKey}
  BY <1>8 DEF KeysInv, LastHeld
<1>15. \A a \in DOMAIN remaps : \A s \in Invoked(a) :
          last' # NoKey /\ Shows(last)' \in Modifiers => Shows(last)'[1] \notin Used(s)
  BY <1>8, <1>10 DEF KeysInv, HeldFor
<1> QED
  BY <1>1, <1>5, <1>8, <1>12, <1>13, <1>14, <1>15, SameKeysKeep DEF ByHand

(* A key the user lets go of is no modifier of an invoked shortcut: a handler  *)
(* would have it.                                                             *)
LEMMA HeldWhenPassedOn ==
    ASSUME EngineInv, KeysInv, PassedOn, e.flag # "shortcut", e.up,
           NEW a \in DOMAIN remaps, NEW s \in Invoked(a), NEW f \in Used(s)
    PROVE  GetKey(s, f, WinKeyOf(a, s)) \notin Counterparts(e.vk)
<1> DEFINE x == GetKey(s, f, WinKeyOf(a, s))
<1> SUFFICES ASSUME x \in Counterparts(e.vk) PROVE FALSE
  OBVIOUS
<1>1. /\ s \in DOMAIN remaps[a] /\ remaps[a][s].isShortcutInvoked
      /\ s \in ShortcutType /\ WinKeyOf(a, s) \in Side
  <2>1. s \in DOMAIN remaps[a] /\ remaps[a][s].isShortcutInvoked
    BY DEF Invoked
  <2> QED
    BY <2>1, TableFacts DEF EngineInv, WinKeyOf, ValidShortcut
<1>2. CheckKey(s, f, e.vk) /\ f \in Families
  BY <1>1, HeldIsChecked, KeyOfUsed
<1>3. IsModifierOf(s, e.vk)
  BY <1>2 DEF IsModifierOf
<1>4. Case(a, s) = "modifier released"
  BY <1>1, <1>3 DEF Case
<1>5. s \in Reacting(a)
  BY <1>1, <1>4 DEF Reacting
<1>6. pending # <<>> /\ ~Single /\ ~ByApp /\ ~ByOS
  BY DEF PassedOn
<1>7. ~Suspended /\ (a = OSLevel \/ (a = activatedApp /\ a # NoActivatedApp))
  BY DEF KeysInv, AppsInOrder, ActivatedIsInvoked
<1>8. CASE a = OSLevel
  BY <1>5, <1>6, <1>7, <1>8 DEF ByOS
<1>9. CASE a = activatedApp /\ a # NoActivatedApp
  <2>1. QueriedApp = a
    BY <1>9 DEF QueriedApp
  <2> QED
    BY <1>5, <1>6, <1>7, <2>1 DEF ByApp
<1> QED
  BY <1>7, <1>8, <1>9

LEMMA OthersPassedOn ==
    ASSUME EngineInv, KeysInv, PlainTables, PassedOn, e.flag # "shortcut"
    PROVE  KeysInv'
<1>1. /\ pending # <<>> /\ Sends(0, <<>>) /\ UNCHANGED <<tables, flags, user>> /\ ~Single
      /\ keys' = IF e.up THEN keys \ Released(e.vk) ELSE keys \cup (Counterparts(e.vk) \ NoSuchKey)
  BY DEF PassedOn, Swallows, Counterparts
<1>2. /\ Tail(pending) = <<>> /\ Late /\ Latest = e /\ e \in Event
      /\ keys \in SUBSET VirtualKey /\ Final(keys, pending) = keys
  BY <1>1, EventLast
<1>3. pending' = <<>>
  BY <1>1, <1>2 DEF Sends
<1>4. ~Late' /\ EventsInOrder'
  BY <1>3, SentIsEarly
<1>5. /\ config' = config /\ physical' = physical /\ last' = last
      /\ UNCHANGED <<tables, loadingSettings, editorIsRunning>>
  BY <1>1 DEF tables, flags, user
<1>6. /\ Left' = Left /\ \A k : Shows(k)' = Shows(k)
      /\ \A a, s : WinKeyOf(a, s)' = WinKeyOf(a, s)
  BY <1>5 DEF Left, Suspended, Shows, WinKeyOf, tables
<1>7. Shows(last)' = Shows(last)
  <2>1. PICK l : l = last
    OBVIOUS
  <2>2. Shows(last)' = Shows(l)'
    BY <1>5, <2>1 DEF Shows
  <2> QED
    BY <1>6, <2>1, <2>2
<1>8. Effect(e) = e.vk
  BY <1>1, <1>2, EffectOfEvent
<1>9. Final(keys', pending') = keys'
  <2>1. EngineInv'
    BY PassedOnKeeps
  <2>2. keys' \in SUBSET VirtualKey
    BY <2>1 DEF EngineInv, TypeOK
  <2> QED
    BY <1>3, <2>2, FinalNone
<1>10. \A g : ByHand(g) => ByHand(g)' \/ (e.up /\ g \in Counterparts(e.vk))
  <2>1. Holding' = {Shows(k) : k \in physical}
    BY <1>4, <1>5, <1>6 DEF Holding
  <2>2. \A h \in Holding : h \in Holding' \/ (e.up /\ h = e.vk)
    BY <1>2, <1>8, <2>1, HoldingFacts
  <2> QED
    BY <2>2 DEF ByHand
<1>11. last' \in physical' \cup {NoKey}
  BY <1>5 DEF KeysInv, LastHeld
<1>12. ASSUME NEW a \in DOMAIN remaps, NEW s \in Invoked(a)
       PROVE  HeldFor(a, s)'
  <2>1. PICK w : w = WinKeyOf(a, s)
    OBVIOUS
  <2>2. \A f \in Used(s) : ByHand(GetKey(s, f, w))
    BY <2>1 DEF KeysInv, HeldFor
  <2>3. \A f \in Used(s) : e.up => GetKey(s, f, w) \notin Counterparts(e.vk)
    BY <2>1, HeldWhenPassedOn
  <2>4. \A f \in Used(s) : ByHand(GetKey(s, f, w))'
    BY <1>10, <2>2, <2>3
  <2>5. last' # NoKey /\ Shows(last)' \in Modifiers => Shows(last)'[1] \notin Used(s)
    BY <1>5, <1>7 DEF KeysInv, HeldFor
  <2> QED
    BY <1>6, <2>1, <2>4, <2>5 DEF HeldFor
<1>13. ASSUME NEW g \in keys', g \in keys
       PROVE  \/ g \in Left
              \/ ByHand(g)' /\ \A a \in DOMAIN remaps : \A s \in Invoked(a) : ~Hides(a, s, g)
              \/ \E a \in DOMAIN remaps : \E s \in Invoked(a) :
                    /\ g \in KeysOf(a, s)
                    /\ RemapToKey(Target(a, s)) => TargetKey(Target(a, s)) \in keys'
  <2>1. Explained(g)
    BY <1>2, <1>13 DEF KeysInv
  <2>2. e.up => g \notin Released(e.vk)
    BY <1>1
  <2>3. e.up => g \notin Counterparts(e.vk)
    BY <2>2, ReleasedFacts
  <2>4. ASSUME NEW a \in DOMAIN remaps, NEW s \in Invoked(a), g \in KeysOf(a, s), RemapToKey(Target(a, s))
        PROVE  TargetKey(Target(a, s)) \in keys'
    <3>1. PICK k : k = TargetKey(Target(a, s))
      OBVIOUS
    <3>2. g \in Counterparts(k) /\ k \in keys
      BY <1>2, <2>4, <3>1 DEF KeysOf
    <3>3. e.up => k \notin Released(e.vk)
      BY <2>2, <3>2, ReleasedFacts
    <3> QED
      BY <1>1, <3>1, <3>2, <3>3
  <2> QED
    BY <1>10, <2>1, <2>3, <2>4 DEF Explained
<1>14. ASSUME NEW g \in keys', g \notin keys
       PROVE  \/ g \in Left
              \/ ByHand(g)' /\ \A a \in DOMAIN remaps : \A s \in Invoked(a) : ~Hides(a, s, g)
  <2>1. ~e.up /\ g \in Counterparts(e.vk)
    BY <1>1, <1>14
  <2>2. last \in physical /\ (e.vk = Shows(last) \/ e.vk \in Left)
    BY <1>2, <1>8, <2>1 DEF KeysInv, EventsInOrder
  <2>3. CASE e.vk \in Left
    <3>1. e.vk \notin Modifiers
      <4>1. Plain(config)
        BY <2>3 DEF Left, PlainTables
      <4> QED
        BY <2>3, <4>1, LeftFacts
    <3> QED
      BY <2>1, <2>3, <3>1, CounterpartFacts
  <2>4. CASE e.vk = Shows(last)
    <3>1. e.vk \in Holding
      BY <2>2, <2>4 DEF Holding
    <3>2. ByHand(g)
      BY <2>1, <3>1 DEF ByHand
    <3>3. last # NoKey
      BY <2>2, KeysAssumption DEF EngineInv, TypeOK
    <3>4. ASSUME NEW a \in DOMAIN remaps, NEW s \in Invoked(a), Hides(a, s, g)
          PROVE  FALSE
      <4>1. g \in Modifiers /\ g[1] \in Used(s)
        BY <3>4 DEF Hides
      <4>2. e.vk \in Modifiers /\ e.vk[1] = g[1]
        BY <2>1, <4>1, CounterpartFacts
      <4> QED
        BY <2>4, <3>3, <4>1, <4>2 DEF KeysInv, HeldFor
    <3> QED
      BY <1>10, <2>1, <3>2, <3>4
  <2> QED
    BY <2>2, <2>3, <2>4
<1> QED
  BY <1>4, <1>5, <1>9, <1>11, <1>12, <1>13, <1>14, TablesKeep

---------------------------------------------------------------------------
(* The user, the windows, and the settings' thread. *)

(* The user's event is the only one. *)
LEMMA UserEventLast ==
    ASSUME EngineInv, NEW k \in PhysicalKey, NEW up \in BOOLEAN,
           pending' = SetKeyEvent(k, up, "none"), pending = <<>>, keys' = keys
    PROVE  /\ Late' /\ Len(pending') = 1
           /\ Latest' = [vk |-> k, up |-> up, flag |-> "none"]
           /\ Final(keys', pending') = Final(keys, pending)
           /\ Effect(Latest)' = Shows(k)'
<1>1. PICK ev : ev = [vk |-> k, up |-> up, flag |-> "none"]
  OBVIOUS
<1>2. ev \in Event /\ ev.vk = k /\ ev.flag = "none"
  BY <1>1, KeysAssumption DEF Event, Flags
<1>3. pending' = <<ev>>
  BY <1>1 DEF SetKeyEvent
<1>4. Late' /\ Latest' = ev /\ Len(pending') = 1
  <2>1. pending' # <<>> /\ Len(pending') = 1 /\ pending'[1] = ev
    BY ONLY <1>3
  <2>2. Latest' = ev
    BY ONLY <2>1 DEF Latest
  <2> QED
    BY <1>2, <2>1, <2>2 DEF Late
<1>5. keys \in SUBSET VirtualKey
  BY DEF EngineInv, TypeOK
<1>6. Final(keys', pending') = keys /\ Final(keys, pending) = keys
  BY <1>2, <1>3, <1>5, FinalOne, FinalNone
<1>7. Effect(Latest)' = Shows(k)'
  BY <1>2, <1>4 DEF Effect
<1> QED
  BY <1>1, <1>4, <1>6, <1>7

LEMMA KeyDownExplained ==
    ASSUME EngineInv, KeysInv, OneHeld', NEW k \in PhysicalKey, KeyDown(k)
    PROVE  KeysInv'
<1>1. /\ pending = <<>> /\ (k \notin physical \/ last = k)
      /\ physical' = physical \cup {k} /\ last' = k
      /\ pending' = SetKeyEvent(k, FALSE, "none")
      /\ UNCHANGED <<tables, loadingSettings, editorIsRunning>>
      /\ config' = config /\ keys' = keys
  BY DEF KeyDown, tables, flags
<1>2. \A j : Shows(j)' = Shows(j)
  BY <1>1 DEF Shows, Suspended
<1>3. /\ Late' /\ Len(pending') = 1
      /\ Latest' = [vk |-> k, up |-> FALSE, flag |-> "none"]
      /\ Final(keys', pending') = Final(keys, pending)
      /\ Effect(Latest)' = Shows(k)'
  BY <1>1, UserEventLast
<1>4. Shows(last)' = Shows(k)
  <2>1. Shows(last)' = Shows(k)'
    BY <1>1 DEF Shows
  <2> QED
    BY <1>2, <2>1
<1>5. EventsInOrder'
  <2>1. ~Latest'.up /\ Latest'.flag = "none"
    BY <1>3
  <2>2. \A i \in 1 .. Len(pending') - 1 : pending'[i].flag = "shortcut"
    BY <1>3
  <2>3. last' \in physical' /\ Effect(Latest)' = Shows(last)'
    BY <1>1, <1>2, <1>3, <1>4
  <2> QED
    BY <2>1, <2>2, <2>3 DEF EventsInOrder
<1>6. ~Late
  BY <1>1 DEF Late
<1>7. \A g : ByHand(g) => ByHand(g)'
  <2>1. Holding = {Shows(j) : j \in physical}
    BY <1>6, HoldingFacts
  <2>2. Holding' = {Shows(j)' : j \in physical'}
    BY <1>3 DEF Holding
  <2>3. Holding \subseteq Holding'
    BY <1>1, <1>2, <2>1, <2>2
  <2> QED
    BY <2>3 DEF ByHand
<1>8. ASSUME NEW a \in DOMAIN remaps, NEW s \in Invoked(a),
             Shows(k) \in Modifiers, Shows(k)[1] \in Used(s)
      PROVE  FALSE
  <2> DEFINE f == Shows(k)[1]
             x == GetKey(s, f, WinKeyOf(a, s))
  <2>1. s \in DOMAIN remaps[a]
    BY DEF Invoked
  <2>2. s \in ShortcutType /\ WinKeyOf(a, s) \in Side
    BY <2>1, TableFacts DEF EngineInv, WinKeyOf, ValidShortcut
  <2>3. x \in Modifiers /\ x[1] = f
    BY <1>8, <2>2, KeyOfUsed
  <2>4. PICK h \in Holding : x \in Counterparts(h)
    BY <1>8, ExplainedHeld
  <2>5. h \in Modifiers /\ h[1] = f
    BY <2>3, <2>4, CounterpartFacts
  <2>6. PICK j \in physical : h = Shows(j)
    BY <1>6, HoldingFacts
  <2>7. SameFamily(Shows(j), Shows(k))
    BY <1>8, <2>5, <2>6 DEF SameFamily
  <2>8. SameFamily(Shows(j), Shows(k))'
    BY <1>2, <2>7 DEF SameFamily
  <2>9. j = k
    BY <1>1, <2>8 DEF OneHeld
  <2>10. last = k /\ k # NoKey
    BY <1>1, <2>6, <2>9, KeysAssumption
  <2> QED
    BY <1>8, <2>10 DEF KeysInv, HeldFor
<1>9. \A a \in DOMAIN remaps : \A s \in Invoked(a) :
         last' # NoKey /\ Shows(last)' \in Modifiers => Shows(last)'[1] \notin Used(s)
  BY <1>4, <1>8
<1> QED
  BY <1>1, <1>3, <1>5, <1>7, <1>9, SameKeysKeep

LEMMA KeyUpExplained ==
    ASSUME EngineInv, KeysInv, OneHeld, NEW k \in PhysicalKey, KeyUp(k)
    PROVE  KeysInv'
<1>1. /\ pending = <<>> /\ k \in physical
      /\ physical' = physical \ {k} /\ last' = (IF last = k THEN NoKey ELSE last)
      /\ pending' = SetKeyEvent(k, TRUE, "none")
      /\ UNCHANGED <<tables, loadingSettings, editorIsRunning>>
      /\ config' = config /\ keys' = keys
  BY DEF KeyUp, tables, flags
<1>2. \A j : Shows(j)' = Shows(j)
  BY <1>1 DEF Shows, Suspended
<1>3. /\ Late' /\ Len(pending') = 1
      /\ Latest' = [vk |-> k, up |-> TRUE, flag |-> "none"]
      /\ Final(keys', pending') = Final(keys, pending)
      /\ Effect(Latest)' = Shows(k)'
  BY <1>1, UserEventLast
<1>4. Latest'.up /\ Latest'.flag = "none"
  BY <1>3
<1>5. \A j \in physical' : ~SameFamily(Effect(Latest), Shows(j))'
  <2>1. \A j \in physical \ {k} : ~SameFamily(Shows(k), Shows(j))
    BY <1>1 DEF OneHeld
  <2> QED
    BY <1>1, <1>2, <1>3, <2>1 DEF SameFamily
<1>6. EventsInOrder'
  <2>1. \A i \in 1 .. Len(pending') - 1 : pending'[i].flag = "shortcut"
    BY <1>3
  <2> QED
    BY <1>4, <1>5, <2>1 DEF EventsInOrder
<1>7. \A g : ByHand(g) => ByHand(g)'
  <2>1. Holding = {Shows(j) : j \in physical}
    BY <1>1, HoldingFacts DEF Late
  <2>2. Holding' = {Shows(j)' : j \in physical'} \cup {Shows(k)'}
    BY <1>3, <1>4 DEF Holding
  <2>3. Holding \subseteq Holding'
    BY <1>1, <1>2, <2>1, <2>2
  <2> QED
    BY <2>3 DEF ByHand
<1>8. last' \in physical' \cup {NoKey}
  BY <1>1 DEF KeysInv, LastHeld
<1>9. last' = NoKey \/ Shows(last)' = Shows(last)
  <2>1. PICK l : l = last
    OBVIOUS
  <2>2. last' = last => Shows(last)' = Shows(l)'
    BY <2>1 DEF Shows
  <2> QED
    BY <1>1, <1>2, <2>1, <2>2
<1>10. \A a \in DOMAIN remaps : \A s \in Invoked(a) :
          last' # NoKey /\ Shows(last)' \in Modifiers => Shows(last)'[1] \notin Used(s)
  BY <1>1, <1>9 DEF KeysInv, HeldFor
<1> QED
  BY <1>1, <1>3, <1>6, <1>7, <1>8, <1>10, SameKeysKeep

(* When nothing is under way, the keys that are down are those left behind. *)
LEMMA QuietFacts ==
    ASSUME EngineInv, KeysInv, Quiet
    PROVE  /\ keys \subseteq Left /\ activatedApp = NoActivatedApp /\ last = NoKey
           /\ keys \in SUBSET VirtualKey
<1>1. pending = <<>> /\ physical = {} /\ \A a \in DOMAIN remaps : Invoked(a) = {}
  BY DEF Quiet
<1>2. keys \in SUBSET VirtualKey /\ Final(keys, pending) = keys
  BY <1>1, FinalNone DEF EngineInv, TypeOK
<1>3. Holding = {}
  BY <1>1 DEF Holding, Late
<1>4. \A g \in keys : g \in Left \/ ByHand(g)
  BY <1>1, <1>2, NoneExplained
<1>5. keys \subseteq Left
  BY <1>3, <1>4 DEF ByHand
<1>6. activatedApp = NoActivatedApp /\ last = NoKey
  BY <1>1 DEF KeysInv, LastHeld, AppsInOrder, ActivatedIsInvoked
<1> QED
  BY <1>2, <1>5, <1>6

LEMMA QuietExplained ==
    ASSUME pending' = <<>>, physical' = {}, last' = NoKey, activatedApp' = NoActivatedApp,
           \A a \in DOMAIN remaps' : Invoked(a)' = {},
           keys' \in SUBSET VirtualKey, keys' \subseteq Left'
    PROVE  KeysInv'
<1>1. EventsInOrder'
  BY SentIsEarly
<1>2. AppsInOrder'
  BY DEF AppsInOrder, ActivatedIsInvoked
<1>3. Final(keys', pending') = keys'
  BY FinalNone
<1>4. \A g \in Final(keys', pending') : Explained(g)'
  BY <1>3 DEF Explained
<1> QED
  BY <1>1, <1>2, <1>4 DEF KeysInv, LastHeld

LEMMA QuietStepExplained ==
    ASSUME EngineInv, KeysInv, LoadSettingsStart \/ LoadSettingsEnd \/ ToggleEditor
    PROVE  KeysInv'
<1>1. Quiet /\ UNCHANGED <<activatedApp, keys, user, pending>>
  BY DEF LoadSettingsStart, LoadSettingsEnd, ToggleEditor, tables
<1>2. /\ keys \subseteq Left /\ activatedApp = NoActivatedApp /\ last = NoKey
      /\ keys \in SUBSET VirtualKey
  BY <1>1, QuietFacts
<1>3. /\ pending' = <<>> /\ physical' = {} /\ last' = NoKey /\ activatedApp' = NoActivatedApp
      /\ keys' = keys
  BY <1>1, <1>2 DEF Quiet, user
<1>4. CASE LoadSettingsStart \/ ToggleEditor
  <2>1. UNCHANGED <<config, remaps>> /\ (keys = {} \/ loadingSettings' = loadingSettings)
    BY <1>4 DEF LoadSettingsStart, ToggleEditor, tables
  <2>2. keys' \subseteq Left'
    BY <1>2, <1>3, <2>1 DEF Left
  <2>3. \A a \in DOMAIN remaps' : Invoked(a)' = {}
    BY <1>1, <2>1 DEF Quiet, Invoked
  <2> QED
    BY <1>2, <1>3, <2>2, <2>3, QuietExplained
<1>5. CASE LoadSettingsEnd
  <2>1. loadingSettings /\ config' \in Config /\ remaps' = Fresh(config')
    BY <1>5 DEF LoadSettingsEnd
  <2>2. keys' \subseteq Left'
    BY <1>2, <1>3, <2>1 DEF Left
  <2>3. PICK c, r : c \in Config /\ c = config' /\ r = remaps'
    BY <2>1
  <2>4. \A a \in DOMAIN r : \A s \in DOMAIN r[a] : ~r[a][s].isShortcutInvoked
    BY <2>1, <2>3, FreshTables
  <2>5. \A a \in DOMAIN remaps' : Invoked(a)' = {}
    BY <2>3, <2>4 DEF Invoked
  <2> QED
    BY <1>2, <1>3, <2>2, <2>5, QuietExplained
<1> QED
  BY <1>4, <1>5

LEMMA UnseenStep ==
    ASSUME KeysInv, UNCHANGED <<tables, loadingSettings, editorIsRunning, keys, user, pending>>
    PROVE  KeysInv'
<1>1. /\ config' = config /\ remaps' = remaps /\ activatedApp' = activatedApp
      /\ physical' = physical /\ last' = last /\ keys' = keys /\ pending' = pending
      /\ loadingSettings' = loadingSettings /\ editorIsRunning' = editorIsRunning
  BY DEF tables, user
<1>2. /\ Left' = Left /\ (Suspended' <=> Suspended)
      /\ \A k : Shows(k)' = Shows(k)
      /\ \A a : Invoked(a)' = Invoked(a)
      /\ \A a, s : Target(a, s)' = Target(a, s) /\ WinKeyOf(a, s)' = WinKeyOf(a, s)
  BY <1>1 DEF Left, Suspended, Shows, Invoked, Target, WinKeyOf
<1>3. Shows(last)' = Shows(last) /\ Latest' = Latest /\ (Late' <=> Late)
  BY <1>1 DEF Shows, Suspended, Latest, Late
<1>4. Effect(Latest)' = Effect(Latest)
  BY <1>1 DEF Effect, Shows, Suspended, Latest
<1>5. Holding' = Holding
  BY <1>1, <1>2, <1>3, <1>4 DEF Holding
<1>6. EventsInOrder'
  <2>1. \A i \in 1 .. Len(pending') - 1 : pending'[i].flag = "shortcut"
    BY <1>1 DEF KeysInv, EventsInOrder
  <2>2. Late' /\ ~Latest'.up =>
          /\ last' \in physical'
          /\ Effect(Latest)' = Shows(last)' \/ (Effect(Latest)' \in Left' /\ Shows(last)' \notin Modifiers)
    BY <1>1, <1>2, <1>3, <1>4 DEF KeysInv, EventsInOrder
  <2>3. Late' /\ Latest'.up => \A k \in physical' : ~SameFamily(Effect(Latest), Shows(k))'
    <3>1. Late /\ Latest.up => \A k \in physical : ~SameFamily(Effect(Latest), Shows(k))
      BY DEF KeysInv, EventsInOrder
    <3> QED
      BY <1>1, <1>2, <1>3, <1>4, <3>1 DEF SameFamily
  <2>4. Late' /\ Latest'.flag = "single key" =>
          ~Suspended' /\ \E k \in DOMAIN config'.keys : Latest'.vk = Image(config, k)'
    <3>1. Late /\ Latest.flag = "single key" =>
            ~Suspended /\ \E k \in DOMAIN config.keys : Latest.vk = Image(config, k)
      BY DEF KeysInv, EventsInOrder
    <3>2. \A k : Image(config, k)' = Image(config, k)
      BY <1>1 DEF Image
    <3> QED
      BY <1>1, <1>2, <1>3, <3>1, <3>2
  <2> QED
    BY <2>1, <2>2, <2>3, <2>4 DEF EventsInOrder
<1>7. last' \in physical' \cup {NoKey}
  BY <1>1 DEF KeysInv, LastHeld
<1>8. ASSUME NEW a \in DOMAIN remaps, NEW s \in Invoked(a)
      PROVE  HeldFor(a, s)'
  <2>1. PICK w : w = WinKeyOf(a, s)
    OBVIOUS
  <2>2. \A f \in Used(s) : ByHand(GetKey(s, f, w))
    BY <2>1 DEF KeysInv, HeldFor
  <2>3. \A f \in Used(s) : ByHand(GetKey(s, f, w))'
    BY <1>5, <2>2 DEF ByHand
  <2>4. last' # NoKey /\ Shows(last)' \in Modifiers => Shows(last)'[1] \notin Used(s)
    BY <1>1, <1>3 DEF KeysInv, HeldFor
  <2> QED
    BY <1>2, <2>1, <2>3, <2>4 DEF HeldFor
<1>9. ASSUME NEW g \in Final(keys, pending)
      PROVE  \/ g \in Left
             \/ ByHand(g)' /\ \A a \in DOMAIN remaps : \A s \in Invoked(a) : ~Hides(a, s, g)
             \/ \E a \in DOMAIN remaps : \E s \in Invoked(a) :
                   /\ g \in KeysOf(a, s)
                   /\ RemapToKey(Target(a, s)) => TargetKey(Target(a, s)) \in Final(keys, pending)
  <2>1. Explained(g)
    BY DEF KeysInv
  <2>2. \A a, s : g \in KeysOf(a, s) =>
           (RemapToKey(Target(a, s)) => TargetKey(Target(a, s)) \in Final(keys, pending))
    BY DEF KeysOf
  <2> QED
    BY <1>5, <2>1, <2>2 DEF Explained, ByHand
<1>10. Final(keys', pending') = Final(keys, pending)
  BY <1>1
<1> QED
  BY <1>1, <1>6, <1>7, <1>8, <1>9, <1>10, TablesKeep

---------------------------------------------------------------------------
LEMMA HandlersExplained ==
    ASSUME EngineInv, KeysInv, Plain(config), OneHeld,
           NEW a \in DOMAIN remaps, NEW s \in DOMAIN remaps[a], OnShortcut(a, s)
    PROVE  KeysInv'
<1>1. CASE ShortcutToShortcut(a, s)
  BY <1>1, ShortcutToShortcutExplained
<1>2. CASE ShortcutToKey(a, s)
  BY <1>2, ShortcutToKeyExplained
<1>3. CASE ModifierReleased(a, s)
  BY <1>3, ModifierOfKeyReleased, ModifierOfShortcutReleased
<1>4. CASE ActionKeyRepeated(a, s)
  BY <1>4, ActionKeyRepeatedExplained
<1>5. CASE ActionKeyReleased(a, s)
  BY <1>5, ActionKeyReleasedExplained
<1>6. CASE ModifierPressed(a, s)
  BY <1>6, ModifierPressedExplained
<1>7. CASE NextShortcut(a, s)
  BY <1>7, NextToKeyExplained, NextToShortcutExplained
<1>8. CASE RevertShortcut(a, s)
  BY <1>8, RevertShortcutExplained
<1>9. CASE RevertKey(a, s)
  BY <1>9, RevertKeyExplained
<1> QED
  BY <1>1, <1>2, <1>3, <1>4, <1>5, <1>6, <1>7, <1>8, <1>9 DEF OnShortcut

LEMMA HandledByAction ==
    ASSUME NEW a, NEW s, OnShortcut(a, s)
    PROVE  \E case : Handled(a, s, case)
  BY DEF OnShortcut, ShortcutToShortcut, ShortcutToKey, ModifierReleased, ActionKeyRepeated,
         ActionKeyReleased, ModifierPressed, NextShortcut, RevertShortcut, RevertKey

LEMMA StepExplained ==
    ASSUME EngineInv, KeysInv, PlainTables, OneHeld, OneHeld', [Next]_vars
    PROVE  KeysInv'
<1>1. CASE RemapSingleKey
  <2>1. Plain(config)
    BY <1>1 DEF RemapSingleKey, Single, Suspended, PlainTables
  <2> QED
    BY <1>1, <2>1, RemapSingleKeyExplained
<1>2. ASSUME NEW a \in DOMAIN remaps, NEW s \in DOMAIN remaps[a], OnShortcut(a, s)
      PROVE  KeysInv'
  <2>1. PICK case : Handled(a, s, case)
    BY <1>2, HandledByAction
  <2>2. Plain(config)
    BY <2>1 DEF Handled, ByApp, ByOS, Suspended, PlainTables
  <2> QED
    BY <1>2, <2>2, HandlersExplained
<1>3. CASE PassedOn
  BY <1>3, SentPassedOn, OthersPassedOn
<1>4. ASSUME NEW k \in PhysicalKey, KeyDown(k) \/ KeyUp(k)
      PROVE  KeysInv'
  BY <1>4, KeyDownExplained, KeyUpExplained
<1>5. CASE \E a \in App : Focus(a)
  BY <1>5, UnseenStep DEF Focus
<1>6. CASE LoadSettingsStart \/ LoadSettingsEnd \/ ToggleEditor
  BY <1>6, QuietStepExplained
<1>7. CASE UNCHANGED vars
  BY <1>7, UnseenStep DEF vars, flags
<1> QED
  BY <1>1, <1>2, <1>3, <1>4, <1>5, <1>6, <1>7 DEF Next, Hook

LEMMA InitExplained == ASSUME Init PROVE KeysInv
<1>1. /\ pending = <<>> /\ physical = {} /\ last = NoKey /\ keys = {}
      /\ activatedApp = NoActivatedApp /\ config \in Config /\ remaps = Fresh(config)
  BY DEF Init
<1>2. \A a \in DOMAIN remaps : Invoked(a) = {}
  BY <1>1, FreshTables DEF Invoked
<1>3. EventsInOrder
  BY <1>1 DEF EventsInOrder, Late
<1>4. AppsInOrder
  BY <1>1, <1>2 DEF AppsInOrder, ActivatedIsInvoked
<1>5. Final(keys, pending) = {}
  BY <1>1, FinalNone
<1> QED
  BY <1>1, <1>2, <1>3, <1>4, <1>5 DEF KeysInv, LastHeld

(* At rest nothing is invoked, and what is down was left behind. *)
LEMMA RestFacts ==
    ASSUME EngineInv, KeysInv, AtRest
    PROVE  /\ \A a \in DOMAIN remaps : Invoked(a) = {}
           /\ activatedApp = NoActivatedApp /\ keys \subseteq Left /\ keys \in SUBSET VirtualKey
<1>1. pending = <<>> /\ physical = {}
  BY DEF AtRest
<1>2. Holding = {}
  BY <1>1 DEF Holding, Late
<1>3. ASSUME NEW a \in DOMAIN remaps, NEW s \in Invoked(a) PROVE FALSE
  <2>1. s \in DOMAIN remaps[a]
    BY DEF Invoked
  <2>2. Used(s) # {}
    BY <2>1, TableFacts DEF EngineInv, ValidShortcut
  <2> QED
    BY <1>2, <2>2, ExplainedHeld
<1>4. \A a \in DOMAIN remaps : Invoked(a) = {}
  BY <1>3
<1>5. Quiet
  BY <1>1, <1>4 DEF Quiet
<1> QED
  BY <1>4, <1>5, QuietFacts

---------------------------------------------------------------------------
(* Whatever the tables are *)

LEMMA StillActivated ==
    ASSUME ActivatedIsInvoked, activatedApp' = activatedApp, DOMAIN remaps' = DOMAIN remaps,
           \A b \in DOMAIN remaps : b # OSLevel => Invoked(b) \subseteq Invoked(b)'
    PROVE  ActivatedIsInvoked'
  BY DEF ActivatedIsInvoked

LEMMA NowActivated ==
    ASSUME ActivatedIsInvoked, NEW a \in DOMAIN remaps, NEW s \in DOMAIN remaps[a], NEW v,
           remaps' = [remaps EXCEPT ![a][s] = v], v.isShortcutInvoked, Activate(a)
    PROVE  ActivatedIsInvoked'
<1>1. DOMAIN remaps' = DOMAIN remaps /\ s \in Invoked(a)'
  BY DEF Invoked
<1>2. ASSUME NEW b \in DOMAIN remaps, NEW x \in Invoked(b)
      PROVE  x \in Invoked(b)'
  <2>1. x \in DOMAIN remaps[b] /\ remaps[b][x].isShortcutInvoked
    BY DEF Invoked
  <2>2. x \in DOMAIN remaps'[b] /\ remaps'[b][x] = IF b = a /\ x = s THEN v ELSE remaps[b][x]
    BY <2>1
  <2> QED
    BY <2>1, <2>2 DEF Invoked
<1>3. CASE a = OSLevel
  BY <1>1, <1>2, <1>3, StillActivated DEF Activate
<1>4. CASE a # OSLevel
  BY <1>1, <1>4 DEF Activate, ActivatedIsInvoked
<1> QED
  BY <1>3, <1>4

(* A handler that is done with an application's shortcut says so. *)
LEMMA NoMoreActivated ==
    ASSUME ActivatedIsInvoked, NEW a \in DOMAIN remaps, DOMAIN remaps' = DOMAIN remaps,
           \A b \in DOMAIN remaps : b # a => remaps'[b] = remaps[b],
           Deactivate(a) \/ activatedApp' = NoActivatedApp
    PROVE  ActivatedIsInvoked'
<1>1. CASE activatedApp' = NoActivatedApp
  BY <1>1 DEF ActivatedIsInvoked
<1>2. CASE activatedApp' = activatedApp /\ a = OSLevel
  BY <1>2, StillActivated DEF Invoked
<1> QED
  BY <1>1, <1>2 DEF Deactivate

LEMMA SameActivated ==
    ASSUME ActivatedIsInvoked, UNCHANGED <<remaps, activatedApp>>
    PROVE  ActivatedIsInvoked'
  BY DEF ActivatedIsInvoked, Invoked

LEMMA HandlersActivated ==
    ASSUME EngineInv, ActivatedIsInvoked,
           NEW a \in DOMAIN remaps, NEW s \in DOMAIN remaps[a], OnShortcut(a, s)
    PROVE  ActivatedIsInvoked'
<1>1. TypeOK
  BY DEF EngineInv
<1>2. remaps[a][s] \in Remap
  BY <1>1, TableFacts
<1>3. CASE ShortcutToShortcut(a, s)
  <2>1. PICK win : /\ remaps' = [remaps EXCEPT ![a][s].isShortcutInvoked = TRUE, ![a][s].winKeyInvoked = win]
                   /\ Activate(a)
    BY <1>3 DEF ShortcutToShortcut
  <2>2. PICK v : v = [remaps[a][s] EXCEPT !.isShortcutInvoked = TRUE, !.winKeyInvoked = win]
    OBVIOUS
  <2>3. remaps' = [remaps EXCEPT ![a][s] = v] /\ v.isShortcutInvoked
    BY <1>2, <2>1, <2>2 DEF Remap
  <2> QED
    BY <2>1, <2>3, NowActivated
<1>4. CASE ShortcutToKey(a, s)
  <2>1. PICK win, b : /\ remaps' = [remaps EXCEPT ![a][s] = [isShortcutInvoked |-> TRUE, winKeyInvoked |-> win,
                                                           isOriginalActionKeyPressed |-> b]]
                     /\ Activate(a)
    BY <1>4 DEF ShortcutToKey
  <2>2. PICK v : v = [isShortcutInvoked |-> TRUE, winKeyInvoked |-> win, isOriginalActionKeyPressed |-> b]
    OBVIOUS
  <2>3. remaps' = [remaps EXCEPT ![a][s] = v] /\ v.isShortcutInvoked
    BY <2>1, <2>2
  <2> QED
    BY <2>1, <2>3, NowActivated
<1>5. ASSUME Reset(a, s), Deactivate(a) \/ activatedApp' = NoActivatedApp
      PROVE  ActivatedIsInvoked'
  <2>1. DOMAIN remaps' = DOMAIN remaps /\ \A b \in DOMAIN remaps : b # a => remaps'[b] = remaps[b]
    BY <1>5 DEF Reset
  <2> QED
    BY <1>5, <2>1, NoMoreActivated
<1>6. ASSUME NEW b, remaps' = [remaps EXCEPT ![a][s].isOriginalActionKeyPressed = b], UNCHANGED activatedApp
      PROVE  ActivatedIsInvoked'
  <2>1. DOMAIN remaps' = DOMAIN remaps /\ \A c \in DOMAIN remaps : Invoked(c)' = Invoked(c)
    BY <1>1, <1>6, SameInvoked
  <2> QED
    BY <1>6, <2>1, StillActivated
<1>7. CASE ModifierReleased(a, s) \/ RevertShortcut(a, s) \/ RevertKey(a, s)
  BY <1>5, <1>7 DEF ModifierReleased, RevertShortcut, RevertKey
<1>8. CASE ActionKeyRepeated(a, s)
  <2>1. \/ remaps' = [remaps EXCEPT ![a][s].isOriginalActionKeyPressed = TRUE] /\ UNCHANGED activatedApp
        \/ UNCHANGED <<remaps, activatedApp>>
    BY <1>8 DEF ActionKeyRepeated
  <2> QED
    BY <1>6, <2>1, SameActivated
<1>9. CASE ActionKeyReleased(a, s)
  <2>1. PICK t \in TargetType : t = Target(a, s)
    BY <1>1, TableFacts
  <2>2. \/ remaps' = [remaps EXCEPT ![a][s].isOriginalActionKeyPressed = FALSE] /\ UNCHANGED activatedApp
        \/ UNCHANGED <<remaps, activatedApp>>
        \/ Reset(a, s) /\ activatedApp' = NoActivatedApp
    BY <1>9, <2>1, ReleasedCases
  <2> QED
    BY <1>5, <1>6, <2>2, SameActivated
<1>10. CASE ModifierPressed(a, s)
  BY <1>10, SameActivated DEF ModifierPressed
<1>11. CASE NextShortcut(a, s)
  <2>1. PICK v, w : /\ remaps' = [remaps EXCEPT ![a][With(s)].isShortcutInvoked = v,
                                               ![a][With(s)].winKeyInvoked = w, ![a][s] = NotInvoked]
                   /\ Deactivate(a)
    BY <1>11 DEF NextShortcut
  <2>2. DOMAIN remaps' = DOMAIN remaps /\ \A b \in DOMAIN remaps : b # a => remaps'[b] = remaps[b]
    BY <2>1
  <2> QED
    BY <2>1, <2>2, NoMoreActivated
<1> QED
  BY <1>3, <1>4, <1>7, <1>8, <1>9, <1>10, <1>11 DEF OnShortcut

LEMMA StepActivated ==
    ASSUME EngineInv, ActivatedIsInvoked, LastHeld, [Next]_vars
    PROVE  ActivatedIsInvoked' /\ LastHeld'
<1>1. CASE RemapSingleKey
  BY <1>1, SameActivated DEF RemapSingleKey, KeepRest, user, LastHeld
<1>2. ASSUME NEW a \in DOMAIN remaps, NEW s \in DOMAIN remaps[a], OnShortcut(a, s)
      PROVE  ActivatedIsInvoked' /\ LastHeld'
  <2>1. UNCHANGED user
    BY <1>2 DEF OnShortcut, ShortcutToShortcut, ShortcutToKey, ModifierReleased, ActionKeyRepeated,
                ActionKeyReleased, ModifierPressed, NextShortcut, RevertShortcut, RevertKey, KeepRest
  <2> QED
    BY <1>2, <2>1, HandlersActivated DEF user, LastHeld
<1>3. CASE PassedOn
  BY <1>3, SameActivated DEF PassedOn, tables, user, LastHeld
<1>4. ASSUME NEW k \in PhysicalKey, KeyDown(k) \/ KeyUp(k)
      PROVE  ActivatedIsInvoked' /\ LastHeld'
  <2>1. UNCHANGED <<remaps, activatedApp>>
    BY <1>4 DEF KeyDown, KeyUp, tables
  <2> QED
    BY <1>4, <2>1, SameActivated DEF KeyDown, KeyUp, LastHeld
<1>5. CASE (\E a \in App : Focus(a)) \/ LoadSettingsStart \/ ToggleEditor \/ UNCHANGED vars
  <2>1. UNCHANGED <<tables, user>>
    BY <1>5 DEF Focus, LoadSettingsStart, ToggleEditor, vars
  <2> QED
    BY <2>1, SameActivated DEF tables, user, LastHeld
<1>6. CASE LoadSettingsEnd
  <2>1. Quiet /\ UNCHANGED <<activatedApp, user>>
    BY <1>6 DEF LoadSettingsEnd
  <2>2. activatedApp = NoActivatedApp
    BY <2>1 DEF Quiet, ActivatedIsInvoked
  <2> QED
    BY <2>1, <2>2 DEF ActivatedIsInvoked, LastHeld, user
<1> QED
  BY <1>1, <1>2, <1>3, <1>4, <1>5, <1>6 DEF Next, Hook

(* No table is used while the settings are loaded, which is begun when     *)
(* nothing is under way.                                                   *)
LEMMA PlainStep ==
    ASSUME EngineInv, EveryKeyExplained, OneHeldIfPlain, OneHeldIfPlain', [Next]_vars
    PROVE  EveryKeyExplained'
<1>1. ActivatedIsInvoked' /\ LastHeld'
  BY StepActivated DEF EveryKeyExplained
<1>2. ASSUME PlainTables, PlainTables' PROVE KeysInv'
  BY <1>2, StepExplained DEF EveryKeyExplained, OneHeldIfPlain
<1>3. ASSUME ~PlainTables, PlainTables' PROVE KeysInv'
  <2>1. ~loadingSettings /\ (config' # config \/ loadingSettings')
    BY <1>3 DEF PlainTables
  <2>2. LoadSettingsStart
    <3>1. ASSUME Hook PROVE UNCHANGED <<config, flags>>
      <4>1. CASE RemapSingleKey
        BY <4>1 DEF RemapSingleKey, KeepRest
      <4>2. CASE PassedOn
        BY <4>2 DEF PassedOn, tables
      <4>3. ASSUME NEW a \in DOMAIN remaps, NEW s \in DOMAIN remaps[a], OnShortcut(a, s)
            PROVE  UNCHANGED <<config, flags>>
        BY <4>3 DEF OnShortcut, ShortcutToShortcut, ShortcutToKey, ModifierReleased, ActionKeyRepeated,
                    ActionKeyReleased, ModifierPressed, NextShortcut, RevertShortcut, RevertKey, KeepRest
      <4> QED
        BY <3>1, <4>1, <4>2, <4>3 DEF Hook
    <3>2. ASSUME \/ \E k \in PhysicalKey : KeyDown(k) \/ KeyUp(k)
                 \/ \E a \in App : Focus(a)
                 \/ ToggleEditor \/ UNCHANGED vars
          PROVE  UNCHANGED <<config, loadingSettings>>
      BY <3>2 DEF KeyDown, KeyUp, Focus, ToggleEditor, tables, flags, vars
    <3>3. ~LoadSettingsEnd
      BY <2>1 DEF LoadSettingsEnd
    <3> QED
      BY <2>1, <3>1, <3>2, <3>3 DEF Next, flags
  <2>3. Quiet /\ keys = {} /\ UNCHANGED <<tables, keys, user, pending>>
    BY <2>2 DEF LoadSettingsStart
  <2>4. activatedApp = NoActivatedApp /\ last = NoKey
    BY <2>3 DEF Quiet, EveryKeyExplained, ActivatedIsInvoked, LastHeld
  <2>5. \A a \in DOMAIN remaps' : Invoked(a)' = {}
    BY <2>3 DEF Quiet, Invoked, tables
  <2> QED
    BY <2>3, <2>4, <2>5, QuietExplained DEF Quiet, tables, user
<1> QED
  BY <1>1, <1>2, <1>3 DEF EveryKeyExplained

LEMMA InitEveryKey == ASSUME Init PROVE EveryKeyExplained
<1>1. activatedApp = NoActivatedApp /\ last = NoKey
  BY DEF Init
<1> QED
  BY <1>1, InitExplained DEF EveryKeyExplained, ActivatedIsInvoked, LastHeld

---------------------------------------------------------------------------
(* The theorems.  The tables may be any that the editor saves, and follow each *)
(* other in any order; what is said of the keys holds under those that are     *)
(* Plain, for a user who does not hold two keys for one modifier.              *)

(* Whatever the tables and the keys: the application whose shortcuts go before *)
(* those of the one with the focus (activatedAppSpecificShortcutTarget) has one*)
(* that is invoked.  Each handler that ends a shortcut of an application       *)
(* forgets the application, and new tables come when none is invoked.          *)
THEOREM ActivatedAppHasShortcut == Spec => []ActivatedIsInvoked
<1>1. Init => ActivatedIsInvoked /\ LastHeld
  BY InitEveryKey DEF EveryKeyExplained
<1>2. EngineInv /\ ActivatedIsInvoked /\ LastHeld /\ [Next]_vars => ActivatedIsInvoked' /\ LastHeld'
  BY StepActivated
<1>3. Spec => []EngineInv
  BY EngineInvariant
<1> QED
  BY <1>1, <1>2, <1>3, PTL DEF Spec

(* Every key that is down, or will be when what the handlers sent is through,  *)
(* has its reason: a key of the keyboard, the target of an invoked shortcut,   *)
(* or one of the keys that the handlers are known to leave behind.             *)
THEOREM KeysAlwaysExplained == Spec /\ []OneHeldIfPlain => []EveryKeyExplained
<1>1. Init => EveryKeyExplained
  BY InitEveryKey
<1>2. EngineInv /\ EveryKeyExplained /\ OneHeldIfPlain /\ OneHeldIfPlain' /\ [Next]_vars
        => EveryKeyExplained'
  BY PlainStep
<1>3. Spec => []EngineInv
  BY EngineInvariant
<1> QED
  BY <1>1, <1>2, <1>3, PTL DEF Spec

(* When the user lets go of the keys, no shortcut is still taken for pressed,  *)
(* nor an application's shortcuts in force in another (the resets of cases 1,  *)
(* 3 and 5 of HandleShortcutRemapEvent).                                       *)
THEOREM NoRemapIsLeft == Spec /\ []OneHeldIfPlain => [](PlainTables => NoRemapLeft)
<1>1. EngineInv /\ EveryKeyExplained => (PlainTables => NoRemapLeft)
  BY RestFacts DEF NoRemapLeft, EveryKeyExplained
<1>2. Spec => []EngineInv
  BY EngineInvariant
<1>3. Spec /\ []OneHeldIfPlain => []EveryKeyExplained
  BY KeysAlwaysExplained
<1> QED
  BY <1>1, <1>2, <1>3, PTL

(* ... and the system thinks that no key is down, neither a modifier nor a     *)
(* target, but for action keys of shortcuts whose release case 3 has swallowed.*)
(* The second condition on the tables: the keys that a chain or a takeover     *)
(* leaves behind are such keys (without chains and takeovers there are none).  *)
THEOREM OnlyActionKeysStick ==
    Spec /\ []OneHeldIfPlain
      => [](PlainTables /\ OrphansAreActionKeys(config) => OnlyActionKeyStuck)
<1>1. ASSUME EngineInv, EveryKeyExplained, PlainTables, OrphansAreActionKeys(config)
      PROVE  OnlyActionKeyStuck
  <2> SUFFICES ASSUME AtRest PROVE keys \subseteq ShortcutActionKeys
    BY DEF OnlyActionKeyStuck
  <2>1. keys \subseteq Left /\ keys \in SUBSET VirtualKey
    BY <1>1, RestFacts DEF EveryKeyExplained
  <2>2. Left \cap VirtualKey \subseteq ActionKeys(config)
    BY <1>1 DEF Left, OrphansAreActionKeys
  <2>3. ActionKeys(config) = ShortcutActionKeys
    BY DEF ActionKeys, ShortcutActionKeys
  <2> QED
    BY <2>1, <2>2, <2>3
<1>2. EngineInv /\ EveryKeyExplained
        => (PlainTables /\ OrphansAreActionKeys(config) => OnlyActionKeyStuck)
  BY <1>1
<1>3. Spec => []EngineInv
  BY EngineInvariant
<1>4. Spec /\ []OneHeldIfPlain => []EveryKeyExplained
  BY KeysAlwaysExplained
<1> QED
  BY <1>2, <1>3, <1>4, PTL

(* No two remappings are under way at a time, of one table or of several,      *)
(* under plain tables and where only the system has shortcuts.                 *)
THEOREM OneRemapAmongApplications ==
    Spec /\ []OneHeldIfPlain => []OneRemapAtATime
<1>1. ASSUME EngineInv, EveryKeyExplained, PlainTables PROVE OneRemapInvoked
  <2> DEFINE Z == UNION {{<<a, s>> : s \in Invoked(a)} : a \in DOMAIN remaps}
  <2>1. AppsInOrder
    BY <1>1 DEF EveryKeyExplained, KeysInv
  <2>2. \A a, b \in DOMAIN remaps : \A s \in Invoked(a), x \in Invoked(b) : a = b /\ s = x
    <3>1. CASE Plain(config)
      BY <1>1, <2>1, <3>1, UniqueInvoked
    <3>2. CASE loadingSettings
      BY <2>1, <3>2 DEF AppsInOrder, Suspended
    <3> QED
      BY <1>1, <3>1, <3>2 DEF PlainTables
  <2>3. \A y, z \in Z : y = z
    BY <2>2
  <2> HIDE DEF Z
  <2>4. Cardinality(Z) <= 1
    <3>1. CASE Z = {}
      BY <3>1, FS_EmptySet
    <3>2. CASE Z # {}
      <4>1. PICK z : Z = {z}
        BY <2>3, <3>2
      <4>2. Cardinality({z}) = 1
        BY FS_Singleton
      <4> QED
        BY <4>1, <4>2
    <3> QED
      BY <3>1, <3>2
  <2> QED
    BY <2>4 DEF Z, OneRemapInvoked
<1>2. EngineInv /\ EveryKeyExplained => (PlainTables => OneRemapInvoked)
  BY <1>1
<1>3. Spec => []EngineInv
  BY EngineInvariant
<1>4. Spec /\ []OneHeldIfPlain => []EveryKeyExplained
  BY KeysAlwaysExplained
<1>5. Spec => [](DOMAIN config.shortcuts \subseteq {OSLevel} => OneRemapInvoked)
  BY OneRemapOfTheSystem
<1>6. (PlainTables => OneRemapInvoked) /\ (DOMAIN config.shortcuts \subseteq {OSLevel} => OneRemapInvoked)
        => OneRemapAtATime
  BY DEF OneRemapAtATime
<1> QED
  BY <1>2, <1>3, <1>4, <1>5, <1>6, PTL
=============================================================================
