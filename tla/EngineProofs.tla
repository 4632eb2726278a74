----------------------------- MODULE EngineProofs -----------------------------
(***************************************************************************)
(* What Keyboard Manager's engine sends fits in the arrays it allocates,   *)
(* for every table of remappings, and at most one shortcut of a table is   *)
(* taken for pressed, whatever keys the user presses and releases.         *)
(***************************************************************************)
EXTENDS KeyboardManagerEngine, SequenceTheorems, FiniteSetTheorems, TLAPS

---------------------------------------------------------------------------
(* How many modifiers a shortcut has *)

LEMMA FamiliesCounted ==
    ASSUME NEW S \in SUBSET Families
    PROVE  /\ IsFiniteSet(S) /\ Cardinality(S) \in Nat
           /\ Cardinality(S) = Extra("win" \in S) + Extra("ctrl" \in S) + Extra("alt" \in S) + Extra("shift" \in S)
<1>1. ASSUME NEW T, IsFiniteSet(T), NEW x, x \notin T
      PROVE  LET U == T \cup (S \cap {x})
             IN  IsFiniteSet(U) /\ Cardinality(U) = Cardinality(T) + Extra(x \in S)
  <2>1. Cardinality(T) \in Nat
    BY <1>1, FS_CardinalityType
  <2>2. CASE x \in S
    <3>1. T \cup (S \cap {x}) = T \cup {x}
      BY <2>2
    <3>2. IsFiniteSet(T \cup {x}) /\ Cardinality(T \cup {x}) = Cardinality(T) + 1
      BY <1>1, FS_AddElement
    <3> QED
      BY <2>2, <3>1, <3>2 DEF Extra
  <2>3. CASE x \notin S
    <3>1. T \cup (S \cap {x}) = T /\ Extra(x \in S) = 0
      BY <2>3 DEF Extra
    <3>2. Cardinality(T) + 0 = Cardinality(T)
      BY <2>1
    <3> QED
      BY <1>1, <3>1, <3>2
  <2> QED
    BY <2>2, <2>3
<1> DEFINE A == {} \cup (S \cap {"win"})
           B == A \cup (S \cap {"ctrl"})
           C == B \cup (S \cap {"alt"})
           D == C \cup (S \cap {"shift"})
<1>2. /\ "win" \notin {} /\ "ctrl" \notin A /\ "alt" \notin B /\ "shift" \notin C
      /\ D = S
  BY DEF Families
<1>3. IsFiniteSet({}) /\ Cardinality({}) = 0
  BY FS_EmptySet
<1>4. IsFiniteSet(A) /\ Cardinality(A) = 0 + Extra("win" \in S)
  BY <1>1, <1>2, <1>3
<1> HIDE DEF A
<1>5. IsFiniteSet(B) /\ Cardinality(B) = Cardinality(A) + Extra("ctrl" \in S)
  BY <1>1, <1>2, <1>4
<1> HIDE DEF B
<1>6. IsFiniteSet(C) /\ Cardinality(C) = Cardinality(B) + Extra("alt" \in S)
  BY <1>1, <1>2, <1>5
<1> HIDE DEF C
<1>7. IsFiniteSet(D) /\ Cardinality(D) = Cardinality(C) + Extra("shift" \in S)
  BY <1>1, <1>2, <1>6
<1> HIDE DEF D
<1>8. \A b : Extra(b) \in Nat
  BY DEF Extra
<1> QED
  BY <1>2, <1>4, <1>5, <1>6, <1>7, <1>8

CommonFamilies(s, t) == {f \in Used(s) : s.mod[f] = t.mod[f]}

LEMMA UsedCounted ==
    ASSUME NEW s \in ValidShortcut
    PROVE  /\ Used(s) \in SUBSET Families /\ Cardinality(Used(s)) \in Nat
           /\ Size(s) = Cardinality(Used(s)) + 1
  BY FamiliesCounted DEF Used, Size, ValidShortcut

LEMMA CommonCounted ==
    ASSUME NEW s \in ValidShortcut, NEW t \in ValidShortcut
    PROVE  /\ CommonFamilies(s, t) \in SUBSET Used(s)
           /\ CommonFamilies(s, t) = CommonFamilies(t, s)
           /\ GetCommonModifiersCount(s, t) = Cardinality(CommonFamilies(s, t))
           /\ GetCommonModifiersCount(s, t) = GetCommonModifiersCount(t, s)
           /\ GetCommonModifiersCount(s, t) \in Nat
           /\ GetCommonModifiersCount(s, t) <= Cardinality(Used(s))
<1>1. CommonFamilies(s, t) \in SUBSET Used(s) /\ CommonFamilies(s, t) = CommonFamilies(t, s)
  BY DEF CommonFamilies, Used
<1>2. GetCommonModifiersCount(s, t) = Cardinality(CommonFamilies(s, t))
  BY DEF GetCommonModifiersCount, CommonFamilies
<1>3. GetCommonModifiersCount(t, s) = Cardinality(CommonFamilies(t, s))
  BY DEF GetCommonModifiersCount, CommonFamilies
<1>4. IsFiniteSet(Used(s)) /\ Cardinality(CommonFamilies(s, t)) \in Nat
  BY <1>1, FamiliesCounted DEF Used
<1>5. Cardinality(CommonFamilies(s, t)) <= Cardinality(Used(s))
  BY <1>1, <1>4, FS_Subset
<1> QED
  BY <1>1, <1>2, <1>3, <1>4, <1>5
---------------------------------------------------------------------------
(* Events *)

Flags == {"none", "single key", "shortcut"}
Event == [vk : VirtualKey \cup {VK_DISABLED}, up : BOOLEAN, flag : Flags]
Side == {"Disabled", "Left", "Right"}

LEMMA OneEvent ==
    ASSUME NEW k \in VirtualKey \cup {VK_DISABLED}, NEW up \in BOOLEAN, NEW flag \in Flags
    PROVE  SetKeyEvent(k, up, flag) \in Seq(Event) /\ Len(SetKeyEvent(k, up, flag)) = 1
<1> DEFINE event == [vk |-> k, up |-> up, flag |-> flag]
<1>1. event \in Event
  BY DEF Event
<1>2. SetKeyEvent(k, up, flag) = <<event>>
  BY DEF SetKeyEvent
<1> HIDE DEF event
<1>3. <<event>> \in Seq(Event) /\ Len(<<event>>) = 1
  BY <1>1
<1> QED
  BY <1>2, <1>3

LEMMA OptionalEvents ==
    ASSUME NEW b, NEW q \in Seq(Event), Len(q) = 1
    PROVE  Optional(b, q) \in Seq(Event) /\ Len(Optional(b, q)) = Extra(b)
<1>1. CASE b
  BY <1>1 DEF Optional, Extra
<1>2. CASE ~b
  <2>1. Optional(b, q) = <<>> /\ Extra(b) = 0
    BY <1>2 DEF Optional, Extra
  <2> QED
    BY <2>1, EmptySeq
<1> QED
  BY <1>1, <1>2

LEMMA KeysAreKeys ==
    ASSUME NEW s \in ShortcutType, NEW f \in Families, NEW win \in Side, GetKey(s, f, win) # NoKey
    PROVE  GetKey(s, f, win) \in VirtualKey
<1>1. s.mod[f] \in {"Left", "Right", "Both"}
  BY DEF ShortcutType, ModifierKey, GetKey
<1> QED
  BY <1>1 DEF GetKey, VirtualKey, Modifiers, Side

LEMMA FourEvents ==
    ASSUME NEW p \in Seq(Event), NEW q \in Seq(Event), NEW r \in Seq(Event), NEW t \in Seq(Event)
    PROVE  /\ p \o q \o r \o t \in Seq(Event)
           /\ Len(p \o q \o r \o t) = Len(p) + Len(q) + Len(r) + Len(t)
<1> DEFINE a == p \o q
           b == a \o r
<1>1. a \in Seq(Event) /\ Len(a) = Len(p) + Len(q)
  BY ConcatProperties
<1> HIDE DEF a
<1>2. b \in Seq(Event) /\ Len(b) = Len(a) + Len(r)
  BY <1>1, ConcatProperties
<1> HIDE DEF b
<1>3. b \o t \in Seq(Event) /\ Len(b \o t) = Len(b) + Len(t)
  BY <1>2, ConcatProperties
<1> QED
  BY <1>1, <1>2, <1>3 DEF a, b

LEMMA DownCounted ==
    ASSUME NEW s \in ShortcutType, NEW win \in Side, NEW flag \in Flags, NEW compare, NEW released
    PROVE  /\ ModifierKeysDown(s, win, flag, compare, released) \in Seq(Event)
           /\ Len(ModifierKeysDown(s, win, flag, compare, released)) =
                 Cardinality({f \in Families : GoesDown(s, win, compare, released, f)})
<1> DEFINE Goes == {f \in Families : GoesDown(s, win, compare, released, f)}
           Press(f) == Optional(GoesDown(s, win, compare, released, f), SetKeyEvent(GetKey(s, f, win), FALSE, flag))
<1>1. ASSUME NEW f \in Families
      PROVE  Press(f) \in Seq(Event) /\ Len(Press(f)) = Extra(f \in Goes)
  <2>1. CASE GoesDown(s, win, compare, released, f)
    <3>1. GetKey(s, f, win) \in VirtualKey
      BY <2>1, KeysAreKeys DEF GoesDown, Differs
    <3>2. SetKeyEvent(GetKey(s, f, win), FALSE, flag) \in Seq(Event)
          /\ Len(SetKeyEvent(GetKey(s, f, win), FALSE, flag)) = 1
      BY <3>1, OneEvent
    <3>3. Press(f) = SetKeyEvent(GetKey(s, f, win), FALSE, flag) /\ f \in Goes
      BY <2>1 DEF Optional
    <3> QED
      BY <3>2, <3>3 DEF Extra
  <2>2. CASE ~GoesDown(s, win, compare, released, f)
    <3>1. Press(f) = <<>> /\ f \notin Goes
      BY <2>2 DEF Optional
    <3> QED
      BY <3>1, EmptySeq DEF Extra
  <2> QED
    BY <2>1, <2>2
<1>2. {"win", "ctrl", "alt", "shift"} \subseteq Families /\ Goes \in SUBSET Families
  BY DEF Families
<1>3. ModifierKeysDown(s, win, flag, compare, released)
         = Press("win") \o Press("ctrl") \o Press("alt") \o Press("shift")
  BY DEF ModifierKeysDown
<1> HIDE DEF Press, Goes
<1>4. Cardinality(Goes) = Extra("win" \in Goes) + Extra("ctrl" \in Goes) + Extra("alt" \in Goes) + Extra("shift" \in Goes)
  BY <1>2, FamiliesCounted
<1>5. \A f \in {"win", "ctrl", "alt", "shift"} : Press(f) \in Seq(Event) /\ Len(Press(f)) = Extra(f \in Goes)
  BY <1>1, <1>2
<1>6. /\ Press("win") \o Press("ctrl") \o Press("alt") \o Press("shift") \in Seq(Event)
      /\ Len(Press("win") \o Press("ctrl") \o Press("alt") \o Press("shift"))
            = Len(Press("win")) + Len(Press("ctrl")) + Len(Press("alt")) + Len(Press("shift"))
  BY <1>5, FourEvents
<1> QED
  BY <1>3, <1>4, <1>5, <1>6 DEF Goes

LEMMA UpCounted ==
    ASSUME NEW s \in ShortcutType, NEW win \in Side, NEW flag \in Flags, NEW compare, NEW released
    PROVE  /\ ModifierKeysUp(s, win, flag, compare, released) \in Seq(Event)
           /\ Len(ModifierKeysUp(s, win, flag, compare, released)) =
                 Cardinality({f \in Families : GoesUp(s, win, compare, released, f)})
<1> DEFINE Goes == {f \in Families : GoesUp(s, win, compare, released, f)}
           Release(f) == Optional(GoesUp(s, win, compare, released, f), SetKeyEvent(GetKey(s, f, win), TRUE, flag))
<1>1. ASSUME NEW f \in Families
      PROVE  Release(f) \in Seq(Event) /\ Len(Release(f)) = Extra(f \in Goes)
  <2>1. CASE GoesUp(s, win, compare, released, f)
    <3>1. GetKey(s, f, win) \in VirtualKey
      BY <2>1, KeysAreKeys DEF GoesUp, Differs
    <3>2. SetKeyEvent(GetKey(s, f, win), TRUE, flag) \in Seq(Event)
          /\ Len(SetKeyEvent(GetKey(s, f, win), TRUE, flag)) = 1
      BY <3>1, OneEvent
    <3>3. Release(f) = SetKeyEvent(GetKey(s, f, win), TRUE, flag) /\ f \in Goes
      BY <2>1 DEF Optional
    <3> QED
      BY <3>2, <3>3 DEF Extra
  <2>2. CASE ~GoesUp(s, win, compare, released, f)
    <3>1. Release(f) = <<>> /\ f \notin Goes
      BY <2>2 DEF Optional
    <3> QED
      BY <3>1, EmptySeq DEF Extra
  <2> QED
    BY <2>1, <2>2
<1>2. {"win", "ctrl", "alt", "shift"} \subseteq Families /\ Goes \in SUBSET Families
  BY DEF Families
<1>3. ModifierKeysUp(s, win, flag, compare, released)
         = Release("shift") \o Release("alt") \o Release("ctrl") \o Release("win")
  BY DEF ModifierKeysUp
<1> HIDE DEF Release, Goes
<1>4. Cardinality(Goes) = Extra("win" \in Goes) + Extra("ctrl" \in Goes) + Extra("alt" \in Goes) + Extra("shift" \in Goes)
  BY <1>2, FamiliesCounted
<1>5. \A f \in {"win", "ctrl", "alt", "shift"} : Release(f) \in Seq(Event) /\ Len(Release(f)) = Extra(f \in Goes)
  BY <1>1, <1>2
<1>6. /\ Release("shift") \o Release("alt") \o Release("ctrl") \o Release("win") \in Seq(Event)
      /\ Len(Release("shift") \o Release("alt") \o Release("ctrl") \o Release("win"))
            = Len(Release("shift")) + Len(Release("alt")) + Len(Release("ctrl")) + Len(Release("win"))
  BY <1>5, FourEvents
<1>7. \A f \in {"win", "ctrl", "alt", "shift"} : Extra(f \in Goes) \in Nat
  BY DEF Extra
<1>8. /\ ModifierKeysUp(s, win, flag, compare, released) \in Seq(Event)
      /\ Len(ModifierKeysUp(s, win, flag, compare, released)) = Cardinality(Goes)
  <2> DEFINE w == Extra("win" \in Goes)
             c == Extra("ctrl" \in Goes)
             a == Extra("alt" \in Goes)
             h == Extra("shift" \in Goes)
  <2>1. w \in Nat /\ c \in Nat /\ a \in Nat /\ h \in Nat
    BY <1>7
  <2>2. /\ Len(ModifierKeysUp(s, win, flag, compare, released)) = h + a + c + w
        /\ Cardinality(Goes) = w + c + a + h
    BY <1>3, <1>4, <1>5, <1>6
  <2> HIDE DEF w, c, a, h
  <2>3. Len(ModifierKeysUp(s, win, flag, compare, released)) = Cardinality(Goes)
    BY <2>1, <2>2
  <2> QED
    BY <1>3, <1>6, <2>3
<1> QED
  BY <1>8 DEF Goes

---------------------------------------------------------------------------
(* How many events press or release the modifiers of s: of all of them, of *)
(* those that t does not have too, and what the key that the user has      *)
(* released takes away or adds.                                            *)

LEMMA DownWithin ==
    ASSUME NEW s \in ValidShortcut, NEW win \in Side, NEW flag \in Flags, NEW compare, NEW released,
           NEW M \in SUBSET Families,
           \A f \in Families : GoesDown(s, win, compare, released, f) => f \in M
    PROVE  /\ ModifierKeysDown(s, win, flag, compare, released) \in Seq(Event)
           /\ Len(ModifierKeysDown(s, win, flag, compare, released)) \in Nat
           /\ Len(ModifierKeysDown(s, win, flag, compare, released)) <= Cardinality(M)
<1> DEFINE Goes == {f \in Families : GoesDown(s, win, compare, released, f)}
<1>1. s \in ShortcutType
  BY DEF ValidShortcut
<1>2. ModifierKeysDown(s, win, flag, compare, released) \in Seq(Event)
      /\ Len(ModifierKeysDown(s, win, flag, compare, released)) = Cardinality(Goes)
  BY <1>1, DownCounted
<1>3. Goes \in SUBSET M /\ Goes \in SUBSET Families
  OBVIOUS
<1> HIDE DEF Goes
<1>4. IsFiniteSet(M) /\ Cardinality(Goes) \in Nat
  BY <1>3, FamiliesCounted
<1>5. Cardinality(Goes) <= Cardinality(M)
  BY <1>3, <1>4, FS_Subset
<1> QED
  BY <1>2, <1>4, <1>5

LEMMA UpWithin ==
    ASSUME NEW s \in ValidShortcut, NEW win \in Side, NEW flag \in Flags, NEW compare, NEW released,
           NEW M \in SUBSET Families,
           \A f \in Families : GoesUp(s, win, compare, released, f) => f \in M
    PROVE  /\ ModifierKeysUp(s, win, flag, compare, released) \in Seq(Event)
           /\ Len(ModifierKeysUp(s, win, flag, compare, released)) \in Nat
           /\ Len(ModifierKeysUp(s, win, flag, compare, released)) <= Cardinality(M)
<1> DEFINE Goes == {f \in Families : GoesUp(s, win, compare, released, f)}
<1>1. s \in ShortcutType
  BY DEF ValidShortcut
<1>2. ModifierKeysUp(s, win, flag, compare, released) \in Seq(Event)
      /\ Len(ModifierKeysUp(s, win, flag, compare, released)) = Cardinality(Goes)
  BY <1>1, UpCounted
<1>3. Goes \in SUBSET M /\ Goes \in SUBSET Families
  OBVIOUS
<1> HIDE DEF Goes
<1>4. IsFiniteSet(M) /\ Cardinality(Goes) \in Nat
  BY <1>3, FamiliesCounted
<1>5. Cardinality(Goes) <= Cardinality(M)
  BY <1>3, <1>4, FS_Subset
<1> QED
  BY <1>2, <1>4, <1>5

LEMMA ApartCounted ==
    ASSUME NEW s \in ValidShortcut, NEW t \in ValidShortcut
    PROVE  /\ Used(s) \ CommonFamilies(s, t) \in SUBSET Families
           /\ Cardinality(Used(s) \ CommonFamilies(s, t)) = Cardinality(Used(s)) - GetCommonModifiersCount(s, t)
<1>1. Used(s) \in SUBSET Families /\ CommonFamilies(s, t) = Used(s) \cap CommonFamilies(s, t)
      /\ GetCommonModifiersCount(s, t) = Cardinality(CommonFamilies(s, t))
  BY CommonCounted DEF Used
<1>2. IsFiniteSet(Used(s))
  BY <1>1, FamiliesCounted
<1>3. Cardinality(Used(s) \ CommonFamilies(s, t))
         = Cardinality(Used(s)) - Cardinality(Used(s) \cap CommonFamilies(s, t))
  BY <1>2, FS_Difference
<1> QED
  BY <1>1, <1>3

LEMMA OneFewer ==
    ASSUME NEW M \in SUBSET Families, NEW f \in M
    PROVE  M \ {f} \in SUBSET Families /\ Cardinality(M \ {f}) = Cardinality(M) - 1
<1>1. IsFiniteSet(M) /\ Cardinality(M) \in Nat
  BY FamiliesCounted
<1>2. Cardinality(M \ {f}) = IF f \in M THEN Cardinality(M) - 1 ELSE Cardinality(M)
  BY <1>1, FS_RemoveElement
<1> QED
  BY <1>2

LEMMA OneMore ==
    ASSUME NEW M \in SUBSET Families, NEW f \in Families
    PROVE  M \cup {f} \in SUBSET Families /\ Cardinality(M \cup {f}) <= Cardinality(M) + 1
<1>1. IsFiniteSet(M) /\ Cardinality(M) \in Nat
  BY FamiliesCounted
<1>2. Cardinality(M \cup {f}) = IF f \in M THEN Cardinality(M) ELSE Cardinality(M) + 1
  BY <1>1, FS_AddElement
<1> QED
  BY <1>1, <1>2

(* A key is looked for among the modifiers of one family only. *)
LEMMA KeysFamily ==
    ASSUME NEW s, NEW f, NEW k, CheckKey(s, f, k)
    PROVE  k[1] = f
  BY DEF CheckKey

LEMMA GetKeyOfUsed ==
    ASSUME NEW s, NEW f \in Families, NEW win, GetKey(s, f, win) # NoKey
    PROVE  f \in Used(s)
  BY DEF GetKey, Used

LEMMA DifferApart ==
    ASSUME NEW s \in ValidShortcut, NEW t \in ValidShortcut, NEW win, NEW f \in Families,
           Differs(s, win, t, f)
    PROVE  f \in Used(s) \ CommonFamilies(s, t)
<1>1. t # EmptyShortcut
  <2>1. \A g \in Families : EmptyShortcut.mod[g] = "Disabled"
    BY DEF EmptyShortcut
  <2> QED
    BY <2>1 DEF ValidShortcut, Used
<1>2. f \in Used(s) /\ GetKey(s, f, win) # GetKey(t, f, win)
  BY <1>1, GetKeyOfUsed DEF Differs
<1>3. s.mod[f] # t.mod[f]
  BY <1>2 DEF GetKey
<1> QED
  BY <1>2, <1>3 DEF CommonFamilies

LEMMA NoKeyIsNoModifier ==
    ASSUME NEW s \in ShortcutType
    PROVE  ~IsModifierOf(s, NoKey)
<1>1. NoKey \notin Modifiers
  BY KeysAssumption DEF VirtualKey
<1> SUFFICES ASSUME NEW f \in Families, CheckKey(s, f, NoKey) PROVE FALSE
  BY DEF IsModifierOf
<1>2. s.mod[f] \in {"Disabled", "Left", "Right", "Both"}
  BY DEF ShortcutType, ModifierKey
<1>3. CheckKey(s, f, NoKey) => NoKey \in Modifiers
  BY <1>2 DEF CheckKey, Modifiers
<1> QED
  BY <1>1, <1>3

LEMMA ValidFacts ==
    ASSUME NEW s \in ValidShortcut
    PROVE  Size(s) \in Int /\ ~IsModifierOf(s, NoKey)
<1>1. Size(s) \in Int
  BY UsedCounted
<1>2. s \in ShortcutType
  BY DEF ValidShortcut
<1> QED
  BY <1>1, <1>2, NoKeyIsNoModifier

LEMMA DownAll ==
    ASSUME NEW s \in ValidShortcut, NEW win \in Side, NEW flag \in Flags, NEW compare, NEW released
    PROVE  /\ ModifierKeysDown(s, win, flag, compare, released) \in Seq(Event)
           /\ Len(ModifierKeysDown(s, win, flag, compare, released)) \in Nat
           /\ Len(ModifierKeysDown(s, win, flag, compare, released)) <= Size(s) - 1
<1>1. \A f \in Families : GoesDown(s, win, compare, released, f) => f \in Used(s)
  BY GetKeyOfUsed DEF GoesDown, Differs
<1> QED
  BY <1>1, UsedCounted, DownWithin

LEMMA UpAll ==
    ASSUME NEW s \in ValidShortcut, NEW win \in Side, NEW flag \in Flags, NEW compare, NEW released
    PROVE  /\ ModifierKeysUp(s, win, flag, compare, released) \in Seq(Event)
           /\ Len(ModifierKeysUp(s, win, flag, compare, released)) \in Nat
           /\ Len(ModifierKeysUp(s, win, flag, compare, released)) <= Size(s) - 1
<1>1. \A f \in Families : GoesUp(s, win, compare, released, f) => f \in Used(s)
  BY GetKeyOfUsed DEF GoesUp, Differs
<1> QED
  BY <1>1, UsedCounted, UpWithin

LEMMA DownButReleased ==
    ASSUME NEW s \in ValidShortcut, NEW win \in Side, NEW flag \in Flags, NEW compare, NEW k,
           IsModifierOf(s, k)
    PROVE  /\ ModifierKeysDown(s, win, flag, compare, k) \in Seq(Event)
           /\ Len(ModifierKeysDown(s, win, flag, compare, k)) \in Nat
           /\ Len(ModifierKeysDown(s, win, flag, compare, k)) <= Size(s) - 2
<1>1. PICK f \in Families : CheckKey(s, f, k)
  BY DEF IsModifierOf
<1>2. f \in Used(s)
  BY <1>1 DEF CheckKey, Used
<1>3. \A g \in Families : GoesDown(s, win, compare, k, g) => g \in Used(s) \ {f}
  BY <1>1, GetKeyOfUsed DEF GoesDown, Differs
<1>4. Used(s) \ {f} \in SUBSET Families /\ Cardinality(Used(s) \ {f}) = Cardinality(Used(s)) - 1
  BY <1>2, UsedCounted, OneFewer
<1> QED
  BY <1>3, <1>4, UsedCounted, DownWithin

LEMMA DownApart ==
    ASSUME NEW s \in ValidShortcut, NEW t \in ValidShortcut, NEW win \in Side, NEW flag \in Flags, NEW released
    PROVE  /\ ModifierKeysDown(s, win, flag, t, released) \in Seq(Event)
           /\ Len(ModifierKeysDown(s, win, flag, t, released)) \in Nat
           /\ Len(ModifierKeysDown(s, win, flag, t, released)) <= Size(s) - 1 - GetCommonModifiersCount(s, t)
<1> DEFINE M == Used(s) \ CommonFamilies(s, t)
<1>1. \A f \in Families : GoesDown(s, win, t, released, f) => f \in M
  BY DifferApart DEF GoesDown
<1>2. M \in SUBSET Families /\ Cardinality(M) = Cardinality(Used(s)) - GetCommonModifiersCount(s, t)
  BY ApartCounted
<1> HIDE DEF M
<1>3. /\ ModifierKeysDown(s, win, flag, t, released) \in Seq(Event)
      /\ Len(ModifierKeysDown(s, win, flag, t, released)) \in Nat
      /\ Len(ModifierKeysDown(s, win, flag, t, released)) <= Cardinality(M)
  BY <1>1, <1>2, DownWithin
<1> QED
  BY <1>2, <1>3, UsedCounted, CommonCounted

LEMMA UpApart ==
    ASSUME NEW s \in ValidShortcut, NEW t \in ValidShortcut, NEW win \in Side, NEW flag \in Flags, NEW k,
           ~IsModifierOf(s, k)
    PROVE  /\ ModifierKeysUp(s, win, flag, t, k) \in Seq(Event)
           /\ Len(ModifierKeysUp(s, win, flag, t, k)) \in Nat
           /\ Len(ModifierKeysUp(s, win, flag, t, k)) <= Size(s) - 1 - GetCommonModifiersCount(s, t)
<1> DEFINE M == Used(s) \ CommonFamilies(s, t)
<1>1. \A f \in Families : GoesUp(s, win, t, k, f) => f \in M
  BY DifferApart DEF GoesUp, IsModifierOf
<1>2. M \in SUBSET Families /\ Cardinality(M) = Cardinality(Used(s)) - GetCommonModifiersCount(s, t)
  BY ApartCounted
<1> HIDE DEF M
<1>3. /\ ModifierKeysUp(s, win, flag, t, k) \in Seq(Event)
      /\ Len(ModifierKeysUp(s, win, flag, t, k)) \in Nat
      /\ Len(ModifierKeysUp(s, win, flag, t, k)) <= Cardinality(M)
  BY <1>1, <1>2, UpWithin
<1> QED
  BY <1>2, <1>3, UsedCounted, CommonCounted

(* A modifier of t that the user has released goes up, even if s has it.   *)
LEMMA UpAndReleased ==
    ASSUME NEW t \in ValidShortcut, NEW s \in ValidShortcut, NEW win \in Side, NEW flag \in Flags, NEW k,
           IsModifierOf(t, k)
    PROVE  /\ ModifierKeysUp(t, win, flag, s, k) \in Seq(Event)
           /\ Len(ModifierKeysUp(t, win, flag, s, k)) \in Nat
           /\ Len(ModifierKeysUp(t, win, flag, s, k)) <= Size(t) - GetCommonModifiersCount(t, s)
<1> DEFINE M == Used(t) \ CommonFamilies(t, s)
<1>1. PICK f \in Families : CheckKey(t, f, k)
  BY DEF IsModifierOf
<1>2. \A g \in Families : CheckKey(t, g, k) => g = f
  BY <1>1, KeysFamily
<1>3. \A g \in Families : GoesUp(t, win, s, k, g) => g \in M \cup {f}
  BY <1>2, DifferApart DEF GoesUp
<1>4. M \in SUBSET Families /\ Cardinality(M) = Cardinality(Used(t)) - GetCommonModifiersCount(t, s)
  BY ApartCounted
<1> HIDE DEF M
<1>5. M \cup {f} \in SUBSET Families /\ Cardinality(M \cup {f}) \in Nat
      /\ Cardinality(M \cup {f}) <= Cardinality(M) + 1
  BY <1>4, OneMore, FamiliesCounted
<1>6. /\ ModifierKeysUp(t, win, flag, s, k) \in Seq(Event)
      /\ Len(ModifierKeysUp(t, win, flag, s, k)) \in Nat
      /\ Len(ModifierKeysUp(t, win, flag, s, k)) <= Cardinality(M \cup {f})
  BY <1>3, <1>5, UpWithin
<1> QED
  BY <1>4, <1>5, <1>6, UsedCounted, CommonCounted

(* A modifier of s alone that the user has released stays up.              *)
LEMMA DownApartButReleased ==
    ASSUME NEW s \in ValidShortcut, NEW t \in ValidShortcut, NEW win \in Side, NEW flag \in Flags, NEW k,
           IsModifierOf(s, k), ~IsModifierOf(t, k)
    PROVE  /\ ModifierKeysDown(s, win, flag, t, k) \in Seq(Event)
           /\ Len(ModifierKeysDown(s, win, flag, t, k)) \in Nat
           /\ Len(ModifierKeysDown(s, win, flag, t, k)) <= Size(s) - 2 - GetCommonModifiersCount(s, t)
<1> DEFINE M == Used(s) \ CommonFamilies(s, t)
<1>1. PICK f \in Families : CheckKey(s, f, k)
  BY DEF IsModifierOf
<1>2. f \in M
  <2>1. f \in Used(s)
    BY <1>1 DEF CheckKey, Used
  <2>2. ~CheckKey(t, f, k)
    BY DEF IsModifierOf
  <2>3. s.mod[f] # t.mod[f]
    BY <1>1, <2>2 DEF CheckKey
  <2> QED
    BY <2>1, <2>3 DEF CommonFamilies
<1>3. \A g \in Families : GoesDown(s, win, t, k, g) => g \in M \ {f}
  BY <1>1, DifferApart DEF GoesDown
<1>4. M \in SUBSET Families /\ Cardinality(M) = Cardinality(Used(s)) - GetCommonModifiersCount(s, t)
  BY ApartCounted
<1> HIDE DEF M
<1>5. M \ {f} \in SUBSET Families /\ Cardinality(M \ {f}) = Cardinality(M) - 1
  BY <1>2, <1>4, OneFewer
<1>6. /\ ModifierKeysDown(s, win, flag, t, k) \in Seq(Event)
      /\ Len(ModifierKeysDown(s, win, flag, t, k)) \in Nat
      /\ Len(ModifierKeysDown(s, win, flag, t, k)) <= Cardinality(M \ {f})
  BY <1>3, <1>5, DownWithin
<1> QED
  BY <1>4, <1>5, <1>6, UsedCounted, CommonCounted

---------------------------------------------------------------------------
(* The inductive invariant.  pending is a stack of events, and at most one *)
(* shortcut of a table is taken for pressed.                               *)

Remap == [isShortcutInvoked : BOOLEAN, winKeyInvoked : Side, isOriginalActionKeyPressed : BOOLEAN]

OneInTable == \A a \in DOMAIN remaps : \A s, x \in Invoked(a) : s = x

Fits == pending \in Seq(Event) /\ spare \in Nat

EngineInv == TypeOK /\ Fits /\ OneInTable

LEMMA TargetFacts ==
    ASSUME NEW t \in TargetType
    PROVE  /\ RemapToKey(t) => /\ t.key \in VirtualKey \cup {VK_DISABLED}
                               /\ TargetKey(t) \in VirtualKey \cup {VK_DISABLED}
           /\ ~RemapToKey(t) => /\ t.shortcut \in ValidShortcut
                                /\ t.shortcut.actionKey \in VirtualKey
           /\ Disables(t) => RemapToKey(t)
<1>1. t.key \in VirtualKey \cup {VK_DISABLED} \/ (t.key = NoKey /\ t.shortcut \in ValidShortcut)
  BY DEF TargetType
<1>2. <<"win", "Left">> \in VirtualKey
  BY DEF VirtualKey, Modifiers, Families
<1>3. NoKey \notin VirtualKey \cup {VK_DISABLED}
  BY KeysAssumption
<1>4. \A s \in ValidShortcut : s.actionKey \in VirtualKey
  BY DEF ValidShortcut, ShortcutType, VirtualKey
<1> QED
  BY <1>1, <1>2, <1>3, <1>4 DEF RemapToKey, Disables, TargetKey, FilterArtificialKeys

LEMMA SendOne ==
    ASSUME NEW k \in VirtualKey \cup {VK_DISABLED}, NEW up \in BOOLEAN
    PROVE  Send(k, up) \in Seq(Event) /\ Len(Send(k, up)) = 1
  BY OneEvent DEF Send, Flags

LEMMA SendOptional ==
    ASSUME NEW k \in VirtualKey \cup {VK_DISABLED}, NEW up \in BOOLEAN, NEW b
    PROVE  /\ Optional(b, Send(k, up)) \in Seq(Event)
           /\ Len(Optional(b, Send(k, up))) = Extra(b)
           /\ Extra(b) \in {0, 1}
  BY SendOne, OptionalEvents DEF Extra

LEMMA TwoParts ==
    ASSUME NEW p \in Seq(Event), NEW q \in Seq(Event)
    PROVE  p \o q \in Seq(Event) /\ Len(p \o q) = Len(p) + Len(q)
  BY ConcatProperties

LEMMA DummyTwo == Dummy \in Seq(Event) /\ Len(Dummy) = 2
<1>1. DUMMY_KEY \in VirtualKey \cup {VK_DISABLED} /\ "shortcut" \in Flags
  BY DEF VirtualKey, Flags
<1>2. \A up \in BOOLEAN : SetKeyEvent(DUMMY_KEY, up, "shortcut") \in Seq(Event)
                          /\ Len(SetKeyEvent(DUMMY_KEY, up, "shortcut")) = 1
  BY <1>1, OneEvent
<1> DEFINE down == SetKeyEvent(DUMMY_KEY, FALSE, "shortcut")
           up == SetKeyEvent(DUMMY_KEY, TRUE, "shortcut")
<1>3. down \in Seq(Event) /\ Len(down) = 1 /\ up \in Seq(Event) /\ Len(up) = 1
  BY <1>2
<1>4. Dummy = down \o up
  BY DEF Dummy, SetDummyKeyEvent
<1> HIDE DEF down, up
<1>5. down \o up \in Seq(Event) /\ Len(down \o up) = Len(down) + Len(up)
  BY <1>3, TwoParts
<1> QED
  BY <1>3, <1>4, <1>5

LEMMA ThreeParts ==
    ASSUME NEW p \in Seq(Event), NEW q \in Seq(Event), NEW r \in Seq(Event)
    PROVE  p \o q \o r \in Seq(Event) /\ Len(p \o q \o r) = Len(p) + Len(q) + Len(r)
<1> DEFINE a == p \o q
<1>1. a \in Seq(Event) /\ Len(a) = Len(p) + Len(q)
  BY TwoParts
<1> HIDE DEF a
<1>2. a \o r \in Seq(Event) /\ Len(a \o r) = Len(a) + Len(r)
  BY <1>1, TwoParts
<1> QED
  BY <1>1, <1>2 DEF a

(* Events that fit in an array: what is pending stays a stack of events.   *)
LEMMA SentEvents ==
    ASSUME Fits, pending # <<>>, NEW n \in Int, NEW events \in Seq(Event), Len(events) <= n,
           Sends(n, events)
    PROVE  Fits'
<1>1. Tail(pending) \in Seq(Event)
  BY HeadTailProperties DEF Fits
<1>2. events \o Tail(pending) \in Seq(Event)
  BY <1>1, ConcatProperties
<1>3. Len(events) \in Nat /\ n - Len(events) \in Nat
  <2>1. Len(events) \in Nat
    BY LenProperties
  <2> QED
    BY <2>1
<1> QED
  BY <1>2, <1>3 DEF Sends, Fits

LEMMA Swallowed ==
    ASSUME Fits, pending # <<>>, Swallows
    PROVE  Fits'
<1>1. <<>> \in Seq(Event) /\ Len(<<>>) <= 0
  BY EmptySeq
<1>2. 0 \in Int /\ Sends(0, <<>>)
  BY DEF Swallows
<1> HIDE DEF Fits
<1> QED
  BY ONLY <1>1, <1>2, SentEvents, Fits, pending # <<>>

LEMMA EventFacts ==
    ASSUME Fits, pending # <<>>
    PROVE  e \in Event /\ e.vk \in VirtualKey \cup {VK_DISABLED} /\ e.up \in BOOLEAN
<1>1. e \in Event
  BY HeadTailProperties DEF Fits, e
<1> QED
  BY <1>1 DEF Event

(* What a handler reads of the tables. *)
LEMMA TableFacts ==
    ASSUME TypeOK, NEW a \in DOMAIN remaps, NEW s \in DOMAIN remaps[a]
    PROVE  /\ s \in ValidShortcut /\ s.actionKey \in VirtualKey
           /\ Target(a, s) \in TargetType
           /\ remaps[a][s] \in Remap /\ remaps[a][s].winKeyInvoked \in Side
           /\ WinKey(remaps[a][s].winKeyInvoked) \in Side
           /\ NoKey \notin VirtualKey
<1>1. config \in Config /\ a \in DOMAIN config.shortcuts
      /\ remaps[a] \in [DOMAIN config.shortcuts[a] -> Remap]
  BY DEF TypeOK, Remap, Side
<1>2. s \in DOMAIN config.shortcuts[a]
  BY <1>1
<1>3. s \in ValidShortcut /\ Target(a, s) \in TargetType
  BY <1>1, <1>2, ConfigAssumption DEF Target
<1>4. s.actionKey \in VirtualKey
  BY <1>3 DEF ValidShortcut, ShortcutType, VirtualKey
<1>5. remaps[a][s] \in Remap
  BY <1>1, <1>2
<1>6. remaps[a][s].winKeyInvoked \in Side /\ WinKey(remaps[a][s].winKeyInvoked) \in Side
  BY <1>5 DEF Remap, WinKey, Side
<1> QED
  BY <1>3, <1>4, <1>5, <1>6, KeysAssumption

---------------------------------------------------------------------------
(* Every handler sends what fits in its array.                             *)

LEMMA SingleKeyFits ==
    ASSUME EngineInv, RemapSingleKey
    PROVE  Fits'
<1> DEFINE t == config.keys[e.vk]
           sc == t.shortcut
           action == SetKeyEvent(sc.actionKey, e.up, "single key")
           up == ModifierKeysUp(sc, "Disabled", "single key", EmptyShortcut, NoKey)
           down == ModifierKeysDown(sc, "Disabled", "single key", EmptyShortcut, NoKey)
<1>1. TypeOK /\ Fits /\ pending # <<>> /\ Single
  BY DEF EngineInv, RemapSingleKey
<1>2. e.up \in BOOLEAN /\ "single key" \in Flags /\ "Disabled" \in Side
  BY <1>1, EventFacts DEF Flags, Side
<1>3. t \in TargetType
  BY <1>1, ConfigAssumption DEF TypeOK, Single
<1>4. CASE Disables(t)
  <2>1. Swallows
    BY <1>3, <1>4, TargetFacts DEF RemapSingleKey
  <2> QED
    BY <1>1, <2>1, Swallowed
<1>5. CASE RemapToKey(t) /\ ~Disables(t)
  <2> DEFINE q == SetKeyEvent(TargetKey(t), e.up, "single key")
  <2>1. Sends(1, q)
    BY <1>5 DEF RemapSingleKey
  <2>2. q \in Seq(Event) /\ Len(q) = 1
    BY <1>2, <1>3, <1>5, TargetFacts, OneEvent
  <2> HIDE DEF q
  <2>3. Len(q) <= 1 /\ 1 \in Int
    BY <2>2
  <2> QED
    BY <1>1, <2>1, <2>2, <2>3, SentEvents
<1>6. CASE ~RemapToKey(t)
  <2>1. Sends(Size(sc), IF e.up THEN action \o up ELSE down \o action)
    BY <1>3, <1>6, TargetFacts DEF RemapSingleKey
  <2>2. sc \in ValidShortcut /\ sc.actionKey \in VirtualKey
    BY <1>3, <1>6, TargetFacts
  <2>3. action \in Seq(Event) /\ Len(action) = 1
    BY <1>2, <2>2, OneEvent
  <2>4. up \in Seq(Event) /\ Len(up) \in Nat /\ Len(up) <= Size(sc) - 1
    BY <1>2, <2>2, UpAll
  <2>5. down \in Seq(Event) /\ Len(down) \in Nat /\ Len(down) <= Size(sc) - 1
    BY <1>2, <2>2, DownAll
  <2>6. Size(sc) \in Int
    BY <2>2, UsedCounted
  <2> HIDE DEF action, up, down
  <2>7. CASE e.up
    <3>1. action \o up \in Seq(Event) /\ Len(action \o up) = Len(action) + Len(up)
      BY <2>3, <2>4, TwoParts
    <3>2. Len(action \o up) <= Size(sc) /\ Sends(Size(sc), action \o up)
      BY <2>1, <2>3, <2>4, <2>6, <2>7, <3>1
    <3> QED
      BY <1>1, <2>6, <3>1, <3>2, SentEvents
  <2>8. CASE ~e.up
    <3>1. down \o action \in Seq(Event) /\ Len(down \o action) = Len(down) + Len(action)
      BY <2>3, <2>5, TwoParts
    <3>2. Len(down \o action) <= Size(sc) /\ Sends(Size(sc), down \o action)
      BY <2>1, <2>3, <2>5, <2>6, <2>8, <3>1
    <3> QED
      BY <1>1, <2>6, <3>1, <3>2, SentEvents
  <2> QED
    BY <2>7, <2>8
<1> QED
  BY <1>4, <1>5, <1>6

(* What all the handlers of shortcuts start from. *)
LEMMA HandledFacts ==
    ASSUME EngineInv, NEW a \in DOMAIN remaps, NEW s \in DOMAIN remaps[a], NEW case, Handled(a, s, case)
    PROVE  /\ TypeOK /\ Fits /\ pending # <<>>
           /\ e.vk \in VirtualKey \cup {VK_DISABLED} /\ e.up \in BOOLEAN
           /\ s \in ValidShortcut /\ s.actionKey \in VirtualKey
           /\ Target(a, s) \in TargetType
           /\ remaps[a][s].winKeyInvoked \in Side
           /\ WinKey(remaps[a][s].winKeyInvoked) \in Side
           /\ Size(s) \in Int /\ "shortcut" \in Flags /\ ~IsModifierOf(s, NoKey)
<1>1. TypeOK /\ Fits /\ pending # <<>>
  BY DEF EngineInv, Handled
<1>2. e.vk \in VirtualKey \cup {VK_DISABLED} /\ e.up \in BOOLEAN
  BY <1>1, EventFacts
<1>3. /\ s \in ValidShortcut /\ s.actionKey \in VirtualKey
      /\ Target(a, s) \in TargetType
      /\ remaps[a][s].winKeyInvoked \in Side
      /\ WinKey(remaps[a][s].winKeyInvoked) \in Side
  BY <1>1, TableFacts
<1>4. Size(s) \in Int
  BY <1>3, UsedCounted
<1>5. ~IsModifierOf(s, NoKey)
  BY <1>3, NoKeyIsNoModifier DEF ValidShortcut
<1> QED
  BY <1>1, <1>2, <1>3, <1>4, <1>5 DEF Flags

LEMMA ShortcutToShortcutFits ==
    ASSUME EngineInv, NEW a \in DOMAIN remaps, NEW s \in DOMAIN remaps[a], ShortcutToShortcut(a, s)
    PROVE  Fits'
<1> DEFINE t == Target(a, s).shortcut
           win == WinKey(remaps[a][s].winKeyInvoked)
           common == GetCommonModifiersCount(s, t)
           down == Down(t, win, s, NoKey)
           up == Up(s, win, t, NoKey)
           action == Send(t.actionKey, FALSE)
<1>1. Handled(a, s, "pressed") /\ ~RemapToKey(Target(a, s))
  BY DEF ShortcutToShortcut
<1>2. /\ Fits /\ pending # <<>> /\ s \in ValidShortcut /\ Target(a, s) \in TargetType
      /\ win \in Side /\ Size(s) \in Int /\ "shortcut" \in Flags /\ ~IsModifierOf(s, NoKey)
  BY <1>1, HandledFacts
<1>3. t \in ValidShortcut /\ t.actionKey \in VirtualKey
  BY <1>1, <1>2, TargetFacts
<1>4. Size(t) \in Int /\ common \in Int /\ common = GetCommonModifiersCount(t, s)
  BY <1>2, <1>3, UsedCounted, CommonCounted
<1>5. down \in Seq(Event) /\ Len(down) \in Nat /\ Len(down) <= Size(t) - 1 - common
  BY <1>2, <1>3, <1>4, DownApart DEF Down
<1>6. up \in Seq(Event) /\ Len(up) \in Nat /\ Len(up) <= Size(s) - 1 - common
  BY <1>2, <1>3, UpApart DEF Up
<1>7. action \in Seq(Event) /\ Len(action) = 1
  BY <1>3, SendOne
<1>8. IF common = Size(s) - 1
      THEN Sends(Size(t) - common, down \o action)
      ELSE Sends(2 + (Size(s) - 1) + Size(t) - 2 * common, Dummy \o up \o (down \o action))
  BY DEF ShortcutToShortcut
<1> HIDE DEF t, win, common, down, up, action
<1>9. down \o action \in Seq(Event) /\ Len(down \o action) = Len(down) + 1
  BY <1>5, <1>7, TwoParts
<1> DEFINE new == down \o action
           q == Dummy \o up \o new
<1> HIDE DEF new
<1>10. q \in Seq(Event) /\ Len(q) = Len(Dummy) + Len(up) + Len(new)
  BY <1>6, <1>9, DummyTwo, ThreeParts DEF new
<1> HIDE DEF q
<1>11. CASE common = Size(s) - 1
  <2>1. Len(new) <= Size(t) - common /\ Size(t) - common \in Int
    BY <1>4, <1>5, <1>9 DEF new
  <2>2. Sends(Size(t) - common, new)
    BY <1>8, <1>11 DEF new
  <2> QED
    BY <1>2, <1>9, <2>1, <2>2, SentEvents DEF new
<1>12. CASE common # Size(s) - 1
  <2> DEFINE n == 2 + (Size(s) - 1) + Size(t) - 2 * common
  <2>1. Len(new) = Len(down) + 1 /\ Len(Dummy) = 2
    BY <1>9, DummyTwo DEF new
  <2>2. n \in Int /\ Len(q) <= n
    BY <1>2, <1>4, <1>5, <1>6, <1>10, <2>1, SMTT(30)
  <2>3. Sends(n, q)
    BY <1>8, <1>12 DEF new, q
  <2> QED
    BY <1>2, <1>10, <2>2, <2>3, SentEvents
<1> QED
  BY <1>11, <1>12

LEMMA ShortcutToKeyFits ==
    ASSUME EngineInv, NEW a \in DOMAIN remaps, NEW s \in DOMAIN remaps[a], ShortcutToKey(a, s)
    PROVE  Fits'
<1> DEFINE t == Target(a, s)
           win == WinKey(remaps[a][s].winKeyInvoked)
           up == Up(s, win, EmptyShortcut, NoKey)
           key == Optional(~Disables(t), Send(TargetKey(t), FALSE))
           n == 2 + (Size(s) - 1) + Extra(~Disables(t))
<1>1. Handled(a, s, "pressed") /\ RemapToKey(t)
  BY DEF ShortcutToKey
<1>2. /\ Fits /\ pending # <<>> /\ s \in ValidShortcut /\ t \in TargetType
      /\ win \in Side /\ Size(s) \in Int /\ "shortcut" \in Flags
  BY <1>1, HandledFacts
<1>3. up \in Seq(Event) /\ Len(up) \in Nat /\ Len(up) <= Size(s) - 1
  BY <1>2, UpAll DEF Up
<1>4. key \in Seq(Event) /\ Len(key) = Extra(~Disables(t)) /\ Extra(~Disables(t)) \in {0, 1}
  BY <1>1, <1>2, TargetFacts, SendOptional
<1>5. Sends(n, Dummy \o up \o key)
  BY DEF ShortcutToKey
<1> HIDE DEF up, key
<1>6. Dummy \o up \o key \in Seq(Event) /\ Len(Dummy \o up \o key) = Len(Dummy) + Len(up) + Len(key)
  BY <1>3, <1>4, DummyTwo, ThreeParts
<1>7. n \in Int /\ Len(Dummy \o up \o key) <= n
  BY <1>2, <1>3, <1>4, <1>6, DummyTwo
<1> QED
  BY <1>2, <1>5, <1>6, <1>7, SentEvents

LEMMA CaseFacts ==
    ASSUME NEW a, NEW s
    PROVE  /\ Case(a, s) = "pressed" => ~remaps[a][s].isShortcutInvoked
           /\ Case(a, s) = "modifier released" => IsModifierOf(s, e.vk)
           /\ Case(a, s) = "other key" => remaps[a][s].isShortcutInvoked /\ e.vk # s.actionKey
  BY DEF Case

LEMMA ModifierReleasedFits ==
    ASSUME EngineInv, NEW a \in DOMAIN remaps, NEW s \in DOMAIN remaps[a], ModifierReleased(a, s)
    PROVE  Fits'
<1> DEFINE t == Target(a, s)
           sc == t.shortcut
           win == remaps[a][s].winKeyInvoked
           pressed == IsTargetPressed(t) /\ ~Disables(t)
           x == Extra(pressed)
<1>1. Handled(a, s, "modifier released")
  BY DEF ModifierReleased
<1>2. /\ Fits /\ pending # <<>> /\ s \in ValidShortcut /\ t \in TargetType
      /\ win \in Side /\ Size(s) \in Int /\ "shortcut" \in Flags
  BY <1>1, HandledFacts
<1>3. IsModifierOf(s, e.vk)
  BY <1>1, CaseFacts DEF Handled
<1>4. x \in {0, 1}
  BY DEF Extra
<1>5. CASE RemapToKey(t)
  <2> DEFINE key == Optional(pressed, Send(TargetKey(t), TRUE))
             down == Down(s, win, EmptyShortcut, e.vk)
             q == key \o down \o Dummy
             n == Size(s) - 1 + 2 + x - 1
  <2>1. key \in Seq(Event) /\ Len(key) = x
    BY <1>2, <1>5, TargetFacts, SendOptional
  <2>2. down \in Seq(Event) /\ Len(down) \in Nat /\ Len(down) <= Size(s) - 2
    BY <1>2, <1>3, DownButReleased DEF Down
  <2>3. Sends(n, q)
    BY <1>5 DEF ModifierReleased
  <2> HIDE DEF key, down
  <2>4. q \in Seq(Event) /\ Len(q) = Len(key) + Len(down) + Len(Dummy)
    BY <2>1, <2>2, DummyTwo, ThreeParts
  <2> HIDE DEF q, x
  <2>5. n \in Int /\ Len(q) <= n
    BY <1>2, <1>4, <2>1, <2>2, <2>4, DummyTwo
  <2> QED
    BY <1>2, <2>3, <2>4, <2>5, SentEvents
<1>6. CASE ~RemapToKey(t)
  <2> DEFINE common == GetCommonModifiersCount(s, sc)
             key == Optional(pressed, Send(sc.actionKey, TRUE))
             up == Up(sc, win, s, e.vk)
             down == Down(s, win, sc, e.vk)
             q == key \o up \o down \o Dummy
             n == (IF IsModifierOf(sc, e.vk)
                   THEN (Size(sc) - common) + (Size(s) - 1 - common)
                   ELSE (Size(sc) - 1) + (Size(s) - 2) - 2 * common) + 2 + x
  <2>1. sc \in ValidShortcut /\ sc.actionKey \in VirtualKey
    BY <1>2, <1>6, TargetFacts
  <2>2. Size(sc) \in Int /\ common \in Int /\ common = GetCommonModifiersCount(sc, s)
    BY <1>2, <2>1, UsedCounted, CommonCounted
  <2>3. key \in Seq(Event) /\ Len(key) = x
    BY <2>1, SendOptional
  <2>4. Sends(n, q)
    BY <1>6 DEF ModifierReleased
  <2>5. /\ up \in Seq(Event) /\ Len(up) \in Nat /\ down \in Seq(Event) /\ Len(down) \in Nat
        /\ n \in Int /\ Len(up) + Len(down) + 2 + x <= n
    <3>1. CASE IsModifierOf(sc, e.vk)
      <4>1. up \in Seq(Event) /\ Len(up) \in Nat /\ Len(up) <= Size(sc) - common
        BY <1>2, <2>1, <2>2, <3>1, UpAndReleased DEF Up
      <4>2. down \in Seq(Event) /\ Len(down) \in Nat /\ Len(down) <= Size(s) - 1 - common
        BY <1>2, <2>1, DownApart DEF Down
      <4>3. n = (Size(sc) - common) + (Size(s) - 1 - common) + 2 + x
        BY <3>1
      <4> HIDE DEF up, down, n, x, common
      <4> QED
        BY <1>2, <1>4, <2>2, <4>1, <4>2, <4>3
    <3>2. CASE ~IsModifierOf(sc, e.vk)
      <4>1. up \in Seq(Event) /\ Len(up) \in Nat /\ Len(up) <= Size(sc) - 1 - common
        BY <1>2, <2>1, <2>2, <3>2, UpApart DEF Up
      <4>2. down \in Seq(Event) /\ Len(down) \in Nat /\ Len(down) <= Size(s) - 2 - common
        BY <1>2, <1>3, <2>1, <3>2, DownApartButReleased DEF Down
      <4>3. n = (Size(sc) - 1) + (Size(s) - 2) - 2 * common + 2 + x
        BY <3>2
      <4> HIDE DEF up, down, n, x, common
      <4> QED
        BY <1>2, <1>4, <2>2, <4>1, <4>2, <4>3
    <3> QED
      BY <3>1, <3>2
  <2> HIDE DEF key, up, down, n
  <2>6. q \in Seq(Event) /\ Len(q) = Len(key) + Len(up) + Len(down) + Len(Dummy)
    <3>1. /\ key \in Seq(Event) /\ up \in Seq(Event)
          /\ down \in Seq(Event) /\ Dummy \in Seq(Event)
      BY <2>3, <2>5, DummyTwo
    <3> QED
      BY ONLY <3>1, FourEvents
  <2> HIDE DEF q, x
  <2>7. Len(q) <= n
    BY <1>4, <2>3, <2>5, <2>6, DummyTwo
  <2> QED
    BY <1>2, <2>4, <2>5, <2>6, <2>7, SentEvents
<1> QED
  BY <1>5, <1>6

LEMMA ActionKeyRepeatedFits ==
    ASSUME EngineInv, NEW a \in DOMAIN remaps, NEW s \in DOMAIN remaps[a], ActionKeyRepeated(a, s)
    PROVE  Fits'
<1> DEFINE t == Target(a, s)
           q == Send(IF RemapToKey(t) THEN TargetKey(t) ELSE t.shortcut.actionKey, FALSE)
<1>1. Handled(a, s, "repeated")
  BY DEF ActionKeyRepeated
<1>2. Fits /\ pending # <<>> /\ t \in TargetType
  BY <1>1, HandledFacts
<1>3. q \in Seq(Event) /\ Len(q) = 1
  BY <1>2, TargetFacts, SendOne
<1>4. CASE Disables(t)
  <2>1. Swallows
    BY <1>4 DEF ActionKeyRepeated
  <2> QED
    BY <1>2, <2>1, Swallowed
<1>5. CASE ~Disables(t)
  <2>1. Sends(1, q)
    BY <1>5 DEF ActionKeyRepeated
  <2> HIDE DEF q
  <2>2. 1 \in Int /\ Len(q) <= 1
    BY <1>3
  <2> QED
    BY <1>2, <1>3, <2>1, <2>2, SentEvents
<1> QED
  BY <1>4, <1>5

(* A target is a disabled one, a shortcut or a key: the cases of           *)
(* ActionKeyReleased.                                                      *)
LEMMA ReleasedCases ==
    ASSUME NEW a \in DOMAIN remaps, NEW s \in DOMAIN remaps[a], ActionKeyReleased(a, s),
           NEW t \in TargetType, t = Target(a, s)
    PROVE  \/ /\ Disables(t) /\ Swallows
              /\ remaps' = [remaps EXCEPT ![a][s].isOriginalActionKeyPressed = FALSE]
              /\ UNCHANGED activatedApp
           \/ /\ ~RemapToKey(t)
              /\ Sends(1, Send(t.shortcut.actionKey, TRUE))
              /\ UNCHANGED <<remaps, activatedApp>>
           \/ /\ RemapToKey(t)
              /\ Sends(1, Send(TargetKey(t), TRUE))
              /\ UNCHANGED <<remaps, activatedApp>>
           \/ /\ RemapToKey(t)
              /\ Sends(1 + (Size(s) - 1) + 2,
                       Send(TargetKey(t), TRUE)
                       \o Down(s, remaps[a][s].winKeyInvoked, EmptyShortcut, NoKey) \o Dummy)
              /\ Reset(a, s)
              /\ activatedApp' = NoActivatedApp
<1> DEFINE clear == IsKeyboardStateClearExceptShortcut(
                       IF TargetKey(t) \in Modifiers THEN SetKeyCodes({TargetKey(t)}, NoKey)
                                                     ELSE SetKeyCodes({}, TargetKey(t)), keys)
<1>1. Disables(t) => RemapToKey(t)
  BY TargetFacts
<1>2. CASE Disables(t)
  BY <1>1, <1>2 DEF ActionKeyReleased
<1>3. CASE ~RemapToKey(t)
  BY <1>1, <1>3 DEF ActionKeyReleased
<1>4. CASE RemapToKey(t) /\ ~Disables(t) /\ clear
  BY <1>4 DEF ActionKeyReleased
<1>5. CASE RemapToKey(t) /\ ~Disables(t) /\ ~clear
  BY <1>5 DEF ActionKeyReleased
<1> QED
  BY <1>2, <1>3, <1>4, <1>5

LEMMA ActionKeyReleasedFits ==
    ASSUME EngineInv, NEW a \in DOMAIN remaps, NEW s \in DOMAIN remaps[a], ActionKeyReleased(a, s)
    PROVE  Fits'
<1> DEFINE t == Target(a, s)
           win == remaps[a][s].winKeyInvoked
           key == Send(TargetKey(t), TRUE)
           action == Send(t.shortcut.actionKey, TRUE)
           down == Down(s, win, EmptyShortcut, NoKey)
           q == key \o down \o Dummy
           n == 1 + (Size(s) - 1) + 2
<1>1. Handled(a, s, "action key released")
  BY DEF ActionKeyReleased
<1>2. /\ Fits /\ pending # <<>> /\ s \in ValidShortcut /\ t \in TargetType
      /\ win \in Side /\ Size(s) \in Int /\ "shortcut" \in Flags
  BY <1>1, HandledFacts
<1>3. \/ Swallows
      \/ ~RemapToKey(t) /\ Sends(1, action)
      \/ RemapToKey(t) /\ Sends(1, key)
      \/ RemapToKey(t) /\ Sends(n, q)
  BY <1>2, ReleasedCases
<1>4. RemapToKey(t) => key \in Seq(Event) /\ Len(key) = 1
  BY <1>2, TargetFacts, SendOne
<1>5. ~RemapToKey(t) => action \in Seq(Event) /\ Len(action) = 1
  BY <1>2, TargetFacts, SendOne
<1>6. down \in Seq(Event) /\ Len(down) \in Nat /\ Len(down) <= Size(s) - 1
  BY <1>2, DownAll DEF Down
<1> HIDE DEF key, action, down
<1>7. CASE Swallows
  BY <1>2, <1>7, Swallowed
<1>8. CASE ~RemapToKey(t) /\ Sends(1, action)
  <2>1. action \in Seq(Event) /\ Len(action) = 1
    BY <1>5, <1>8
  <2>2. 1 \in Int /\ Len(action) <= 1
    BY <2>1
  <2> QED
    BY <1>2, <1>8, <2>1, <2>2, SentEvents
<1>9. CASE RemapToKey(t) /\ Sends(1, key)
  <2>1. key \in Seq(Event) /\ Len(key) = 1
    BY <1>4, <1>9
  <2>2. 1 \in Int /\ Len(key) <= 1
    BY <2>1
  <2> QED
    BY <1>2, <1>9, <2>1, <2>2, SentEvents
<1>10. CASE RemapToKey(t) /\ Sends(n, q)
  <2>1. key \in Seq(Event) /\ Len(key) = 1
    BY <1>4, <1>10
  <2>2. q \in Seq(Event) /\ Len(q) = Len(key) + Len(down) + Len(Dummy)
    BY <1>6, <2>1, DummyTwo, ThreeParts
  <2> HIDE DEF q
  <2>3. n \in Int /\ Len(q) <= n
    BY <1>2, <1>6, <2>1, <2>2, DummyTwo
  <2> QED
    BY <1>2, <1>10, <2>2, <2>3, SentEvents
<1> QED
  BY <1>3, <1>7, <1>8, <1>9, <1>10

LEMMA SumNext ==
    ASSUME NEW p \in Int, NEW q \in Int, NEW c \in Int, NEW x \in {0, 1}, NEW u \in Nat, NEW d \in Nat,
           u <= p - 1 - c, d <= q - 1 - c
    PROVE  /\ (p - 1) + (q - 1) - 2 * c + 1 + x \in Int
           /\ u + x + d + 1 <= (p - 1) + (q - 1) - 2 * c + 1 + x
  OBVIOUS

LEMMA SumRevert ==
    ASSUME NEW p \in Int, NEW q \in Int, NEW c \in Int, NEW x \in {0, 1}, NEW u \in Nat, NEW d \in Nat,
           u <= p - 1 - c, d <= q - 1 - c
    PROVE  /\ p + (q - 1) - 2 * c + 2 * x \in Int
           /\ x + u + d + x + 1 <= p + (q - 1) - 2 * c + 2 * x
  OBVIOUS

(* With(s) is another shortcut of the table, with a target of its own.     *)
LEMMA WithFacts ==
    ASSUME TypeOK, NEW a \in DOMAIN remaps, NEW s, With(s) \in DOMAIN remaps[a]
    PROVE  Target(a, With(s)) \in TargetType
  BY TableFacts

LEMMA NextShortcutFits ==
    ASSUME EngineInv, NEW a \in DOMAIN remaps, NEW s \in DOMAIN remaps[a], NextShortcut(a, s)
    PROVE  Fits'
<1> DEFINE from == Target(a, s).shortcut
           t == Target(a, With(s))
           to == t.shortcut
           pressed == from.actionKey \in keys
           x == Extra(pressed)
           win == remaps[a][s].winKeyInvoked
           lastUp == Optional(pressed, Send(from.actionKey, TRUE))
           common == GetCommonModifiersCount(from, to)
           up == Up(from, win, to, NoKey)
           allUp == Up(from, win, EmptyShortcut, NoKey)
           down == Down(to, win, from, NoKey)
           action == Send(to.actionKey, FALSE)
           key == Send(t.key, FALSE)
<1>1. Handled(a, s, "other key") /\ ~RemapToKey(Target(a, s)) /\ With(s) \in DOMAIN remaps[a]
  BY DEF NextShortcut
<1>2. /\ TypeOK /\ Fits /\ pending # <<>> /\ Target(a, s) \in TargetType
      /\ win \in Side /\ "shortcut" \in Flags
  BY <1>1, HandledFacts
<1>3. t \in TargetType
  BY <1>1, <1>2, WithFacts
<1>4. from \in ValidShortcut /\ from.actionKey \in VirtualKey /\ Size(from) \in Int
      /\ ~IsModifierOf(from, NoKey)
  BY <1>1, <1>2, TargetFacts, ValidFacts
<1>5. lastUp \in Seq(Event) /\ Len(lastUp) = x /\ x \in {0, 1}
  BY <1>4, SendOptional
<1>6. CASE RemapToKey(t)
  <2> DEFINE q == allUp \o lastUp \o key
             n == Size(from) - 1 + 1 + x
  <2>1. allUp \in Seq(Event) /\ Len(allUp) \in Nat /\ Len(allUp) <= Size(from) - 1
    BY <1>2, <1>4, UpAll DEF Up
  <2>2. key \in Seq(Event) /\ Len(key) = 1
    BY <1>3, <1>6, TargetFacts, SendOne
  <2>3. Sends(n, q)
    BY <1>6 DEF NextShortcut
  <2> HIDE DEF allUp, lastUp, key
  <2>4. q \in Seq(Event) /\ Len(q) = Len(allUp) + Len(lastUp) + Len(key)
    BY <1>5, <2>1, <2>2, ThreeParts
  <2> HIDE DEF q, x
  <2>5. n \in Int /\ Len(q) <= n
    BY <1>4, <1>5, <2>1, <2>2, <2>4
  <2> QED
    BY <1>2, <2>3, <2>4, <2>5, SentEvents
<1>7. CASE ~RemapToKey(t)
  <2> DEFINE q == up \o lastUp \o down \o action
             n == (Size(from) - 1) + (Size(to) - 1) - 2 * common + 1 + x
  <2>1. to \in ValidShortcut /\ to.actionKey \in VirtualKey /\ Size(to) \in Int
    BY <1>3, <1>7, TargetFacts, ValidFacts
  <2>2. common \in Int /\ common = GetCommonModifiersCount(to, from)
    BY <1>4, <2>1, CommonCounted
  <2>3. up \in Seq(Event) /\ Len(up) \in Nat /\ Len(up) <= Size(from) - 1 - common
    BY <1>2, <1>4, <2>1, UpApart DEF Up
  <2>4. down \in Seq(Event) /\ Len(down) \in Nat /\ Len(down) <= Size(to) - 1 - common
    BY <1>2, <1>4, <2>1, <2>2, DownApart DEF Down
  <2>5. action \in Seq(Event) /\ Len(action) = 1
    BY <2>1, SendOne
  <2>6. Sends(n, q)
    BY <1>7 DEF NextShortcut
  <2> HIDE DEF up, lastUp, down, action, x, common
  <2>7. q \in Seq(Event) /\ Len(q) = Len(up) + Len(lastUp) + Len(down) + Len(action)
    <3>1. up \in Seq(Event) /\ lastUp \in Seq(Event) /\ down \in Seq(Event) /\ action \in Seq(Event)
      BY <1>5, <2>3, <2>4, <2>5
    <3> QED
      BY <3>1, FourEvents
  <2> HIDE DEF q
  <2>8. n \in Int /\ Len(up) + x + Len(down) + 1 <= n
    BY <1>4, <1>5, <2>1, <2>2, <2>3, <2>4, SumNext
  <2>9. Len(q) <= n
    BY <1>5, <2>5, <2>7, <2>8
  <2> QED
    BY <1>2, <2>6, <2>7, <2>8, <2>9, SentEvents
<1> QED
  BY <1>6, <1>7

LEMMA UserEvent ==
    ASSUME NEW k \in VirtualKey \cup {VK_DISABLED}, NEW up \in BOOLEAN
    PROVE  SetKeyEvent(k, up, "none") \in Seq(Event) /\ Len(SetKeyEvent(k, up, "none")) = 1
  BY OneEvent DEF Flags

LEMMA RevertShortcutFits ==
    ASSUME EngineInv, NEW a \in DOMAIN remaps, NEW s \in DOMAIN remaps[a], RevertShortcut(a, s)
    PROVE  Fits'
<1> DEFINE t == Target(a, s).shortcut
           win == remaps[a][s].winKeyInvoked
           pressed == t.actionKey \in keys
           x == Extra(pressed)
           common == GetCommonModifiersCount(s, t)
           targetUp == Optional(pressed, Send(t.actionKey, TRUE))
           up == Up(t, win, s, NoKey)
           down == Down(s, win, t, NoKey)
           actionDown == Optional(pressed, Send(s.actionKey, FALSE))
           key == SetKeyEvent(e.vk, FALSE, "none")
           four == targetUp \o up \o down \o actionDown
           q == four \o key
           n == Size(t) + (Size(s) - 1) - 2 * common + 2 * x
<1>1. Handled(a, s, "other key") /\ ~RemapToKey(Target(a, s))
  BY DEF RevertShortcut
<1>2. /\ Fits /\ pending # <<>> /\ Target(a, s) \in TargetType
      /\ e.vk \in VirtualKey \cup {VK_DISABLED}
      /\ s \in ValidShortcut /\ s.actionKey \in VirtualKey /\ Size(s) \in Int
      /\ win \in Side /\ "shortcut" \in Flags
  BY <1>1, HandledFacts
<1>3. t \in ValidShortcut /\ t.actionKey \in VirtualKey /\ Size(t) \in Int /\ ~IsModifierOf(t, NoKey)
  BY <1>1, <1>2, TargetFacts, ValidFacts
<1>4. common \in Int /\ common = GetCommonModifiersCount(t, s)
  BY <1>2, <1>3, CommonCounted
<1>5. targetUp \in Seq(Event) /\ Len(targetUp) = x /\ x \in {0, 1}
  BY <1>3, SendOptional
<1>6. actionDown \in Seq(Event) /\ Len(actionDown) = x
  BY <1>2, SendOptional
<1>7. up \in Seq(Event) /\ Len(up) \in Nat /\ Len(up) <= Size(t) - 1 - common
  BY <1>2, <1>3, <1>4, UpApart DEF Up
<1>8. down \in Seq(Event) /\ Len(down) \in Nat /\ Len(down) <= Size(s) - 1 - common
  BY <1>2, <1>3, DownApart DEF Down
<1>9. key \in Seq(Event) /\ Len(key) = 1
  BY <1>2, UserEvent
<1>10. Sends(n, q)
  BY DEF RevertShortcut
<1> HIDE DEF targetUp, up, down, actionDown, key
<1>11. four \in Seq(Event) /\ Len(four) = Len(targetUp) + Len(up) + Len(down) + Len(actionDown)
  <2>1. /\ targetUp \in Seq(Event) /\ up \in Seq(Event)
        /\ down \in Seq(Event) /\ actionDown \in Seq(Event)
    BY <1>5, <1>6, <1>7, <1>8
  <2> QED
    BY <2>1, FourEvents
<1> HIDE DEF four
<1>12. q \in Seq(Event) /\ Len(q) = Len(four) + Len(key)
  BY <1>9, <1>11, TwoParts
<1> HIDE DEF q, x, common
<1>13. n \in Int /\ x + Len(up) + Len(down) + x + 1 <= n
  BY <1>2, <1>3, <1>4, <1>5, <1>7, <1>8, SumRevert
<1>14. Len(q) <= n
  BY <1>5, <1>6, <1>9, <1>11, <1>12, <1>13
<1> QED
  BY <1>2, <1>10, <1>12, <1>13, <1>14, SentEvents

LEMMA RevertKeyFits ==
    ASSUME EngineInv, NEW a \in DOMAIN remaps, NEW s \in DOMAIN remaps[a], RevertKey(a, s)
    PROVE  Fits'
<1> DEFINE r == remaps[a][s]
           original == Disables(Target(a, s)) /\ r.isOriginalActionKeyPressed
           x == Extra(original)
           down == Down(s, r.winKeyInvoked, EmptyShortcut, NoKey)
           actionDown == Optional(original, Send(s.actionKey, FALSE))
           key == SetKeyEvent(e.vk, FALSE, "none")
           q == down \o actionDown \o key
           n == Size(s) + x
<1>1. Handled(a, s, "other key")
  BY DEF RevertKey
<1>2. /\ Fits /\ pending # <<>> /\ e.vk \in VirtualKey \cup {VK_DISABLED}
      /\ s \in ValidShortcut /\ s.actionKey \in VirtualKey /\ Size(s) \in Int
      /\ r.winKeyInvoked \in Side /\ "shortcut" \in Flags
  BY <1>1, HandledFacts
<1>3. down \in Seq(Event) /\ Len(down) \in Nat /\ Len(down) <= Size(s) - 1
  BY <1>2, DownAll DEF Down
<1>4. actionDown \in Seq(Event) /\ Len(actionDown) = x /\ x \in {0, 1}
  BY <1>2, SendOptional
<1>5. key \in Seq(Event) /\ Len(key) = 1
  BY <1>2, UserEvent
<1>6. Sends(n, q)
  BY DEF RevertKey
<1> HIDE DEF down, actionDown, key
<1>7. q \in Seq(Event) /\ Len(q) = Len(down) + Len(actionDown) + Len(key)
  BY <1>3, <1>4, <1>5, ThreeParts
<1> HIDE DEF q, x
<1>8. n \in Int /\ Len(q) <= n
  BY <1>2, <1>3, <1>4, <1>5, <1>7
<1> QED
  BY <1>2, <1>6, <1>7, <1>8, SentEvents

---------------------------------------------------------------------------
(* Every handler keeps the tables as they should be.                       *)

TablesOK ==
    /\ config \in Config
    /\ DOMAIN remaps = DOMAIN config.shortcuts
    /\ \A a \in DOMAIN remaps : remaps[a] \in [DOMAIN config.shortcuts[a] -> Remap]

LEMMA TypesOfTables == ASSUME TypeOK PROVE TablesOK
  BY DEF TypeOK, TablesOK, Remap, Side

(* A handler that changes one table. *)
LEMMA ChangedTable ==
    ASSUME TablesOK, OneInTable, UNCHANGED config, NEW a \in DOMAIN remaps,
           DOMAIN remaps' = DOMAIN remaps,
           \A b \in DOMAIN remaps \ {a} : remaps'[b] = remaps[b],
           remaps'[a] \in [DOMAIN remaps[a] -> Remap],
           \A x, y \in DOMAIN remaps[a] :
              remaps'[a][x].isShortcutInvoked /\ remaps'[a][y].isShortcutInvoked => x = y
    PROVE  TablesOK' /\ OneInTable'
<1>1. \A b \in DOMAIN remaps' : remaps'[b] \in [DOMAIN config'.shortcuts[b] -> Remap]
  <2> SUFFICES ASSUME NEW b \in DOMAIN remaps' PROVE remaps'[b] \in [DOMAIN config.shortcuts[b] -> Remap]
    OBVIOUS
  <2>1. CASE b = a
    <3>1. DOMAIN remaps[a] = DOMAIN config.shortcuts[a]
      BY DEF TablesOK
    <3> QED
      BY <2>1, <3>1
  <2>2. CASE b # a
    BY <2>2 DEF TablesOK
  <2> QED
    BY <2>1, <2>2
<1>2. TablesOK'
  BY <1>1 DEF TablesOK
<1>3. OneInTable'
  <2> SUFFICES ASSUME NEW b \in DOMAIN remaps',
                      NEW x \in DOMAIN remaps'[b], NEW y \in DOMAIN remaps'[b],
                      remaps'[b][x].isShortcutInvoked, remaps'[b][y].isShortcutInvoked
               PROVE  x = y
    BY DEF OneInTable, Invoked
  <2>1. CASE b = a
    BY <2>1
  <2>2. CASE b # a
    BY <2>2 DEF OneInTable, Invoked
  <2> QED
    BY <2>1, <2>2
<1> QED
  BY <1>2, <1>3

(* A handler that changes what it keeps of one shortcut: that becomes      *)
(* invoked only when no other of its table is.                             *)
LEMMA ChangedRemap ==
    ASSUME TablesOK, OneInTable, UNCHANGED config,
           NEW a \in DOMAIN remaps, NEW s \in DOMAIN remaps[a],
           NEW v, v \in Remap, remaps' = [remaps EXCEPT ![a][s] = v],
           v.isShortcutInvoked => remaps[a][s].isShortcutInvoked \/ Invoked(a) = {}
    PROVE  TablesOK' /\ OneInTable'
<1>1. remaps[a] \in [DOMAIN remaps[a] -> Remap]
  BY DEF TablesOK
<1>2. DOMAIN remaps' = DOMAIN remaps /\ \A b \in DOMAIN remaps \ {a} : remaps'[b] = remaps[b]
  OBVIOUS
<1>3. remaps'[a] = [remaps[a] EXCEPT ![s] = v]
  OBVIOUS
<1>4. remaps'[a] \in [DOMAIN remaps[a] -> Remap]
  BY <1>1, <1>3
<1>5. ASSUME NEW x \in DOMAIN remaps[a], NEW y \in DOMAIN remaps[a],
             remaps'[a][x].isShortcutInvoked, remaps'[a][y].isShortcutInvoked
      PROVE  x = y
  <2>1. /\ x # s => remaps[a][x].isShortcutInvoked
        /\ y # s => remaps[a][y].isShortcutInvoked
        /\ x = s \/ y = s => v.isShortcutInvoked
    BY <1>1, <1>3, <1>5
  <2>2. \A i \in DOMAIN remaps[a] : remaps[a][i].isShortcutInvoked => i \in Invoked(a)
    BY DEF Invoked
  <2>3. \A i, j \in Invoked(a) : i = j
    BY DEF OneInTable
  <2> QED
    BY <1>5, <2>1, <2>2, <2>3
<1> QED
  BY <1>2, <1>4, <1>5, ChangedTable

LEMMA KeptTables ==
    ASSUME TablesOK, OneInTable, UNCHANGED <<config, remaps>>
    PROVE  TablesOK' /\ OneInTable'
  BY DEF TablesOK, OneInTable, Invoked

(* A shortcut is found pressed only when none of its table is invoked.     *)
LEMMA PressedAlone ==
    ASSUME NEW a, NEW s, Handled(a, s, "pressed")
    PROVE  Invoked(a) = {}
<1>1. (Invoked(a) # {} => s \in Invoked(a)) /\ Case(a, s) = "pressed"
  BY DEF Handled, Reacting
<1>2. ~remaps[a][s].isShortcutInvoked
  BY <1>1, CaseFacts
<1> QED
  BY <1>1, <1>2 DEF Invoked

LEMMA NotInvokedRemap == NotInvoked \in Remap /\ ~NotInvoked.isShortcutInvoked
  BY DEF NotInvoked, Remap, Side

LEMMA ResetTables ==
    ASSUME TablesOK, OneInTable, UNCHANGED config,
           NEW a \in DOMAIN remaps, NEW s \in DOMAIN remaps[a], Reset(a, s)
    PROVE  TablesOK' /\ OneInTable'
<1>1. remaps' = [remaps EXCEPT ![a][s] = NotInvoked]
  BY DEF Reset
<1> QED
  BY <1>1, NotInvokedRemap, ChangedRemap

(* The table that is asked is that of an application, or of the system. *)
LEMMA HandledTable ==
    ASSUME TypeOK, NEW a, NEW s, NEW case, Handled(a, s, case)
    PROVE  a = OSLevel \/ a \in App
<1>1. QueriedApp \in App
  BY DEF TypeOK, QueriedApp
<1> QED
  BY <1>1 DEF Handled

LEMMA ActivatedTyped ==
    ASSUME TypeOK, NEW a, a = OSLevel \/ a \in App,
           Activate(a) \/ Deactivate(a) \/ activatedApp' = NoActivatedApp \/ UNCHANGED activatedApp
    PROVE  activatedApp' \in App \cup {NoActivatedApp}
<1>1. activatedApp \in App \cup {NoActivatedApp}
  BY DEF TypeOK
<1> QED
  BY <1>1 DEF Activate, Deactivate

LEMMA EventKeys ==
    ASSUME NEW q \in Seq(Event)
    PROVE  \A i \in DOMAIN q : q[i].vk \in VirtualKey \cup {VK_DISABLED}
<1>1. \A i \in DOMAIN q : q[i] \in Event
  OBVIOUS
<1> QED
  BY <1>1 DEF Event

(* What is left of the invariant. *)
LEMMA RestKept ==
    ASSUME EngineInv, KeepRest, Fits', TablesOK', OneInTable', activatedApp' \in App \cup {NoActivatedApp}
    PROVE  EngineInv'
<1>1. \A i \in DOMAIN pending' : pending'[i].vk \in VirtualKey \cup {VK_DISABLED}
  BY EventKeys DEF Fits
<1>2. /\ foreground' \in App /\ loadingSettings' \in BOOLEAN /\ editorIsRunning' \in BOOLEAN
      /\ keys' \subseteq VirtualKey /\ physical' \subseteq PhysicalKey /\ last' \in PhysicalKey \cup {NoKey}
  BY DEF EngineInv, TypeOK, KeepRest, flags, user
<1>3. TypeOK'
  BY <1>1, <1>2 DEF TypeOK, TablesOK, Remap, Side
<1> QED
  BY <1>3 DEF EngineInv

---------------------------------------------------------------------------
(* Every action keeps the invariant.                                       *)

LEMMA RemapSingleKeyKeeps == ASSUME EngineInv, RemapSingleKey PROVE EngineInv'
<1>1. TypeOK /\ OneInTable /\ UNCHANGED <<remaps, activatedApp>> /\ KeepRest
  BY DEF EngineInv, RemapSingleKey
<1>2. TablesOK' /\ OneInTable'
  BY <1>1, TypesOfTables, KeptTables DEF KeepRest
<1>3. activatedApp' \in App \cup {NoActivatedApp}
  BY <1>1 DEF TypeOK
<1> QED
  BY <1>1, <1>2, <1>3, SingleKeyFits, RestKept

LEMMA ShortcutToShortcutKeeps ==
    ASSUME EngineInv, NEW a \in DOMAIN remaps, NEW s \in DOMAIN remaps[a], ShortcutToShortcut(a, s)
    PROVE  EngineInv'
<1> DEFINE win == WinKey(remaps[a][s].winKeyInvoked)
           v == [remaps[a][s] EXCEPT !.isShortcutInvoked = TRUE, !.winKeyInvoked = win]
<1>1. /\ TypeOK /\ OneInTable /\ Handled(a, s, "pressed") /\ KeepRest /\ Activate(a)
      /\ remaps' = [remaps EXCEPT ![a][s].isShortcutInvoked = TRUE, ![a][s].winKeyInvoked = win]
  BY DEF EngineInv, ShortcutToShortcut
<1>2. TablesOK /\ remaps[a][s] \in Remap /\ win \in Side /\ Invoked(a) = {} /\ UNCHANGED config
  BY <1>1, TypesOfTables, TableFacts, PressedAlone DEF KeepRest
<1>3. v \in Remap
  BY <1>2 DEF Remap
<1>4. remaps' = [remaps EXCEPT ![a][s] = v]
  BY <1>1
<1> HIDE DEF v
<1>5. TablesOK' /\ OneInTable'
  <2>1. TablesOK /\ OneInTable /\ UNCHANGED config
    BY <1>1, <1>2
  <2>2. v.isShortcutInvoked => remaps[a][s].isShortcutInvoked \/ Invoked(a) = {}
    BY <1>2
  <2> QED
    BY <1>3, <1>4, <2>1, <2>2, ChangedRemap
<1>6. activatedApp' \in App \cup {NoActivatedApp}
  BY <1>1, HandledTable, ActivatedTyped
<1> QED
  BY <1>1, <1>5, <1>6, ShortcutToShortcutFits, RestKept

LEMMA ShortcutToKeyKeeps ==
    ASSUME EngineInv, NEW a \in DOMAIN remaps, NEW s \in DOMAIN remaps[a], ShortcutToKey(a, s)
    PROVE  EngineInv'
<1> DEFINE win == WinKey(remaps[a][s].winKeyInvoked)
           v == [isShortcutInvoked |-> TRUE, winKeyInvoked |-> win,
                 isOriginalActionKeyPressed |->
                    Disables(Target(a, s)) \/ remaps[a][s].isOriginalActionKeyPressed]
<1>1. /\ TypeOK /\ OneInTable /\ Handled(a, s, "pressed") /\ KeepRest /\ Activate(a)
      /\ remaps' = [remaps EXCEPT ![a][s] = v]
  BY DEF EngineInv, ShortcutToKey
<1>2. TablesOK /\ remaps[a][s] \in Remap /\ win \in Side /\ Invoked(a) = {} /\ UNCHANGED config
  BY <1>1, TypesOfTables, TableFacts, PressedAlone DEF KeepRest
<1>3. v \in Remap
  BY <1>2 DEF Remap
<1> HIDE DEF v
<1>4. TablesOK' /\ OneInTable'
  BY <1>1, <1>2, <1>3, ChangedRemap
<1>5. activatedApp' \in App \cup {NoActivatedApp}
  BY <1>1, HandledTable, ActivatedTyped
<1> QED
  BY <1>1, <1>4, <1>5, ShortcutToKeyFits, RestKept

LEMMA ModifierReleasedKeeps ==
    ASSUME EngineInv, NEW a \in DOMAIN remaps, NEW s \in DOMAIN remaps[a], ModifierReleased(a, s)
    PROVE  EngineInv'
<1>1. /\ TypeOK /\ OneInTable /\ Handled(a, s, "modifier released")
      /\ KeepRest /\ Reset(a, s) /\ Deactivate(a)
  BY DEF EngineInv, ModifierReleased
<1>2. TablesOK' /\ OneInTable'
  BY <1>1, TypesOfTables, ResetTables DEF KeepRest
<1>3. activatedApp' \in App \cup {NoActivatedApp}
  BY <1>1, HandledTable, ActivatedTyped
<1> QED
  BY <1>1, <1>2, <1>3, ModifierReleasedFits, RestKept

(* The flag that tells whether the action key of a disabled shortcut is down. *)
LEMMA OriginalActionKey ==
    ASSUME EngineInv, UNCHANGED config, NEW a \in DOMAIN remaps, NEW s \in DOMAIN remaps[a],
           NEW b \in BOOLEAN, remaps' = [remaps EXCEPT ![a][s].isOriginalActionKeyPressed = b]
    PROVE  TablesOK' /\ OneInTable'
<1> DEFINE v == [remaps[a][s] EXCEPT !.isOriginalActionKeyPressed = b]
<1>1. TablesOK /\ OneInTable /\ remaps[a][s] \in Remap
  BY TypesOfTables, TableFacts DEF EngineInv
<1>2. v \in Remap /\ v.isShortcutInvoked = remaps[a][s].isShortcutInvoked
  BY <1>1 DEF Remap
<1>3. remaps' = [remaps EXCEPT ![a][s] = v]
  OBVIOUS
<1> HIDE DEF v
<1>4. TablesOK /\ OneInTable /\ UNCHANGED config /\ v \in Remap
  BY <1>1, <1>2
<1>5. v.isShortcutInvoked => remaps[a][s].isShortcutInvoked \/ Invoked(a) = {}
  BY <1>2
<1>6. a \in DOMAIN remaps /\ s \in DOMAIN remaps[a]
  OBVIOUS
<1> QED
  BY ONLY <1>3, <1>4, <1>5, <1>6, ChangedRemap

LEMMA ActionKeyRepeatedKeeps ==
    ASSUME EngineInv, NEW a \in DOMAIN remaps, NEW s \in DOMAIN remaps[a], ActionKeyRepeated(a, s)
    PROVE  EngineInv'
<1>1. TypeOK /\ OneInTable /\ KeepRest /\ UNCHANGED <<config, activatedApp>>
  BY DEF EngineInv, ActionKeyRepeated, KeepRest
<1>2. TablesOK' /\ OneInTable'
  <2>1. CASE Disables(Target(a, s))
    <3>1. remaps' = [remaps EXCEPT ![a][s].isOriginalActionKeyPressed = TRUE]
      BY <2>1 DEF ActionKeyRepeated
    <3> QED
      BY <1>1, <3>1, OriginalActionKey
  <2>2. CASE ~Disables(Target(a, s))
    <3>1. UNCHANGED remaps
      BY <2>2 DEF ActionKeyRepeated
    <3> QED
      BY <1>1, <3>1, TypesOfTables, KeptTables
  <2> QED
    BY <2>1, <2>2
<1>3. activatedApp' \in App \cup {NoActivatedApp}
  BY <1>1 DEF TypeOK
<1> QED
  BY <1>1, <1>2, <1>3, ActionKeyRepeatedFits, RestKept

LEMMA ActionKeyReleasedKeeps ==
    ASSUME EngineInv, NEW a \in DOMAIN remaps, NEW s \in DOMAIN remaps[a], ActionKeyReleased(a, s)
    PROVE  EngineInv'
<1>1. TypeOK /\ OneInTable /\ KeepRest /\ UNCHANGED config
  BY DEF EngineInv, ActionKeyReleased, KeepRest
<1>2. Target(a, s) \in TargetType /\ TablesOK
  BY <1>1, TableFacts, TypesOfTables
<1>3. \/ remaps' = [remaps EXCEPT ![a][s].isOriginalActionKeyPressed = FALSE] /\ UNCHANGED activatedApp
      \/ UNCHANGED <<remaps, activatedApp>>
      \/ Reset(a, s) /\ activatedApp' = NoActivatedApp
  BY <1>2, ReleasedCases
<1>4. TablesOK' /\ OneInTable'
  <2>1. CASE remaps' = [remaps EXCEPT ![a][s].isOriginalActionKeyPressed = FALSE]
    BY <1>1, <2>1, OriginalActionKey
  <2>2. CASE UNCHANGED remaps
    BY <1>1, <1>2, <2>2, KeptTables
  <2>3. CASE Reset(a, s)
    BY <1>1, <1>2, <2>3, ResetTables
  <2> QED
    BY <1>3, <2>1, <2>2, <2>3
<1>5. activatedApp' \in App \cup {NoActivatedApp}
  BY <1>1, <1>3 DEF TypeOK
<1> QED
  BY <1>1, <1>4, <1>5, ActionKeyReleasedFits, RestKept

LEMMA ModifierPressedKeeps ==
    ASSUME EngineInv, NEW a \in DOMAIN remaps, NEW s \in DOMAIN remaps[a], ModifierPressed(a, s)
    PROVE  EngineInv'
<1>1. /\ TypeOK /\ Fits /\ OneInTable /\ pending # <<>> /\ Swallows
      /\ KeepRest /\ UNCHANGED <<config, remaps, activatedApp>>
  BY DEF EngineInv, ModifierPressed, Handled, KeepRest
<1>2. TablesOK' /\ OneInTable'
  BY <1>1, TypesOfTables, KeptTables
<1>3. activatedApp' \in App \cup {NoActivatedApp}
  BY <1>1 DEF TypeOK
<1>4. Fits'
  BY <1>1, Swallowed
<1> QED
  BY <1>1, <1>2, <1>3, <1>4, RestKept

LEMMA TwoUpdates ==
    ASSUME NEW S, NEW T, NEW f \in [S -> T], NEW v \in T, NEW n \in T, NEW w, NEW s
    PROVE  [f EXCEPT ![w] = v, ![s] = n] \in [S -> T]
  OBVIOUS

(* The next shortcut takes the place of the one that was invoked alone.    *)
LEMMA NextShortcutKeeps ==
    ASSUME EngineInv, NEW a \in DOMAIN remaps, NEW s \in DOMAIN remaps[a], NextShortcut(a, s)
    PROVE  EngineInv'
<1> DEFINE w == With(s)
           to == RemapToKey(Target(a, w))
           v == [remaps[a][w] EXCEPT !.isShortcutInvoked = @ \/ ~to, !.winKeyInvoked = WinKey(@)]
<1>1. /\ TypeOK /\ OneInTable /\ Handled(a, s, "other key") /\ KeepRest /\ Deactivate(a)
      /\ w \in DOMAIN remaps[a]
      /\ remaps' = [remaps EXCEPT ![a][w].isShortcutInvoked = @ \/ ~to,
                                  ![a][w].winKeyInvoked = WinKey(@),
                                  ![a][s] = NotInvoked]
  BY DEF EngineInv, NextShortcut
<1>2. TablesOK /\ remaps[a] \in [DOMAIN remaps[a] -> Remap] /\ UNCHANGED config
  BY <1>1, TypesOfTables DEF TablesOK, KeepRest
<1>3. remaps[a][s].isShortcutInvoked /\ e.vk # s.actionKey
  BY <1>1, CaseFacts DEF Handled
<1>4. w # s
  <2>1. s \in ShortcutType
    BY <1>1, TableFacts DEF ValidShortcut
  <2>2. w.actionKey = e.vk
    BY <2>1 DEF With, ShortcutType
  <2> QED
    BY <1>3, <2>2
<1>5. v \in Remap
  <2>1. remaps[a][w] \in Remap /\ WinKey(remaps[a][w].winKeyInvoked) \in Side
    BY <1>1, TableFacts
  <2> QED
    BY <2>1 DEF Remap
<1>6. remaps'[a] = [remaps[a] EXCEPT ![w] = v, ![s] = NotInvoked]
  BY <1>1, <1>4
<1>7. DOMAIN remaps' = DOMAIN remaps /\ \A b \in DOMAIN remaps \ {a} : remaps'[b] = remaps[b]
  BY <1>1
<1> HIDE DEF v, w
<1>8. remaps'[a] \in [DOMAIN remaps[a] -> Remap]
  BY <1>2, <1>5, <1>6, NotInvokedRemap, TwoUpdates
<1>9. ASSUME NEW x \in DOMAIN remaps[a], remaps'[a][x].isShortcutInvoked
      PROVE  x = w
  <2>1. x # s
    BY <1>2, <1>6, <1>9, NotInvokedRemap
  <2>2. x # w => remaps[a][x].isShortcutInvoked
    BY <1>2, <1>6, <1>9, <2>1
  <2>3. \A i \in DOMAIN remaps[a] : remaps[a][i].isShortcutInvoked => i = s
    BY <1>1, <1>3 DEF OneInTable, Invoked
  <2> QED
    BY <2>1, <2>2, <2>3
<1>10. TablesOK' /\ OneInTable'
  <2>1. \A x, y \in DOMAIN remaps[a] :
           remaps'[a][x].isShortcutInvoked /\ remaps'[a][y].isShortcutInvoked => x = y
    BY <1>9
  <2>2. TablesOK /\ OneInTable /\ UNCHANGED config
    BY <1>1, <1>2
  <2> QED
    BY <1>7, <1>8, <2>1, <2>2, ChangedTable
<1>11. activatedApp' \in App \cup {NoActivatedApp}
  BY <1>1, HandledTable, ActivatedTyped
<1> QED
  BY <1>1, <1>10, <1>11, NextShortcutFits, RestKept

LEMMA RevertShortcutKeeps ==
    ASSUME EngineInv, NEW a \in DOMAIN remaps, NEW s \in DOMAIN remaps[a], RevertShortcut(a, s)
    PROVE  EngineInv'
<1>1. /\ TypeOK /\ OneInTable /\ Handled(a, s, "other key")
      /\ KeepRest /\ Reset(a, s) /\ Deactivate(a)
  BY DEF EngineInv, RevertShortcut
<1>2. TablesOK' /\ OneInTable'
  BY <1>1, TypesOfTables, ResetTables DEF KeepRest
<1>3. activatedApp' \in App \cup {NoActivatedApp}
  BY <1>1, HandledTable, ActivatedTyped
<1> QED
  BY <1>1, <1>2, <1>3, RevertShortcutFits, RestKept

LEMMA RevertKeyKeeps ==
    ASSUME EngineInv, NEW a \in DOMAIN remaps, NEW s \in DOMAIN remaps[a], RevertKey(a, s)
    PROVE  EngineInv'
<1>1. /\ TypeOK /\ OneInTable
      /\ KeepRest /\ Reset(a, s) /\ activatedApp' = NoActivatedApp
  BY DEF EngineInv, RevertKey
<1>2. TablesOK' /\ OneInTable'
  BY <1>1, TypesOfTables, ResetTables DEF KeepRest
<1> QED
  BY <1>1, <1>2, RevertKeyFits, RestKept

LEMMA CommonIsAKey ==
    ASSUME NEW k \in VirtualKey
    PROVE  Common(k) \in VirtualKey
<1>1. ASSUME k \in Modifiers
      PROVE  <<k[1], "Both">> \in Modifiers
  BY <1>1 DEF Modifiers
<1> QED
  BY <1>1 DEF Common, VirtualKey

LEMMA PassedOnKeeps == ASSUME EngineInv, PassedOn PROVE EngineInv'
<1>1. /\ TypeOK /\ Fits /\ OneInTable /\ pending # <<>> /\ Swallows
      /\ UNCHANGED <<config, remaps, activatedApp, foreground, loadingSettings, editorIsRunning, physical, last>>
  BY DEF EngineInv, PassedOn, tables, flags, user
<1>2. e.vk \in VirtualKey \cup {VK_DISABLED}
  BY <1>1, EventFacts
<1>3. Fits'
  BY <1>1, Swallowed
<1>4. OneInTable'
  BY <1>1, TypesOfTables, KeptTables
<1>5. keys' \subseteq VirtualKey
  <2>1. \A k \in {e.vk, Common(e.vk)} \ NoSuchKey : k \in VirtualKey
    <3>1. CASE e.vk \in VirtualKey
      BY <3>1, CommonIsAKey
    <3>2. CASE e.vk \notin VirtualKey
      <4>1. e.vk = VK_DISABLED /\ e.vk \notin Modifiers
        BY <1>2, <3>2 DEF VirtualKey
      <4>2. Common(e.vk) = VK_DISABLED
        BY <4>1 DEF Common
      <4> QED
        BY <4>1, <4>2 DEF NoSuchKey
    <3> QED
      BY <3>1, <3>2
  <2>2. keys' = keys \ Released(e.vk) \/ keys' = keys \cup ({e.vk, Common(e.vk)} \ NoSuchKey)
    BY DEF PassedOn
  <2>3. keys \subseteq VirtualKey
    BY <1>1 DEF TypeOK
  <2> QED
    BY <2>1, <2>2, <2>3
<1>6. \A i \in DOMAIN pending' : pending'[i].vk \in VirtualKey \cup {VK_DISABLED}
  BY <1>3, EventKeys DEF Fits
<1>7. TypeOK'
  BY <1>1, <1>5, <1>6 DEF TypeOK
<1> QED
  BY <1>3, <1>4, <1>7 DEF EngineInv

(* The user's key is the only event. *)
LEMMA UserKey ==
    ASSUME NEW k \in PhysicalKey, NEW up \in BOOLEAN
    PROVE  /\ SetKeyEvent(k, up, "none") \in Seq(Event)
           /\ \A i \in DOMAIN SetKeyEvent(k, up, "none") :
                 SetKeyEvent(k, up, "none")[i].vk \in VirtualKey \cup {VK_DISABLED}
<1>1. k \in VirtualKey \cup {VK_DISABLED}
  BY KeysAssumption
<1>2. SetKeyEvent(k, up, "none") \in Seq(Event)
  BY <1>1, UserEvent
<1> QED
  BY <1>2, EventKeys

LEMMA UserKeeps ==
    ASSUME EngineInv, NEW k \in PhysicalKey, KeyDown(k) \/ KeyUp(k)
    PROVE  EngineInv'
<1>1. /\ TypeOK /\ Fits /\ OneInTable
      /\ UNCHANGED <<config, remaps, activatedApp, foreground, loadingSettings, editorIsRunning, keys, spare>>
  BY DEF EngineInv, KeyDown, KeyUp, tables, flags
<1>2. PICK up \in BOOLEAN : pending' = SetKeyEvent(k, up, "none")
  BY DEF KeyDown, KeyUp
<1>3. physical' \subseteq PhysicalKey /\ last' \in PhysicalKey \cup {NoKey}
  BY <1>1 DEF TypeOK, KeyDown, KeyUp
<1>4. Fits' /\ \A i \in DOMAIN pending' : pending'[i].vk \in VirtualKey \cup {VK_DISABLED}
  BY <1>1, <1>2, UserKey DEF Fits
<1>5. OneInTable'
  BY <1>1, TypesOfTables, KeptTables
<1>6. TypeOK'
  BY <1>1, <1>3, <1>4 DEF TypeOK
<1> QED
  BY <1>4, <1>5, <1>6 DEF EngineInv

(* Nothing that a new table keeps is invoked. *)
LEMMA FreshTables ==
    ASSUME NEW c \in Config, NEW r, r = Fresh(c)
    PROVE  /\ DOMAIN r = DOMAIN c.shortcuts
           /\ \A a \in DOMAIN r : r[a] \in [DOMAIN c.shortcuts[a] -> Remap]
           /\ \A a \in DOMAIN r : \A s \in DOMAIN r[a] : ~r[a][s].isShortcutInvoked
  BY NotInvokedRemap DEF Fresh

LEMMA OthersKeep ==
    ASSUME EngineInv, (\E a \in App : Focus(a)) \/ LoadSettingsStart \/ LoadSettingsEnd \/ ToggleEditor
    PROVE  EngineInv'
<1>1. /\ TypeOK /\ Fits /\ OneInTable
      /\ UNCHANGED <<activatedApp, keys, physical, last, pending, spare>>
  BY DEF EngineInv, Focus, LoadSettingsStart, LoadSettingsEnd, ToggleEditor, tables, user
<1>2. foreground' \in App /\ loadingSettings' \in BOOLEAN /\ editorIsRunning' \in BOOLEAN
  BY <1>1 DEF TypeOK, Focus, LoadSettingsStart, LoadSettingsEnd, ToggleEditor
<1>3. TablesOK' /\ OneInTable'
  <2>1. CASE LoadSettingsEnd
    <3>1. config' \in Config /\ remaps' = Fresh(config')
      BY <2>1 DEF LoadSettingsEnd
    <3>2. /\ DOMAIN remaps' = DOMAIN config'.shortcuts
          /\ \A a \in DOMAIN remaps' : remaps'[a] \in [DOMAIN config'.shortcuts[a] -> Remap]
          /\ \A a \in DOMAIN remaps' : \A s \in DOMAIN remaps'[a] : ~remaps'[a][s].isShortcutInvoked
      BY <3>1, FreshTables
    <3> QED
      BY <3>1, <3>2 DEF TablesOK, OneInTable, Invoked
  <2>2. CASE ~LoadSettingsEnd
    <3>1. UNCHANGED <<config, remaps>>
      BY <2>2 DEF Focus, LoadSettingsStart, ToggleEditor, tables
    <3> QED
      BY <1>1, <3>1, TypesOfTables, KeptTables
  <2> QED
    BY <2>1, <2>2
<1>4. TypeOK'
  BY <1>1, <1>2, <1>3 DEF TypeOK, TablesOK, Remap, Side
<1>5. Fits'
  BY <1>1 DEF Fits
<1> QED
  BY <1>3, <1>4, <1>5 DEF EngineInv

LEMMA InitHolds == ASSUME Init PROVE EngineInv
<1>1. config \in Config /\ remaps = Fresh(config)
  BY DEF Init
<1>2. /\ DOMAIN remaps = DOMAIN config.shortcuts
      /\ \A a \in DOMAIN remaps : remaps[a] \in [DOMAIN config.shortcuts[a] -> Remap]
      /\ \A a \in DOMAIN remaps : \A s \in DOMAIN remaps[a] : ~remaps[a][s].isShortcutInvoked
  BY <1>1, FreshTables
<1>3. OneInTable
  BY <1>2 DEF OneInTable, Invoked
<1>4. Fits
  BY EmptySeq DEF Init, Fits
<1>5. \A i \in DOMAIN pending : pending[i].vk \in VirtualKey \cup {VK_DISABLED}
  BY <1>4, EventKeys DEF Fits
<1>6. /\ activatedApp \in App \cup {NoActivatedApp} /\ foreground \in App
      /\ loadingSettings \in BOOLEAN /\ editorIsRunning \in BOOLEAN
      /\ keys \subseteq VirtualKey /\ physical \subseteq PhysicalKey /\ last \in PhysicalKey \cup {NoKey}
  BY DEF Init
<1>7. TypeOK
  BY <1>1, <1>2, <1>5, <1>6 DEF TypeOK, Remap, Side
<1> QED
  BY <1>3, <1>4, <1>7 DEF EngineInv

LEMMA StepHolds == ASSUME EngineInv, [Next]_vars PROVE EngineInv'
<1>1. CASE RemapSingleKey
  BY <1>1, RemapSingleKeyKeeps
<1>2. ASSUME NEW a \in DOMAIN remaps, NEW s \in DOMAIN remaps[a], OnShortcut(a, s)
      PROVE  EngineInv'
  <2>1. CASE ShortcutToShortcut(a, s)
    BY <2>1, ShortcutToShortcutKeeps
  <2>2. CASE ShortcutToKey(a, s)
    BY <2>2, ShortcutToKeyKeeps
  <2>3. CASE ModifierReleased(a, s)
    BY <2>3, ModifierReleasedKeeps
  <2>4. CASE ActionKeyRepeated(a, s)
    BY <2>4, ActionKeyRepeatedKeeps
  <2>5. CASE ActionKeyReleased(a, s)
    BY <2>5, ActionKeyReleasedKeeps
  <2>6. CASE ModifierPressed(a, s)
    BY <2>6, ModifierPressedKeeps
  <2>7. CASE NextShortcut(a, s)
    BY <2>7, NextShortcutKeeps
  <2>8. CASE RevertShortcut(a, s)
    BY <2>8, RevertShortcutKeeps
  <2>9. CASE RevertKey(a, s)
    BY <2>9, RevertKeyKeeps
  <2> QED
    BY <1>2, <2>1, <2>2, <2>3, <2>4, <2>5, <2>6, <2>7, <2>8, <2>9 DEF OnShortcut
<1>3. CASE PassedOn
  BY <1>3, PassedOnKeeps
<1>4. ASSUME NEW k \in PhysicalKey, KeyDown(k) \/ KeyUp(k)
      PROVE  EngineInv'
  BY <1>4, UserKeeps
<1>5. CASE (\E a \in App : Focus(a)) \/ LoadSettingsStart \/ LoadSettingsEnd \/ ToggleEditor
  BY <1>5, OthersKeep
<1>6. CASE UNCHANGED vars
  BY <1>6 DEF EngineInv, TypeOK, Fits, OneInTable, Invoked, vars, tables, flags, user
<1> QED
  BY <1>1, <1>2, <1>3, <1>4, <1>5, <1>6 DEF Next, Hook

---------------------------------------------------------------------------
(* The theorems.                                                           *)

(* The inductive invariant holds in every state of the hook.               *)
THEOREM EngineInvariant == Spec => []EngineInv
<1>1. Init => EngineInv
  BY InitHolds
<1>2. EngineInv /\ [Next]_vars => EngineInv'
  BY StepHolds
<1> QED
  BY <1>1, <1>2, PTL DEF Spec

(* The tables, the keys and the events of the engine have their types: what *)
(* the handlers send are keys, for every table of remappings.              *)
THEOREM KeyboardTyped == Spec => []TypeOK
<1>1. EngineInv => TypeOK
  BY DEF EngineInv
<1> QED
  BY <1>1, EngineInvariant, PTL

(* What a handler sends fits in the array it has allocated, whatever       *)
(* shortcuts are remapped to what, with whatever modifiers in common, and  *)
(* whichever keys the user presses and releases (the sizes computed at the *)
(* head of each case of HandleShortcutRemapEvent).                         *)
THEOREM EventsAlwaysFit == Spec => []EventsFit
<1>1. EngineInv => EventsFit
  BY DEF EngineInv, Fits, EventsFit
<1> QED
  BY <1>1, EngineInvariant, PTL

(* At most one shortcut of a table is taken for pressed: the loop of       *)
(* HandleShortcutRemapEvent skips the others while one is, and a shortcut  *)
(* that takes over from another resets it.                                 *)
THEOREM OneShortcutOfATable == Spec => []OneInTable
<1>1. EngineInv => OneInTable
  BY DEF EngineInv
<1> QED
  BY <1>1, EngineInvariant, PTL

(* While no application has a table of its own, no two remaps are under    *)
(* way at a time.  With application tables it depends on the tables.       *)
THEOREM OneRemapOfTheSystem ==
    Spec => [](DOMAIN config.shortcuts \subseteq {OSLevel} => OneRemapInvoked)
<1>1. ASSUME EngineInv, DOMAIN config.shortcuts \subseteq {OSLevel} PROVE OneRemapInvoked
  <2> DEFINE Z == UNION {{<<a, s>> : s \in Invoked(a)} : a \in DOMAIN remaps}
  <2>1. DOMAIN remaps \subseteq {OSLevel} /\ OneInTable
    BY <1>1 DEF EngineInv, TypeOK
  <2>2. \A y, z \in Z : y = z
    BY <2>1 DEF OneInTable
  <2> HIDE DEF Z
  <2>3. Cardinality(Z) <= 1
    <3>1. CASE Z = {}
      BY <3>1, FS_EmptySet
    <3>2. CASE Z # {}
      <4>1. PICK z : Z = {z}
        BY <2>2, <3>2
      <4> QED
        BY <4>1, FS_Singleton
    <3> QED
      BY <3>1, <3>2
  <2> QED
    BY <2>3 DEF Z, OneRemapInvoked
<1>2. EngineInv => (DOMAIN config.shortcuts \subseteq {OSLevel} => OneRemapInvoked)
  BY <1>1
<1> QED
  BY <1>2, EngineInvariant, PTL
=============================================================================
