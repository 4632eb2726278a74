------------------------------ MODULE KeysProofs ------------------------------
(***************************************************************************)
(* What the handlers of Keyboard Manager press they also release: once the *)
(* user holds no key, none is down for the system but those that Left      *)
(* names, and no remapping is under way.  For every plain table, as long   *)
(* as the user never holds two keys for one modifier.                      *)
(***************************************************************************)
EXTENDS EngineProofs, KeysExplained

---------------------------------------------------------------------------
(* Keys and what stands for them *)

(* A modifier has a family and a side; what stands for it has its family. *)
LEMMA ModifierFacts ==
    ASSUME NEW k \in Modifiers
    PROVE  /\ k = <<k[1], k[2]>> /\ k[1] \in Families /\ k[2] \in {"Left", "Right", "Both"}
           /\ Common(k) \in Modifiers /\ Common(k)[1] = k[1]
           /\ Common(k) = IF k[1] = "win" THEN k ELSE <<k[1], "Both">>
           /\ Common(Common(k)) = Common(k)
  BY DEF Modifiers, Common

LEMMA CounterpartFacts ==
    ASSUME NEW h, NEW g \in Counterparts(h)
    PROVE  /\ h \in Modifiers <=> g \in Modifiers
           /\ h \in Modifiers => g[1] = h[1]
           /\ h \notin Modifiers => g = h
           /\ Counterparts(g) \subseteq Counterparts(h)
<1>1. CASE h \in Modifiers
  <2>1. /\ Common(h) \in Modifiers /\ Common(h)[1] = h[1] /\ Common(Common(h)) = Common(h)
    BY <1>1, ModifierFacts
  <2> QED
    BY <1>1, <2>1 DEF Counterparts
<1>2. CASE h \notin Modifiers
  BY <1>2 DEF Counterparts, Common
<1> QED
  BY <1>1, <1>2

(* What is released with a key: itself, what stands for it, and the sides   *)
(* of a key that stands for two.                                           *)
LEMMA ReleasedFacts ==
    ASSUME NEW k
    PROVE  /\ Counterparts(k) \subseteq Released(k)
           /\ \A h : k \in Counterparts(h) => Counterparts(h) \subseteq Released(k)
           /\ \A h \in Released(k) : Counterparts(h) \subseteq Released(k)
           /\ k \notin Modifiers => Released(k) = {k}
<1>1. CASE k \notin Modifiers
  <2>1. Released(k) = {k} /\ Counterparts(k) = {k}
    BY <1>1 DEF Released, Common, Counterparts
  <2>2. \A h : k \in Counterparts(h) => h = k
    BY <1>1, CounterpartFacts
  <2> QED
    BY <2>1, <2>2
<1>2. CASE k \in Modifiers
  <2>0. k = <<k[1], k[2]>> /\ k[1] \in Families /\ k[2] \in {"Left", "Right", "Both"}
    BY <1>2, ModifierFacts
  <2>1. CASE k[2] = "Both"
    <3>1. Released(k) = Sides(k)
      BY <1>2, <2>1 DEF Released
    <3>2. Sides(k) \subseteq Modifiers /\ \A h \in Sides(k) : h[1] = k[1]
      BY <2>0 DEF Sides, Modifiers
    <3>3. \A h \in Modifiers : h[1] = k[1] => h \in Sides(k)
      BY ModifierFacts DEF Sides
    <3>4. \A h : \A g \in Counterparts(h) : h \in Modifiers => g \in Modifiers /\ g[1] = h[1]
      BY CounterpartFacts
    <3>5. \A h : k \in Counterparts(h) => h \in Modifiers /\ h[1] = k[1]
      BY <1>2, CounterpartFacts
    <3> QED
      BY <1>2, <3>1, <3>2, <3>3, <3>4, <3>5
  <2>2. CASE k[2] # "Both"
    <3>1. Released(k) = Counterparts(k)
      BY <1>2, <2>2 DEF Released, Counterparts
    <3>2. \A h : k \in Counterparts(h) => h = k
      <4> SUFFICES ASSUME NEW h, k \in Counterparts(h), h # k PROVE FALSE
        OBVIOUS
      <4>1. k = Common(h)
        BY DEF Counterparts
      <4>2. h \in Modifiers
        BY <1>2, CounterpartFacts
      <4>3. k = <<h[1], "Both">>
        BY <4>1, <4>2, ModifierFacts
      <4> QED
        BY <2>2, <4>3
    <3>3. \A h \in Counterparts(k) : Counterparts(h) \subseteq Counterparts(k)
      BY CounterpartFacts
    <3> QED
      BY <1>2, <3>1, <3>2, <3>3
  <2> QED
    BY <2>1, <2>2
<1> QED
  BY <1>1, <1>2

LEMMA CounterpartsAreKeys ==
    ASSUME NEW k \in VirtualKey \cup {VK_DISABLED}
    PROVE  Counterparts(k) \ NoSuchKey \subseteq VirtualKey
<1>1. k \in Modifiers => Common(k) \in VirtualKey
  BY ModifierFacts DEF VirtualKey
<1>2. k \notin Modifiers => Common(k) = k
  BY DEF Common
<1> QED
  BY <1>1, <1>2 DEF Counterparts, NoSuchKey

---------------------------------------------------------------------------
(* What will be down: one event, and one sequence after another *)

LEMMA StaysConcat ==
    ASSUME NEW p \in Seq(Event), NEW r \in Seq(Event), NEW g
    PROVE  Stays(p \o r, g) <=> Stays(p, g) /\ Stays(r, g)
<1> DEFINE q == p \o r
           P(i) == ReleasesKey(q[i], g)
<1>1. /\ Len(q) = Len(p) + Len(r) /\ DOMAIN q = 1 .. Len(q)
      /\ \A i \in 1 .. Len(p) : q[i] = p[i]
      /\ \A i \in 1 .. Len(r) : q[Len(p) + i] = r[i]
      /\ DOMAIN p = 1 .. Len(p) /\ DOMAIN r = 1 .. Len(r)
      /\ Len(p) \in Nat /\ Len(r) \in Nat
  OBVIOUS
<1> HIDE DEF q
<1>2. ASSUME Stays(q, g) PROVE Stays(p, g) /\ Stays(r, g)
  <2>1. \A i \in 1 .. Len(p) : i \in DOMAIN q
    BY <1>1
  <2>2. \A i \in 1 .. Len(r) : Len(p) + i \in DOMAIN q
    BY <1>1
  <2> QED
    BY <1>1, <1>2, <2>1, <2>2 DEF Stays
<1>3. ASSUME Stays(p, g), Stays(r, g) PROVE Stays(q, g)
  <2> SUFFICES ASSUME NEW i \in DOMAIN q PROVE ~ReleasesKey(q[i], g)
    BY DEF Stays
  <2>1. CASE i \in 1 .. Len(p)
    BY <1>1, <1>3, <2>1 DEF Stays
  <2>2. CASE i \notin 1 .. Len(p)
    <3>1. i - Len(p) \in 1 .. Len(r) /\ Len(p) + (i - Len(p)) = i
      BY <1>1, <2>2
    <3>2. q[i] = r[i - Len(p)]
      BY <1>1, <3>1
    <3> QED
      BY <1>1, <1>3, <3>1, <3>2 DEF Stays
  <2> QED
    BY <2>1, <2>2
<1> QED
  BY <1>2, <1>3 DEF q

LEMMA GoesInConcat ==
    ASSUME NEW p \in Seq(Event), NEW r \in Seq(Event), NEW g
    PROVE  GoesIn(p \o r, g) <=> GoesIn(r, g) \/ (GoesIn(p, g) /\ Stays(r, g))
<1> DEFINE q == p \o r
<1>1. /\ Len(q) = Len(p) + Len(r) /\ DOMAIN q = 1 .. Len(q)
      /\ \A i \in 1 .. Len(p) : q[i] = p[i]
      /\ \A i \in 1 .. Len(r) : q[Len(p) + i] = r[i]
      /\ DOMAIN p = 1 .. Len(p) /\ DOMAIN r = 1 .. Len(r)
      /\ Len(p) \in Nat /\ Len(r) \in Nat
  OBVIOUS
<1> HIDE DEF q
<1>2. ASSUME GoesIn(r, g) PROVE GoesIn(q, g)
  <2>1. PICK i \in 1 .. Len(r) : PressesKey(r[i], g) /\ \A j \in 1 .. Len(r) : j > i => ~ReleasesKey(r[j], g)
    BY <1>1, <1>2 DEF GoesIn
  <2>2. Len(p) + i \in DOMAIN q /\ PressesKey(q[Len(p) + i], g)
    BY <1>1, <2>1
  <2>3. ASSUME NEW j \in DOMAIN q, j > Len(p) + i PROVE ~ReleasesKey(q[j], g)
    <3>1. j - Len(p) \in 1 .. Len(r) /\ j - Len(p) > i /\ Len(p) + (j - Len(p)) = j
      BY <1>1, <2>1, <2>3
    <3>2. q[j] = r[j - Len(p)]
      BY <1>1, <3>1
    <3> QED
      BY <2>1, <3>1, <3>2
  <2> QED
    BY <2>2, <2>3 DEF GoesIn
<1>3. ASSUME GoesIn(p, g), Stays(r, g) PROVE GoesIn(q, g)
  <2>1. PICK i \in 1 .. Len(p) : PressesKey(p[i], g) /\ \A j \in 1 .. Len(p) : j > i => ~ReleasesKey(p[j], g)
    BY <1>1, <1>3 DEF GoesIn
  <2>2. i \in DOMAIN q /\ PressesKey(q[i], g)
    BY <1>1, <2>1
  <2>3. ASSUME NEW j \in DOMAIN q, j > i PROVE ~ReleasesKey(q[j], g)
    <3>1. CASE j \in 1 .. Len(p)
      BY <1>1, <2>1, <2>3, <3>1
    <3>2. CASE j \notin 1 .. Len(p)
      <4>1. j - Len(p) \in 1 .. Len(r) /\ Len(p) + (j - Len(p)) = j
        BY <1>1, <3>2
      <4>2. q[j] = r[j - Len(p)]
        BY <1>1, <4>1
      <4> QED
        BY <1>1, <1>3, <4>1, <4>2 DEF Stays
    <3> QED
      BY <3>1, <3>2
  <2> QED
    BY <2>2, <2>3 DEF GoesIn
<1>4. ASSUME GoesIn(q, g) PROVE GoesIn(r, g) \/ (GoesIn(p, g) /\ Stays(r, g))
  <2>1. PICK i \in DOMAIN q : PressesKey(q[i], g) /\ \A j \in DOMAIN q : j > i => ~ReleasesKey(q[j], g)
    BY <1>4 DEF GoesIn
  <2>2. CASE i \in 1 .. Len(p)
    <3>1. PressesKey(p[i], g)
      BY <1>1, <2>1, <2>2
    <3>2. ASSUME NEW j \in 1 .. Len(p), j > i PROVE ~ReleasesKey(p[j], g)
      <4>1. j \in DOMAIN q
        BY <1>1
      <4> QED
        BY <1>1, <2>1, <3>2, <4>1
    <3>3. ASSUME NEW j \in 1 .. Len(r) PROVE ~ReleasesKey(r[j], g)
      <4>1. Len(p) + j \in DOMAIN q /\ Len(p) + j > i
        BY <1>1, <2>2
      <4> QED
        BY <1>1, <2>1, <4>1
    <3> QED
      BY <1>1, <2>2, <3>1, <3>2, <3>3 DEF GoesIn, Stays
  <2>3. CASE i \notin 1 .. Len(p)
    <3>1. i - Len(p) \in 1 .. Len(r) /\ Len(p) + (i - Len(p)) = i
      BY <1>1, <2>3
    <3>2. PressesKey(r[i - Len(p)], g)
      BY <1>1, <2>1, <3>1
    <3>3. ASSUME NEW j \in 1 .. Len(r), j > i - Len(p) PROVE ~ReleasesKey(r[j], g)
      <4>1. Len(p) + j \in DOMAIN q /\ Len(p) + j > i
        BY <1>1, <3>1, <3>3
      <4> QED
        BY <1>1, <2>1, <4>1
    <3> QED
      BY <1>1, <3>1, <3>2, <3>3 DEF GoesIn
  <2> QED
    BY <2>2, <2>3
<1> QED
  BY <1>2, <1>3, <1>4 DEF q

(* What is down after two sequences of events is what is down after the    *)
(* second, starting from what is down after the first.                     *)
LEMMA FinalConcat ==
    ASSUME NEW K, NEW p \in Seq(Event), NEW r \in Seq(Event)
    PROVE  Final(K, p \o r) = Final(Final(K, p), r)
<1>1. ASSUME NEW g \in VirtualKey PROVE g \in Final(K, p \o r) <=> g \in Final(Final(K, p), r)
  BY StaysConcat, GoesInConcat DEF Final
<1> QED
  BY <1>1 DEF Final

LEMMA FinalOne ==
    ASSUME NEW K \in SUBSET VirtualKey, NEW ev \in Event
    PROVE  Final(K, <<ev>>) =
             IF ev.flag # "shortcut" THEN K
             ELSE IF ev.up THEN K \ Released(ev.vk) ELSE K \cup (Counterparts(ev.vk) \ NoSuchKey)
<1> DEFINE q == <<ev>>
<1>1. DOMAIN q = {1} /\ q[1] = ev
  OBVIOUS
<1> HIDE DEF q
<1>2. \A g : Stays(q, g) <=> ~ReleasesKey(ev, g)
  BY <1>1 DEF Stays
<1>3. \A g : GoesIn(q, g) <=> PressesKey(ev, g)
  <2>1. \A j \in DOMAIN q : ~(j > 1)
    BY <1>1
  <2> QED
    BY <1>1, <2>1 DEF GoesIn
<1>4. Counterparts(ev.vk) \ NoSuchKey \subseteq VirtualKey
  BY CounterpartsAreKeys DEF Event
<1>5. ev.up \in BOOLEAN
  BY DEF Event
<1>6. Final(K, q) = IF ev.flag # "shortcut" THEN K
             ELSE IF ev.up THEN K \ Released(ev.vk) ELSE K \cup (Counterparts(ev.vk) \ NoSuchKey)
  BY <1>2, <1>3, <1>4, <1>5 DEF Final, PressesKey, ReleasesKey
<1> QED
  BY <1>6 DEF q

LEMMA FinalNone ==
    ASSUME NEW K \in SUBSET VirtualKey
    PROVE  Final(K, <<>>) = K
<1>1. DOMAIN <<>> = {}
  OBVIOUS
<1>2. \A g : Stays(<<>>, g) /\ ~GoesIn(<<>>, g)
  BY <1>1 DEF Stays, GoesIn
<1> QED
  BY <1>2 DEF Final
---------------------------------------------------------------------------
(* What the handlers of shortcuts send *)

Sent == {ev \in Event : ev.flag = "shortcut"}

LEMMA SentAreEvents == \A q \in Seq(Sent) : q \in Seq(Event)
  BY DEF Sent

LEMMA SentConcat ==
    ASSUME NEW p \in Seq(Sent), NEW r \in Seq(Sent)
    PROVE  p \o r \in Seq(Sent)
  BY ConcatProperties

LEMMA TwoSent ==
    ASSUME NEW p \in Seq(Sent), NEW r \in Seq(Sent), NEW K
    PROVE  p \o r \in Seq(Sent) /\ Final(K, p \o r) = Final(Final(K, p), r)
<1>1. p \in Seq(Event) /\ r \in Seq(Event)
  BY SentAreEvents
<1> QED
  BY <1>1, SentConcat, FinalConcat

LEMMA ThreeSent ==
    ASSUME NEW p \in Seq(Sent), NEW q \in Seq(Sent), NEW r \in Seq(Sent), NEW K
    PROVE  /\ p \o q \o r \in Seq(Sent)
           /\ Final(K, p \o q \o r) = Final(Final(Final(K, p), q), r)
<1> DEFINE a == p \o q
<1>1. a \in Seq(Sent) /\ Final(K, a) = Final(Final(K, p), q)
  BY TwoSent
<1> HIDE DEF a
<1>2. a \o r \in Seq(Sent) /\ Final(K, a \o r) = Final(Final(K, a), r)
  BY <1>1, TwoSent
<1> QED
  BY <1>1, <1>2 DEF a

LEMMA FourSent ==
    ASSUME NEW p \in Seq(Sent), NEW q \in Seq(Sent), NEW r \in Seq(Sent), NEW t \in Seq(Sent), NEW K
    PROVE  /\ p \o q \o r \o t \in Seq(Sent)
           /\ Final(K, p \o q \o r \o t) = Final(Final(Final(Final(K, p), q), r), t)
<1> DEFINE a == p \o q \o r
<1>1. a \in Seq(Sent) /\ Final(K, a) = Final(Final(Final(K, p), q), r)
  BY ThreeSent
<1> HIDE DEF a
<1>2. a \o t \in Seq(Sent) /\ Final(K, a \o t) = Final(Final(K, a), t)
  BY <1>1, TwoSent
<1> QED
  BY <1>1, <1>2 DEF a

LEMMA SendSent ==
    ASSUME NEW k \in VirtualKey \cup {VK_DISABLED}, NEW up \in BOOLEAN, NEW K \in SUBSET VirtualKey
    PROVE  /\ Send(k, up) \in Seq(Sent)
           /\ Final(K, Send(k, up)) =
                IF up THEN K \ Released(k) ELSE K \cup (Counterparts(k) \ NoSuchKey)
           /\ Final(K, Send(k, up)) \in SUBSET VirtualKey
<1> DEFINE ev == [vk |-> k, up |-> up, flag |-> "shortcut"]
<1>1. Send(k, up) = <<ev>>
  BY DEF Send, SetKeyEvent
<1>2. ev \in Sent /\ ev.vk = k /\ ev.up = up /\ ev.flag = "shortcut"
  BY DEF Sent, Event, Flags
<1> HIDE DEF ev
<1>3. <<ev>> \in Seq(Sent) /\ ev \in Event
  BY <1>2 DEF Sent
<1>4. Counterparts(k) \ NoSuchKey \subseteq VirtualKey
  BY CounterpartsAreKeys
<1> QED
  BY <1>1, <1>2, <1>3, <1>4, FinalOne

LEMMA PressSent ==
    ASSUME NEW k \in VirtualKey \cup {VK_DISABLED}, NEW K
    PROVE  /\ Send(k, FALSE) \in Seq(Sent)
           /\ K \in SUBSET VirtualKey =>
                Final(K, Send(k, FALSE)) = K \cup (Counterparts(k) \ NoSuchKey)
<1>1. FALSE \in BOOLEAN /\ {} \in SUBSET VirtualKey
  OBVIOUS
<1> QED
  BY <1>1, SendSent

LEMMA ReleaseSent ==
    ASSUME NEW k \in VirtualKey \cup {VK_DISABLED}, NEW K
    PROVE  /\ Send(k, TRUE) \in Seq(Sent)
           /\ K \in SUBSET VirtualKey => Final(K, Send(k, TRUE)) = K \ Released(k)
<1>1. TRUE \in BOOLEAN /\ {} \in SUBSET VirtualKey
  OBVIOUS
<1> QED
  BY <1>1, SendSent

LEMMA OptionalSent ==
    ASSUME NEW b \in BOOLEAN, NEW q, b => q \in Seq(Sent), NEW K \in SUBSET VirtualKey
    PROVE  /\ Optional(b, q) \in Seq(Sent)
           /\ Final(K, Optional(b, q)) = IF b THEN Final(K, q) ELSE K
<1>1. <<>> \in Seq(Sent)
  BY EmptySeq
<1> QED
  BY <1>1, FinalNone DEF Optional

LEMMA OptionalPress ==
    ASSUME NEW b \in BOOLEAN, NEW k \in VirtualKey \cup {VK_DISABLED}, NEW K \in SUBSET VirtualKey
    PROVE  /\ Optional(b, Send(k, FALSE)) \in Seq(Sent)
           /\ Final(K, Optional(b, Send(k, FALSE))) = IF b THEN K \cup (Counterparts(k) \ NoSuchKey) ELSE K
<1> DEFINE q == Send(k, FALSE)
<1>1. q \in Seq(Sent) /\ Final(K, q) = K \cup (Counterparts(k) \ NoSuchKey)
  BY PressSent
<1> HIDE DEF q
<1>2. Optional(b, q) \in Seq(Sent) /\ Final(K, Optional(b, q)) = IF b THEN Final(K, q) ELSE K
  BY <1>1, OptionalSent
<1> QED
  BY <1>1, <1>2 DEF q

LEMMA OptionalRelease ==
    ASSUME NEW b \in BOOLEAN, NEW k \in VirtualKey \cup {VK_DISABLED}, NEW K \in SUBSET VirtualKey
    PROVE  /\ Optional(b, Send(k, TRUE)) \in Seq(Sent)
           /\ Final(K, Optional(b, Send(k, TRUE))) = IF b THEN K \ Released(k) ELSE K
<1> DEFINE q == Send(k, TRUE)
<1>1. q \in Seq(Sent) /\ Final(K, q) = K \ Released(k)
  BY ReleaseSent
<1> HIDE DEF q
<1>2. Optional(b, q) \in Seq(Sent) /\ Final(K, Optional(b, q)) = IF b THEN Final(K, q) ELSE K
  BY <1>1, OptionalSent
<1> QED
  BY <1>1, <1>2 DEF q

LEMMA FinalTyped ==
    ASSUME NEW K, NEW q
    PROVE  Final(K, q) \in SUBSET VirtualKey
  BY DEF Final

LEMMA DummySent ==
    ASSUME NEW K \in SUBSET VirtualKey
    PROVE  Dummy \in Seq(Sent) /\ Final(K, Dummy) \subseteq K
<1> DEFINE down == Send(DUMMY_KEY, FALSE)
           up == Send(DUMMY_KEY, TRUE)
           L == Final(K, down)
<1>1. Dummy = down \o up
  BY DEF Dummy, SetDummyKeyEvent, Send
<1>2. DUMMY_KEY \in VirtualKey \cup {VK_DISABLED} /\ Counterparts(DUMMY_KEY) \ NoSuchKey = {}
  BY ModifiersApart DEF VirtualKey, Counterparts, Common, NoSuchKey
<1>3. down \in Seq(Sent) /\ L = K \cup (Counterparts(DUMMY_KEY) \ NoSuchKey)
  <2>1. FALSE \in BOOLEAN
    OBVIOUS
  <2> QED
    BY ONLY <1>2, <2>1, SendSent, K \in SUBSET VirtualKey
<1>4. up \in Seq(Sent) /\ Final(K, up) = K \ Released(DUMMY_KEY)
  <2>1. TRUE \in BOOLEAN
    OBVIOUS
  <2> QED
    BY ONLY <1>2, <2>1, SendSent, K \in SUBSET VirtualKey
<1> HIDE DEF down, up
<1>5. down \o up \in Seq(Sent) /\ Final(K, down \o up) = Final(L, up)
  BY <1>3, <1>4, TwoSent
<1> QED
  BY <1>1, <1>2, <1>3, <1>4, <1>5

(* The keys that go up with the modifiers of a shortcut. *)
LEMMA UpSent ==
    ASSUME NEW s \in ShortcutType, NEW win \in Side, NEW compare, NEW released,
           NEW K \in SUBSET VirtualKey
    PROVE  /\ Up(s, win, compare, released) \in Seq(Sent)
           /\ Final(K, Up(s, win, compare, released)) \subseteq K
           /\ \A f \in Families : GoesUp(s, win, compare, released, f) =>
                 Final(K, Up(s, win, compare, released)) \cap Released(GetKey(s, f, win)) = {}
<1> DEFINE b(f) == GoesUp(s, win, compare, released, f)
           k(f) == GetKey(s, f, win)
           R(f) == Optional(b(f), Send(k(f), TRUE))
<1>1. ASSUME NEW f \in Families, NEW L \in SUBSET VirtualKey
      PROVE  /\ R(f) \in Seq(Sent)
             /\ Final(L, R(f)) = IF b(f) THEN L \ Released(k(f)) ELSE L
  <2>1. b(f) \in BOOLEAN
    BY DEF GoesUp, Differs
  <2>2. b(f) => k(f) \in VirtualKey
    BY KeysAreKeys DEF GoesUp, Differs
  <2> HIDE DEF b, k
  <2> DEFINE q == Send(k(f), TRUE)
  <2>3. b(f) => q \in Seq(Sent) /\ Final(L, q) = L \ Released(k(f))
    BY <2>2, SendSent
  <2> HIDE DEF q
  <2>4. /\ Optional(b(f), q) \in Seq(Sent)
        /\ Final(L, Optional(b(f), q)) = IF b(f) THEN Final(L, q) ELSE L
    BY ONLY <2>1, <2>3, OptionalSent, L \in SUBSET VirtualKey
  <2> QED
    BY <2>3, <2>4 DEF q
<1>2. Up(s, win, compare, released) = R("shift") \o R("alt") \o R("ctrl") \o R("win")
  BY DEF Up, ModifierKeysUp, Send
<1>3. /\ R("shift") \in Seq(Sent) /\ R("alt") \in Seq(Sent)
      /\ R("ctrl") \in Seq(Sent) /\ R("win") \in Seq(Sent)
  BY <1>1 DEF Families
<1> DEFINE K1 == Final(K, R("shift"))
           K2 == Final(K1, R("alt"))
           K3 == Final(K2, R("ctrl"))
           K4 == Final(K3, R("win"))
<1>4. /\ K1 = IF b("shift") THEN K \ Released(k("shift")) ELSE K
      /\ K2 = IF b("alt") THEN K1 \ Released(k("alt")) ELSE K1
      /\ K3 = IF b("ctrl") THEN K2 \ Released(k("ctrl")) ELSE K2
      /\ K4 = IF b("win") THEN K3 \ Released(k("win")) ELSE K3
  BY <1>1, FinalTyped DEF Families
<1> HIDE DEF R
<1>5. /\ R("shift") \o R("alt") \o R("ctrl") \o R("win") \in Seq(Sent)
      /\ Final(K, R("shift") \o R("alt") \o R("ctrl") \o R("win")) = K4
  BY <1>3, FourSent
<1> HIDE DEF K1, K2, K3, K4
<1>9. \A f \in Families : b(f) => K4 \cap Released(k(f)) = {}
  BY <1>4 DEF Families
<1> QED
  BY <1>2, <1>4, <1>5, <1>9

(* The keys that go down with the modifiers of a shortcut. *)
LEMMA DownSent ==
    ASSUME NEW s \in ShortcutType, NEW win \in Side, NEW compare, NEW released,
           NEW K \in SUBSET VirtualKey
    PROVE  /\ Down(s, win, compare, released) \in Seq(Sent)
           /\ \A g \in Final(K, Down(s, win, compare, released)) :
                 \/ g \in K
                 \/ \E f \in Families : /\ GoesDown(s, win, compare, released, f)
                                      /\ g \in Counterparts(GetKey(s, f, win))
<1> DEFINE b(f) == GoesDown(s, win, compare, released, f)
           k(f) == GetKey(s, f, win)
           R(f) == Optional(b(f), Send(k(f), FALSE))
<1>1. ASSUME NEW f \in Families, NEW L \in SUBSET VirtualKey
      PROVE  /\ R(f) \in Seq(Sent)
             /\ Final(L, R(f)) = IF b(f) THEN L \cup (Counterparts(k(f)) \ NoSuchKey) ELSE L
  <2>1. b(f) \in BOOLEAN
    BY DEF GoesDown, Differs
  <2>2. b(f) => k(f) \in VirtualKey
    BY KeysAreKeys DEF GoesDown, Differs
  <2> HIDE DEF b, k
  <2> DEFINE q == Send(k(f), FALSE)
  <2>3. b(f) => /\ q \in Seq(Sent)
                /\ Final(L, q) = L \cup (Counterparts(k(f)) \ NoSuchKey)
    BY <2>2, SendSent
  <2> HIDE DEF q
  <2>4. /\ Optional(b(f), q) \in Seq(Sent)
        /\ Final(L, Optional(b(f), q)) = IF b(f) THEN Final(L, q) ELSE L
    BY ONLY <2>1, <2>3, OptionalSent, L \in SUBSET VirtualKey
  <2> QED
    BY <2>3, <2>4 DEF q
<1>2. Down(s, win, compare, released) = R("win") \o R("ctrl") \o R("alt") \o R("shift")
  BY DEF Down, ModifierKeysDown, Send
<1>3. /\ R("shift") \in Seq(Sent) /\ R("alt") \in Seq(Sent)
      /\ R("ctrl") \in Seq(Sent) /\ R("win") \in Seq(Sent)
  BY <1>1 DEF Families
<1> DEFINE K1 == Final(K, R("win"))
           K2 == Final(K1, R("ctrl"))
           K3 == Final(K2, R("alt"))
           K4 == Final(K3, R("shift"))
<1>4. /\ \A g \in K1 : g \in K \/ (b("win") /\ g \in Counterparts(k("win")))
      /\ \A g \in K2 : g \in K1 \/ (b("ctrl") /\ g \in Counterparts(k("ctrl")))
      /\ \A g \in K3 : g \in K2 \/ (b("alt") /\ g \in Counterparts(k("alt")))
      /\ \A g \in K4 : g \in K3 \/ (b("shift") /\ g \in Counterparts(k("shift")))
  <2>1. K1 \in SUBSET VirtualKey /\ K2 \in SUBSET VirtualKey /\ K3 \in SUBSET VirtualKey
    BY ONLY FinalTyped
  <2> HIDE DEF R
  <2>2. \A g \in K1 : g \in K \/ (b("win") /\ g \in Counterparts(k("win")))
    BY <1>1 DEF Families
  <2>3. \A g \in K2 : g \in K1 \/ (b("ctrl") /\ g \in Counterparts(k("ctrl")))
    BY <1>1, <2>1 DEF Families
  <2>4. \A g \in K3 : g \in K2 \/ (b("alt") /\ g \in Counterparts(k("alt")))
    BY <1>1, <2>1 DEF Families
  <2>5. \A g \in K4 : g \in K3 \/ (b("shift") /\ g \in Counterparts(k("shift")))
    BY <1>1, <2>1 DEF Families
  <2> QED
    BY <2>2, <2>3, <2>4, <2>5
<1> HIDE DEF R
<1>5. /\ R("win") \o R("ctrl") \o R("alt") \o R("shift") \in Seq(Sent)
      /\ Final(K, R("win") \o R("ctrl") \o R("alt") \o R("shift")) = K4
  BY <1>3, FourSent
<1> HIDE DEF K1, K2, K3, K4
<1>9. \A g \in K4 : g \in K \/ \E f \in Families : b(f) /\ g \in Counterparts(k(f))
  BY <1>4 DEF Families
<1> QED
  BY <1>2, <1>5, <1>9

---------------------------------------------------------------------------
(* The modifiers of a shortcut *)

LEMMA KeyOfUsed ==
    ASSUME NEW s \in ShortcutType, NEW f \in Used(s), NEW win \in Side
    PROVE  /\ f \in Families
           /\ GetKey(s, f, win) \in Modifiers /\ GetKey(s, f, win)[1] = f
           /\ GetKey(s, f, win) \in VirtualKey /\ GetKey(s, f, win) # NoKey
<1>1. f \in Families /\ s.mod[f] \in {"Left", "Right", "Both"}
  BY DEF Used, ShortcutType, ModifierKey
<1>2. GetKey(s, f, win) \in Modifiers /\ GetKey(s, f, win)[1] = f
  BY <1>1 DEF GetKey, Modifiers, Side
<1>3. GetKey(s, f, win) \in VirtualKey
  BY <1>2 DEF VirtualKey
<1> QED
  BY <1>1, <1>2, <1>3, KeysAssumption

LEMMA UnusedHasNoKey ==
    ASSUME NEW s, NEW f \in Families, f \notin Used(s), NEW win
    PROVE  GetKey(s, f, win) = NoKey
  BY DEF Used, GetKey

(* A key that stands for a modifier of the shortcut is one it looks for. *)
LEMMA HeldIsChecked ==
    ASSUME NEW s \in ShortcutType, NEW f \in Used(s), NEW win \in Side,
           NEW k, GetKey(s, f, win) \in Counterparts(k)
    PROVE  CheckKey(s, f, k)
<1>1. f \in Families /\ s.mod[f] \in {"Left", "Right", "Both"}
  BY DEF Used, ShortcutType, ModifierKey
<1>2. GetKey(s, f, win) = IF f = "win" /\ s.mod[f] = "Both"
                         THEN <<f, IF win = "Disabled" THEN "Left" ELSE win>> ELSE <<f, s.mod[f]>>
  BY <1>1 DEF GetKey
<1>3. k \in Modifiers /\ k[1] = f
  BY KeyOfUsed, CounterpartFacts
<1>4. k = <<f, k[2]>> /\ k[2] \in {"Left", "Right", "Both"}
      /\ Common(k) = IF f = "win" THEN k ELSE <<f, "Both">>
  BY <1>3, ModifierFacts
<1>5. GetKey(s, f, win) = k \/ (f # "win" /\ GetKey(s, f, win) = <<f, "Both">>)
  BY <1>4 DEF Counterparts
<1>6. CASE f = "win" /\ s.mod[f] = "Both"
  <2>1. k \in {<<f, "Left">>, <<f, "Right">>}
    BY <1>2, <1>5, <1>6 DEF Side
  <2> QED
    BY <1>6, <2>1 DEF CheckKey
<1>7. CASE ~(f = "win" /\ s.mod[f] = "Both")
  <2>1. GetKey(s, f, win) = <<f, s.mod[f]>> /\ <<f, s.mod[f]>> # <<"win", "Both">>
    BY <1>2, <1>7
  <2>2. CASE k = <<f, s.mod[f]>>
    BY <1>1, <2>1, <2>2 DEF CheckKey
  <2>3. CASE k # <<f, s.mod[f]>>
    <3>1. s.mod[f] = "Both" /\ k[2] \in {"Left", "Right"}
      BY <1>4, <1>5, <2>1, <2>3
    <3> QED
      BY <1>4, <3>1 DEF CheckKey
  <2> QED
    BY <2>2, <2>3
<1> QED
  BY <1>6, <1>7

LEMMA CheckedFamily ==
    ASSUME NEW s \in ShortcutType, NEW f \in Families, NEW k, CheckKey(s, f, k)
    PROVE  k \in Modifiers /\ k[1] = f /\ f \in Used(s)
<1>1. s.mod[f] \in {"Disabled", "Left", "Right", "Both"}
  BY DEF ShortcutType, ModifierKey
<1> QED
  BY <1>1 DEF CheckKey, Modifiers, Used

LEMMA ActionKeyFacts ==
    ASSUME NEW s \in ValidShortcut
    PROVE  /\ s \in ShortcutType /\ s.actionKey \in VirtualKey /\ s.actionKey \notin Modifiers
           /\ Counterparts(s.actionKey) = {s.actionKey} /\ Released(s.actionKey) = {s.actionKey}
           /\ s.actionKey \notin NoSuchKey /\ s # EmptyShortcut
<1>1. s \in ShortcutType /\ s.actionKey \in ActionKey
  BY DEF ValidShortcut, ShortcutType
<1>2. s.actionKey \in VirtualKey /\ s.actionKey \notin Modifiers /\ s.actionKey # DUMMY_KEY
  BY <1>1, ModifiersApart DEF VirtualKey
<1>3. s.actionKey # VK_DISABLED /\ <<"win", "Both">> \in Modifiers
  BY <1>2, KeysAssumption DEF Modifiers, Families
<1>4. Common(s.actionKey) = s.actionKey
  BY <1>2 DEF Common
<1>5. s # EmptyShortcut
  BY DEF ValidShortcut, EmptyShortcut
<1> QED
  BY <1>1, <1>2, <1>3, <1>4, <1>5 DEF Counterparts, Released, NoSuchKey

LEMMA UpCases ==
    ASSUME NEW s \in ShortcutType, NEW f \in Used(s), NEW win \in Side, NEW compare, NEW released,
           \/ compare = EmptyShortcut
           \/ GetKey(s, f, win) # GetKey(compare, f, win)
           \/ CheckKey(s, f, released)
    PROVE  GoesUp(s, win, compare, released, f)
  BY KeyOfUsed DEF GoesUp, Differs

LEMMA DownCases ==
    ASSUME NEW s \in ShortcutType, NEW f \in Families, NEW win \in Side, NEW compare, NEW released,
           GoesDown(s, win, compare, released, f)
    PROVE  /\ f \in Used(s) /\ ~CheckKey(s, f, released)
           /\ compare = EmptyShortcut \/ GetKey(s, f, win) # GetKey(compare, f, win)
<1>1. f \in Used(s)
  BY GetKeyOfUsed DEF GoesDown, Differs
<1> QED
  BY <1>1 DEF GoesDown, Differs

---------------------------------------------------------------------------
(* The event that is handled, and the shortcut that is invoked *)

LEMMA OneElement ==
    ASSUME NEW S, NEW q \in Seq(S), Len(q) = 1
    PROVE  q = <<q[1]>> /\ Tail(q) = <<>>
<1>1. DOMAIN q = 1 .. 1
  OBVIOUS
<1>2. q = <<q[1]>>
  BY <1>1
<1>3. Tail(q) \in Seq(S) /\ Len(Tail(q)) = 0
  BY HeadTailProperties, EmptySeq
<1> QED
  BY <1>2, <1>3, EmptySeq

(* The shortcuts handle the user's event, or the one that a single key      *)
(* stands for: nothing else is pending.                                    *)
LEMMA EventLast ==
    ASSUME EngineInv, KeysInv, pending # <<>>, e.flag # "shortcut"
    PROVE  /\ pending = <<e>> /\ Len(pending) = 1 /\ Tail(pending) = <<>>
           /\ Late /\ Latest = e /\ e \in Event
           /\ keys \in SUBSET VirtualKey /\ Final(keys, pending) = keys
<1>1. pending \in Seq(Event) /\ keys \in SUBSET VirtualKey
  BY DEF EngineInv, Fits, TypeOK
<1>2. \A i \in 1 .. Len(pending) - 1 : pending[i].flag = "shortcut"
  BY DEF KeysInv, EventsInOrder
<1>3. Len(pending) \in Nat /\ Len(pending) >= 1 /\ e = pending[1] /\ e \in Event
  BY <1>1, EmptySeq DEF e
<1>4. Len(pending) = 1
  <2>1. Len(pending) > 1 => 1 \in 1 .. Len(pending) - 1
    BY <1>3
  <2>2. pending[1].flag # "shortcut"
    BY <1>3
  <2>3. ~(Len(pending) > 1)
    BY <1>2, <2>1, <2>2
  <2> QED
    BY ONLY <1>3, <2>3
<1>5. pending = <<e>> /\ Tail(pending) = <<>>
  BY <1>1, <1>3, <1>4, OneElement
<1>6. Latest = e /\ Late
  BY <1>3, <1>4 DEF Latest, Late
<1>7. Final(keys, <<e>>) = keys
  BY <1>1, <1>3, FinalOne
<1> QED
  BY <1>1, <1>3, <1>4, <1>5, <1>6, <1>7

LEMMA HandledLast ==
    ASSUME EngineInv, KeysInv, NEW a \in DOMAIN remaps, NEW s \in DOMAIN remaps[a], NEW case, Handled(a, s, case)
    PROVE  /\ pending = <<e>> /\ Len(pending) = 1 /\ Tail(pending) = <<>>
           /\ Late /\ Latest = e /\ e \in Event
           /\ keys \in SUBSET VirtualKey /\ Final(keys, pending) = keys
           /\ e.flag # "shortcut" /\ ~Suspended /\ ~Single
<1>1. pending # <<>> /\ e.flag # "shortcut" /\ ~Suspended /\ ~Single
  BY DEF Handled, ByApp, ByOS
<1> QED
  BY <1>1, EventLast

LEMMA SentPending ==
    ASSUME NEW n, NEW q \in Seq(Event), Sends(n, q), Tail(pending) = <<>>
    PROVE  pending' = q
<1>1. q \o <<>> = q
  BY ConcatEmptySeq
<1> QED
  BY <1>1 DEF Sends
=============================================================================
