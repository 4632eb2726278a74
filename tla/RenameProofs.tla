---------------------------- MODULE RenameProofs ----------------------------
(***************************************************************************)
(* What holds of PowerRename's manager and window for any number of items, *)
(* any tree of folders, any criteria and however often they are changed.   *)
(***************************************************************************)
EXTENDS PowerRenameManager, SequenceTheorems, WellFoundedInduction, TLAPS

---------------------------------------------------------------------------
(* The inductive invariant *)

(* What the window's thread has left to do is a sequence of calls in which *)
(* one is followed only by these.                                          *)
Follows(call, next) ==
    \/ call = "cancel" /\ next = "wait"
    \/ call = "wait" /\ next \in {"create", "createFileOp"}
    \/ call = "create" /\ next = "signal"
    \/ call = "signal" /\ next \in {"cancel", "pump"}
    \/ call = "createFileOp" /\ next = "pump"
    \/ call = "pump" /\ next = "completed"
InOrder(calls) ==
    /\ \A k \in 1 .. Len(calls) - 1 : Follows(calls[k], calls[k + 1])
    /\ calls # <<>> => calls[Len(calls)] \in {"signal", "completed"}

Has(calls, call) == \E k \in DOMAIN calls : calls[k] = call

(* The section is entered before the first regex worker is created and is  *)
(* never left: no worker that calls back is let in.                        *)
SectionHeld ==
    /\ reentrancy \in {"nobody", "ui"}
    /\ reentrancy = "nobody" =>
          /\ regEx.pc = "none"
          /\ ui # <<>> => /\ Head(ui) \notin {"create", "signal"}
                          /\ Head(ui) = "wait" => ui[2] = "createFileOp"

CallsInv == ui \in Seq(Call) /\ InOrder(ui) /\ SectionHeld

(* No other regex worker is to come after the one there is.                *)
Last == ~Has(ui, "create") /\ (Has(ui, "completed") => closing)
Running == regEx.pc \in {"begin", "check", "compute", "put"}
Right(i) == newName[i] = NameFor(criteria, i, original[i])

PreviewInv ==
    /\ regEx.pc # "none" => regEx.item >= 1
    /\ Last =>
        /\ Running => \A i \in Items : i < regEx.item => Right(i)
        /\ regEx.pc = "put" => regEx.name = NameFor(criteria, regEx.item, original[regEx.item])
        /\ regEx.pc \in {"none", "exited"} /\ outcome = "complete" => \A i \in Items : Right(i)

ButtonInv ==
    /\ Last /\ regEx.pc \in {"none", "exited"} /\ outcome # "failed"
    /\ \A k \in DOMAIN messages : messages[k] = "close"
    => button = (ItemsToRename # {})

(* The file operation's worker is created where there is no worker left.   *)
HandOver ==
    /\ ui # <<>> /\ Head(ui) = "createFileOp" => regEx.pc = "none"
    /\ Has(ui, "createFileOp") => fileOp.pc = "none"

(* The file operation's worker: what it has looked at is deeper than what  *)
(* it still has to look at, or as deep and earlier in the list; and it     *)
(* queues one operation for an item, in that order.                        *)
Before(i, j) == Depth[j] < Depth[i] \/ (Depth[j] = Depth[i] /\ i < j)
Queued(i) == \E k \in DOMAIN fileOp.ops : fileOp.ops[k].item = i
QueueInv ==
    /\ fileOp.pc = "none" => fileOp.todo = {} /\ fileOp.ops = <<>>
    /\ fileOp.pc \in {"perform", "exited"} => fileOp.todo = {}
    /\ fileOp.pc \in {"begin", "exited"} => fileOp.ops = <<>>
    /\ \A i \in Items \ fileOp.todo, j \in fileOp.todo : Before(i, j)
    /\ \A k, l \in DOMAIN fileOp.ops : k < l => Before(fileOp.ops[k].item, fileOp.ops[l].item)
    /\ \A i \in fileOp.todo : ~Queued(i)
    /\ \A k, l \in DOMAIN fileOp.ops : fileOp.ops[k].item = fileOp.ops[l].item => k = l

(* A path in the list is made of the names in the list.                    *)
PathInv == \A i \in Items : \A d \in 1 .. Depth[i] + 1 : path[i][d] = original[Around(i, d - 1)]

(* Two items of a folder have two names, so that a path leads to one item. *)
DiskInv == \A i, j \in Items : Siblings(i, j) => disk[i] # disk[j]

(* What is queued still leads to its item: all that is in a folder is      *)
(* renamed before the folder is.                                           *)
Alive == window = "open" /\ ~AboutToClose /\ ~refused
Undone == Alive /\ ~collided
FromInv == Undone => \A k \in DOMAIN fileOp.ops :
    fileOp.ops[k].from = DiskPath(fileOp.ops[k].item)

(* The list is ahead of the disk by the operations that are queued, unless *)
(* the window is to be closed after them and the list is left as it was.   *)
Abandoned == closing /\ (fileOp.pc \in {"perform", "exited"} \/ Calls("completed"))
ListInv == Undone /\ ~Abandoned =>
    /\ \A i \in Items : closing \/ ~Queued(i) => original[i] = disk[i]
    /\ \A k \in DOMAIN fileOp.ops : ~closing => fileOp.ops[k].to = original[fileOp.ops[k].item]

(* What was promised is still in the list, or queued, or done.             *)
PromiseInv == Undone /\ undisturbed =>
    /\ fileOp.pc # "none" => regEx.pc = "none" /\ Head(ui) = "pump"
    /\ \A i \in fileOp.todo : promised[i] # NoName => newName[i] = promised[i] /\ ShouldRenameItem(i)
    /\ fileOp.pc # "none" \/ Calls("completed") =>
         \A i \in Items \ fileOp.todo : promised[i] # NoName =>
            \/ \E k \in DOMAIN fileOp.ops : fileOp.ops[k].item = i /\ fileOp.ops[k].to = promised[i]
            \/ ~Queued(i) /\ disk[i] = promised[i]

(* Only what was promised is queued, no two items of a folder are promised *)
(* one name, and who has a name that was promised to another is renamed    *)
(* before.  So nothing collides where something was promised.              *)
Promising == \E i \in Items : promised[i] # NoName
Pending(i) == i \in fileOp.todo \/ Queued(i)
OnlyPromised ==
    /\ \A i \in fileOp.todo : ShouldRenameItem(i) => promised[i] # NoName
    /\ fileOp.pc = "take" => \A i \in Items : Following(i) => promised[i] # NoName
    /\ \A k \in DOMAIN fileOp.ops : promised[fileOp.ops[k].item] = fileOp.ops[k].to
GivenAway == \A i, j \in Items : Siblings(i, j) /\ promised[i] # NoName =>
    /\ promised[j] # promised[i]
    /\ Pending(i) /\ disk[j] = promised[i] => j < i /\ promised[j] # NoName /\ Pending(j)
ClashInv == Undone /\ undisturbed /\ Promising /\ fileOp.pc # "none" => OnlyPromised /\ GivenAway
NoClashInv == Alive /\ undisturbed /\ Promising => ~collided

RenameInv == /\ CallsInv /\ PreviewInv /\ ButtonInv /\ HandOver
             /\ QueueInv /\ PathInv /\ DiskInv /\ FromInv /\ ListInv
             /\ PromiseInv /\ ClashInv /\ NoClashInv

---------------------------------------------------------------------------
(* Sequences of calls *)

LEMMA PerformFacts ==
    /\ PerformRegExRename \in Seq(Call) /\ Len(PerformRegExRename) = 4
    /\ PerformRegExRename[1] = "cancel" /\ PerformRegExRename[2] = "wait"
    /\ PerformRegExRename[3] = "create" /\ PerformRegExRename[4] = "signal"
<1>1. "cancel" \in Call /\ "wait" \in Call /\ "create" \in Call /\ "signal" \in Call
  BY DEF Call
<1> QED
  BY <1>1 DEF PerformRegExRename

LEMMA TailFacts ==
    ASSUME NEW u \in Seq(Call), u # <<>>
    PROVE  /\ Tail(u) \in Seq(Call)
           /\ Len(u) \in Nat /\ Len(u) >= 1 /\ Len(Tail(u)) = Len(u) - 1
           /\ DOMAIN u = 1 .. Len(u) /\ DOMAIN Tail(u) = 1 .. Len(u) - 1
           /\ \A k \in 1 .. Len(u) - 1 : Tail(u)[k] = u[k + 1]
           /\ Head(u) = u[1] /\ Head(u) \in Call
  BY HeadTailProperties, LenProperties

LEMMA PrefixFacts ==
    ASSUME NEW u \in Seq(Call)
    PROVE  /\ PerformRegExRename \o u \in Seq(Call)
           /\ Len(u) \in Nat
           /\ Len(PerformRegExRename \o u) = Len(u) + 4
           /\ PerformRegExRename \o u # <<>>
           /\ Head(PerformRegExRename \o u) = "cancel"
           /\ \A k \in 1 .. Len(u) + 4 : (PerformRegExRename \o u)[k]
                 = IF k <= 4 THEN PerformRegExRename[k] ELSE u[k - 4]
<1> DEFINE w == PerformRegExRename \o u
<1>0. /\ w \in Seq(Call) /\ Len(w) = Len(PerformRegExRename) + Len(u)
      /\ \A k \in 1 .. Len(PerformRegExRename) + Len(u) : w[k]
            = IF k <= Len(PerformRegExRename) THEN PerformRegExRename[k]
                                              ELSE u[k - Len(PerformRegExRename)]
  <2>1. PerformRegExRename \in Seq(Call)
    BY PerformFacts
  <2> QED
    BY <2>1, ConcatProperties, Zenon
<1> HIDE DEF w
<1>1. w \in Seq(Call) /\ Len(w) = Len(u) + 4 /\ Len(u) \in Nat
  BY <1>0, PerformFacts, LenProperties
<1>2. \A k \in 1 .. Len(u) + 4 : w[k] = IF k <= 4 THEN PerformRegExRename[k] ELSE u[k - 4]
  BY <1>0, <1>1, PerformFacts
<1>3. w # <<>>
  BY <1>1
<1>4. Head(w) = w[1] /\ w[1] = "cancel"
  BY <1>1, <1>2, <1>3, PerformFacts, TailFacts
<1> QED
  BY <1>1, <1>2, <1>3, <1>4 DEF w

(* What is left of the calls once the first has returned. *)
LEMMA TailInOrder ==
    ASSUME NEW u \in Seq(Call), u # <<>>, InOrder(u)
    PROVE  /\ Tail(u) \in Seq(Call) /\ InOrder(Tail(u))
           /\ Tail(u) # <<>> => Follows(Head(u), Head(Tail(u))) /\ Head(Tail(u)) = u[2]
           /\ Tail(u) = <<>> => Head(u) \in {"signal", "completed"}
           /\ Head(u) = "completed" => Tail(u) = <<>>
           /\ \A c : c # Head(u) => (Has(Tail(u), c) <=> Has(u, c))
<1> DEFINE t == Tail(u)
<1>1. /\ t \in Seq(Call) /\ Len(u) \in Nat /\ Len(u) >= 1 /\ Len(t) = Len(u) - 1
      /\ DOMAIN u = 1 .. Len(u) /\ DOMAIN t = 1 .. Len(u) - 1
      /\ \A k \in 1 .. Len(u) - 1 : t[k] = u[k + 1]
      /\ Head(u) = u[1]
  BY TailFacts
<1> HIDE DEF t
<1>2. InOrder(t)
  <2>1. ASSUME NEW k \in 1 .. Len(t) - 1 PROVE Follows(t[k], t[k + 1])
    <3>1. k + 1 \in 1 .. Len(u) - 1 /\ t[k] = u[k + 1] /\ t[k + 1] = u[k + 2]
      BY <1>1
    <3>2. Follows(u[k + 1], u[(k + 1) + 1])
      BY <3>1 DEF InOrder
    <3> QED
      BY <3>1, <3>2
  <2>2. t # <<>> => t[Len(t)] \in {"signal", "completed"}
    BY <1>1 DEF InOrder
  <2> QED
    BY <2>1, <2>2 DEF InOrder
<1>3. t # <<>> => Follows(Head(u), Head(t)) /\ Head(t) = u[2]
  <2>1. ASSUME t # <<>> PROVE Len(t) >= 1 /\ Head(t) = t[1]
    BY <2>1, <1>1, TailFacts
  <2> QED
    BY <2>1, <1>1 DEF InOrder
<1>4. t = <<>> => Head(u) \in {"signal", "completed"}
  BY <1>1 DEF InOrder
<1>5. Head(u) = "completed" => t = <<>>
  BY <1>3 DEF Follows
<1>6. ASSUME NEW c, c # Head(u) PROVE Has(t, c) <=> Has(u, c)
  <2>1. ASSUME NEW k \in DOMAIN t, t[k] = c PROVE Has(u, c)
    <3>1. k + 1 \in DOMAIN u /\ u[k + 1] = c
      BY <1>1, <2>1
    <3> QED
      BY <3>1 DEF Has
  <2>2. ASSUME NEW k \in DOMAIN u, u[k] = c PROVE Has(t, c)
    <3>1. k - 1 \in DOMAIN t /\ t[k - 1] = c
      BY <1>1, <1>6, <2>2
    <3> QED
      BY <3>1 DEF Has
  <2> QED
    BY <2>1, <2>2 DEF Has
<1> QED
  BY <1>1, <1>2, <1>3, <1>4, <1>5, <1>6 DEF t

(* _PerformRegExRename, called where nothing or the message loop is left. *)
LEMMA PrefixInOrder ==
    ASSUME NEW u \in Seq(Call), InOrder(u), u # <<>> => Head(u) \in {"cancel", "pump"}
    PROVE  /\ PerformRegExRename \o u \in Seq(Call) /\ InOrder(PerformRegExRename \o u)
           /\ PerformRegExRename \o u # <<>> /\ Head(PerformRegExRename \o u) = "cancel"
           /\ Has(PerformRegExRename \o u, "create")
           /\ \A c : Has(u, c) => Has(PerformRegExRename \o u, c)
<1> DEFINE w == PerformRegExRename \o u
<1>1. /\ w \in Seq(Call) /\ Len(u) \in Nat /\ Len(w) = Len(u) + 4 /\ w # <<>>
      /\ Head(w) = "cancel"
      /\ \A k \in 1 .. Len(u) + 4 : w[k] = IF k <= 4 THEN PerformRegExRename[k] ELSE u[k - 4]
  BY PrefixFacts
<1>2. DOMAIN w = 1 .. Len(u) + 4 /\ DOMAIN u = 1 .. Len(u)
  BY <1>1, LenProperties
<1>3. /\ w[1] = "cancel" /\ w[2] = "wait" /\ w[3] = "create" /\ w[4] = "signal"
      /\ \A k \in 1 .. Len(u) : w[k + 4] = u[k]
  BY <1>1, PerformFacts
<1> HIDE DEF w
<1>4. u # <<>> => Len(u) >= 1 /\ u[1] = Head(u)
  BY TailFacts
<1>5. ASSUME NEW k \in 1 .. Len(w) - 1 PROVE Follows(w[k], w[k + 1])
  <2>1. CASE k \in 1 .. 3
    BY <1>3, <2>1 DEF Follows
  <2>2. CASE k = 4
    BY <1>1, <1>3, <1>4, <1>5, <2>2 DEF Follows
  <2>3. CASE k > 4
    <3>1. k - 4 \in 1 .. Len(u) - 1 /\ w[k] = u[k - 4] /\ w[k + 1] = u[(k - 4) + 1]
      BY <1>1, <2>3
    <3> QED
      BY <3>1 DEF InOrder
  <2> QED
    BY <1>1, <2>1, <2>2, <2>3
<1>6. w[Len(w)] \in {"signal", "completed"}
  BY <1>1, <1>3, <1>4 DEF InOrder
<1>7. Has(w, "create")
  BY <1>2, <1>3, <1>1 DEF Has
<1>8. ASSUME NEW c, Has(u, c) PROVE Has(w, c)
  <2>1. PICK k \in DOMAIN u : u[k] = c
    BY <1>8 DEF Has
  <2>2. k + 4 \in DOMAIN w /\ w[k + 4] = c
    BY <1>2, <1>3, <2>1, <1>1
  <2> QED
    BY <2>2 DEF Has
<1> QED
  BY <1>1, <1>5, <1>6, <1>7, <1>8 DEF InOrder, w

RenameCalls == <<"wait", "createFileOp", "pump", "completed">>

LEMMA RenameCallsInOrder ==
    /\ RenameCalls \in Seq(Call) /\ InOrder(RenameCalls) /\ RenameCalls # <<>>
    /\ Head(RenameCalls) = "wait" /\ RenameCalls[2] = "createFileOp"
    /\ ~Has(RenameCalls, "create") /\ Has(RenameCalls, "completed")
<1>1. "wait" \in Call /\ "createFileOp" \in Call /\ "pump" \in Call /\ "completed" \in Call
  BY DEF Call
<1>2. RenameCalls \in Seq(Call)
  BY <1>1 DEF RenameCalls
<1>3. /\ Len(RenameCalls) = 4 /\ DOMAIN RenameCalls = 1 .. 4
      /\ RenameCalls[1] = "wait" /\ RenameCalls[2] = "createFileOp"
      /\ RenameCalls[3] = "pump" /\ RenameCalls[4] = "completed"
  BY DEF RenameCalls
<1>4. RenameCalls # <<>> /\ Head(RenameCalls) = "wait"
  BY DEF RenameCalls
<1>5. InOrder(RenameCalls)
  BY <1>3 DEF InOrder, Follows
<1>6. ~Has(RenameCalls, "create") /\ Has(RenameCalls, "completed")
  BY <1>3 DEF Has
<1> QED
  BY <1>2, <1>3, <1>4, <1>5, <1>6

(* A message loop that is running is followed by OnRenameCompleted. *)
LEMMA PumpThenCompleted ==
    ASSUME NEW u \in Seq(Call), InOrder(u), Has(u, "pump")
    PROVE  Has(u, "completed") /\ u # <<>>
<1>1. PICK k \in DOMAIN u : u[k] = "pump"
  BY DEF Has
<1>2. DOMAIN u = 1 .. Len(u) /\ Len(u) \in Nat
  BY LenProperties
<1>3. u # <<>>
  BY <1>1, <1>2
<1>4. k # Len(u)
  BY <1>1, <1>2, <1>3 DEF InOrder
<1>5. Follows(u[k], u[k + 1]) /\ k + 1 \in DOMAIN u
  BY <1>1, <1>2, <1>4 DEF InOrder
<1> QED
  BY <1>1, <1>3, <1>5 DEF Follows, Has

---------------------------------------------------------------------------
(* What the window's thread is doing, and which worker there is *)

(* A call of the window's thread returns. *)
LEMMA Returns ==
    ASSUME TypeOK, CallsInv, NEW call, Calls(call), ui' = Tail(ui)
    PROVE  /\ ui' \in Seq(Call) /\ InOrder(ui')
           /\ ui' # <<>> => Follows(call, Head(ui')) /\ Head(ui') = ui[2]
           /\ ui' = <<>> => call \in {"signal", "completed"}
           /\ call = "completed" => ui' = <<>>
           /\ \A c : c # call => (Has(ui', c) <=> Has(ui, c))
<1>1. ui \in Seq(Call) /\ ui # <<>> /\ InOrder(ui) /\ Head(ui) = call
  BY DEF TypeOK, CallsInv, Calls
<1> QED
  BY <1>1, TailInOrder

(* It calls _PerformRegExRename. *)
LEMMA Performs ==
    ASSUME TypeOK, CallsInv, ui # <<>> => Head(ui) = "pump", ui' = PerformRegExRename \o ui
    PROVE  /\ ui' \in Seq(Call) /\ InOrder(ui') /\ ui' # <<>> /\ Head(ui') = "cancel"
           /\ Has(ui', "create")
           /\ \A c : Has(ui, c) => Has(ui', c)
<1>1. ui \in Seq(Call) /\ InOrder(ui) /\ (ui # <<>> => Head(ui) \in {"cancel", "pump"})
  BY DEF TypeOK, CallsInv
<1> QED
  BY <1>1, PrefixInOrder

(* It calls it twice, once for each of the two terms. *)
LEMMA PerformsTwice ==
    ASSUME TypeOK, CallsInv, Calls("completed"),
           ui' = PerformRegExRename \o PerformRegExRename \o Tail(ui)
    PROVE  /\ ui' \in Seq(Call) /\ InOrder(ui') /\ ui' # <<>> /\ Head(ui') = "cancel"
           /\ Has(ui', "create")
<1>1. ui \in Seq(Call) /\ ui # <<>> /\ InOrder(ui) /\ Head(ui) = "completed"
  BY DEF TypeOK, CallsInv, Calls
<1>2. Tail(ui) = <<>>
  BY <1>1, TailInOrder
<1>3. PerformRegExRename \in Seq(Call)
  BY PerformFacts
<1>4. PerformRegExRename \o <<>> = PerformRegExRename
  BY <1>3, ConcatEmptySeq
<1>5. <<>> \in Seq(Call) /\ InOrder(<<>>)
  BY EmptySeq DEF InOrder
<1>6. InOrder(PerformRegExRename) /\ Head(PerformRegExRename) = "cancel"
  BY <1>4, <1>5, PrefixInOrder
<1>7. (PerformRegExRename \o PerformRegExRename) \o <<>>
         = PerformRegExRename \o PerformRegExRename
  BY <1>3, PrefixFacts, ConcatEmptySeq
<1> QED
  BY <1>2, <1>3, <1>6, <1>7, PrefixInOrder

(* Who may enter the section: the window's thread, and nobody else while   *)
(* there is a worker.                                                      *)
LEMMA SectionFacts ==
    ASSUME CallsInv
    PROVE  MayEnter("ui") /\ (regEx.pc # "none" => ~MayEnter("regEx"))
  BY DEF CallsInv, SectionHeld, MayEnter

(* What the regex worker does is not the window's thread's business. *)
LEMMA RegExKeepsCalls ==
    ASSUME TypeOK, CallsInv, RegExWorker
    PROVE  /\ UNCHANGED <<ui, eventVars>> /\ window = "open" /\ window' = window
           /\ regEx.pc # "none" /\ regEx'.pc \notin {"none", "stuck"}
<1> USE DEF RegExAt, RegExLeaves, eventVars, windowVars, TypeOK
<1>1. CASE RegExBegins
  BY <1>1 DEF RegExBegins
<1>2. CASE RegExChecks
  BY <1>2 DEF RegExChecks, RegExEnds
<1>3. CASE RegExThrows
  BY <1>3 DEF RegExThrows
<1>4. CASE RegExComputes
  BY <1>4, SectionFacts DEF RegExComputes
<1>5. CASE RegExPutsNewName
  BY <1>5 DEF RegExPutsNewName
<1> QED
  BY <1>1, <1>2, <1>3, <1>4, <1>5 DEF RegExWorker

(* What the file operation's worker does is not theirs. *)
LEMMA FileOpKeepsCalls ==
    ASSUME TypeOK, FileOpWorker
    PROVE  /\ UNCHANGED <<ui, regEx, outcome, eventVars, criteria, closing, button>>
           /\ window = "open"
           /\ fileOp.pc # "none" /\ fileOp'.pc # "none"
<1> USE DEF FileOpAt, FileOpLeaves, workerVars, userVars, TypeOK
<1>1. CASE FileOpBegins
  BY <1>1 DEF FileOpBegins
<1>2. CASE FileOpChecks
  BY <1>2 DEF FileOpChecks, FileOpSkips
<1>3. CASE FileOpTakes
  <2>1. PICK i \in Items : FileOpPasses(i) \/ FileOpCrashes(i) \/ FileOpQueues(i)
    BY <1>3 DEF FileOpTakes
  <2>2. fileOp'.pc # "none"
    <3>1. CASE FileOpPasses(i)
      BY <3>1 DEF FileOpPasses, FileOpSkips
    <3>2. CASE FileOpCrashes(i)
      BY <1>3, <3>2 DEF FileOpTakes, FileOpCrashes
    <3>3. CASE FileOpQueues(i)
      BY <3>3 DEF FileOpQueues
    <3> QED
      BY <2>1, <3>1, <3>2, <3>3
  <2> QED
    BY <1>3, <2>2 DEF FileOpTakes
<1>4. CASE FileOpPerforms
  BY <1>4 DEF FileOpPerforms
<1>5. CASE FileOpRenames
  BY <1>5 DEF FileOpRenames
<1>6. CASE FileOpEnds
  BY <1>6 DEF FileOpEnds
<1> QED
  BY <1>1, <1>2, <1>3, <1>4, <1>5, <1>6 DEF FileOpWorker

LEMMA NextCalls == ASSUME TypeOK, CallsInv, [Next]_vars PROVE CallsInv'
<1> USE DEF eventVars, workerVars, windowVars, listVars
<1>1. CASE Dispatch \/ UNCHANGED vars
  BY <1>1 DEF Dispatch, vars, CallsInv, SectionHeld, InOrder
<1>2. ASSUME NEW c \in Criteria, Change(c) PROVE CallsInv'
  <2>1. ui' \in Seq(Call) /\ InOrder(ui') /\ ui' # <<>> /\ Head(ui') = "cancel"
    BY <1>2, Performs DEF Change, Dispatching
  <2> QED
    BY <1>2, <2>1 DEF Change, CallsInv, SectionHeld, InOrder
<1>3. ASSUME NEW close \in BOOLEAN, PressRename(close) PROVE CallsInv'
  <2>1. CASE ItemsToRename = {}
    BY <1>3, <2>1 DEF PressRename, CallsInv, SectionHeld, InOrder
  <2>2. CASE ItemsToRename # {}
    <3>1. ui' = RenameCalls
      BY <1>3, <2>2 DEF PressRename, RenameCalls
    <3>2. ui' \in Seq(Call) /\ InOrder(ui)' /\ Head(ui') = "wait" /\ ui'[2] = "createFileOp"
      BY <3>1, RenameCallsInOrder DEF InOrder
    <3> QED
      BY <1>3, <3>2 DEF PressRename, CallsInv, SectionHeld
  <2> QED
    BY <2>1, <2>2
<1>4. CASE CancelRegExWorker
  <2>1. Calls("cancel") /\ ui' = Tail(ui) /\ reentrancy' = "ui"
    BY <1>4, SectionFacts DEF CancelRegExWorker
  <2> QED
    BY <2>1, Returns DEF CallsInv, SectionHeld, InOrder
<1>5. CASE WaitForRegExWorkerThread
  <2>1. /\ Calls("wait") /\ ui' = Tail(ui) /\ reentrancy' = reentrancy /\ regEx'.pc = "none"
    BY <1>5 DEF WaitForRegExWorkerThread, NoRegEx
  <2>2. /\ ui' \in Seq(Call) /\ InOrder(ui') /\ Head(ui') = ui[2] /\ ui' # <<>>
        /\ Head(ui') \in {"create", "createFileOp"}
    BY <2>1, Returns DEF Follows
  <2> QED
    BY <2>1, <2>2 DEF CallsInv, SectionHeld, InOrder, Calls
<1>6. CASE CreateRegExWorkerThread \/ SignalRegExWorker
  <2>1. PICK c \in {"create", "signal"} : Calls(c)
    BY <1>6 DEF CreateRegExWorkerThread, SignalRegExWorker
  <2>2. ui' = Tail(ui) /\ reentrancy' = reentrancy
    BY <1>6 DEF CreateRegExWorkerThread, SignalRegExWorker
  <2>3. reentrancy = "ui"
    BY <2>1 DEF CallsInv, SectionHeld, Calls
  <2> QED
    BY <2>1, <2>2, <2>3, Returns DEF CallsInv, SectionHeld, InOrder
<1>7. CASE CreateFileOpWorkerThread \/ StopPumping
  <2>1. PICK c \in {"createFileOp", "pump"} : Calls(c)
    BY <1>7 DEF CreateFileOpWorkerThread, StopPumping
  <2>2. ui' = Tail(ui) /\ reentrancy' = reentrancy /\ regEx' = regEx
    BY <1>7 DEF CreateFileOpWorkerThread, StopPumping
  <2>3. ui' \in Seq(Call) /\ InOrder(ui') /\ ui' # <<>> /\ Head(ui') \in {"pump", "completed"}
    BY <2>1, <2>2, Returns DEF Follows
  <2> QED
    BY <2>2, <2>3 DEF CallsInv, SectionHeld, InOrder
<1>8. CASE RenameCompleted
  <2>1. Calls("completed") /\ reentrancy' = reentrancy /\ regEx' = regEx
    BY <1>8 DEF RenameCompleted
  <2>2. ui' \in Seq(Call) /\ InOrder(ui') /\ (ui' # <<>> => Head(ui') = "cancel")
    BY <1>8, <2>1, Returns, PerformsTwice DEF RenameCompleted
  <2> QED
    BY <2>1, <2>2 DEF CallsInv, SectionHeld, InOrder
<1>9. CASE RegExWorker
  <2>1. UNCHANGED <<ui, reentrancy>> /\ regEx.pc # "none"
    BY <1>9, RegExKeepsCalls
  <2> QED
    BY <2>1 DEF CallsInv, SectionHeld, InOrder
<1>10. CASE FileOpWorker
  BY <1>10, FileOpKeepsCalls DEF CallsInv, SectionHeld, InOrder
<1> QED
  BY <1>1, <1>2, <1>3, <1>4, <1>5, <1>6, <1>7, <1>8, <1>9, <1>10
  DEF Next, WindowThread, User

---------------------------------------------------------------------------
(* What an item lies in *)

LEMMA ItemFacts ==
    ASSUME NEW i \in Items
    PROVE  i \in Nat /\ i >= 1 /\ Depth[i] \in Nat /\ i <= ItemCount /\ ItemCount \in Nat
  BY ItemsAssumption DEF Items

LEMMA InsideFacts ==
    ASSUME NEW i \in Items, NEW j \in Items, Inside(j, i)
    PROVE  j > i /\ Depth[j] > Depth[i] /\ \A k \in i + 1 .. j : Depth[k] > Depth[i]
  BY ItemFacts DEF Inside

LEMMA Least == ASSUME NEW T \in SUBSET Nat, T # {} PROVE \E x \in T : \A y \in T : x <= y
<1>1. PICK x \in T : \A y \in T : ~(<<y, x>> \in OpToRel(<, Nat))
  BY WFMin, NatLessThanWellFounded, Zenon
<1>2. \A y \in T : ~(y < x)
  BY <1>1, Zenon DEF OpToRel
<1> QED
  BY <1>2

(* There is one item of each depth up to i's, last before i or i itself,   *)
(* that everything between is deeper than: the folders around i.           *)
LEMMA AroundIs ==
    ASSUME NEW i \in Items, NEW d, NEW j \in 1 .. i,
           Depth[j] = d, \A k \in j + 1 .. i : Depth[k] > d
    PROVE  Around(i, d) = j
<1> DEFINE Is(a) == Depth[a] = d /\ \A k \in a + 1 .. i : Depth[k] > d
<1>1. PICK a \in 1 .. i : Is(a) /\ a = Around(i, d)
  <2>1. \E a \in 1 .. i : Is(a)
    OBVIOUS
  <2> QED
    BY <2>1 DEF Around
<1>2. i \in Nat /\ i <= ItemCount /\ ItemCount \in Nat /\ \A k \in 1 .. i : Depth[k] \in Nat
  BY ItemFacts DEF Items
<1>3. ~(a < j) /\ ~(j < a)
  BY <1>1, <1>2
<1> QED
  BY <1>1, <1>2, <1>3

LEMMA AroundFacts ==
    ASSUME NEW i \in Items, NEW d \in 0 .. Depth[i]
    PROVE  /\ Around(i, d) \in 1 .. i /\ Around(i, d) \in Items
           /\ Depth[Around(i, d)] = d
           /\ \A k \in Around(i, d) + 1 .. i : Depth[k] > d
<1>1. /\ i \in Nat /\ i >= 1 /\ i <= ItemCount /\ ItemCount \in Nat
      /\ \A k \in 1 .. i : k \in Items /\ Depth[k] \in Nat
  BY ItemFacts DEF Items
<1> DEFINE T == {n \in 0 .. i - 1 : Depth[i - n] <= d}
<1>2. i - 1 \in T
  BY <1>1, ItemsAssumption
<1>3. PICK n \in T : \A m \in T : n <= m
  <2>1. T \in SUBSET Nat /\ T # {}
    BY <1>1, <1>2
  <2> HIDE DEF T
  <2> QED
    BY <2>1, Least
<1>4. PICK j \in 1 .. i : j = i - n /\ Depth[j] <= d
  BY <1>1, <1>3
<1>5. ASSUME NEW k \in j + 1 .. i PROVE Depth[k] > d
  <2>1. i - k \in 0 .. i - 1 /\ i - k < n /\ i - (i - k) = k /\ Depth[k] \in Nat
    BY <1>1, <1>4
  <2>2. i - k \notin T
    BY <1>3, <2>1
  <2> QED
    BY <2>1, <2>2
<1>6. Depth[j] = d
  <2>1. CASE j = i
    BY <1>1, <1>4, <2>1
  <2>2. CASE j < i
    <3>1. j + 1 \in Items /\ Depth[j + 1] > d /\ Depth[j] \in Nat /\ Depth[j + 1] \in Nat
      BY <1>1, <1>5, <2>2
    <3>2. Depth[j + 1] <= Depth[j] + 1
      BY <3>1, ItemsAssumption
    <3> QED
      BY <1>4, <3>1, <3>2
  <2> QED
    BY <1>1, <2>1, <2>2
<1>7. Around(i, d) = j
  BY <1>5, <1>6, AroundIs
<1> QED
  BY <1>1, <1>5, <1>6, <1>7

LEMMA AroundSelf == ASSUME NEW i \in Items PROVE Around(i, Depth[i]) = i
  BY ItemFacts, AroundIs

(* What is in folder i is in the folders i is in, *)
LEMMA AroundInside ==
    ASSUME NEW i \in Items, NEW j \in Items, Inside(j, i), NEW d \in 0 .. Depth[i]
    PROVE  Around(j, d) = Around(i, d)
<1>1. PICK a \in 1 .. i : a = Around(i, d) /\ Depth[a] = d /\ \A k \in a + 1 .. i : Depth[k] > d
  BY AroundFacts
<1>2. j > i /\ \A k \in i + 1 .. j : Depth[k] > Depth[i]
  BY InsideFacts
<1>3. /\ i \in Nat /\ j \in Nat /\ j <= ItemCount /\ ItemCount \in Nat
      /\ \A k \in 1 .. j : Depth[k] \in Nat
  BY ItemFacts DEF Items
<1>4. \A k \in a + 1 .. j : Depth[k] > d
  BY <1>1, <1>2, <1>3
<1> QED
  BY <1>1, <1>2, <1>3, <1>4, AroundIs

(* and nothing else is in folder i. *)
LEMMA AroundOutside ==
    ASSUME NEW i \in Items, NEW j \in Items, j # i, ~Inside(j, i), NEW d \in 0 .. Depth[j]
    PROVE  Around(j, d) # i
<1>1. i \in Nat /\ j \in Nat
  BY ItemFacts
<1>2. /\ Around(j, d) \in 1 .. j /\ Depth[Around(j, d)] = d
      /\ \A k \in Around(j, d) + 1 .. j : Depth[k] > d
  BY AroundFacts
<1>3. ASSUME Around(j, d) = i PROVE Inside(j, i)
  BY <1>1, <1>2, <1>3 DEF Inside
<1> QED
  BY <1>3

(* The folders around a folder around item i are around i. *)
LEMMA AroundNested ==
    ASSUME NEW i \in Items, NEW d \in 0 .. Depth[i], NEW e \in 0 .. d
    PROVE  Around(Around(i, d), e) = Around(i, e)
<1>1. PICK a \in Items : /\ a = Around(i, d) /\ a \in 1 .. i /\ Depth[a] = d
                         /\ \A k \in a + 1 .. i : Depth[k] > d
  BY AroundFacts
<1>2. CASE a = i
  BY <1>1, <1>2
<1>3. CASE a # i
  <2>1. i > a
    BY <1>1, <1>3, ItemFacts
  <2>2. Inside(i, a) /\ e \in 0 .. Depth[a]
    BY <1>1, <2>1 DEF Inside
  <2> QED
    BY <1>1, <2>2, AroundInside
<1> QED
  BY <1>2, <1>3

LEMMA SiblingsFacts ==
    ASSUME NEW i \in Items, NEW j \in Items, Siblings(i, j)
    PROVE  i # j /\ Depth[i] = Depth[j] /\ Siblings(j, i)
  BY DEF Siblings

(* What is looked at later is not in item i, nor i itself. *)
LEMMA BeforeFacts ==
    ASSUME NEW i \in Items, NEW j \in Items, Before(i, j)
    PROVE  i # j /\ \A d \in 0 .. Depth[j] : Around(j, d) # i
<1>1. i \in Nat /\ j \in Nat /\ Depth[i] \in Nat /\ Depth[j] \in Nat
  BY ItemFacts
<1>2. i # j
  BY <1>1 DEF Before
<1>3. ASSUME NEW d \in 0 .. Depth[j], Around(j, d) = i PROVE FALSE
  <2>1. Depth[i] = d
    BY <1>3, AroundFacts
  <2>2. d = Depth[j]
    BY <1>1, <2>1 DEF Before
  <2> QED
    BY <1>2, <1>3, <2>2, AroundSelf
<1> QED
  BY <1>2, <1>3

(* The names along a path, from a name for every item. *)
LEMMA AroundNames ==
    \A i \in Items : LET p == [d \in 1 .. Depth[i] + 1 |-> Originally[Around(i, d - 1)]]
                     IN  p \in Seq(Name) /\ Len(p) = Depth[i] + 1
<1> SUFFICES ASSUME NEW i \in Items
             PROVE  LET p == [d \in 1 .. Depth[i] + 1 |-> Originally[Around(i, d - 1)]]
                    IN  p \in Seq(Name) /\ Len(p) = Depth[i] + 1
  OBVIOUS
<1>1. PICK n \in Nat : n = Depth[i]
  BY ItemFacts
<1>2. ASSUME NEW d \in 1 .. n + 1 PROVE Originally[Around(i, d - 1)] \in Name
  <2>1. d - 1 \in 0 .. n
    OBVIOUS
  <2> QED
    BY <1>1, <2>1, AroundFacts, NamesAssumption
<1> QED
  BY <1>1, <1>2

---------------------------------------------------------------------------
(* Types *)

(* What PutRenamed makes of the paths. *)
Renamed(i, name) == [path[i] EXCEPT ![Len(path[i])] = name]
Moved(i, j, name) == Renamed(i, name) \o SubSeq(path[j], Len(path[i]) + 1, Len(path[j]))

LEMMA RenamedFacts ==
    ASSUME TypeOK, NEW i \in Items, NEW name \in Name
    PROVE  /\ Renamed(i, name) \in Seq(Name) /\ Len(Renamed(i, name)) = Depth[i] + 1
           /\ \A d \in 1 .. Depth[i] + 1 :
                 Renamed(i, name)[d] = IF d = Depth[i] + 1 THEN name ELSE path[i][d]
<1>1. path[i] \in Seq(Name) /\ Len(path[i]) = Depth[i] + 1 /\ Len(path[i]) \in 1 .. Len(path[i])
  BY ItemFacts DEF TypeOK
<1>2. /\ Renamed(i, name) \in Seq(Name) /\ Len(Renamed(i, name)) = Len(path[i])
      /\ \A d \in 1 .. Len(path[i]) :
            Renamed(i, name)[d] = IF d = Len(path[i]) THEN name ELSE path[i][d]
  BY <1>1, ExceptSeq DEF Renamed
<1> QED
  BY <1>1, <1>2

(* A longer sequence whose beginning is replaced. *)
Splice(p, q) == p \o SubSeq(q, Len(p) + 1, Len(q))

LEMMA Spliced ==
    ASSUME NEW S, NEW p \in Seq(S), NEW q \in Seq(S), Len(p) <= Len(q)
    PROVE  /\ Splice(p, q) \in Seq(S) /\ Len(Splice(p, q)) = Len(q)
           /\ \A d \in 1 .. Len(q) : Splice(p, q)[d] = IF d <= Len(p) THEN p[d] ELSE q[d]
<1> DEFINE r == SubSeq(q, Len(p) + 1, Len(q))
           w == Splice(p, q)
<1>1. PICK m \in Nat : m = Len(p)
  BY LenProperties
<1>2. PICK n \in Nat : n = Len(q)
  BY LenProperties
<1>3. \A k \in m + 1 .. n : q[k] \in S
  BY <1>1, <1>2, ElementOfSeq
<1>4. /\ r \in Seq(S) /\ Len(r) = IF m + 1 <= n THEN n - (m + 1) + 1 ELSE 0
      /\ \A k \in 1 .. n - (m + 1) + 1 : r[k] = q[(m + 1) + k - 1]
  <2>1. m + 1 \in Int /\ n \in Int
    OBVIOUS
  <2> QED
    BY <1>1, <1>2, <1>3, <2>1, SubSeqProperties
<1> HIDE DEF r, w
<1>5. Len(r) = n - m /\ \A k \in 1 .. n - m : r[k] = q[m + k]
  BY <1>1, <1>2, <1>4
<1>6. /\ w \in Seq(S) /\ Len(w) = Len(p) + Len(r)
      /\ \A d \in 1 .. Len(p) + Len(r) : w[d] = IF d <= Len(p) THEN p[d] ELSE r[d - Len(p)]
  BY <1>4, ConcatProperties DEF w, Splice, r
<1>7. /\ w \in Seq(S) /\ Len(w) = n
      /\ \A d \in 1 .. n : w[d] = IF d <= m THEN p[d] ELSE r[d - m]
  BY <1>1, <1>2, <1>5, <1>6
<1>8. ASSUME NEW d \in 1 .. n PROVE w[d] = IF d <= m THEN p[d] ELSE q[d]
  <2>1. CASE d <= m
    BY <1>7, <2>1
  <2>2. CASE d > m
    <3>1. d - m \in 1 .. n - m /\ m + (d - m) = d
      BY <2>2
    <3> QED
      BY <1>5, <1>7, <2>2, <3>1
  <2> QED
    BY <2>1, <2>2
<1> QED
  BY <1>1, <1>2, <1>7, <1>8 DEF w

LEMMA MovedFacts ==
    ASSUME TypeOK, NEW i \in Items, NEW j \in Items, NEW name \in Name, Inside(j, i)
    PROVE  /\ Moved(i, j, name) \in Seq(Name) /\ Len(Moved(i, j, name)) = Depth[j] + 1
           /\ \A d \in 1 .. Depth[j] + 1 : Moved(i, j, name)[d]
                 = IF d <= Depth[i] + 1 THEN Renamed(i, name)[d] ELSE path[j][d]
<1>1. /\ Depth[i] \in Nat /\ Depth[j] \in Nat /\ Depth[j] > Depth[i]
      /\ Len(path[i]) = Depth[i] + 1 /\ Len(path[j]) = Depth[j] + 1
      /\ path[j] \in Seq(Name)
  BY ItemFacts, InsideFacts DEF TypeOK
<1>2. Renamed(i, name) \in Seq(Name) /\ Len(Renamed(i, name)) = Depth[i] + 1
  BY RenamedFacts
<1>3. /\ Len(Renamed(i, name)) <= Len(path[j])
      /\ Moved(i, j, name) = Splice(Renamed(i, name), path[j])
  BY <1>1, <1>2 DEF Moved, Splice
<1> QED
  BY <1>1, <1>2, <1>3, Spliced

LEMMA PutRenamedTyped ==
    ASSUME TypeOK, NEW i \in Items, NEW name \in Name, PutRenamed(i, name)
    PROVE  /\ original' \in [Items -> Name]
           /\ newName' \in [Items -> Name \cup {NoName}]
           /\ path' \in [Items -> Seq(Name)] /\ \A j \in Items : Len(path'[j]) = Depth[j] + 1
           /\ messages' \in Seq(Message)
<1>1. ASSUME NEW j \in Items PROVE path'[j] \in Seq(Name) /\ Len(path'[j]) = Depth[j] + 1
  <2>1. CASE j = i
    BY <2>1, RenamedFacts DEF PutRenamed, Renamed
  <2>2. CASE j # i /\ Inside(j, i)
    BY <2>2, MovedFacts DEF PutRenamed, Renamed, Moved
  <2>3. CASE j # i /\ ~Inside(j, i)
    BY <2>3 DEF PutRenamed, TypeOK
  <2> QED
    BY <2>1, <2>2, <2>3
<1>2. path' \in [Items -> Seq(Name)]
  <2>1. path' = [j \in Items |-> path'[j]]
    BY DEF PutRenamed
  <2> QED
    BY <1>1, <2>1
<1>3. "itemRenamed" \in Message
  BY DEF Message
<1> QED
  BY <1>1, <1>2, <1>3 DEF PutRenamed, TypeOK

LEMMA InitTyped == ASSUME Init PROVE TypeOK /\ CallsInv
<1>1. \A i \in Items : LET p == [d \in 1 .. Depth[i] + 1 |-> Originally[Around(i, d - 1)]]
                       IN  p \in Seq(Name) /\ Len(p) = Depth[i] + 1
  BY AroundNames
<1>2. path \in [Items -> Seq(Name)] /\ \A i \in Items : Len(path[i]) = Depth[i] + 1
  BY <1>1 DEF Init
<1>3. /\ Blank \in Criteria /\ <<>> \in Seq(Call) /\ <<>> \in Seq(Message)
      /\ <<>> \in Seq(Operation)
  BY CriteriaAssumption, EmptySeq
<1>4. /\ regEx \in [pc : RegExPc, item : Nat, name : Name \cup {NoName}]
      /\ fileOp \in [pc : FileOpPc, todo : SUBSET Items, ops : Seq(Operation)]
  BY <1>3 DEF Init, NoRegEx, NoFileOp, RegExPc, FileOpPc
<1>5. TypeOK
  BY <1>2, <1>3, <1>4, NamesAssumption DEF Init, TypeOK, NoRegEx, NoFileOp
<1>6. InOrder(<<>>)
  BY DEF InOrder
<1> QED
  BY <1>5, <1>6 DEF Init, CallsInv, SectionHeld, NoRegEx

(* The types, by what the actions change together. *)
ListTyped == /\ original \in [Items -> Name]
             /\ newName \in [Items -> Name \cup {NoName}]
             /\ path \in [Items -> Seq(Name)]
             /\ \A i \in Items : Len(path[i]) = Depth[i] + 1
RegExTyped == /\ regEx \in [pc : RegExPc, item : Nat, name : Name \cup {NoName}]
              /\ regEx.pc \in {"compute", "put", "stuck"} => regEx.item \in Items
FileOpTyped == /\ fileOp \in [pc : FileOpPc, todo : SUBSET Items, ops : Seq(Operation)]
               /\ fileOp.pc = "take" => fileOp.todo # {}
CallsTyped == ui \in Seq(Call) /\ messages \in Seq(Message)
DiskTyped == disk \in [Items -> Name] /\ promised \in [Items -> Name \cup {NoName}]
FlagsTyped == /\ criteria \in Criteria /\ closing \in BOOLEAN
              /\ startEvent \in BOOLEAN /\ cancelEvent \in BOOLEAN
              /\ reentrancy \in {"nobody", "ui", "regEx"}
              /\ button \in BOOLEAN /\ window \in {"open", "closed", "crashed"}
              /\ outcome \in {"complete", "canceled", "failed"}
              /\ undisturbed \in BOOLEAN /\ refused \in BOOLEAN /\ collided \in BOOLEAN

(* A message loop is running while there is a file operation's worker. *)
Pumped == fileOp.pc # "none" => Has(ui, "pump")

LEMMA TypeParts ==
    /\ TypeOK => /\ ListTyped /\ RegExTyped /\ FileOpTyped /\ CallsTyped /\ DiskTyped
                 /\ FlagsTyped /\ Pumped
    /\ ListTyped' /\ RegExTyped' /\ FileOpTyped' /\ CallsTyped' /\ DiskTyped' /\ FlagsTyped'
          /\ Pumped' => TypeOK'
<1>1. TypeOK => ListTyped /\ RegExTyped /\ FileOpTyped /\ CallsTyped /\ DiskTyped
  BY DEF TypeOK, ListTyped, RegExTyped, FileOpTyped, CallsTyped, DiskTyped
<1>2. TypeOK => FlagsTyped /\ Pumped
  BY Zenon DEF TypeOK, FlagsTyped, Pumped, Has
<1>3. ListTyped' /\ RegExTyped' /\ FileOpTyped' /\ CallsTyped' /\ DiskTyped' /\ FlagsTyped'
         /\ Pumped' => TypeOK'
  BY Zenon DEF TypeOK, ListTyped, RegExTyped, FileOpTyped, CallsTyped, DiskTyped, FlagsTyped,
               Pumped, Has
<1> QED
  BY <1>1, <1>2, <1>3

LEMMA NextPumped == ASSUME TypeOK, CallsInv, [Next]_vars PROVE Pumped'
<1>0. Pumped
  BY DEF TypeOK, Pumped, Has
<1>1. CASE Dispatch \/ UNCHANGED vars
  BY <1>0, <1>1 DEF Dispatch, vars, windowVars, Pumped, Has
<1>2. ASSUME NEW c \in Criteria, Change(c) PROVE Pumped'
  BY <1>0, <1>2, Performs DEF Change, Dispatching, Pumped, Has
<1>3. ASSUME NEW close \in BOOLEAN, PressRename(close) PROVE Pumped'
  <2>1. fileOp' = fileOp /\ ui = <<>>
    BY <1>3 DEF PressRename
  <2>2. fileOp.pc = "none"
    BY <1>0, <2>1 DEF Pumped, Has
  <2> QED
    BY <2>1, <2>2 DEF Pumped
<1>4. CASE CancelRegExWorker \/ WaitForRegExWorkerThread \/ CreateRegExWorkerThread
           \/ SignalRegExWorker
  <2>1. PICK c \in {"cancel", "wait", "create", "signal"} : Calls(c)
    BY <1>4 DEF CancelRegExWorker, WaitForRegExWorkerThread, CreateRegExWorkerThread,
                SignalRegExWorker
  <2>2. ui' = Tail(ui) /\ fileOp' = fileOp
    BY <1>4, SectionFacts
    DEF CancelRegExWorker, WaitForRegExWorkerThread, CreateRegExWorkerThread,
        SignalRegExWorker
  <2> QED
    BY <1>0, <2>1, <2>2, Returns DEF Pumped, Has
<1>5. CASE CreateFileOpWorkerThread
  <2>1. Calls("createFileOp") /\ ui' = Tail(ui)
    BY <1>5 DEF CreateFileOpWorkerThread
  <2>2. ui' # <<>> /\ Head(ui') = "pump" /\ ui' \in Seq(Call)
    BY <2>1, Returns DEF Follows
  <2>3. 1 \in DOMAIN ui' /\ ui'[1] = "pump"
    BY <2>2, TailFacts
  <2> QED
    BY <2>3 DEF Pumped, Has
<1>6. CASE StopPumping
  BY <1>6 DEF StopPumping, NoFileOp, Pumped
<1>7. CASE RenameCompleted
  <2>1. Calls("completed") /\ fileOp' = fileOp
    BY <1>7 DEF RenameCompleted
  <2>2. ui \in Seq(Call) /\ ui # <<>> /\ InOrder(ui) /\ Head(ui) = "completed"
    BY <2>1 DEF TypeOK, CallsInv, Calls
  <2>3. Tail(ui) = <<>> /\ (Has(Tail(ui), "pump") <=> Has(ui, "pump"))
    BY <2>2, TailInOrder
  <2>4. fileOp.pc = "none"
    BY <1>0, <2>3 DEF Pumped, Has
  <2> QED
    BY <2>1, <2>4 DEF Pumped
<1>8. CASE RegExWorker
  BY <1>0, <1>8, RegExKeepsCalls
  DEF RegExWorker, RegExBegins, RegExChecks, RegExThrows, RegExComputes, RegExPutsNewName,
      RegExLeaves, Pumped, Has
<1>9. CASE FileOpWorker
  BY <1>0, <1>9, FileOpKeepsCalls DEF Pumped, Has
<1> QED
  BY <1>1, <1>2, <1>3, <1>4, <1>5, <1>6, <1>7, <1>8, <1>9 DEF Next, WindowThread, User

(* Who changes what. *)
LEMMA WhoChanges ==
    ASSUME [Next]_vars
    PROVE  /\ UNCHANGED listVars \/ RegExPutsNewName \/ FileOpTakes
           /\ UNCHANGED regEx \/ WaitForRegExWorkerThread \/ CreateRegExWorkerThread
                              \/ RegExWorker
           /\ UNCHANGED outcome \/ RegExWorker
           /\ UNCHANGED fileOp \/ CreateFileOpWorkerThread \/ StopPumping \/ FileOpWorker
           /\ UNCHANGED messages \/ Dispatch \/ RenameCompleted \/ RegExChecks \/ FileOpTakes
           /\ UNCHANGED promised \/ CreateFileOpWorkerThread
           /\ UNCHANGED <<disk, refused, collided>> \/ FileOpRenames
           /\ UNCHANGED criteria \/ \E c \in Criteria : Change(c)
           /\ UNCHANGED closing \/ \E close \in BOOLEAN : PressRename(close)
           /\ UNCHANGED window \/ Dispatch \/ FileOpTakes
           /\ UNCHANGED button \/ Dispatch
<1> USE DEF listVars, workerVars, eventVars, userVars, windowVars, promiseVars, diskVars
<1>1. CASE UNCHANGED vars
  BY <1>1 DEF vars
<1>2. CASE User
  BY <1>2 DEF User, Change, PressRename
<1>3. CASE WindowThread
  <2>1. CASE Dispatch \/ CancelRegExWorker \/ SignalRegExWorker \/ RenameCompleted
    BY <2>1 DEF Dispatch, CancelRegExWorker, SignalRegExWorker, RenameCompleted
  <2>2. CASE WaitForRegExWorkerThread \/ CreateRegExWorkerThread
             \/ CreateFileOpWorkerThread \/ StopPumping
    BY <2>2 DEF WaitForRegExWorkerThread, CreateRegExWorkerThread, CreateFileOpWorkerThread,
                StopPumping
  <2> QED
    BY <1>3, <2>1, <2>2 DEF WindowThread
<1>4. CASE RegExWorker
  BY <1>4 DEF RegExWorker, RegExBegins, RegExChecks, RegExThrows, RegExComputes,
              RegExPutsNewName, RegExLeaves
<1>5. CASE FileOpWorker
  BY <1>5 DEF FileOpWorker, FileOpBegins, FileOpChecks, FileOpTakes, FileOpPerforms,
              FileOpRenames, FileOpEnds, FileOpLeaves
<1> QED
  BY <1>1, <1>2, <1>3, <1>4, <1>5 DEF Next

(* What the file operation's worker may do with the item it takes. *)
LEMMA TakeCases ==
    ASSUME TypeOK, FileOpTakes
    PROVE  \E i \in Items :
              /\ Following(i)
              /\ \/ FileOpSkips(i) /\ UNCHANGED <<listVars, messages, window>>
                     /\ (At(path[i]) = {} \/ newName[i] = NoName)
                 \/ FileOpCrashes(i)
                 \/ FileOpQueues(i) /\ closing /\ UNCHANGED <<listVars, messages, window>>
                 \/ FileOpQueues(i) /\ ~closing /\ PutRenamed(i, newName[i]) /\ UNCHANGED window
  BY DEF FileOpTakes, FileOpPasses, FileOpQueues

LEMMA QueuesTyped ==
    ASSUME TypeOK, NEW i \in Items, FileOpQueues(i)
    PROVE  /\ newName[i] \in Name
           /\ fileOp' \in [pc : FileOpPc, todo : SUBSET Items, ops : Seq(Operation)]
           /\ fileOp'.pc = "check" /\ fileOp'.todo = fileOp.todo \ {i}
           /\ fileOp'.ops = Append(fileOp.ops, [item |-> i, from |-> path[i], to |-> newName[i]])
<1>1. newName[i] \in Name /\ path[i] \in Seq(Name)
  BY DEF FileOpQueues, TypeOK
<1>2. [item |-> i, from |-> path[i], to |-> newName[i]] \in Operation
  BY <1>1 DEF Operation
<1> QED
  BY <1>1, <1>2 DEF FileOpQueues, FileOpPc, TypeOK

LEMMA NextListTyped == ASSUME TypeOK, [Next]_vars PROVE ListTyped'
<1>1. CASE UNCHANGED listVars
  BY <1>1 DEF listVars, TypeOK, ListTyped
<1>2. CASE RegExPutsNewName
  BY <1>2 DEF RegExPutsNewName, RegExAt, RegExLeaves, TypeOK, ListTyped
<1>3. CASE FileOpTakes
  <2>1. PICK i \in Items :
           \/ UNCHANGED listVars
           \/ FileOpQueues(i) /\ PutRenamed(i, newName[i])
    BY <1>3, TakeCases DEF FileOpCrashes
  <2> QED
    BY <1>1, <2>1, QueuesTyped, PutRenamedTyped DEF ListTyped
<1> QED
  BY <1>1, <1>2, <1>3, WhoChanges

LEMMA NextRegExTyped == ASSUME TypeOK, CallsInv, [Next]_vars PROVE RegExTyped'
<1> USE DEF RegExTyped, RegExPc
<1>1. CASE UNCHANGED regEx
  BY <1>1 DEF TypeOK
<1>2. CASE WaitForRegExWorkerThread \/ CreateRegExWorkerThread
  BY <1>2 DEF WaitForRegExWorkerThread, CreateRegExWorkerThread, NoRegEx
<1>3. CASE RegExWorker
  <2> USE DEF RegExAt, TypeOK
  <2>1. CASE RegExBegins
    BY <2>1 DEF RegExBegins
  <2>2. CASE RegExChecks
    BY <2>2 DEF RegExChecks, RegExEnds
  <2>3. CASE RegExThrows
    BY <2>3 DEF RegExThrows
  <2>4. CASE RegExComputes
    <3>1. NameFor(criteria, regEx.item, original[regEx.item]) \in Name \cup {NoName}
      BY <2>4, NamesAssumption DEF NameFor, RegExComputes
    <3> QED
      BY <2>4, <3>1, SectionFacts DEF RegExComputes
  <2>5. CASE RegExPutsNewName
    <3>1. regEx.item + 1 \in Nat
      OBVIOUS
    <3> QED
      BY <2>5, <3>1 DEF RegExPutsNewName
  <2> QED
    BY <1>3, <2>1, <2>2, <2>3, <2>4, <2>5 DEF RegExWorker
<1> QED
  BY <1>1, <1>2, <1>3, WhoChanges

LEMMA NextFileOpTyped == ASSUME TypeOK, [Next]_vars PROVE FileOpTyped'
<1> USE DEF FileOpTyped, FileOpPc
<1>1. CASE UNCHANGED fileOp
  BY <1>1 DEF TypeOK
<1>2. CASE CreateFileOpWorkerThread \/ StopPumping
  <2>1. <<>> \in Seq(Operation)
    BY EmptySeq
  <2>2. PICK p \in {"none", "begin"}, t \in SUBSET Items :
           fileOp' = [pc |-> p, todo |-> t, ops |-> <<>>]
    BY <1>2 DEF CreateFileOpWorkerThread, StopPumping, NoFileOp
  <2> QED
    BY <2>1, <2>2
<1>3. CASE FileOpWorker
  <2> USE DEF FileOpAt, TypeOK
  <2>1. CASE FileOpBegins \/ FileOpPerforms \/ FileOpEnds
    BY <2>1 DEF FileOpBegins, FileOpPerforms, FileOpEnds
  <2>2. CASE FileOpChecks
    <3>1. PICK i \in Items :
             /\ i \in fileOp.todo
             /\ FileOpSkips(i) \/ fileOp' = [fileOp EXCEPT !.pc = "take"]
      BY <2>2 DEF FileOpChecks, Following
    <3> QED
      BY <3>1 DEF FileOpSkips
  <2>3. CASE FileOpTakes
    <3>1. PICK i \in Items : FileOpSkips(i) \/ UNCHANGED fileOp \/ FileOpQueues(i)
      BY <2>3, TakeCases DEF FileOpCrashes
    <3>2. FileOpSkips(i) => FileOpTyped'
      BY DEF FileOpSkips
    <3> QED
      BY <1>1, <3>1, <3>2, QueuesTyped
  <2>4. CASE FileOpRenames
    <3>1. Tail(fileOp.ops) \in Seq(Operation)
      BY <2>4, HeadTailProperties DEF FileOpRenames
    <3> QED
      BY <2>4, <3>1 DEF FileOpRenames
  <2> QED
    BY <1>3, <2>1, <2>2, <2>3, <2>4 DEF FileOpWorker
<1> QED
  BY <1>1, <1>2, <1>3, WhoChanges

LEMMA NextMessagesTyped == ASSUME TypeOK, [Next]_vars PROVE messages' \in Seq(Message)
<1>0. /\ messages \in Seq(Message)
      /\ "regExComplete" \in Message /\ "itemRenamed" \in Message /\ "close" \in Message
  BY DEF TypeOK, Message
<1>1. CASE UNCHANGED messages
  BY <1>0, <1>1
<1>2. CASE Dispatch
  BY <1>0, <1>2, HeadTailProperties DEF Dispatch
<1>3. CASE RenameCompleted \/ RegExChecks
  <2>1. UNCHANGED messages \/ \E m \in Message : messages' = Append(messages, m)
    BY <1>0, <1>3 DEF RenameCompleted, RegExChecks, RegExEnds
  <2> QED
    BY <1>0, <2>1, AppendProperties
<1>4. CASE FileOpTakes
  <2>1. UNCHANGED messages \/ messages' = Append(messages, "itemRenamed")
    BY <1>4, TakeCases DEF FileOpCrashes, PutRenamed
  <2> QED
    BY <1>0, <2>1, AppendProperties
<1> QED
  BY <1>1, <1>2, <1>3, <1>4, WhoChanges

LEMMA NextDiskTyped == ASSUME TypeOK, [Next]_vars PROVE DiskTyped'
<1>1. promised' \in [Items -> Name \cup {NoName}]
  <2>1. CASE UNCHANGED promised
    BY <2>1 DEF TypeOK
  <2>2. CASE CreateFileOpWorkerThread
    BY <2>2 DEF CreateFileOpWorkerThread, TypeOK
  <2> QED
    BY <2>1, <2>2, WhoChanges
<1>2. disk' \in [Items -> Name]
  <2>1. CASE UNCHANGED disk
    BY <2>1 DEF TypeOK
  <2>2. CASE FileOpRenames
    <3>1. Head(fileOp.ops) \in Operation
      BY <2>2, HeadTailProperties DEF FileOpRenames, TypeOK
    <3> QED
      BY <2>2, <3>1 DEF FileOpRenames, Perform, diskVars, Operation, TypeOK
  <2> QED
    BY <2>1, <2>2, WhoChanges
<1> QED
  BY <1>1, <1>2 DEF DiskTyped

LEMMA NextFlagsTyped == ASSUME TypeOK, CallsInv, [Next]_vars PROVE FlagsTyped'
<1>1. criteria' \in Criteria
  BY WhoChanges DEF Change, TypeOK
<1>2. closing' \in BOOLEAN
  BY WhoChanges DEF PressRename, TypeOK
<1>3. button' \in BOOLEAN
  BY WhoChanges DEF Dispatch, TypeOK
<1>4. window' \in {"open", "closed", "crashed"}
  <2>1. FileOpTakes => window' \in {window, "crashed"}
    BY TakeCases DEF FileOpCrashes
  <2>2. Dispatch => window' \in {window, "closed"}
    BY DEF Dispatch
  <2> QED
    BY <2>1, <2>2, WhoChanges DEF TypeOK
<1>5. outcome' \in {"complete", "canceled", "failed"}
  <2>1. RegExWorker => outcome' \in {outcome, "complete", "canceled", "failed"}
    BY DEF RegExWorker, RegExBegins, RegExChecks, RegExEnds, RegExThrows, RegExComputes,
           RegExPutsNewName
  <2> QED
    BY <2>1, WhoChanges DEF TypeOK
<1>6. refused' \in BOOLEAN /\ collided' \in BOOLEAN
  BY WhoChanges DEF FileOpRenames, Perform, diskVars, TypeOK
<1>7. /\ startEvent' \in BOOLEAN /\ cancelEvent' \in BOOLEAN
      /\ reentrancy' \in {"nobody", "ui", "regEx"} /\ undisturbed' \in BOOLEAN
  <2> USE DEF TypeOK, listVars, workerVars, eventVars, userVars, windowVars, promiseVars, diskVars
  <2>1. CASE UNCHANGED vars
    BY <2>1 DEF vars
  <2>2. CASE User
    BY <2>2 DEF User, Change, PressRename
  <2>3. CASE WindowThread
    BY <2>3 DEF WindowThread, Dispatch, CancelRegExWorker, SignalRegExWorker, RenameCompleted,
                WaitForRegExWorkerThread, CreateRegExWorkerThread, CreateFileOpWorkerThread,
                StopPumping
  <2>4. CASE RegExWorker
    BY <2>4, RegExKeepsCalls
    DEF RegExWorker, RegExBegins, RegExChecks, RegExThrows, RegExComputes,
        RegExPutsNewName, RegExLeaves
  <2>5. CASE FileOpWorker
    BY <2>5 DEF FileOpWorker, FileOpBegins, FileOpChecks, FileOpTakes, FileOpPerforms,
                FileOpRenames, FileOpEnds, FileOpLeaves
  <2> QED
    BY <2>1, <2>2, <2>3, <2>4, <2>5 DEF Next
<1> QED
  BY <1>1, <1>2, <1>3, <1>4, <1>5, <1>6, <1>7, Zenon DEF FlagsTyped

LEMMA NextTyped == ASSUME TypeOK, CallsInv, [Next]_vars PROVE TypeOK'
<1>1. ListTyped' /\ RegExTyped' /\ FileOpTyped' /\ DiskTyped' /\ FlagsTyped' /\ Pumped'
  BY NextListTyped, NextRegExTyped, NextFileOpTyped, NextDiskTyped, NextFlagsTyped, NextPumped
<1>2. CallsTyped'
  BY NextCalls, NextMessagesTyped DEF CallsTyped, CallsInv
<1> QED
  BY <1>1, <1>2, TypeParts

LEMMA CallsInvariant == Spec => [](TypeOK /\ CallsInv)
  BY InitTyped, NextTyped, NextCalls, PTL DEF Spec

(* Type correctness of PowerRename, for any number of items, any tree and  *)
(* any criteria.  It needs the order of the calls on the window's thread.  *)
THEOREM RenameTyped == Spec => []TypeOK
  BY CallsInvariant, PTL

---------------------------------------------------------------------------
(* The preview and the button *)

(* The names in the list only change by a worker that has a successor, or  *)
(* by the last one.                                                        *)
LEMMA LastStep ==
    ASSUME TypeOK, CallsInv, [Next]_vars, Last'
    PROVE  \/ CreateRegExWorkerThread
           \/ Last /\ criteria' = criteria /\ (UNCHANGED listVars \/ RegExPutsNewName)
<1>1. ASSUME NEW c \in Criteria, Change(c) PROVE FALSE
  BY <1>1, Performs DEF Change, Dispatching, Last
<1>2. criteria' = criteria
  BY <1>1, WhoChanges
<1>3. Last \/ CreateRegExWorkerThread
  <2>1. ASSUME UNCHANGED <<ui, closing>> PROVE Last
    BY <2>1 DEF Last, Has
  <2>2. ASSUME NEW close \in BOOLEAN, PressRename(close) PROVE Last
    BY <2>2 DEF PressRename, Last, Has
  <2>3. CASE Dispatch \/ UNCHANGED vars
    BY <2>1, <2>3 DEF Dispatch, vars, userVars, windowVars
  <2>4. CASE \/ CancelRegExWorker \/ WaitForRegExWorkerThread \/ SignalRegExWorker
             \/ CreateFileOpWorkerThread \/ StopPumping
    <3>1. PICK call \in {"cancel", "wait", "signal", "createFileOp", "pump"} : Calls(call)
      BY <2>4 DEF CancelRegExWorker, WaitForRegExWorkerThread, SignalRegExWorker,
                  CreateFileOpWorkerThread, StopPumping
    <3>2. ui' = Tail(ui) /\ closing' = closing
      BY <2>4, SectionFacts
      DEF CancelRegExWorker, WaitForRegExWorkerThread, SignalRegExWorker,
          CreateFileOpWorkerThread, StopPumping, userVars
    <3>3. /\ Has(ui', "create") <=> Has(ui, "create")
          /\ Has(ui', "completed") <=> Has(ui, "completed")
      BY <3>1, <3>2, Returns
    <3> QED
      BY <3>2, <3>3 DEF Last, Has
  <2>5. CASE RenameCompleted
    <3>1. Calls("completed") /\ closing /\ ui' = Tail(ui)
      BY <2>5, PerformsTwice DEF RenameCompleted, Last
    <3>2. ~Has(ui, "create")
      BY <3>1, Returns DEF Has
    <3> QED
      BY <3>1, <3>2 DEF Last
  <2>6. CASE RegExWorker
    BY <2>1, <2>6, RegExKeepsCalls
    DEF RegExWorker, RegExBegins, RegExChecks, RegExThrows, RegExComputes,
        RegExPutsNewName, RegExLeaves, userVars
  <2>7. CASE FileOpWorker
    BY <2>1, <2>7, FileOpKeepsCalls
  <2> QED
    BY <1>1, <2>2, <2>3, <2>4, <2>5, <2>6, <2>7 DEF Next, User, WindowThread
<1>4. ASSUME FileOpTakes PROVE UNCHANGED listVars
  <2>1. UNCHANGED <<ui, closing>> /\ fileOp.pc # "none"
    BY <1>4, FileOpKeepsCalls DEF FileOpWorker
  <2>2. Has(ui, "completed")
    BY <2>1, PumpThenCompleted DEF TypeOK, CallsInv, Has
  <2>3. closing
    BY <2>1, <2>2 DEF Last, Has
  <2> QED
    BY <1>4, <2>3, TakeCases DEF FileOpCrashes
<1> QED
  BY <1>2, <1>3, <1>4, WhoChanges

(* Outside the workers, one of them is only disposed of once it has ended. *)
LEMMA RegExSteps ==
    ASSUME [Next]_vars
    PROVE  \/ RegExWorker \/ CreateRegExWorkerThread
           \/ UNCHANGED <<regEx, outcome>>
           \/ regEx.pc \in {"none", "exited"} /\ regEx' = NoRegEx /\ UNCHANGED outcome
<1>1. RegExWorker \/ UNCHANGED outcome
  BY WhoChanges
<1>2. WaitForRegExWorkerThread => regEx.pc \in {"none", "exited"} /\ regEx' = NoRegEx
  BY DEF WaitForRegExWorkerThread
<1> QED
  BY <1>1, <1>2, WhoChanges

LEMMA NextPreview ==
    ASSUME TypeOK, CallsInv, PreviewInv, [Next]_vars PROVE PreviewInv'
<1>1. regEx'.pc # "none" => regEx'.item >= 1
  <2>1. RegExWorker => regEx'.item = regEx.item \/ regEx'.item = regEx.item + 1
    BY DEF RegExWorker, RegExBegins, RegExChecks, RegExEnds, RegExThrows, RegExComputes,
           RegExPutsNewName, TypeOK
  <2>2. RegExWorker => regEx.pc # "none"
    BY RegExKeepsCalls
  <2> QED
    BY <2>1, <2>2, RegExSteps DEF CreateRegExWorkerThread, NoRegEx, PreviewInv, TypeOK
<1> DEFINE Promise ==
      /\ Running => \A i \in Items : i < regEx.item => Right(i)
      /\ regEx.pc = "put" => regEx.name = NameFor(criteria, regEx.item, original[regEx.item])
      /\ regEx.pc \in {"none", "exited"} /\ outcome = "complete" => \A i \in Items : Right(i)
<1>2. ASSUME Last' PROVE Promise'
  <2>1. CASE CreateRegExWorkerThread
    BY <2>1, ItemFacts DEF CreateRegExWorkerThread, Running
  <2>2. ASSUME Last, criteria' = criteria, UNCHANGED listVars \/ RegExPutsNewName
        PROVE  Promise'
    <3>1. Promise
      BY <2>2 DEF PreviewInv
    <3>2. ASSUME UNCHANGED listVars PROVE \A i \in Items : Right(i)' <=> Right(i)
      BY <2>2, <3>2 DEF listVars, Right
    <3>3. CASE UNCHANGED <<regEx, outcome>> /\ UNCHANGED listVars
      BY <2>2, <3>1, <3>2, <3>3 DEF Running, listVars
    <3>4. CASE regEx.pc \in {"none", "exited"} /\ regEx' = NoRegEx /\ UNCHANGED outcome
               /\ UNCHANGED listVars
      BY <3>1, <3>2, <3>4 DEF Running, NoRegEx
    <3>5. CASE RegExBegins
      BY <2>2, <3>1, <3>5 DEF RegExBegins, RegExAt, RegExLeaves, Running, Right, TypeOK
    <3>6. CASE RegExChecks
      <4>1. CASE regEx.item \notin Items
        <5>1. \A i \in Items : i < regEx.item
          BY <3>6, <4>1, ItemFacts DEF RegExChecks, RegExAt, PreviewInv, TypeOK, Items
        <5>2. \A i \in Items : Right(i)
          BY <3>1, <3>6, <5>1 DEF RegExChecks, RegExAt, Running
        <5> QED
          BY <2>2, <3>6, <4>1, <5>2
          DEF RegExChecks, RegExEnds, RegExLeaves, Running, Right, TypeOK
      <4>2. CASE regEx.item \in Items
        BY <2>2, <3>1, <3>6, <4>2
        DEF RegExChecks, RegExEnds, RegExAt, RegExLeaves, Running, Right, TypeOK
      <4> QED
        BY <4>1, <4>2
    <3>7. CASE RegExThrows
      BY <3>7 DEF RegExThrows, Running, TypeOK
    <3>8. CASE RegExComputes
      <4>1. regEx' = [regEx EXCEPT !.pc = "put",
                                   !.name = NameFor(criteria, regEx.item, original[regEx.item])]
        BY <3>8, SectionFacts DEF RegExComputes, RegExAt
      <4>2. UNCHANGED <<newName, original, outcome>> /\ regEx.pc = "compute"
        BY <3>8 DEF RegExComputes, RegExAt, RegExLeaves
      <4> QED
        BY <2>2, <3>1, <4>1, <4>2 DEF Running, Right, TypeOK
    <3>9. CASE RegExPutsNewName
      <4>1. /\ regEx.pc = "put" /\ regEx.item \in Items /\ UNCHANGED <<original, outcome>>
            /\ newName' = [newName EXCEPT ![regEx.item] = regEx.name]
            /\ regEx'.pc = "check" /\ regEx'.item = regEx.item + 1
        BY <3>9 DEF RegExPutsNewName, RegExAt, RegExLeaves, TypeOK
      <4>2. ASSUME NEW i \in Items, i < regEx.item + 1 PROVE Right(i)'
        <5>1. CASE i = regEx.item
          BY <2>2, <3>1, <4>1, <5>1 DEF Right, TypeOK
        <5>2. CASE i # regEx.item
          <6>1. i < regEx.item
            BY <4>1, <4>2, <5>2, ItemFacts
          <6> QED
            BY <2>2, <3>1, <4>1, <5>2, <6>1 DEF Right, Running, TypeOK
        <5> QED
          BY <5>1, <5>2
      <4> QED
        BY <4>1, <4>2
    <3>10. RegExPutsNewName => RegExWorker
      BY DEF RegExWorker
    <3>11. CASE RegExWorker
      BY <3>5, <3>6, <3>7, <3>8, <3>9, <3>11 DEF RegExWorker
    <3> QED
      BY <2>1, <2>2, <3>3, <3>4, <3>9, <3>11, RegExSteps
  <2> QED
    BY <1>2, <2>1, <2>2, LastStep
<1> QED
  BY <1>1, <1>2 DEF PreviewInv

LEMMA NextButton ==
    ASSUME TypeOK, CallsInv, ButtonInv, [Next]_vars PROVE ButtonInv'
<1> DEFINE Silent == \A k \in DOMAIN messages : messages[k] = "close"
<1>1. SUFFICES ASSUME Last', regEx'.pc \in {"none", "exited"}, outcome' # "failed", Silent'
               PROVE  button' = (ItemsToRename' # {})
  BY DEF ButtonInv
<1>2. CASE Dispatch
  <2>1. CASE Head(messages) = "close"
    <3>1. messages \in Seq(Message) /\ messages # <<>>
      BY <1>2 DEF Dispatch, TypeOK
    <3>2. /\ messages' = Tail(messages) /\ messages[1] = "close"
          /\ \A k \in DOMAIN messages : k = 1 \/ (k - 1 \in DOMAIN Tail(messages)
                                                  /\ Tail(messages)[k - 1] = messages[k])
      BY <1>2, <2>1, <3>1, HeadTailProperties, LenProperties DEF Dispatch
    <3>3. Silent
      BY <1>1, <3>2
    <3> QED
      BY <1>1, <1>2, <2>1, <3>3
      DEF Dispatch, ButtonInv, Last, Has, ItemsToRename, ShouldRenameItem, listVars,
          workerVars, userVars
  <2>2. CASE Head(messages) # "close"
    BY <1>2, <2>2 DEF Dispatch, ItemsToRename, ShouldRenameItem, listVars
  <2> QED
    BY <2>1, <2>2
<1>3. ASSUME NEW m, m # "close", messages' = Append(messages, m) PROVE FALSE
  <2>1. messages \in Seq(Message) /\ Len(messages) \in Nat
    BY LenProperties DEF TypeOK
  <2>2. Len(messages) + 1 \in DOMAIN messages' /\ messages'[Len(messages) + 1] = m
    BY <1>3, <2>1
  <2> QED
    BY <1>1, <1>3, <2>2
<1>4. CASE RegExWorker
  <2>1. CASE RegExBegins
    BY <1>1, <2>1 DEF RegExBegins, TypeOK
  <2>2. CASE RegExChecks
    <3>1. messages' = Append(messages, "regExComplete")
      BY <1>1, <2>2 DEF RegExChecks, RegExEnds, TypeOK
    <3> QED
      BY <1>3, <3>1
  <2>3. CASE RegExThrows
    BY <1>1, <2>3 DEF RegExThrows
  <2>4. CASE RegExComputes
    BY <1>1, <2>4, SectionFacts DEF RegExComputes, RegExAt, TypeOK
  <2>5. CASE RegExPutsNewName
    BY <1>1, <2>5 DEF RegExPutsNewName, TypeOK
  <2> QED
    BY <1>4, <2>1, <2>2, <2>3, <2>4, <2>5 DEF RegExWorker
<1>5. CASE CreateRegExWorkerThread
  BY <1>1, <1>5 DEF CreateRegExWorkerThread
<1>6. CASE ~Dispatch /\ ~RegExWorker /\ ~CreateRegExWorkerThread
  <2>1. Last /\ UNCHANGED listVars /\ button' = button /\ outcome' = outcome
    BY <1>1, <1>6, LastStep, WhoChanges DEF RegExWorker
  <2>2. regEx.pc \in {"none", "exited"}
    BY <1>1, <1>6, RegExSteps
  <2>3. Silent
    <3>1. CASE UNCHANGED messages
      BY <1>1, <3>1
    <3>2. CASE RenameCompleted
      <4>1. messages' = messages \/ messages' = Append(messages, "close")
        BY <3>2 DEF RenameCompleted
      <4>2. messages \in Seq(Message) /\ Len(messages) \in Nat
        BY LenProperties DEF TypeOK
      <4>3. \A k \in DOMAIN messages : k \in DOMAIN messages' /\ messages'[k] = messages[k]
        BY <4>1, <4>2
      <4> QED
        BY <1>1, <4>3
    <3>3. CASE FileOpTakes
      <4>1. messages' = messages \/ messages' = Append(messages, "itemRenamed")
        BY <3>3, TakeCases DEF FileOpCrashes, PutRenamed
      <4> QED
        BY <1>1, <1>3, <4>1
    <3> QED
      BY <1>6, <3>1, <3>2, <3>3, WhoChanges DEF RegExWorker
  <2> QED
    BY <1>1, <2>1, <2>2, <2>3 DEF ButtonInv, ItemsToRename, ShouldRenameItem, listVars
<1> QED
  BY <1>2, <1>4, <1>5, <1>6

LEMMA InitPreview == ASSUME Init PROVE PreviewInv /\ ButtonInv
<1>1. \A i \in Items : newName[i] = NoName /\ Right(i)
  BY DEF Init, Right, NameFor
<1>2. ItemsToRename = {} /\ button = FALSE /\ regEx.pc = "none"
  BY <1>1 DEF Init, ItemsToRename, ShouldRenameItem, NoRegEx
<1> QED
  BY <1>1, <1>2 DEF PreviewInv, ButtonInv, Running

LEMMA AtRestLast == AtRest => Last /\ regEx.pc \in {"none", "exited"}
<1>1. <<>> = {} \/ DOMAIN <<>> = {}
  OBVIOUS
<1> QED
  BY <1>1 DEF AtRest, Last, Has

LEMMA PreviewInvariant == Spec => [](PreviewInv /\ ButtonInv)
<1>1. Init => PreviewInv /\ ButtonInv
  BY InitPreview
<1>2. TypeOK /\ CallsInv /\ PreviewInv /\ ButtonInv /\ [Next]_vars => (PreviewInv /\ ButtonInv)'
  BY NextPreview, NextButton
<1> QED
  BY <1>1, <1>2, CallsInvariant, PTL DEF Spec

(* The preview, for any number of items and however often and whenever the *)
(* user types: what is shown at rest is what the criteria make of the names,*)
(* unless a worker failed or took a cancellation for its own.              *)
THEOREM PreviewIsRight == Spec => []PreviewFollowsCriteria
<1>1. PreviewInv => PreviewFollowsCriteria
  BY AtRestLast DEF PreviewInv, PreviewFollowsCriteria, Right
<1> QED
  BY <1>1, PreviewInvariant, PTL

(* The Rename button, for any number of items: once every message has been *)
(* dispatched it is enabled exactly if there is something to rename.       *)
THEOREM ButtonIsRight == Spec => []ButtonFollowsCount
<1>1. ButtonInv /\ messages = <<>> => ButtonFollowsCount
  BY AtRestLast DEF ButtonInv, ButtonFollowsCount
<1>2. ButtonInv => ButtonFollowsCount
  BY <1>1 DEF ButtonFollowsCount
<1> QED
  BY <1>2, PreviewInvariant, PTL

---------------------------------------------------------------------------
(* The paths in the list *)

LEMMA InitPath == ASSUME Init PROVE PathInv
<1>1. ASSUME NEW i \in Items, NEW d \in 1 .. Depth[i] + 1
      PROVE  path[i][d] = original[Around(i, d - 1)]
  <2>1. d - 1 \in 0 .. Depth[i]
    BY ItemFacts
  <2>2. Around(i, d - 1) \in Items
    BY <2>1, AroundFacts
  <2> QED
    BY <2>2 DEF Init
<1> QED
  BY <1>1 DEF PathInv

LEMMA NextPath == ASSUME TypeOK, PathInv, [Next]_vars PROVE PathInv'
<1>1. CASE UNCHANGED <<original, path>>
  BY <1>1 DEF PathInv
<1>2. ASSUME NEW i \in Items, NEW name \in Name, PutRenamed(i, name) PROVE PathInv'
  <2>1. /\ original \in [Items -> Name] /\ original' = [original EXCEPT ![i] = name]
        /\ \A j \in Items : path'[j] = IF j = i THEN Renamed(i, name)
                                      ELSE IF Inside(j, i) THEN Moved(i, j, name) ELSE path[j]
    BY <1>2 DEF PutRenamed, Renamed, Moved, TypeOK
  <2>2. ASSUME NEW d \in 1 .. Depth[i] + 1
        PROVE  Renamed(i, name)[d] = original'[Around(i, d - 1)]
    <3>1. /\ d - 1 \in 0 .. Depth[i] /\ Depth[i] \in Nat
          /\ Renamed(i, name)[d] = IF d = Depth[i] + 1 THEN name ELSE path[i][d]
      BY ItemFacts, RenamedFacts
    <3>2. CASE d = Depth[i] + 1
      <4>1. d - 1 = Depth[i]
        BY <3>1, <3>2
      <4> QED
        BY <2>1, <3>1, <3>2, <4>1, AroundSelf
    <3>3. CASE d # Depth[i] + 1
      <4>1. Around(i, d - 1) \in Items /\ Depth[Around(i, d - 1)] = d - 1
        BY <3>1, AroundFacts
      <4>2. Around(i, d - 1) # i
        BY <3>1, <3>3, <4>1
      <4> QED
        BY <2>1, <3>1, <3>3, <4>1, <4>2 DEF PathInv
    <3> QED
      BY <3>2, <3>3
  <2>3. ASSUME NEW j \in Items, NEW d \in 1 .. Depth[j] + 1
        PROVE  path'[j][d] = original'[Around(j, d - 1)]
    <3>1. /\ d - 1 \in 0 .. Depth[j] /\ Depth[j] \in Nat /\ Depth[i] \in Nat
          /\ Around(j, d - 1) \in Items /\ Depth[Around(j, d - 1)] = d - 1
          /\ path[j][d] = original[Around(j, d - 1)]
      <4>1. d - 1 \in 0 .. Depth[j] /\ Depth[j] \in Nat /\ Depth[i] \in Nat
        BY ItemFacts
      <4> QED
        BY <4>1, AroundFacts DEF PathInv
    <3>2. CASE j = i
      BY <2>1, <2>2, <3>2
    <3>3. CASE j # i /\ Inside(j, i)
      <4>1. /\ path'[j] = Moved(i, j, name)
            /\ Moved(i, j, name)[d] = IF d <= Depth[i] + 1 THEN Renamed(i, name)[d]
                                                           ELSE path[j][d]
        BY <2>1, <3>3, MovedFacts
      <4>2. CASE d <= Depth[i] + 1
        <5>1. d \in 1 .. Depth[i] + 1 /\ d - 1 \in 0 .. Depth[i]
          BY <3>1, <4>2
        <5> QED
          BY <2>2, <3>3, <4>1, <4>2, <5>1, AroundInside
      <4>3. CASE d > Depth[i] + 1
        <5>1. Around(j, d - 1) # i
          BY <3>1, <4>3
        <5> QED
          BY <2>1, <3>1, <4>1, <4>3, <5>1
      <4> QED
        BY <3>1, <4>2, <4>3
    <3>4. CASE j # i /\ ~Inside(j, i)
      BY <2>1, <3>1, <3>4, AroundOutside
    <3> QED
      BY <3>2, <3>3, <3>4
  <2> QED
    BY <2>3 DEF PathInv
<1>3. CASE FileOpTakes
  <2>1. PICK i \in Items :
           \/ UNCHANGED <<original, path>>
           \/ FileOpQueues(i) /\ PutRenamed(i, newName[i])
    BY <1>3, TakeCases DEF FileOpCrashes, listVars
  <2> QED
    BY <1>1, <1>2, <2>1, QueuesTyped
<1> QED
  BY <1>1, <1>3, WhoChanges DEF listVars, RegExPutsNewName, RegExLeaves

---------------------------------------------------------------------------
(* From the preview's worker to the file operation's *)

(* Nothing follows OnRenameCompleted, and there is one message loop, for   *)
(* one file operation.                                                     *)
LEMMA CallsEnd ==
    ASSUME NEW u \in Seq(Call), InOrder(u), NEW k \in DOMAIN u
    PROVE  /\ Len(u) \in Nat /\ k \in 1 .. Len(u)
           /\ u[k] = "completed" => k = Len(u)
           /\ u[k] = "pump" => k = Len(u) - 1
           /\ u[k] = "createFileOp" => k = Len(u) - 2
<1>1. PICK n \in Nat : n = Len(u) /\ DOMAIN u = 1 .. n
  BY LenProperties
<1>2. \A l \in 1 .. n - 1 : Follows(u[l], u[l + 1])
  BY <1>1 DEF InOrder
<1>3. n >= 1 /\ u # <<>>
  BY <1>1
<1>4. u[n] \in {"signal", "completed"}
  BY <1>1, <1>3 DEF InOrder
<1>5. ASSUME NEW l \in 1 .. n, u[l] = "completed" PROVE l = n
  <2>1. l \in 1 .. n - 1 => Follows(u[l], u[l + 1])
    BY <1>2
  <2> QED
    BY <1>5, <2>1 DEF Follows
<1>6. ASSUME NEW l \in 1 .. n, u[l] = "pump" PROVE l = n - 1
  <2>1. l # n
    BY <1>4, <1>6
  <2>2. l \in 1 .. n - 1 /\ l + 1 \in 1 .. n /\ Follows(u[l], u[l + 1])
    BY <1>2, <2>1
  <2>3. u[l + 1] = "completed"
    BY <1>6, <2>2 DEF Follows
  <2> QED
    BY <1>5, <2>2, <2>3
<1>7. ASSUME NEW l \in 1 .. n, u[l] = "createFileOp" PROVE l = n - 2
  <2>1. l # n
    BY <1>4, <1>7
  <2>2. l \in 1 .. n - 1 /\ l + 1 \in 1 .. n /\ Follows(u[l], u[l + 1])
    BY <1>2, <2>1
  <2>3. u[l + 1] = "pump"
    BY <1>7, <2>2 DEF Follows
  <2> QED
    BY <1>6, <2>2, <2>3
<1> QED
  BY <1>1, <1>5, <1>6, <1>7

LEMMA NextHandOver ==
    ASSUME TypeOK, CallsInv, HandOver, [Next]_vars PROVE HandOver'
<1>1. CASE UNCHANGED <<ui, regEx, fileOp>>
  BY <1>1 DEF HandOver, Has
<1>2. CASE Dispatch \/ UNCHANGED vars
  BY <1>1, <1>2 DEF Dispatch, vars, workerVars, windowVars
<1>3. ASSUME NEW c \in Criteria, Change(c) PROVE HandOver'
  <2>1. ui' = PerformRegExRename \o ui /\ fileOp' = fileOp /\ (ui # <<>> => Head(ui) = "pump")
    BY <1>3 DEF Change, Dispatching
  <2>2. ui' # <<>> /\ Head(ui') = "cancel"
    BY <2>1, Performs
  <2>3. ASSUME Has(ui', "createFileOp") PROVE Has(ui, "createFileOp")
    <3>1. /\ ui \in Seq(Call) /\ ui' \in Seq(Call) /\ Len(ui) \in Nat /\ Len(ui') = Len(ui) + 4
          /\ \A k \in 1 .. Len(ui) + 4 : ui'[k]
                 = IF k <= 4 THEN PerformRegExRename[k] ELSE ui[k - 4]
      BY <2>1, PrefixFacts DEF TypeOK
    <3>2. DOMAIN ui = 1 .. Len(ui) /\ DOMAIN ui' = 1 .. Len(ui) + 4
      BY <3>1, LenProperties
    <3>3. PICK k \in 1 .. Len(ui) + 4 : ui'[k] = "createFileOp"
      BY <2>3, <3>2 DEF Has
    <3>4. k > 4
      BY <3>1, <3>3, PerformFacts
    <3>5. k - 4 \in DOMAIN ui /\ ui[k - 4] = "createFileOp"
      BY <3>1, <3>2, <3>3, <3>4
    <3> QED
      BY <3>5 DEF Has
  <2> QED
    BY <2>1, <2>2, <2>3 DEF HandOver, Has
<1>4. ASSUME NEW close \in BOOLEAN, PressRename(close) PROVE HandOver'
  <2>1. CASE ItemsToRename = {}
    BY <1>1, <1>4, <2>1 DEF PressRename, workerVars
  <2>2. CASE ItemsToRename # {}
    <3>1. ui' = RenameCalls /\ fileOp' = fileOp /\ ui = <<>>
      BY <1>4, <2>2 DEF PressRename, RenameCalls
    <3>2. fileOp.pc = "none"
      BY <3>1, EmptySeq DEF TypeOK
    <3> QED
      BY <3>1, <3>2, RenameCallsInOrder DEF HandOver
  <2> QED
    BY <2>1, <2>2
<1>5. CASE \/ CancelRegExWorker \/ WaitForRegExWorkerThread \/ CreateRegExWorkerThread
           \/ SignalRegExWorker
  <2>1. PICK call \in {"cancel", "wait", "create", "signal"} :
           Calls(call) /\ (call = "wait" => WaitForRegExWorkerThread)
    BY <1>5 DEF CancelRegExWorker, WaitForRegExWorkerThread, CreateRegExWorkerThread,
                SignalRegExWorker
  <2>2. ui' = Tail(ui) /\ fileOp' = fileOp
    BY <1>5, SectionFacts
    DEF CancelRegExWorker, WaitForRegExWorkerThread, CreateRegExWorkerThread,
        SignalRegExWorker
  <2>3. Has(ui', "createFileOp") <=> Has(ui, "createFileOp")
    BY <2>1, <2>2, Returns
  <2>4. ui' # <<>> /\ Head(ui') = "createFileOp" => regEx'.pc = "none"
    <3>1. ui' # <<>> /\ Head(ui') = "createFileOp" => call = "wait"
      BY <2>1, <2>2, Returns DEF Follows
    <3> QED
      BY <2>1, <3>1 DEF WaitForRegExWorkerThread, NoRegEx
  <2> QED
    BY <2>2, <2>3, <2>4 DEF HandOver, Has
<1>6. CASE CreateFileOpWorkerThread \/ StopPumping
  <2>1. PICK call \in {"createFileOp", "pump"} : Calls(call) /\ ui' = Tail(ui)
    BY <1>6 DEF CreateFileOpWorkerThread, StopPumping
  <2>2. /\ ui' # <<>> /\ Head(ui') \in {"pump", "completed"}
    BY <2>1, Returns DEF Follows
  <2>3. ASSUME Has(ui', "createFileOp") PROVE FALSE
    <3>1. ui \in Seq(Call) /\ ui # <<>> /\ InOrder(ui) /\ Head(ui) = call
      BY <2>1 DEF TypeOK, CallsInv, Calls
    <3>2. PICK n \in Nat : /\ n = Len(ui) /\ n >= 1 /\ DOMAIN ui = 1 .. n /\ ui[1] = call
                           /\ DOMAIN ui' = 1 .. n - 1
                           /\ \A k \in 1 .. n - 1 : ui'[k] = ui[k + 1]
      BY <2>1, <3>1, TailFacts
    <3>3. PICK k \in 1 .. n - 1 : ui[k + 1] = "createFileOp"
      BY <2>3, <3>2 DEF Has
    <3>4. k + 1 \in DOMAIN ui /\ 1 \in DOMAIN ui
      BY <3>2
    <3>5. k + 1 = n - 2
      BY <3>1, <3>2, <3>3, <3>4, CallsEnd
    <3>6. 1 >= n - 2
      BY <2>1, <3>1, <3>2, <3>4, CallsEnd
    <3> QED
      BY <3>5, <3>6
  <2> QED
    BY <2>2, <2>3 DEF HandOver
<1>7. CASE RenameCompleted
  <2>1. Calls("completed") /\ fileOp' = fileOp
    BY <1>7 DEF RenameCompleted
  <2>2. ui' # <<>> => Head(ui') = "cancel"
    BY <1>7, <2>1, Returns, PerformsTwice DEF RenameCompleted
  <2>3. fileOp.pc = "none"
    <3>1. ui \in Seq(Call) /\ ui # <<>> /\ InOrder(ui) /\ ui[1] = "completed" /\ 1 \in DOMAIN ui
      BY <2>1, TailFacts DEF TypeOK, CallsInv, Calls
    <3>2. PICK n \in Nat : n = Len(ui) /\ DOMAIN ui = 1 .. n
      BY <3>1, LenProperties
    <3>3. 1 = n
      BY <3>1, <3>2, CallsEnd
    <3>4. ~Has(ui, "pump")
      <4>1. ASSUME NEW k \in DOMAIN ui PROVE k = 1
        <5>1. k \in 1 .. n
          BY <3>2
        <5> QED
          BY <3>3, <5>1
      <4>2. ui[1] = "completed"
        BY <3>1
      <4> QED
        BY <4>1, <4>2 DEF Has
    <3>5. Pumped
      BY TypeParts
    <3> QED
      BY <3>4, <3>5 DEF Pumped, Has
  <2> QED
    BY <2>1, <2>2, <2>3 DEF HandOver
<1>8. CASE RegExWorker
  <2>1. UNCHANGED <<ui, fileOp>> /\ regEx.pc # "none"
    BY <1>8, RegExKeepsCalls
    DEF RegExWorker, RegExBegins, RegExChecks, RegExThrows, RegExComputes,
        RegExPutsNewName, RegExLeaves
  <2> QED
    BY <2>1 DEF HandOver, Has
<1>9. CASE FileOpWorker
  BY <1>9, FileOpKeepsCalls DEF HandOver, Has
<1> QED
  BY <1>2, <1>3, <1>4, <1>5, <1>6, <1>7, <1>8, <1>9 DEF Next, WindowThread, User

---------------------------------------------------------------------------
(* The operations in the queue *)

QueuedAfter(i) == \E k \in DOMAIN fileOp'.ops : fileOp'.ops[k].item = i

(* An operation is put last in the queue, *)
LEMMA QueueGrows ==
    ASSUME TypeOK, NEW op \in Operation, fileOp'.ops = Append(fileOp.ops, op)
    PROVE  /\ \A k \in DOMAIN fileOp'.ops :
                 (k \in DOMAIN fileOp.ops /\ fileOp'.ops[k] = fileOp.ops[k])
                   \/ (k \notin DOMAIN fileOp.ops /\ fileOp'.ops[k] = op)
           /\ \A k \in DOMAIN fileOp.ops :
                 k \in DOMAIN fileOp'.ops /\ fileOp'.ops[k] = fileOp.ops[k]
           /\ \E k \in DOMAIN fileOp'.ops : k \notin DOMAIN fileOp.ops /\ fileOp'.ops[k] = op
           /\ \A k, l \in DOMAIN fileOp'.ops :
                 k \notin DOMAIN fileOp.ops /\ l \notin DOMAIN fileOp.ops => k = l
           /\ \A k, l \in DOMAIN fileOp'.ops : k < l => k \in DOMAIN fileOp.ops
           /\ \A j : QueuedAfter(j) <=> Queued(j) \/ op.item = j
<1> DEFINE q == fileOp.ops
           r == fileOp'.ops
<1>1. q \in Seq(Operation) /\ r = Append(q, op)
  BY DEF TypeOK
<1>2. PICK n \in Nat : n = Len(q) /\ DOMAIN q = 1 .. n
  BY <1>1, LenProperties
<1>3. /\ DOMAIN r = 1 .. n + 1 /\ r[n + 1] = op
      /\ \A k \in 1 .. n : r[k] = q[k]
  <2>1. r \in Seq(Operation) /\ Len(r) = Len(q) + 1 /\ r[Len(q) + 1] = op
        /\ \A k \in 1 .. Len(q) : r[k] = q[k]
    BY <1>1, AppendProperties
  <2> QED
    BY <1>2, <2>1, LenProperties
<1> HIDE DEF q, r
<1>4. \A k \in DOMAIN r : k \in DOMAIN q \/ k = n + 1
  BY <1>2, <1>3
<1>5. n + 1 \in DOMAIN r /\ n + 1 \notin DOMAIN q /\ \A k \in DOMAIN q : k \in DOMAIN r
  BY <1>2, <1>3
<1>6. \A k \in DOMAIN q : r[k] = q[k]
  BY <1>2, <1>3
<1>7. ASSUME NEW j
      PROVE  (\E k \in DOMAIN r : r[k].item = j)
                <=> (\E k \in DOMAIN q : q[k].item = j) \/ op.item = j
  BY <1>3, <1>4, <1>5, <1>6
<1>8. \A k, l \in DOMAIN r : k < l => k \in DOMAIN q
  <2>1. \A k, l \in 1 .. n + 1 : k < l => k \in 1 .. n
    OBVIOUS
  <2> QED
    BY <1>2, <1>3, <2>1
<1> QED
  BY <1>3, <1>4, <1>5, <1>6, <1>7, <1>8 DEF QueuedAfter, Queued, q, r

(* and the first of them is performed. *)
LEMMA QueueShrinks ==
    ASSUME TypeOK, QueueInv, fileOp.ops # <<>>, fileOp'.ops = Tail(fileOp.ops)
    PROVE  /\ Head(fileOp.ops) \in Operation
           /\ \E f \in DOMAIN fileOp.ops :
                /\ fileOp.ops[f] = Head(fileOp.ops)
                /\ \A k \in DOMAIN fileOp.ops : k = f \/
                      \E l \in DOMAIN fileOp'.ops : fileOp'.ops[l] = fileOp.ops[k]
           /\ \A k \in DOMAIN fileOp'.ops : \E l \in DOMAIN fileOp.ops :
                 fileOp'.ops[k] = fileOp.ops[l] /\ fileOp.ops[l].item # Head(fileOp.ops).item
           /\ \A k, l \in DOMAIN fileOp'.ops : fileOp'.ops[k].item = fileOp'.ops[l].item => k = l
           /\ \A k, l \in DOMAIN fileOp'.ops :
                 k < l => Before(fileOp'.ops[k].item, fileOp'.ops[l].item)
           /\ \A k \in DOMAIN fileOp'.ops : Before(Head(fileOp.ops).item, fileOp'.ops[k].item)
           /\ \A j : QueuedAfter(j) <=> Queued(j) /\ Head(fileOp.ops).item # j
<1> DEFINE q == fileOp.ops
           r == fileOp'.ops
<1>1. q \in Seq(Operation) /\ q # <<>> /\ r = Tail(q)
  BY DEF TypeOK
<1>2. PICK n \in Nat : n = Len(q) /\ DOMAIN q = 1 .. n
  BY <1>1, LenProperties
<1>3. /\ DOMAIN r = 1 .. n - 1 /\ n >= 1
      /\ \A k \in 1 .. n - 1 : r[k] = q[k + 1]
      /\ Head(q) = q[1] /\ q[1] \in Operation
  <2>1. /\ Tail(q) \in Seq(Operation) /\ Len(Tail(q)) = Len(q) - 1
        /\ \A k \in 1 .. Len(Tail(q)) : Tail(q)[k] = q[k + 1]
        /\ Head(q) \in Operation /\ Head(q) = q[1]
    BY <1>1, HeadTailProperties
  <2>2. n >= 1
    BY <1>1, <1>2, EmptySeq
  <2> QED
    BY <1>1, <1>2, <2>1, <2>2, LenProperties
<1>4. /\ \A k, l \in DOMAIN q : q[k].item = q[l].item => k = l
      /\ \A k, l \in DOMAIN q : k < l => Before(q[k].item, q[l].item)
  BY DEF QueueInv
<1> HIDE DEF q, r
<1>5. 1 \in DOMAIN q /\ \A k \in DOMAIN r : k + 1 \in DOMAIN q /\ k + 1 # 1
  BY <1>2, <1>3
<1>6. \A k \in DOMAIN q : k = 1 \/ (k - 1 \in DOMAIN r /\ r[k - 1] = q[k])
  <2>1. \A k \in 1 .. n : k = 1 \/ (k - 1 \in 1 .. n - 1 /\ (k - 1) + 1 = k)
    OBVIOUS
  <2> QED
    BY <1>2, <1>3, <2>1
<1>7. \A k \in DOMAIN r : r[k] = q[k + 1] /\ q[k + 1].item # Head(q).item
  BY <1>3, <1>4, <1>5
<1>8. ASSUME NEW k \in DOMAIN r, NEW l \in DOMAIN r, r[k].item = r[l].item PROVE k = l
  <2>1. k + 1 = l + 1
    BY <1>4, <1>5, <1>7, <1>8
  <2> QED
    BY <1>3, <2>1
<1>9. ASSUME NEW j
      PROVE  (\E k \in DOMAIN r : r[k].item = j)
                <=> (\E k \in DOMAIN q : q[k].item = j) /\ Head(q).item # j
  BY <1>3, <1>5, <1>6, <1>7
<1>10. \A k \in DOMAIN r : \E l \in DOMAIN q : r[k] = q[l] /\ q[l].item # Head(q).item
  BY <1>5, <1>7
<1>11. \E f \in DOMAIN q : /\ q[f] = Head(q)
                           /\ \A k \in DOMAIN q : k = f \/ \E l \in DOMAIN r : r[l] = q[k]
  BY <1>3, <1>5, <1>6
<1>12. ASSUME NEW k \in DOMAIN r, NEW l \in DOMAIN r, k < l PROVE Before(r[k].item, r[l].item)
  <2>1. k + 1 < l + 1
    BY <1>3, <1>12
  <2> QED
    BY <1>4, <1>5, <1>7, <2>1
<1>13. ASSUME NEW k \in DOMAIN r PROVE Before(Head(q).item, r[k].item)
  <2>1. 1 < k + 1
    BY <1>3
  <2> QED
    BY <1>3, <1>4, <1>5, <1>7, <2>1
<1> QED
  BY <1>3, <1>8, <1>9, <1>10, <1>11, <1>12, <1>13 DEF QueuedAfter, Queued, q, r

(* What the file operation's worker does, by what happens to the queue.    *)
LEMMA FileOpCases ==
    ASSUME TypeOK, FileOpWorker
    PROVE  \/ /\ fileOp'.pc \in {"check", "take"} /\ fileOp.pc \in {"begin", "check"}
              /\ fileOp'.todo = fileOp.todo /\ fileOp'.ops = fileOp.ops
              /\ fileOp'.pc = "take" => \E i \in Items : Following(i) /\ ShouldRenameItem(i)
              /\ UNCHANGED <<listVars, messages, window, disk, refused, collided>>
           \/ /\ fileOp'.pc = "check" /\ fileOp.pc \in {"check", "take"}
              /\ fileOp'.ops = fileOp.ops /\ UNCHANGED <<listVars, messages, window, disk, refused, collided>>
              /\ \E i \in Items :
                    /\ Following(i) /\ fileOp'.todo = fileOp.todo \ {i}
                    /\ ~ShouldRenameItem(i) \/ At(path[i]) = {} \/ newName[i] = NoName
           \/ FileOpTakes /\ window' = "crashed" /\ UNCHANGED <<listVars, messages, fileOp>>
           \/ FileOpTakes /\ UNCHANGED <<window, disk, refused, collided>> /\ \E i \in Items :
                 /\ Following(i) /\ FileOpQueues(i)
                 /\ closing => UNCHANGED <<listVars, messages>>
                 /\ ~closing => PutRenamed(i, newName[i])
           \/ FileOpPerforms \/ FileOpRenames \/ FileOpEnds
<1> USE DEF FileOpAt, TypeOK, diskVars
<1>1. CASE FileOpBegins
  BY <1>1 DEF FileOpBegins
<1>2. CASE FileOpChecks
  <2>1. PICK i \in Items :
           /\ Following(i)
           /\ IF ShouldRenameItem(i) THEN fileOp' = [fileOp EXCEPT !.pc = "take"]
                                     ELSE FileOpSkips(i)
    BY <1>2 DEF FileOpChecks
  <2> QED
    BY <1>2, <2>1 DEF FileOpChecks, FileOpSkips
<1>3. CASE FileOpTakes
  <2>1. PICK i \in Items :
            /\ Following(i)
            /\ \/ FileOpSkips(i) /\ UNCHANGED <<listVars, messages, window>>
                     /\ (At(path[i]) = {} \/ newName[i] = NoName)
               \/ FileOpCrashes(i)
               \/ FileOpQueues(i) /\ closing /\ UNCHANGED <<listVars, messages, window>>
               \/ FileOpQueues(i) /\ ~closing /\ PutRenamed(i, newName[i]) /\ UNCHANGED window
    BY <1>3, TakeCases
  <2>2. UNCHANGED <<disk, refused, collided>> /\ fileOp.pc = "take"
    BY <1>3 DEF FileOpTakes
  <2>3. CASE FileOpSkips(i) /\ UNCHANGED <<listVars, messages, window>>
               /\ (At(path[i]) = {} \/ newName[i] = NoName)
    BY <2>1, <2>2, <2>3 DEF FileOpSkips
  <2>4. CASE FileOpCrashes(i)
    BY <1>3, <2>4 DEF FileOpCrashes
  <2>5. CASE FileOpQueues(i) /\ (closing => UNCHANGED <<listVars, messages>>)
               /\ (~closing => PutRenamed(i, newName[i])) /\ UNCHANGED window
    BY <1>3, <2>1, <2>2, <2>5
  <2> QED
    BY <2>1, <2>3, <2>4, <2>5
<1> QED
  BY <1>1, <1>2, <1>3 DEF FileOpWorker

LEMMA InitQueue == ASSUME Init PROVE HandOver /\ QueueInv
<1>1. fileOp.pc = "none" /\ fileOp.todo = {} /\ fileOp.ops = <<>> /\ ui = <<>>
  BY DEF Init, NoFileOp
<1>2. DOMAIN <<>> = {}
  BY EmptySeq
<1> QED
  BY <1>1, <1>2 DEF HandOver, QueueInv, Queued

(* The item that is looked at comes before all that are left. *)
LEMMA FollowingFirst ==
    ASSUME TypeOK, NEW i \in Items, Following(i), NEW j \in fileOp.todo, j # i
    PROVE  Before(i, j) /\ ~Following(j)
<1>1. j \in Items /\ i \in fileOp.todo
  BY DEF Following, TypeOK
<1>2. i \in Nat /\ j \in Nat /\ Depth[i] \in Nat /\ Depth[j] \in Nat
  BY <1>1, ItemFacts
<1> QED
  BY <1>1, <1>2 DEF Following, Before

LEMMA NextQueue == ASSUME TypeOK, QueueInv, [Next]_vars PROVE QueueInv'
<1>1. ASSUME fileOp' = fileOp PROVE QueueInv'
  BY <1>1 DEF QueueInv, Queued
<1>2. ASSUME fileOp'.ops = <<>>, fileOp'.todo \in {{}, Items},
             fileOp'.pc # "begin" => fileOp'.todo = {}
      PROVE  QueueInv'
  <2>1. DOMAIN <<>> = {}
    BY EmptySeq
  <2> QED
    BY <1>2, <2>1 DEF QueueInv, Queued
<1>3. CASE CreateFileOpWorkerThread \/ StopPumping
  BY <1>2, <1>3 DEF CreateFileOpWorkerThread, StopPumping, NoFileOp
<1>4. ASSUME NEW i \in Items, Following(i)
      PROVE  \A j \in Items \ (fileOp.todo \ {i}), k \in fileOp.todo \ {i} : Before(j, k)
  <2>1. fileOp.todo \subseteq Items
    BY DEF TypeOK
  <2>2. ASSUME NEW k \in fileOp.todo, k # i PROVE Before(i, k)
    BY <1>4, <2>1, <2>2, FollowingFirst
  <2> QED
    BY <2>2 DEF QueueInv
<1>5. CASE FileOpWorker
  <2>1. CASE /\ fileOp'.pc \in {"check", "take"}
             /\ fileOp'.todo = fileOp.todo /\ fileOp'.ops = fileOp.ops
    BY <2>1 DEF QueueInv, Queued
  <2>2. ASSUME NEW i \in Items, Following(i), fileOp'.todo = fileOp.todo \ {i},
               fileOp'.pc = "check", fileOp'.ops = fileOp.ops
        PROVE  QueueInv'
    BY <1>4, <2>2 DEF QueueInv, Queued
  <2>3. ASSUME NEW i \in Items, Following(i), FileOpQueues(i) PROVE QueueInv'
    <3>1. PICK op \in Operation :
             /\ op.item = i /\ fileOp'.ops = Append(fileOp.ops, op)
             /\ fileOp'.pc = "check" /\ fileOp'.todo = fileOp.todo \ {i} /\ i \in fileOp.todo
      <4>1. newName[i] \in Name /\ path[i] \in Seq(Name)
        BY <2>3, QueuesTyped DEF TypeOK
      <4>2. [item |-> i, from |-> path[i], to |-> newName[i]] \in Operation
        BY <4>1 DEF Operation
      <4> QED
        BY <2>3, <4>2, QueuesTyped DEF Following
    <3>2. \A j \in fileOp'.todo : ~QueuedAfter(j)
      BY <3>1, QueueGrows DEF QueueInv
    <3>3. ASSUME NEW k \in DOMAIN fileOp'.ops, NEW l \in DOMAIN fileOp'.ops,
                 fileOp'.ops[k].item = fileOp'.ops[l].item
          PROVE  k = l
      <4>1. ~Queued(i) /\ \A m, n \in DOMAIN fileOp.ops :
                             fileOp.ops[m].item = fileOp.ops[n].item => m = n
        BY <3>1 DEF QueueInv
      <4> QED
        BY <3>1, <3>3, <4>1, QueueGrows DEF Queued
    <3>4. ASSUME NEW k \in DOMAIN fileOp'.ops, NEW l \in DOMAIN fileOp'.ops, k < l
          PROVE  Before(fileOp'.ops[k].item, fileOp'.ops[l].item)
      <4>1. k \in DOMAIN fileOp.ops /\ fileOp'.ops[k] = fileOp.ops[k]
        BY <3>1, <3>4, QueueGrows
      <4>2. CASE l \in DOMAIN fileOp.ops /\ fileOp'.ops[l] = fileOp.ops[l]
        BY <3>4, <4>1, <4>2 DEF QueueInv
      <4>3. CASE fileOp'.ops[l] = op
        <5>1. fileOp.ops[k].item \in Items \ fileOp.todo
          <6>1. fileOp.ops[k] \in Operation
            BY <4>1, ElementOfSeq, LenProperties DEF TypeOK
          <6> QED
            BY <4>1, <6>1 DEF Operation, QueueInv, Queued
        <5> QED
          BY <3>1, <4>1, <4>3, <5>1 DEF QueueInv
      <4> QED
        BY <3>1, <4>2, <4>3, QueueGrows
    <3> QED
      BY <1>4, <2>3, <3>1, <3>2, <3>3, <3>4 DEF QueueInv, Queued, QueuedAfter
  <2>4. CASE FileOpPerforms
    BY <2>4 DEF FileOpPerforms, FileOpAt, QueueInv, Queued, TypeOK
  <2>5. CASE FileOpRenames
    <3>1. /\ fileOp.ops # <<>> /\ fileOp'.ops = Tail(fileOp.ops)
          /\ fileOp'.pc = "perform" /\ fileOp'.todo = fileOp.todo /\ fileOp.todo = {}
      BY <2>5 DEF FileOpRenames, FileOpAt, QueueInv, TypeOK
    <3> QED
      BY <3>1, QueueShrinks DEF QueueInv, Queued
  <2>6. CASE FileOpEnds
    BY <2>6 DEF FileOpEnds, FileOpAt, QueueInv, Queued, TypeOK
  <2> QED
    BY <1>1, <1>5, <2>1, <2>2, <2>3, <2>4, <2>5, <2>6, FileOpCases
<1> QED
  BY <1>1, <1>3, <1>5, WhoChanges

---------------------------------------------------------------------------
(* The list and the disk *)

LEMMA MessageStays ==
    ASSUME TypeOK, NEW m \in Message, messages' = Append(messages, m)
    PROVE  /\ AboutToClose => AboutToClose'
           /\ m = "close" => AboutToClose'
<1>1. PICK n \in Nat : n = Len(messages) /\ DOMAIN messages = 1 .. n
  BY LenProperties DEF TypeOK
<1>2. /\ DOMAIN messages' = 1 .. n + 1 /\ messages'[n + 1] = m
      /\ \A k \in 1 .. n : messages'[k] = messages[k]
  <2>1. /\ messages' \in Seq(Message) /\ Len(messages') = Len(messages) + 1
        /\ messages'[Len(messages) + 1] = m
        /\ \A k \in 1 .. Len(messages) : messages'[k] = messages[k]
    BY AppendProperties DEF TypeOK
  <2> QED
    BY <1>1, <2>1, LenProperties
<1>3. \A k \in DOMAIN messages : k \in DOMAIN messages' /\ messages'[k] = messages[k]
  BY <1>1, <1>2
<1>4. n + 1 \in DOMAIN messages'
  BY <1>2
<1> QED
  BY <1>2, <1>3, <1>4 DEF AboutToClose

(* A window that is open was open; a closing one closes, and what is       *)
(* refused stays so.                                                       *)
LEMMA AliveBefore == ASSUME TypeOK, [Next]_vars, Alive' PROVE Alive
<1>1. window = "open"
  <2>1. Dispatch => window = "open"
    BY DEF Dispatch, Dispatching
  <2>2. FileOpTakes => window = "open"
    BY DEF FileOpTakes, FileOpAt
  <2>3. UNCHANGED window \/ Dispatch \/ FileOpTakes
    BY WhoChanges
  <2> QED
    BY <2>1, <2>2, <2>3 DEF Alive
<1>2. ~refused
  BY WhoChanges DEF Alive, FileOpRenames, Perform, diskVars
<1>3. ~AboutToClose
  <2>1. CASE UNCHANGED messages
    BY <2>1 DEF Alive, AboutToClose
  <2>2. CASE Dispatch
    <3>1. /\ messages \in Seq(Message) /\ messages # <<>>
          /\ messages' = Tail(messages) /\ Head(messages) # "close"
      BY <2>2 DEF Dispatch, Dispatching, Alive, TypeOK
    <3>2. PICK n \in Nat : n = Len(messages) /\ DOMAIN messages = 1 .. n
      BY <3>1, LenProperties
    <3>3. DOMAIN messages' = 1 .. n - 1 /\ \A k \in 1 .. n - 1 : messages'[k] = messages[k + 1]
      <4>1. /\ Tail(messages) \in Seq(Message) /\ Len(Tail(messages)) = Len(messages) - 1
            /\ \A k \in 1 .. Len(Tail(messages)) : Tail(messages)[k] = messages[k + 1]
        BY <3>1, HeadTailProperties
      <4> QED
        BY <3>1, <3>2, <4>1, LenProperties
    <3>4. messages[1] # "close"
      BY <3>1, HeadTailProperties
    <3>5. ASSUME NEW k \in 1 .. n, messages[k] = "close" PROVE FALSE
      <4>1. k # 1
        BY <3>4, <3>5
      <4>2. k - 1 \in 1 .. n - 1 /\ (k - 1) + 1 = k
        BY <4>1
      <4>3. k - 1 \in DOMAIN messages' /\ messages'[k - 1] = "close"
        BY <3>3, <3>5, <4>2
      <4> QED
        BY <4>3 DEF Alive, AboutToClose
    <3> QED
      BY <3>2, <3>5 DEF AboutToClose
  <2>3. CASE RenameCompleted \/ RegExChecks \/ FileOpTakes
    <3>1. UNCHANGED messages \/ \E m \in Message : messages' = Append(messages, m)
      <4>1. "regExComplete" \in Message /\ "itemRenamed" \in Message /\ "close" \in Message
        BY DEF Message
      <4>2. FileOpTakes => UNCHANGED messages \/ messages' = Append(messages, "itemRenamed")
        BY TakeCases DEF FileOpCrashes, PutRenamed
      <4> QED
        BY <2>3, <4>1, <4>2 DEF RenameCompleted, RegExChecks, RegExEnds
    <3> QED
      BY <2>1, <3>1, MessageStays DEF Alive
  <2> QED
    BY <2>1, <2>2, <2>3, WhoChanges
<1> QED
  BY <1>1, <1>2, <1>3 DEF Alive

LEMMA UndoneBefore == ASSUME TypeOK, [Next]_vars, Undone' PROVE Undone
<1>1. ~collided
  BY WhoChanges DEF Undone, FileOpRenames, Perform, diskVars
<1> QED
  BY <1>1, AliveBefore DEF Undone

(* While a file operation is carried out, nothing but it is.               *)
LEMMA NoOperationAtRest == ASSUME TypeOK, QueueInv, ui = <<>> PROVE fileOp.pc = "none"
<1>1. DOMAIN <<>> = {}
  BY EmptySeq
<1>2. Pumped
  BY TypeParts
<1> QED
  BY <1>1, <1>2 DEF Pumped, Has

LEMMA NoOperationLeft ==
    ASSUME TypeOK, CallsInv, Calls("completed") PROVE fileOp.pc = "none"
<1>1. ui \in Seq(Call) /\ ui # <<>> /\ InOrder(ui) /\ Head(ui) = "completed"
  BY DEF TypeOK, CallsInv, Calls
<1>2. Tail(ui) = <<>> /\ (Has(Tail(ui), "pump") <=> Has(ui, "pump"))
  BY <1>1, TailInOrder
<1>3. ~Has(ui, "pump")
  BY <1>2, EmptySeq DEF Has
<1> QED
  BY <1>3, TypeParts DEF Pumped

(* A file operation that will close the window does so.                    *)
LEMMA AbandonedBefore ==
    ASSUME TypeOK, CallsInv, HandOver, QueueInv, [Next]_vars, Undone', ~Abandoned'
    PROVE  ~Abandoned
<1>0. window' = "open" /\ window = "open"
  BY UndoneBefore DEF Undone, Alive
<1>1. ASSUME closing' = closing, fileOp' = fileOp, ~Calls("completed") PROVE ~Abandoned
  BY <1>1 DEF Abandoned
<1>2. ASSUME UNCHANGED <<ui, closing, fileOp>> PROVE ~Abandoned
  BY <1>0, <1>2 DEF Abandoned, Calls
<1>3. CASE Dispatch \/ UNCHANGED vars
  BY <1>2, <1>3 DEF Dispatch, vars, userVars, windowVars
<1>4. ASSUME NEW c \in Criteria, Change(c) PROVE ~Abandoned
  BY <1>1, <1>4 DEF Change, Dispatching, Calls
<1>5. ASSUME NEW close \in BOOLEAN, PressRename(close) PROVE ~Abandoned
  BY <1>5, NoOperationAtRest DEF PressRename, Abandoned, Calls
<1>6. CASE CancelRegExWorker \/ WaitForRegExWorkerThread \/ CreateRegExWorkerThread
           \/ SignalRegExWorker
  <2>1. PICK call \in {"cancel", "wait", "create", "signal"} : Calls(call)
    BY <1>6 DEF CancelRegExWorker, WaitForRegExWorkerThread, CreateRegExWorkerThread,
                SignalRegExWorker
  <2>2. closing' = closing /\ fileOp' = fileOp
    BY <1>6 DEF CancelRegExWorker, WaitForRegExWorkerThread, CreateRegExWorkerThread,
                SignalRegExWorker, userVars
  <2> QED
    BY <1>1, <2>1, <2>2 DEF Calls
<1>7. CASE CreateFileOpWorkerThread
  <2>1. Calls("createFileOp")
    BY <1>7 DEF CreateFileOpWorkerThread
  <2>2. Has(ui, "createFileOp")
    BY <2>1, TailFacts DEF Calls, Has, TypeOK
  <2> QED
    BY <2>1, <2>2 DEF HandOver, Abandoned, Calls
<1>8. CASE StopPumping
  <2>1. Calls("pump") /\ closing' = closing /\ ui' = Tail(ui)
    BY <1>8 DEF StopPumping, userVars
  <2>2. ui' # <<>> /\ Head(ui') = "completed"
    BY <2>1, Returns DEF Follows
  <2> QED
    BY <1>0, <2>1, <2>2 DEF Abandoned, Calls
<1>9. CASE RenameCompleted
  <2>1. ~closing
    <3>1. closing => messages' = Append(messages, "close") /\ "close" \in Message
      BY <1>9 DEF RenameCompleted, Message
    <3> QED
      BY <3>1, MessageStays DEF Undone, Alive
  <2> QED
    BY <2>1 DEF Abandoned
<1>10. CASE RegExWorker
  BY <1>2, <1>10, RegExKeepsCalls
  DEF RegExWorker, RegExBegins, RegExChecks, RegExThrows, RegExComputes, RegExPutsNewName,
      RegExLeaves, userVars
<1>11. CASE FileOpWorker
  <2>1. UNCHANGED <<ui, closing>>
    BY <1>11, FileOpKeepsCalls
  <2>2. fileOp.pc \in {"perform", "exited"} => fileOp'.pc \in {"perform", "exited"}
    BY <1>11 DEF FileOpWorker, FileOpBegins, FileOpChecks, FileOpTakes, FileOpPerforms,
                 FileOpRenames, FileOpEnds, FileOpAt, TypeOK
  <2> QED
    BY <1>0, <2>1, <2>2 DEF Abandoned, Calls
<1> QED
  BY <1>3, <1>4, <1>5, <1>6, <1>7, <1>8, <1>9, <1>10, <1>11 DEF Next, WindowThread, User

(* A path whose names are those on disk leads to the item.                 *)
LEMMA PathLeads ==
    ASSUME TypeOK, PathInv, NEW i \in Items,
           \A d \in 0 .. Depth[i] : original[Around(i, d)] = disk[Around(i, d)]
    PROVE  path[i] = DiskPath(i)
<1>1. PICK n \in Nat : n = Depth[i]
  BY ItemFacts
<1>2. path[i] \in Seq(Name) /\ Len(path[i]) = n + 1
  BY <1>1 DEF TypeOK
<1>3. /\ DOMAIN path[i] = 1 .. n + 1
      /\ path[i] = [d \in 1 .. n + 1 |-> path[i][d]]
  <2>1. path[i] \in [1 .. Len(path[i]) -> Name]
    BY <1>2, LenProperties
  <2> QED
    BY <1>2, <2>1
<1>4. ASSUME NEW d \in 1 .. n + 1 PROVE path[i][d] = disk[Around(i, d - 1)]
  <2>1. d - 1 \in 0 .. n
    OBVIOUS
  <2> QED
    BY <1>1, <2>1 DEF PathInv
<1>5. DiskPath(i) = [d \in 1 .. n + 1 |-> disk[Around(i, d - 1)]]
  BY <1>1 DEF DiskPath
<1> QED
  BY <1>3, <1>4, <1>5

(* The folders around an item are looked at after it: its path is still    *)
(* where it is.                                                            *)
LEMMA TakesWhereItIs ==
    ASSUME TypeOK, QueueInv, PathInv, ListInv, Undone, ~Abandoned,
           NEW i \in Items, Following(i)
    PROVE  path[i] = DiskPath(i)
<1>1. ASSUME NEW d \in 0 .. Depth[i] PROVE original[Around(i, d)] = disk[Around(i, d)]
  <2>1. PICK a \in Items : a = Around(i, d) /\ Depth[a] = d
    BY AroundFacts
  <2>2. a \in fileOp.todo
    <3>1. ASSUME a \notin fileOp.todo PROVE FALSE
      <4>1. Depth[i] <= Depth[a] /\ i \in fileOp.todo
        BY <2>1, <3>1, ItemFacts DEF QueueInv, Following, Before
      <4>2. d = Depth[i]
        BY <2>1, <4>1, ItemFacts
      <4>3. a = i
        BY <2>1, <4>2, AroundSelf
      <4> QED
        BY <3>1, <4>1, <4>3
    <3> QED
      BY <3>1
  <2>3. ~Queued(a)
    BY <2>2 DEF QueueInv
  <2> QED
    BY <2>1, <2>3 DEF ListInv
<1> QED
  BY <1>1, PathLeads

(* Where two items have two names in every folder, a path leads to one.    *)
LEMMA OnePlace ==
    ASSUME DiskInv, NEW i \in Items, NEW j \in Items, DiskPath(i) = DiskPath(j) PROVE i = j
<1>1. PICK m \in Nat, n \in Nat : m = Depth[i] /\ n = Depth[j]
  BY ItemFacts
<1>2. /\ DOMAIN DiskPath(i) = 1 .. m + 1 /\ DOMAIN DiskPath(j) = 1 .. n + 1
      /\ \A d \in 1 .. m + 1 : DiskPath(i)[d] = disk[Around(i, d - 1)]
      /\ \A d \in 1 .. n + 1 : DiskPath(j)[d] = disk[Around(j, d - 1)]
  BY <1>1 DEF DiskPath
<1>3. m = n
  <2>1. m + 1 \in 1 .. n + 1 /\ n + 1 \in 1 .. m + 1
    <3>1. m + 1 \in 1 .. m + 1 /\ n + 1 \in 1 .. n + 1
      OBVIOUS
    <3> QED
      BY <1>2, <3>1
  <2> QED
    BY <2>1
<1>4. ASSUME i # j PROVE FALSE
  <2> DEFINE T == {d \in 0 .. m : Around(i, d) # Around(j, d)}
  <2>1. m \in T
    <3>1. Around(i, Depth[i]) = i /\ Around(j, Depth[j]) = j
      BY AroundSelf
    <3>2. Depth[i] = m /\ Depth[j] = m
      BY <1>1, <1>3
    <3>3. Around(i, m) = i /\ Around(j, m) = j
      BY <3>1, <3>2
    <3>4. m \in 0 .. m
      BY <1>1
    <3> QED
      BY <1>4, <3>3, <3>4
  <2>2. PICK d \in T : \A e \in T : d <= e
    <3>1. T \in SUBSET Nat /\ T # {}
      BY <2>1
    <3> HIDE DEF T
    <3> QED
      BY <3>1, Least
  <2>3. d \in 0 .. Depth[i] /\ d \in 0 .. Depth[j] /\ d \in Nat
    BY <1>1, <1>3
  <2>4. PICK a \in Items, b \in Items :
           a = Around(i, d) /\ b = Around(j, d) /\ Depth[a] = d /\ Depth[b] = d /\ a # b
    BY <2>3, AroundFacts
  <2>5. ASSUME d > 0 PROVE Around(a, d - 1) = Around(b, d - 1)
    <3>1. d - 1 \in 0 .. d /\ d - 1 \in 0 .. m /\ d - 1 \notin T
      BY <2>2, <2>3, <2>5
    <3>2. Around(i, d - 1) = Around(j, d - 1)
      BY <3>1
    <3> QED
      BY <2>3, <2>4, <3>1, <3>2, AroundNested
  <2>6. disk[a] # disk[b]
    BY <2>4, <2>5 DEF Siblings, DiskInv
  <2>7. d + 1 \in 1 .. m + 1 /\ (d + 1) - 1 = d
    BY <2>2, <2>3
  <2> QED
    BY <1>2, <1>3, <2>4, <2>6, <2>7
<1> QED
  BY <1>4

(* To rename an item moves nothing that is looked at later.                *)
LEMMA PathKept ==
    ASSUME TypeOK, NEW i \in Items, NEW j \in Items, Before(i, j), NEW name,
           disk' = [disk EXCEPT ![i] = name]
    PROVE  DiskPath(j)' = DiskPath(j)
<1>1. PICK n \in Nat : n = Depth[j]
  BY ItemFacts
<1>2. ASSUME NEW d \in 1 .. n + 1 PROVE disk'[Around(j, d - 1)] = disk[Around(j, d - 1)]
  <2>1. d - 1 \in 0 .. n
    OBVIOUS
  <2> QED
    BY <1>1, <2>1, AroundFacts, BeforeFacts DEF TypeOK
<1> QED
  BY <1>1, <1>2 DEF DiskPath

(* What the system does with the first operation, unless it refuses to:    *)
(* its item is where the operation says, and gets its name or collides.    *)
LEMMA Performed ==
    ASSUME TypeOK, QueueInv, DiskInv, FromInv, Undone, FileOpRenames, ~refused',
           NEW op \in Operation, op = Head(fileOp.ops)
    PROVE  /\ collided' = ~Free(op.item, op.to)
           /\ ~collided' => disk' = [disk EXCEPT ![op.item] = op.to]
<1>1. op.item \in Items /\ op.to \in Name
  BY DEF Operation
<1>2. op.from = DiskPath(op.item)
  <2>1. fileOp.ops # <<>> /\ fileOp'.ops = Tail(fileOp.ops)
    BY DEF FileOpRenames, TypeOK
  <2>2. PICK f \in DOMAIN fileOp.ops : fileOp.ops[f] = op
    BY <2>1, QueueShrinks
  <2> QED
    BY <2>2 DEF FromInv
<1>3. \A i \in Items : i \in At(op.from) <=> i = op.item
  BY <1>1, <1>2, OnePlace DEF At
<1>4. PICK name \in Name :
         /\ disk' = [disk EXCEPT ![op.item] = name]
         /\ collided' = (collided \/ ~Free(op.item, op.to))
         /\ refused' = (refused \/ (Free(op.item, op.to) /\ name # op.to))
  <2>1. Perform(op)
    BY DEF FileOpRenames
  <2>2. At(op.from) # {} /\ At(op.from) \subseteq Items
    BY <1>1, <1>3 DEF At
  <2> QED
    BY <1>3, <2>1, <2>2 DEF Perform
<1>5. collided = FALSE
  BY DEF Undone, TypeOK
<1>6. Free(op.item, op.to) \in BOOLEAN
  BY DEF Free
<1> QED
  BY <1>4, <1>5, <1>6

LEMMA NextDisk == ASSUME TypeOK, DiskInv, [Next]_vars PROVE DiskInv'
<1>1. CASE UNCHANGED disk
  BY <1>1 DEF DiskInv
<1>2. ASSUME NEW i \in Items, NEW name \in Name, Free(i, name), disk' = [disk EXCEPT ![i] = name]
      PROVE  DiskInv'
  <2>1. ASSUME NEW j \in Items, NEW k \in Items, Siblings(j, k) PROVE disk'[j] # disk'[k]
    <3>1. j # k /\ Siblings(k, j) /\ disk[j] # disk[k]
      BY <2>1, SiblingsFacts DEF DiskInv
    <3> QED
      BY <1>2, <2>1, <3>1 DEF Free, TypeOK
  <2> QED
    BY <2>1 DEF DiskInv
<1>3. CASE FileOpRenames
  <2>1. UNCHANGED disk \/ \E i \in Items, name \in Name :
           Free(i, name) /\ disk' = [disk EXCEPT ![i] = name]
    BY <1>3 DEF FileOpRenames, Perform, diskVars, At
  <2> QED
    BY <1>1, <1>2, <2>1
<1> QED
  BY <1>1, <1>3, WhoChanges

LEMMA NextFrom ==
    ASSUME TypeOK, CallsInv, QueueInv, PathInv, DiskInv, FromInv, ListInv, [Next]_vars
    PROVE  FromInv'
<1> DEFINE Led == \A k \in DOMAIN fileOp.ops : fileOp.ops[k].from = DiskPath(fileOp.ops[k].item)
<1>1. SUFFICES ASSUME Undone' PROVE Led'
  BY DEF FromInv
<1>2. Undone /\ Led /\ ~refused' /\ ~collided' /\ window' = "open"
  BY <1>1, UndoneBefore DEF FromInv, Undone, Alive
<1>3. ASSUME fileOp'.ops = fileOp.ops, UNCHANGED disk PROVE Led'
  BY <1>2, <1>3 DEF DiskPath
<1>4. CASE CreateFileOpWorkerThread \/ StopPumping
  <2>1. fileOp'.ops = <<>> /\ DOMAIN <<>> = {}
    BY <1>4, EmptySeq DEF CreateFileOpWorkerThread, StopPumping, NoFileOp
  <2> QED
    BY <2>1
<1>5. CASE FileOpWorker
  <2>1. ASSUME NEW i \in Items, FileOpTakes, Following(i), FileOpQueues(i), UNCHANGED disk
        PROVE  Led'
    <3>1. ~Abandoned
      <4>1. fileOp.pc = "take"
        BY <2>1 DEF FileOpTakes, FileOpAt
      <4> QED
        BY <4>1, NoOperationLeft DEF Abandoned
    <3>2. path[i] = DiskPath(i)
      BY <1>2, <2>1, <3>1, TakesWhereItIs
    <3>3. PICK op \in Operation :
             op.item = i /\ op.from = path[i] /\ fileOp'.ops = Append(fileOp.ops, op)
      <4>1. newName[i] \in Name /\ path[i] \in Seq(Name)
        BY <2>1, QueuesTyped DEF TypeOK
      <4>2. [item |-> i, from |-> path[i], to |-> newName[i]] \in Operation
        BY <4>1 DEF Operation
      <4> QED
        BY <2>1, <4>2, QueuesTyped
    <3>4. \A k \in DOMAIN fileOp'.ops :
             (k \in DOMAIN fileOp.ops /\ fileOp'.ops[k] = fileOp.ops[k]) \/ fileOp'.ops[k] = op
      BY <3>3, QueueGrows
    <3>5. ASSUME NEW k \in DOMAIN fileOp'.ops
          PROVE  \E j \in Items : fileOp'.ops[k].item = j /\ fileOp'.ops[k].from = DiskPath(j)'
      <4>1. ASSUME NEW j \in Items PROVE DiskPath(j)' = DiskPath(j)
        BY <2>1 DEF DiskPath
      <4>2. CASE k \in DOMAIN fileOp.ops /\ fileOp'.ops[k] = fileOp.ops[k]
        <5>1. fileOp.ops[k].item \in Items
          <6>1. fileOp.ops[k] \in Operation
            BY <4>2, ElementOfSeq, LenProperties DEF TypeOK
          <6> QED
            BY <6>1 DEF Operation
        <5> QED
          BY <1>2, <4>1, <4>2, <5>1
      <4>3. CASE fileOp'.ops[k] = op
        BY <3>2, <3>3, <4>1, <4>3
      <4> QED
        BY <3>4, <4>2, <4>3
    <3> QED
      BY <3>5 DEF DiskPath
  <2>2. CASE FileOpRenames
    <3>1. fileOp.ops # <<>> /\ fileOp'.ops = Tail(fileOp.ops)
      BY <2>2 DEF FileOpRenames, TypeOK
    <3>2. PICK op \in Operation : op = Head(fileOp.ops)
      BY <3>1, QueueShrinks
    <3>3. disk' = [disk EXCEPT ![op.item] = op.to] /\ op.item \in Items
      BY <1>2, <2>2, <3>2, Performed DEF Operation
    <3>4. ASSUME NEW k \in DOMAIN fileOp'.ops
          PROVE  \E j \in Items : fileOp'.ops[k].item = j /\ fileOp'.ops[k].from = DiskPath(j)'
      <4>1. PICK l \in DOMAIN fileOp.ops : fileOp'.ops[k] = fileOp.ops[l]
        BY <3>1, QueueShrinks
      <4>2. PICK j \in Items : j = fileOp.ops[l].item
        <5>1. fileOp.ops[l] \in Operation
          BY ElementOfSeq, LenProperties DEF TypeOK
        <5> QED
          BY <5>1 DEF Operation
      <4>3. Before(op.item, j)
        BY <3>1, <3>2, <4>1, <4>2, QueueShrinks
      <4>4. DiskPath(j)' = DiskPath(j)
        BY <3>3, <4>3, PathKept
      <4>5. fileOp.ops[l].from = DiskPath(j)
        BY <1>2, <4>2
      <4> QED
        BY <4>1, <4>2, <4>4, <4>5
    <3> QED
      BY <3>4 DEF DiskPath
  <2>3. CASE FileOpPerforms \/ FileOpEnds
    BY <1>3, <2>3 DEF FileOpPerforms, FileOpEnds, diskVars, TypeOK
  <2> QED
    BY <1>2, <1>3, <1>5, <2>1, <2>2, <2>3, FileOpCases
<1>6. CASE UNCHANGED <<fileOp, disk>>
  BY <1>3, <1>6
<1> QED
  BY <1>4, <1>5, <1>6, WhoChanges DEF FileOpWorker

LEMMA InitList == ASSUME Init PROVE ListInv
<1>1. DOMAIN <<>> = {}
  BY EmptySeq
<1> QED
  BY <1>1 DEF Init, NoFileOp, ListInv

LEMMA NextList ==
    ASSUME TypeOK, CallsInv, HandOver, QueueInv, DiskInv, FromInv, ListInv, [Next]_vars
    PROVE  ListInv'
<1> DEFINE Ahead == \A i \in Items : closing \/ ~Queued(i) => original[i] = disk[i]
           Going == \A k \in DOMAIN fileOp.ops :
                        ~closing => fileOp.ops[k].to = original[fileOp.ops[k].item]
<1>1. SUFFICES ASSUME Undone', ~Abandoned' PROVE Ahead' /\ Going'
  BY DEF ListInv
<1>2. Ahead /\ Going /\ Undone /\ window' = "open" /\ ~refused' /\ ~collided'
  BY <1>1, UndoneBefore, AbandonedBefore DEF ListInv, Undone, Alive
<1>3. ASSUME UNCHANGED <<closing, fileOp.ops, original, disk>> PROVE Ahead' /\ Going'
  BY <1>2, <1>3 DEF Queued
<1>4. ASSUME fileOp.ops = <<>>, fileOp'.ops = <<>>, UNCHANGED <<original, disk>>
      PROVE  Ahead' /\ Going'
  <2>1. DOMAIN <<>> = {}
    BY EmptySeq
  <2>2. \A i \in Items : original[i] = disk[i]
    BY <1>2, <1>4, <2>1 DEF Queued
  <2> QED
    BY <1>4, <2>1, <2>2
<1>5. CASE UNCHANGED fileOp /\ ~RegExWorker /\ ~FileOpWorker
  <2>1. UNCHANGED <<original, disk>>
    BY <1>5, WhoChanges DEF listVars, RegExWorker, FileOpWorker
  <2>2. CASE UNCHANGED closing
    BY <1>3, <1>5, <2>1, <2>2
  <2>3. ASSUME NEW close \in BOOLEAN, PressRename(close) PROVE Ahead' /\ Going'
    BY <1>4, <1>5, <2>1, <2>3, NoOperationAtRest DEF PressRename, QueueInv
  <2> QED
    BY <2>2, <2>3, WhoChanges
<1>6. CASE CreateFileOpWorkerThread
  <2>1. Has(ui, "createFileOp")
    BY <1>6, TailFacts DEF CreateFileOpWorkerThread, Calls, Has, TypeOK
  <2>2. fileOp.ops = <<>>
    BY <2>1 DEF HandOver, QueueInv
  <2> QED
    BY <1>4, <1>6, <2>2 DEF CreateFileOpWorkerThread, listVars, diskVars
<1>7. CASE StopPumping
  BY <1>4, <1>7 DEF StopPumping, NoFileOp, QueueInv, listVars, diskVars
<1>8. CASE RegExWorker
  BY <1>3, <1>8, RegExKeepsCalls
  DEF RegExWorker, RegExBegins, RegExChecks, RegExThrows, RegExComputes, RegExPutsNewName,
      RegExLeaves, userVars, diskVars
<1>9. CASE FileOpWorker
  <2>0. closing' = closing
    BY <1>9, FileOpKeepsCalls
  <2>1. CASE fileOp'.ops = fileOp.ops /\ UNCHANGED <<original, disk>>
    BY <1>3, <2>0, <2>1
  <2>2. ASSUME NEW i \in Items, FileOpQueues(i), Following(i), UNCHANGED disk,
               closing => UNCHANGED listVars, ~closing => PutRenamed(i, newName[i])
        PROVE  Ahead' /\ Going'
    <3>1. PICK op \in Operation :
             op.item = i /\ op.to = newName[i] /\ fileOp'.ops = Append(fileOp.ops, op)
      <4>1. newName[i] \in Name /\ path[i] \in Seq(Name)
        BY <2>2, QueuesTyped DEF TypeOK
      <4>2. [item |-> i, from |-> path[i], to |-> newName[i]] \in Operation
        BY <4>1 DEF Operation
      <4> QED
        BY <2>2, <4>2, QueuesTyped
    <3>2. CASE closing
      BY <1>2, <2>0, <2>2, <3>2 DEF listVars
    <3>3. CASE ~closing
      <4>1. original' = [original EXCEPT ![i] = newName[i]] /\ original \in [Items -> Name]
        BY <2>2, <3>3 DEF PutRenamed, TypeOK
      <4>2. ASSUME NEW j \in Items, ~QueuedAfter(j) PROVE original'[j] = disk'[j]
        <5>1. ~Queued(j) /\ j # i
          BY <3>1, <4>2, QueueGrows
        <5> QED
          BY <1>2, <2>2, <4>1, <5>1
      <4>3. ASSUME NEW k \in DOMAIN fileOp'.ops
            PROVE  fileOp'.ops[k].to = original'[fileOp'.ops[k].item]
        <5>1. CASE k \in DOMAIN fileOp.ops /\ fileOp'.ops[k] = fileOp.ops[k]
          <6>1. fileOp.ops[k].item \in Items /\ fileOp.ops[k].item # i
            <7>1. ~Queued(i)
              BY <2>2 DEF Following, QueueInv
            <7>2. fileOp.ops[k] \in Operation
              BY <5>1, ElementOfSeq, LenProperties DEF TypeOK
            <7> QED
              BY <5>1, <7>1, <7>2 DEF Queued, Operation
          <6> QED
            BY <1>2, <3>3, <4>1, <5>1, <6>1
        <5>2. CASE fileOp'.ops[k] = op
          BY <3>1, <4>1, <5>2
        <5> QED
          BY <3>1, <5>1, <5>2, QueueGrows
      <4> QED
        BY <2>0, <3>3, <4>2, <4>3 DEF QueuedAfter, Queued
    <3> QED
      BY <3>2, <3>3
  <2>3. CASE FileOpRenames
    <3>1. /\ fileOp.ops # <<>> /\ fileOp'.ops = Tail(fileOp.ops) /\ UNCHANGED original
          /\ fileOp'.pc = "perform"
      BY <2>3 DEF FileOpRenames, FileOpAt, listVars, TypeOK
    <3>2. ~closing
      BY <1>1, <2>0, <3>1 DEF Abandoned
    <3>3. PICK op \in Operation : op = Head(fileOp.ops)
      BY <3>1, QueueShrinks
    <3>4. disk' = [disk EXCEPT ![op.item] = op.to] /\ disk \in [Items -> Name]
      BY <1>2, <2>3, <3>3, Performed DEF TypeOK
    <3>5. op.item \in Items /\ op.to = original[op.item]
      <4>1. \E f \in DOMAIN fileOp.ops : fileOp.ops[f] = op
        BY <3>1, <3>3, QueueShrinks
      <4> QED
        BY <1>2, <3>2, <4>1 DEF Operation
    <3>6. ASSUME NEW j \in Items, ~QueuedAfter(j) PROVE original'[j] = disk'[j]
      <4>1. ~Queued(j) \/ op.item = j
        BY <3>1, <3>3, <3>6, QueueShrinks
      <4> QED
        BY <1>2, <3>1, <3>4, <3>5, <4>1
    <3>7. ASSUME NEW k \in DOMAIN fileOp'.ops
          PROVE  fileOp'.ops[k].to = original'[fileOp'.ops[k].item]
      <4>1. PICK l \in DOMAIN fileOp.ops : fileOp'.ops[k] = fileOp.ops[l]
        BY <3>1, QueueShrinks
      <4> QED
        BY <1>2, <3>1, <3>2, <4>1
    <3> QED
      BY <2>0, <3>2, <3>6, <3>7 DEF QueuedAfter, Queued
  <2>4. CASE FileOpPerforms \/ FileOpEnds
    BY <2>1, <2>4 DEF FileOpPerforms, FileOpEnds, listVars, diskVars, TypeOK
  <2> QED
    BY <1>2, <1>9, <2>1, <2>2, <2>3, <2>4, FileOpCases DEF listVars
<1> QED
  BY <1>5, <1>6, <1>7, <1>8, <1>9, WhoChanges

LEMMA InitDisk == ASSUME Init PROVE DiskInv /\ FromInv
<1>1. DOMAIN <<>> = {}
  BY EmptySeq
<1> QED
  BY <1>1, NamesAssumption DEF Init, NoFileOp, DiskInv, FromInv

LEMMA ListInvariant == Spec => [](HandOver /\ QueueInv /\ PathInv /\ DiskInv /\ FromInv /\ ListInv)
<1>1. Init => HandOver /\ QueueInv /\ PathInv /\ DiskInv /\ FromInv /\ ListInv
  BY InitQueue, InitPath, InitDisk, InitList
<1>2. TypeOK /\ CallsInv /\ HandOver /\ QueueInv /\ PathInv /\ DiskInv /\ FromInv /\ ListInv
         /\ [Next]_vars
         => (HandOver /\ QueueInv /\ PathInv /\ DiskInv /\ FromInv /\ ListInv)'
  BY NextHandOver, NextQueue, NextPath, NextDisk, NextFrom, NextList
<1> QED
  BY <1>1, <1>2, CallsInvariant, PTL DEF Spec

(* The list and the disk, for any tree: while the window stays open, the   *)
(* system refuses nothing and no item gets another name because one beside *)
(* it has its own, every path in the list leads to its item.               *)
THEOREM ListIsRight == Spec => []ListFollowsDisk
<1>1. TypeOK /\ QueueInv /\ PathInv /\ ListInv => ListFollowsDisk
  <2> SUFFICES ASSUME TypeOK, QueueInv, PathInv, ListInv, AtRest, ~AboutToClose, ~refused,
                      ~collided
               PROVE  \A i \in Items : path[i] = DiskPath(i) /\ original[i] = disk[i]
    BY DEF ListFollowsDisk
  <2>1. fileOp.pc = "none" /\ fileOp.ops = <<>>
    BY NoOperationAtRest DEF AtRest, QueueInv
  <2>2. Undone /\ ~Abandoned
    BY <2>1 DEF Undone, Alive, Abandoned, AtRest, Calls
  <2>3. DOMAIN <<>> = {}
    BY EmptySeq
  <2>4. \A i \in Items : original[i] = disk[i]
    BY <2>1, <2>2, <2>3 DEF ListInv, Queued
  <2> QED
    BY <2>4, AroundFacts, PathLeads
<1> QED
  BY <1>1, CallsInvariant, ListInvariant, PTL

---------------------------------------------------------------------------
(* What was promised *)

Alone == fileOp.pc # "none" => regEx.pc = "none" /\ Head(ui) = "pump"
ToRename == \A i \in fileOp.todo : promised[i] # NoName =>
                newName[i] = promised[i] /\ ShouldRenameItem(i)
Kept(i) == \/ \E k \in DOMAIN fileOp.ops :
                 fileOp.ops[k].item = i /\ fileOp.ops[k].to = promised[i]
           \/ ~Queued(i) /\ disk[i] = promised[i]
Taken == \A i \in Items \ fileOp.todo : promised[i] # NoName => Kept(i)

LEMMA PromiseParts ==
    PromiseInv <=> (Undone /\ undisturbed =>
        Alone /\ ToRename /\ (fileOp.pc # "none" \/ Calls("completed") => Taken))
  BY DEF PromiseInv, Alone, ToRename, Taken, Kept

LEMMA InitPromise == ASSUME Init PROVE PromiseInv
  BY DEF Init, NoFileOp, PromiseInv, Calls

(* Only the user disturbs a file operation. *)
LEMMA UndisturbedBefore ==
    ASSUME [Next]_vars, undisturbed'
    PROVE  undisturbed \/ CreateFileOpWorkerThread
<1> USE DEF promiseVars, diskVars
<1>1. CASE UNCHANGED vars
  BY <1>1 DEF vars
<1>2. CASE User
  BY <1>2 DEF User, Change, PressRename
<1>3. CASE WindowThread
  BY <1>3 DEF WindowThread, Dispatch, CancelRegExWorker, SignalRegExWorker, RenameCompleted,
              WaitForRegExWorkerThread, CreateRegExWorkerThread, StopPumping
<1>4. CASE RegExWorker
  BY <1>4 DEF RegExWorker, RegExBegins, RegExChecks, RegExThrows, RegExComputes,
              RegExPutsNewName, RegExLeaves
<1>5. CASE FileOpWorker
  BY <1>5 DEF FileOpWorker, FileOpBegins, FileOpChecks, FileOpTakes, FileOpPerforms,
              FileOpRenames, FileOpEnds, FileOpLeaves
<1> QED
  BY <1>1, <1>2, <1>3, <1>4, <1>5 DEF Next

LEMMA NextPromise ==
    ASSUME TypeOK, CallsInv, HandOver, QueueInv, PathInv, DiskInv, FromInv, ListInv,
           PromiseInv, [Next]_vars
    PROVE  PromiseInv'
<1>1. SUFFICES ASSUME Undone', undisturbed'
               PROVE  /\ Alone' /\ ToRename'
                      /\ fileOp'.pc # "none" \/ Calls("completed")' => Taken'
  BY DEF PromiseInv, Alone, ToRename, Taken, Kept
<1>2. CASE CreateFileOpWorkerThread
  <2>1. Calls("createFileOp") /\ ui' = Tail(ui) /\ regEx' = regEx /\ fileOp'.todo = Items
    BY <1>2 DEF CreateFileOpWorkerThread, workerVars
  <2>2. Head(ui') = "pump"
    BY <2>1, Returns DEF Follows
  <2>3. regEx.pc = "none"
    BY <2>1 DEF HandOver, Calls
  <2>4. ToRename'
    BY <1>2 DEF CreateFileOpWorkerThread, ToRename, ShouldRenameItem, listVars
  <2> QED
    BY <2>1, <2>2, <2>3, <2>4 DEF Alone, Taken
<1> SUFFICES ASSUME ~CreateFileOpWorkerThread
             PROVE  /\ Alone' /\ ToRename'
                    /\ fileOp'.pc # "none" \/ Calls("completed")' => Taken'
  BY <1>2
<1>3. /\ Undone /\ undisturbed /\ window' = "open" /\ window = "open"
      /\ ~refused' /\ ~collided'
      /\ Alone /\ ToRename /\ (fileOp.pc # "none" \/ Calls("completed") => Taken)
  BY <1>1, UndisturbedBefore, UndoneBefore, PromiseParts DEF Undone, Alive
<1>4. promised' = promised
  BY WhoChanges
<1>5. ASSUME fileOp.pc = "none", fileOp' = fileOp, ~Calls("completed")'
      PROVE  Alone' /\ ToRename' /\ ~(fileOp'.pc # "none" \/ Calls("completed")')
  BY <1>5 DEF Alone, ToRename, QueueInv
<1>6. CASE Dispatch \/ UNCHANGED vars
  <2>1. UNCHANGED <<listVars, regEx, fileOp, disk, ui, window>>
    BY <1>3, <1>6 DEF Dispatch, vars, workerVars, windowVars, diskVars, Dispatching
  <2> QED
    BY <1>3, <1>4, <2>1
    DEF Alone, ToRename, Taken, Kept, Queued, Calls, ShouldRenameItem, listVars
<1>7. ASSUME NEW c \in Criteria, Change(c) PROVE FALSE
  BY <1>1, <1>7 DEF Change
<1>8. ASSUME NEW close \in BOOLEAN, PressRename(close)
      PROVE  fileOp.pc = "none" /\ fileOp' = fileOp /\ ~Calls("completed")'
  <2>1. ui' = <<>> \/ ui' = RenameCalls
    BY <1>8 DEF PressRename, RenameCalls
  <2>2. ~Calls("completed")'
    BY <2>1, RenameCallsInOrder DEF Calls
  <2> QED
    BY <1>8, <2>2, NoOperationAtRest DEF PressRename
<1>9. ASSUME \/ CancelRegExWorker \/ WaitForRegExWorkerThread \/ CreateRegExWorkerThread
             \/ SignalRegExWorker
      PROVE  fileOp.pc = "none" /\ fileOp' = fileOp /\ ~Calls("completed")'
  <2>1. PICK call \in {"cancel", "wait", "create", "signal"} : Calls(call)
    BY <1>9 DEF CancelRegExWorker, WaitForRegExWorkerThread, CreateRegExWorkerThread,
                SignalRegExWorker
  <2>2. ui' = Tail(ui) /\ fileOp' = fileOp
    BY <1>9, SectionFacts
    DEF CancelRegExWorker, WaitForRegExWorkerThread, CreateRegExWorkerThread,
        SignalRegExWorker
  <2>3. ~Calls("completed")'
    BY <2>1, <2>2, Returns DEF Calls, Follows
  <2> QED
    BY <1>3, <2>1, <2>2, <2>3 DEF Alone, Calls
<1>10. CASE StopPumping
  <2>1. /\ fileOp.pc = "exited" /\ fileOp' = NoFileOp /\ fileOp.todo = {} /\ fileOp.ops = <<>>
        /\ disk' = disk
    BY <1>10 DEF StopPumping, QueueInv, diskVars
  <2>2. DOMAIN <<>> = {}
    BY EmptySeq
  <2> QED
    BY <1>3, <1>4, <2>1, <2>2 DEF Alone, ToRename, Taken, Kept, Queued, NoFileOp
<1>11. ASSUME RenameCompleted
       PROVE  fileOp.pc = "none" /\ fileOp' = fileOp /\ ~Calls("completed")'
  <2>1. Calls("completed") /\ fileOp' = fileOp
    BY <1>11 DEF RenameCompleted
  <2>2. ui' # <<>> => Head(ui') = "cancel"
    BY <1>11, <2>1, Returns, PerformsTwice DEF RenameCompleted
  <2> QED
    BY <1>3, <2>1, <2>2 DEF Alone, Calls
<1>12. CASE RegExWorker
  <2>1. regEx.pc # "none" /\ UNCHANGED <<ui, fileOp, disk>>
    BY <1>12, RegExKeepsCalls
    DEF RegExWorker, RegExBegins, RegExChecks, RegExThrows, RegExComputes,
        RegExPutsNewName, RegExLeaves, diskVars
  <2>2. fileOp.pc = "none" /\ fileOp.todo = {}
    BY <1>3, <2>1 DEF Alone, QueueInv
  <2> QED
    BY <1>3, <1>4, <2>1, <2>2 DEF Alone, ToRename, Taken, Kept, Queued, Calls
<1>13. CASE FileOpWorker
  <2>1. /\ UNCHANGED <<ui, regEx, closing>> /\ fileOp.pc # "none"
        /\ regEx.pc = "none" /\ Head(ui) = "pump" /\ Taken
    BY <1>3, <1>13, FileOpKeepsCalls DEF Alone
  <2>2. Alone'
    BY <2>1 DEF Alone
  <2>3. fileOp.pc \in {"check", "take"} => ~Abandoned
    BY <2>1 DEF Abandoned, Calls
  <2>4. ASSUME fileOp'.todo = fileOp.todo, fileOp'.ops = fileOp.ops, UNCHANGED <<listVars, disk>>
        PROVE  ToRename' /\ Taken'
    BY <1>3, <1>4, <2>1, <2>4
    DEF ToRename, Taken, Kept, Queued, ShouldRenameItem, listVars
  <2>5. ASSUME NEW i \in Items, Following(i), fileOp'.todo = fileOp.todo \ {i},
               fileOp'.ops = fileOp.ops, UNCHANGED <<listVars, disk>>,
               fileOp.pc \in {"check", "take"},
               ~ShouldRenameItem(i) \/ At(path[i]) = {} \/ newName[i] = NoName
        PROVE  ToRename' /\ Taken'
    <3>1. At(path[i]) # {}
      BY <1>3, <2>3, <2>5, TakesWhereItIs DEF At
    <3>2. promised[i] = NoName
      BY <1>3, <2>5, <3>1 DEF ToRename, Following, ShouldRenameItem
    <3> QED
      BY <1>3, <1>4, <2>1, <2>5, <3>2
      DEF ToRename, Taken, Kept, Queued, ShouldRenameItem, listVars
  <2>6. ASSUME NEW i \in Items, Following(i), FileOpQueues(i), UNCHANGED disk,
               closing => UNCHANGED listVars, ~closing => PutRenamed(i, newName[i])
        PROVE  ToRename' /\ Taken'
    <3>1. PICK op \in Operation :
             /\ op.item = i /\ op.to = newName[i] /\ fileOp'.ops = Append(fileOp.ops, op)
             /\ fileOp'.todo = fileOp.todo \ {i} /\ i \in fileOp.todo
      <4>1. newName[i] \in Name /\ path[i] \in Seq(Name)
        BY <2>6, QueuesTyped DEF TypeOK
      <4>2. [item |-> i, from |-> path[i], to |-> newName[i]] \in Operation
        BY <4>1 DEF Operation
      <4> QED
        BY <2>6, <4>2, QueuesTyped DEF Following
    <3>2. \A j \in Items : j # i => newName'[j] = newName[j] /\ original'[j] = original[j]
      BY <2>6 DEF PutRenamed, listVars, TypeOK
    <3>3. ToRename'
      <4>1. fileOp'.todo \subseteq Items /\ \A j \in fileOp'.todo : j \in fileOp.todo /\ j # i
        BY <3>1 DEF TypeOK
      <4> QED
        BY <1>3, <1>4, <3>2, <4>1 DEF ToRename, ShouldRenameItem
    <3>4. ASSUME NEW j \in Items, j \notin fileOp'.todo, promised[j] # NoName
          PROVE  Kept(j)'
      <4>1. CASE j = i
        <5>1. newName[i] = promised[i]
          BY <1>3, <3>1, <3>4, <4>1 DEF ToRename
        <5>2. \E k \in DOMAIN fileOp'.ops : fileOp'.ops[k] = op
          BY <3>1, QueueGrows
        <5> QED
          BY <1>4, <3>1, <4>1, <5>1, <5>2 DEF Kept
      <4>2. CASE j # i
        <5>1. Kept(j)
          BY <2>1, <3>1, <3>4, <4>2 DEF Taken
        <5>2. CASE \E k \in DOMAIN fileOp.ops :
                      fileOp.ops[k].item = j /\ fileOp.ops[k].to = promised[j]
          <6>1. \A k \in DOMAIN fileOp.ops :
                   k \in DOMAIN fileOp'.ops /\ fileOp'.ops[k] = fileOp.ops[k]
            BY <3>1, QueueGrows
          <6> QED
            BY <1>4, <5>2, <6>1 DEF Kept
        <5>3. CASE ~Queued(j) /\ disk[j] = promised[j]
          <6>1. ~QueuedAfter(j)
            BY <3>1, <4>2, <5>3, QueueGrows
          <6> QED
            BY <1>4, <2>6, <5>3, <6>1 DEF Kept, Queued, QueuedAfter
        <5> QED
          BY <5>1, <5>2, <5>3 DEF Kept
      <4> QED
        BY <4>1, <4>2
    <3> QED
      BY <1>4, <3>3, <3>4 DEF Taken
  <2>7. ASSUME FileOpRenames PROVE ToRename' /\ Taken'
    <3>1. /\ fileOp.ops # <<>> /\ fileOp'.ops = Tail(fileOp.ops)
          /\ fileOp.todo = {} /\ fileOp'.todo = {}
      BY <2>7 DEF FileOpRenames, FileOpAt, QueueInv, TypeOK
    <3>2. PICK op \in Operation : op = Head(fileOp.ops)
      BY <3>1, QueueShrinks
    <3>3. disk' = [disk EXCEPT ![op.item] = op.to] /\ disk \in [Items -> Name]
      BY <1>3, <2>7, <3>2, Performed DEF TypeOK
    <3>4. PICK f \in DOMAIN fileOp.ops :
             /\ fileOp.ops[f] = op
             /\ \A k \in DOMAIN fileOp.ops : k = f \/
                   \E l \in DOMAIN fileOp'.ops : fileOp'.ops[l] = fileOp.ops[k]
      BY <3>1, <3>2, QueueShrinks
    <3>5. \A j : QueuedAfter(j) <=> Queued(j) /\ op.item # j
      BY <3>1, <3>2, QueueShrinks
    <3>6. ASSUME NEW j \in Items, promised[j] # NoName PROVE Kept(j)'
      <4>1. Kept(j)
        BY <2>1, <3>1, <3>6 DEF Taken
      <4>2. CASE j = op.item
        <5>1. ~QueuedAfter(j)
          BY <3>5, <4>2
        <5>2. op.to = promised[j]
          <6>1. Queued(j)
            BY <3>4, <4>2 DEF Queued
          <6>2. PICK k \in DOMAIN fileOp.ops :
                   fileOp.ops[k].item = j /\ fileOp.ops[k].to = promised[j]
            BY <4>1, <6>1 DEF Kept
          <6>3. k = f
            BY <3>4, <4>2, <6>2 DEF QueueInv
          <6> QED
            BY <3>4, <6>2, <6>3
        <5>3. disk'[j] = promised[j]
          BY <3>3, <4>2, <5>2
        <5> QED
          BY <1>4, <5>1, <5>3 DEF Kept, Queued, QueuedAfter
      <4>3. CASE j # op.item
        <5>1. CASE \E k \in DOMAIN fileOp.ops :
                      fileOp.ops[k].item = j /\ fileOp.ops[k].to = promised[j]
          <6>1. PICK k \in DOMAIN fileOp.ops :
                   fileOp.ops[k].item = j /\ fileOp.ops[k].to = promised[j]
            BY <5>1
          <6>2. k # f
            BY <3>4, <4>3, <6>1
          <6>3. \E l \in DOMAIN fileOp'.ops : fileOp'.ops[l] = fileOp.ops[k]
            BY <3>4, <6>2
          <6> QED
            BY <1>4, <6>1, <6>3 DEF Kept
        <5>2. CASE ~Queued(j) /\ disk[j] = promised[j]
          <6>1. ~QueuedAfter(j) /\ disk'[j] = promised[j]
            BY <3>3, <3>5, <4>3, <5>2
          <6> QED
            BY <1>4, <6>1 DEF Kept, Queued, QueuedAfter
        <5> QED
          BY <4>1, <5>1, <5>2 DEF Kept
      <4> QED
        BY <4>2, <4>3
    <3> QED
      BY <1>4, <3>1, <3>6 DEF ToRename, Taken
  <2>8. ASSUME FileOpPerforms \/ FileOpEnds PROVE ToRename' /\ Taken'
    <3>1. /\ fileOp'.todo = fileOp.todo /\ fileOp'.ops = fileOp.ops
          /\ UNCHANGED <<listVars, disk>>
      BY <2>8 DEF FileOpPerforms, FileOpEnds, diskVars, TypeOK
    <3> QED
      BY <2>4, <3>1
  <2>9. ToRename' /\ Taken'
    <3>1. window' # "crashed"
      BY <1>3
    <3> QED
      BY <1>13, <2>4, <2>5, <2>6, <2>7, <2>8, <3>1, FileOpCases
  <2> QED
    BY <2>2, <2>9
<1> QED
  BY <1>5, <1>6, <1>7, <1>8, <1>9, <1>10, <1>11, <1>12, <1>13 DEF Next, WindowThread, User

---------------------------------------------------------------------------
(* Where something was promised, nothing collides *)

LEMMA InitClash == ASSUME Init PROVE ClashInv /\ NoClashInv
  BY DEF Init, NoFileOp, ClashInv, NoClashInv

(* Nobody in its folder has the name that the next operation gives.        *)
LEMMA HeadIsFree ==
    ASSUME TypeOK, QueueInv, OnlyPromised, GivenAway, fileOp.ops # <<>>, fileOp.todo = {},
           fileOp'.ops = Tail(fileOp.ops), NEW op \in Operation, op = Head(fileOp.ops)
    PROVE  Free(op.item, op.to)
<1>1. PICK f \in DOMAIN fileOp.ops :
         /\ fileOp.ops[f] = op
         /\ \A k \in DOMAIN fileOp.ops : k = f \/
               \E l \in DOMAIN fileOp'.ops : fileOp'.ops[l] = fileOp.ops[k]
  BY QueueShrinks
<1>2. /\ op.item \in Items /\ op.to \in Name /\ promised[op.item] = op.to /\ op.to # NoName
      /\ Queued(op.item)
  BY <1>1, NamesAssumption DEF Operation, OnlyPromised, Queued
<1>3. ASSUME NEW j \in Items, Siblings(op.item, j), disk[j] = op.to PROVE FALSE
  <2>1. j < op.item /\ Queued(j)
    BY <1>2, <1>3 DEF GivenAway, Pending
  <2>2. op.item # j /\ Depth[op.item] = Depth[j]
    BY <1>2, <1>3, SiblingsFacts
  <2>3. PICK k \in DOMAIN fileOp.ops : fileOp.ops[k].item = j
    BY <2>1 DEF Queued
  <2>4. PICK l \in DOMAIN fileOp'.ops : fileOp'.ops[l] = fileOp.ops[k]
    BY <1>1, <2>2, <2>3
  <2>5. Before(op.item, j)
    BY <2>3, <2>4, QueueShrinks
  <2> QED
    BY <1>2, <2>1, <2>2, <2>5, ItemFacts DEF Before
<1> QED
  BY <1>3 DEF Free

LEMMA NextNoClash ==
    ASSUME TypeOK, QueueInv, DiskInv, FromInv, ClashInv, NoClashInv, [Next]_vars
    PROVE  NoClashInv'
<1>1. SUFFICES ASSUME Alive', undisturbed', Promising' PROVE ~collided'
  BY DEF NoClashInv
<1>2. CASE CreateFileOpWorkerThread
  <2>1. Compatible
    BY <1>1, <1>2 DEF CreateFileOpWorkerThread, Promising
  <2> QED
    BY <1>2, <2>1 DEF CreateFileOpWorkerThread, Compatible, diskVars
<1>3. CASE ~CreateFileOpWorkerThread
  <2>1. Alive /\ undisturbed /\ promised' = promised
    BY <1>1, <1>3, AliveBefore, UndisturbedBefore, WhoChanges
  <2>2. Promising /\ ~collided
    BY <1>1, <2>1 DEF Promising, NoClashInv
  <2>3. CASE FileOpRenames
    <3>1. /\ fileOp.pc = "perform" /\ fileOp.todo = {} /\ fileOp.ops # <<>>
          /\ fileOp'.ops = Tail(fileOp.ops)
      BY <2>3 DEF FileOpRenames, FileOpAt, QueueInv, TypeOK
    <3>2. PICK op \in Operation : op = Head(fileOp.ops)
      BY <3>1, QueueShrinks
    <3>3. Undone /\ OnlyPromised /\ GivenAway
      BY <2>1, <2>2, <3>1 DEF ClashInv, Undone
    <3>4. Free(op.item, op.to)
      BY <3>1, <3>2, <3>3, HeadIsFree
    <3> QED
      BY <1>1, <2>3, <3>2, <3>3, <3>4, Performed DEF Alive
  <2> QED
    BY <2>2, <2>3, WhoChanges
<1> QED
  BY <1>2, <1>3

LEMMA NextClash ==
    ASSUME TypeOK, CallsInv, HandOver, QueueInv, PathInv, DiskInv, FromInv, ListInv,
           PromiseInv, ClashInv, [Next]_vars
    PROVE  ClashInv'
<1>1. SUFFICES ASSUME Undone', undisturbed', Promising', fileOp'.pc # "none"
               PROVE  OnlyPromised' /\ GivenAway'
  BY DEF ClashInv
<1>2. CASE CreateFileOpWorkerThread
  <2>1. /\ Compatible /\ UNCHANGED <<newName, original, disk>>
        /\ \A i \in Items : promised'[i] = IF i \in ItemsToRename THEN newName[i] ELSE NoName
        /\ fileOp' = [pc |-> "begin", todo |-> Items, ops |-> <<>>]
    BY <1>1, <1>2
    DEF CreateFileOpWorkerThread, Promising, ItemsToRename, listVars, diskVars
  <2>2. \A i \in ItemsToRename : i \in Items /\ newName[i] # NoName
    BY DEF ItemsToRename, ShouldRenameItem
  <2>3. OnlyPromised'
    <3>1. DOMAIN <<>> = {}
      BY EmptySeq
    <3> QED
      BY <2>1, <2>2, <3>1 DEF OnlyPromised, ItemsToRename, ShouldRenameItem
  <2>4. ASSUME NEW i \in Items, NEW j \in Items, Siblings(i, j), promised'[i] # NoName
        PROVE  /\ promised'[j] # promised'[i]
               /\ disk'[j] = promised'[i] => j < i /\ promised'[j] # NoName /\ j \in fileOp'.todo
    <3>1. i \in ItemsToRename /\ promised'[i] = newName[i]
      BY <2>1, <2>4
    <3>2. /\ j \in ItemsToRename => newName[j] # newName[i]
          /\ disk[j] = newName[i] => j \in ItemsToRename /\ j < i
      BY <2>1, <2>4, <3>1 DEF Compatible
    <3> QED
      BY <2>1, <2>2, <2>4, <3>1, <3>2
  <2> QED
    BY <2>3, <2>4 DEF GivenAway, Pending
<1> SUFFICES ASSUME ~CreateFileOpWorkerThread PROVE OnlyPromised' /\ GivenAway'
  BY <1>2
<1>3. /\ Undone /\ undisturbed /\ promised' = promised /\ Promising
      /\ window' = "open" /\ ~refused' /\ ~collided'
  BY <1>1, UndoneBefore, UndisturbedBefore, WhoChanges DEF Promising, Undone, Alive
<1>4. FileOpWorker \/ UNCHANGED fileOp
  BY <1>1, WhoChanges DEF StopPumping, NoFileOp
<1>5. fileOp.pc # "none"
  BY <1>1, <1>4, FileOpKeepsCalls
<1>6. OnlyPromised /\ GivenAway /\ Alone /\ ToRename
  BY <1>3, <1>5, PromiseParts DEF ClashInv
<1>7. regEx.pc = "none"
  BY <1>5, <1>6 DEF Alone
<1>8. CASE ~FileOpWorker
  <2>1. UNCHANGED <<newName, original, disk, fileOp>>
    <3>1. ~RegExPutsNewName
      BY <1>7 DEF RegExPutsNewName, RegExAt
    <3> QED
      BY <1>4, <1>8, <3>1, WhoChanges DEF listVars, FileOpWorker
  <2> QED
    BY <1>3, <1>6, <2>1
    DEF OnlyPromised, GivenAway, Pending, Queued, ShouldRenameItem, Following
<1>9. CASE FileOpWorker
  <2>1. CASE /\ fileOp'.todo = fileOp.todo /\ fileOp'.ops = fileOp.ops
             /\ fileOp'.pc = "take" => \E i \in Items : Following(i) /\ ShouldRenameItem(i)
             /\ UNCHANGED <<listVars, disk>>
    <3>1. ASSUME fileOp'.pc = "take", NEW i \in Items, Following(i)' PROVE promised'[i] # NoName
      <4>1. PICK j \in Items : Following(j) /\ ShouldRenameItem(j)
        BY <2>1, <3>1
      <4>2. i \in fileOp.todo /\ Following(i)
        BY <2>1, <3>1 DEF Following
      <4>3. i = j
        BY <4>1, <4>2, FollowingFirst
      <4> QED
        BY <1>3, <1>6, <4>1, <4>2, <4>3 DEF OnlyPromised
    <3> QED
      BY <1>3, <1>6, <2>1, <3>1
      DEF OnlyPromised, GivenAway, Pending, Queued, ShouldRenameItem, listVars
  <2>2. ASSUME NEW i \in Items, Following(i), fileOp'.todo = fileOp.todo \ {i},
               fileOp'.pc = "check", fileOp.pc \in {"check", "take"},
               fileOp'.ops = fileOp.ops, UNCHANGED <<listVars, disk>>,
               ~ShouldRenameItem(i) \/ At(path[i]) = {} \/ newName[i] = NoName
        PROVE  OnlyPromised' /\ GivenAway'
    <3>1. At(path[i]) # {}
      <4>1. ~Abandoned
        BY <2>2, NoOperationLeft DEF Abandoned
      <4> QED
        BY <1>3, <2>2, <4>1, TakesWhereItIs DEF At
    <3>2. promised[i] = NoName
      BY <1>6, <2>2, <3>1 DEF ToRename, Following, ShouldRenameItem
    <3>3. OnlyPromised'
      BY <1>3, <1>6, <2>2 DEF OnlyPromised, ShouldRenameItem, listVars
    <3>4. \A j \in Items : /\ Pending(j)' => Pending(j)
                           /\ Pending(j) /\ promised[j] # NoName => Pending(j)'
      BY <2>2, <3>2 DEF Pending, Queued
    <3> QED
      BY <1>3, <1>6, <2>2, <3>3, <3>4 DEF GivenAway
  <2>3. ASSUME NEW i \in Items, Following(i), FileOpQueues(i), FileOpTakes, UNCHANGED disk,
               closing => UNCHANGED listVars, ~closing => PutRenamed(i, newName[i])
        PROVE  OnlyPromised' /\ GivenAway'
    <3>1. PICK op \in Operation :
             /\ op.item = i /\ op.to = newName[i] /\ fileOp'.ops = Append(fileOp.ops, op)
             /\ fileOp'.todo = fileOp.todo \ {i} /\ i \in fileOp.todo /\ fileOp'.pc = "check"
      <4>1. newName[i] \in Name /\ path[i] \in Seq(Name)
        BY <2>3, QueuesTyped DEF TypeOK
      <4>2. [item |-> i, from |-> path[i], to |-> newName[i]] \in Operation
        BY <4>1 DEF Operation
      <4> QED
        BY <2>3, <4>2, QueuesTyped DEF Following
    <3>2. promised[i] # NoName /\ newName[i] = promised[i]
      <4>1. fileOp.pc = "take"
        BY <2>3 DEF FileOpTakes, FileOpAt
      <4>2. promised[i] # NoName
        BY <1>6, <2>3, <4>1 DEF OnlyPromised
      <4> QED
        BY <1>6, <3>1, <4>2 DEF ToRename
    <3>3. \A j \in Items : j # i => newName'[j] = newName[j] /\ original'[j] = original[j]
      BY <2>3 DEF PutRenamed, listVars, TypeOK
    <3>4. \A j : QueuedAfter(j) <=> Queued(j) \/ i = j
      BY <3>1, QueueGrows
    <3>5. OnlyPromised'
      <4>1. \A j \in fileOp'.todo : ShouldRenameItem(j)' => promised'[j] # NoName
        <5>1. \A j \in fileOp'.todo : j \in Items /\ j \in fileOp.todo /\ j # i
          BY <3>1 DEF TypeOK
        <5> QED
          BY <1>3, <1>6, <3>3, <5>1 DEF OnlyPromised, ShouldRenameItem
      <4>2. \A k \in DOMAIN fileOp'.ops :
               (k \in DOMAIN fileOp.ops /\ fileOp'.ops[k] = fileOp.ops[k]) \/ fileOp'.ops[k] = op
        BY <3>1, QueueGrows
      <4>3. \A k \in DOMAIN fileOp'.ops : promised'[fileOp'.ops[k].item] = fileOp'.ops[k].to
        BY <1>3, <1>6, <3>1, <3>2, <4>2 DEF OnlyPromised
      <4> QED
        BY <3>1, <4>1, <4>3 DEF OnlyPromised
    <3>6. \A j \in Items : Pending(j)' <=> Pending(j)
      BY <3>1, <3>4 DEF Pending, Queued, QueuedAfter
    <3> QED
      BY <1>3, <1>6, <2>3, <3>5, <3>6 DEF GivenAway
  <2>4. CASE FileOpRenames
    <3>1. /\ fileOp.ops # <<>> /\ fileOp'.ops = Tail(fileOp.ops) /\ fileOp'.pc = "perform"
          /\ fileOp.todo = {} /\ fileOp'.todo = {}
      BY <2>4 DEF FileOpRenames, FileOpAt, QueueInv, TypeOK
    <3>2. PICK op \in Operation : op = Head(fileOp.ops)
      BY <3>1, QueueShrinks
    <3>3. disk' = [disk EXCEPT ![op.item] = op.to] /\ op.item \in Items /\ op.to \in Name
      BY <1>3, <2>4, <3>2, Performed DEF Operation
    <3>4. promised[op.item] = op.to
      <4>1. \E f \in DOMAIN fileOp.ops : fileOp.ops[f] = op
        BY <3>1, <3>2, QueueShrinks
      <4> QED
        BY <1>6, <4>1 DEF OnlyPromised
    <3>5. \A j \in Items : /\ Pending(j) => Queued(j)
                           /\ Pending(j)' <=> Queued(j) /\ op.item # j
      <4>1. \A j : QueuedAfter(j) <=> Queued(j) /\ op.item # j
        BY <3>1, <3>2, QueueShrinks
      <4> QED
        BY <3>1, <4>1 DEF Pending, Queued, QueuedAfter
    <3>6. OnlyPromised'
      <4>1. \A k \in DOMAIN fileOp'.ops : \E l \in DOMAIN fileOp.ops :
               fileOp'.ops[k] = fileOp.ops[l]
        BY <3>1, QueueShrinks
      <4> QED
        BY <1>3, <1>6, <3>1, <4>1 DEF OnlyPromised
    <3>7. ASSUME NEW i \in Items, NEW j \in Items, Siblings(i, j), promised[i] # NoName
          PROVE  /\ promised[j] # promised[i]
                 /\ Pending(i)' /\ disk'[j] = promised[i] =>
                       j < i /\ promised[j] # NoName /\ Pending(j)'
      <4>1. promised[j] # promised[i]
        BY <1>6, <3>7 DEF GivenAway
      <4>2. ASSUME Pending(i)', disk'[j] = promised[i]
            PROVE  j < i /\ promised[j] # NoName /\ Pending(j)'
        <5>1. j # op.item
          BY <3>3, <3>4, <4>1, <4>2 DEF TypeOK
        <5>2. disk[j] = promised[i] /\ Pending(i)
          BY <3>3, <3>5, <4>2, <5>1 DEF Pending, TypeOK
        <5>3. j < i /\ promised[j] # NoName /\ Pending(j)
          BY <1>6, <3>7, <5>2 DEF GivenAway
        <5> QED
          BY <3>5, <5>1, <5>3
      <4> QED
        BY <4>1, <4>2
    <3> QED
      BY <1>3, <3>6, <3>7 DEF GivenAway
  <2>5. CASE FileOpPerforms \/ FileOpEnds
    BY <2>1, <2>5 DEF FileOpPerforms, FileOpEnds, diskVars, TypeOK
  <2> QED
    BY <1>3, <1>9, <2>1, <2>2, <2>3, <2>4, <2>5, FileOpCases
<1> QED
  BY <1>8, <1>9

LEMMA PromiseInvariant == Spec => [](PromiseInv /\ ClashInv /\ NoClashInv)
<1>1. Init => PromiseInv /\ ClashInv /\ NoClashInv
  BY InitPromise, InitClash
<1>2. TypeOK /\ CallsInv /\ HandOver /\ QueueInv /\ PathInv /\ DiskInv /\ FromInv /\ ListInv
         /\ PromiseInv /\ ClashInv /\ NoClashInv /\ [Next]_vars
         => (PromiseInv /\ ClashInv /\ NoClashInv)'
  BY NextPromise, NextClash, NextNoClash
<1> QED
  BY <1>1, <1>2, CallsInvariant, ListInvariant, PTL DEF Spec

(* A rename, for any tree: unless the user types while it goes on or the   *)
(* system refuses something, every item gets the name it was shown with if *)
(* all can be given theirs in the order of the list.                       *)
THEOREM RenamesAreAsPromised == Spec => []RenamesAsPromised
<1>1. QueueInv /\ PromiseInv /\ NoClashInv => RenamesAsPromised
  <2> SUFFICES ASSUME QueueInv, PromiseInv, NoClashInv, Calls("completed"), ~AboutToClose,
                      undisturbed, ~refused, NEW i \in Items, promised[i] # NoName
               PROVE  disk[i] = promised[i]
    BY DEF RenamesAsPromised
  <2>1. Undone
    BY DEF Undone, Alive, Calls, NoClashInv, Promising
  <2>2. Alone /\ Taken
    BY <2>1, PromiseParts
  <2>3. fileOp.pc = "none"
    BY <2>2 DEF Alone, Calls
  <2>4. fileOp.todo = {} /\ fileOp.ops = <<>>
    BY <2>3 DEF QueueInv
  <2>5. DOMAIN <<>> = {}
    BY EmptySeq
  <2> QED
    BY <2>2, <2>4, <2>5 DEF Taken, Kept
<1> QED
  BY <1>1, ListInvariant, PromiseInvariant, PTL
=============================================================================
