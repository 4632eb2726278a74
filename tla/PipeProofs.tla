----------------------------- MODULE PipeProofs -----------------------------
(***************************************************************************)
(* The two ends of a TwoWayPipeMessageIPC implement MessageChannel, for any*)
(* messages, whatever fails and whichever end is ended or exits.           *)
(***************************************************************************)
EXTENDS TwoWayPipe, SequenceTheorems, TLAPS

---------------------------------------------------------------------------
(* The inductive invariant *)

(* Only what was sent is on its way, and the steps of a thread have what   *)
(* they need.                                                              *)
TextsOnly(e) ==
    /\ Queued(output_queue[e]) \subseteq Text
    /\ output_pc[e] \in {"open", "write"} => outgoing[e] \in Text
    /\ input_pc[e] = "dispatch" => incoming[e] \in Message
    /\ \A i \in instance[e] : i.written => i.for \in Text
    /\ \A h \in handlers[e] : h.pipe.written => h.pipe.for \in Text

(* end() has joined the input thread before it returns, and no end starts  *)
(* again.                                                                  *)
EndInv(e) ==
    /\ end_pc[e] \in {"join_output", "join_server", "done"} => input_pc[e] \in {"done", "off"}
    /\ alive[e] /\ output_pc[e] = "off" => end_pc[e] = "none"

(* Where message m to end r may be, from the program to the callback.      *)
Unsent(r, m) == m \in unsent[r]
OutQueued(r, m) == m \in Queued(output_queue[Peer(r)])
Opening(r, m) == outgoing[Peer(r)] = m /\ output_pc[Peer(r)] = "open"
Writing(r, m) == outgoing[Peer(r)] = m /\ output_pc[Peer(r)] # "open"
Waiting(r, m) == \E i \in instance[r] : i.for = m
WaitingWritten(r, m) == \E i \in instance[r] : i.for = m /\ i.written
Handled(r, m) == \E h \in handlers[r] : h.pipe.for = m /\ h.pc = "read"
HandledWritten(r, m) == \E h \in handlers[r] : h.pipe.for = m /\ h.pc = "read" /\ h.pipe.written
HasRead(r, m) == \E h \in handlers[r] : h.pipe.for = m /\ h.pc = "close"
InQueued(r, m) == m \in Queued(input_queue[r])
Coming(r, m) == incoming[r] = m
Arrived(r, m) == InQueued(r, m) \/ Coming(r, m)

(* It is at one of them, save that a connection outlasts the message, and  *)
(* is there before it.                                                     *)
AtOnePlace(r, m) ==
    /\ Unsent(r, m) => ~OutQueued(r, m) /\ ~Opening(r, m) /\ ~Writing(r, m)
    /\ OutQueued(r, m) => ~Opening(r, m) /\ ~Writing(r, m)
    /\ Unsent(r, m) \/ OutQueued(r, m) \/ Opening(r, m)
          => ~Waiting(r, m) /\ ~Handled(r, m) /\ ~HasRead(r, m) /\ ~Arrived(r, m)
    /\ Writing(r, m) => ~WaitingWritten(r, m) /\ ~HandledWritten(r, m) /\ ~Arrived(r, m)
    /\ Waiting(r, m) => ~Handled(r, m) /\ ~HasRead(r, m) /\ ~Arrived(r, m)
    /\ Handled(r, m) => ~HasRead(r, m) /\ ~Arrived(r, m)
    /\ InQueued(r, m) => ~Coming(r, m)

(* and there once.                                                         *)
NoRepeat(q) == \A k, l \in DOMAIN q.message_queue :
    q.message_queue[k] = q.message_queue[l] /\ q.message_queue[k] \in Text => k = l
Single(e) ==
    /\ NoRepeat(output_queue[e]) /\ NoRepeat(input_queue[e])
    /\ \A i, j \in instance[e] : i = j
    /\ \A h, g \in handlers[e] : h.pipe.for = g.pipe.for /\ h.pipe.for \in Text => h = g

TypeInv == TypeOK /\ \A e \in End : TextsOnly(e)
PipeInv ==
    /\ TypeInv
    /\ \A e \in End : /\ EndInv(e) /\ Single(e)
                      /\ \A m \in Text : AtOnePlace(e, m)

(* It is on its way. *)
Travelling(r, m) ==
    \/ OutQueued(r, m) \/ Opening(r, m) \/ Writing(r, m) \/ WaitingWritten(r, m)
    \/ HandledWritten(r, m) \/ Arrived(r, m)

(* A step that brings it nowhere. *)
NothingNew(r, m) ==
    /\ Unsent(r, m)' => Unsent(r, m)
    /\ OutQueued(r, m)' => OutQueued(r, m)
    /\ Opening(r, m)' => Opening(r, m)
    /\ Writing(r, m)' => Writing(r, m)
    /\ Waiting(r, m)' => Waiting(r, m)
    /\ WaitingWritten(r, m)' => WaitingWritten(r, m)
    /\ Handled(r, m)' => Handled(r, m)
    /\ HandledWritten(r, m)' => HandledWritten(r, m)
    /\ HasRead(r, m)' => HasRead(r, m)
    /\ InQueued(r, m)' => InQueued(r, m)
    /\ Coming(r, m)' => Coming(r, m)

(* It is still in one place, and on its way only if it was. *)
Kept(r, m) == AtOnePlace(r, m)' /\ (Travelling(r, m)' => Travelling(r, m))
---------------------------------------------------------------------------
(* The queue *)

LEMMA PeerFacts ==
    ASSUME NEW e \in End
    PROVE  /\ Peer(e) \in End /\ Peer(e) # e /\ Peer(Peer(e)) = e
           /\ \A x \in End : x = e \/ x = Peer(e)
  BY EndsAssumption DEF End, Peer

LEMMA MessageFacts ==
    /\ Text \subseteq Message /\ Blank \in Message /\ Blank \notin Text
    /\ NoMessage \notin Message /\ NoMessage \notin Text
  BY MessageAssumption DEF Text

LEMMA EmptyFacts ==
    EmptyQueue \in AsyncQueue /\ Queued(EmptyQueue) = {} /\ NoRepeat(EmptyQueue)
<1>1. <<>> \in Seq(Message) /\ DOMAIN <<>> = {}
  BY EmptySeq
<1> QED
  BY <1>1 DEF EmptyQueue, AsyncQueue, Queued, NoRepeat

LEMMA PushFacts ==
    ASSUME NEW q \in AsyncQueue, NEW m \in Message
    PROVE  /\ queue_message(q, m) \in AsyncQueue
           /\ Queued(queue_message(q, m)) = Queued(q) \cup {m}
           /\ NoRepeat(q) /\ (m \in Text => m \notin Queued(q)) => NoRepeat(queue_message(q, m))
<1> DEFINE s == q.message_queue
           t == queue_message(q, m).message_queue
<1>1. s \in Seq(Message) /\ t = Append(s, m) /\ queue_message(q, m) \in AsyncQueue
  <2>1. s \in Seq(Message)
    BY DEF AsyncQueue
  <2>2. Append(s, m) \in Seq(Message)
    BY <2>1, AppendProperties
  <2> QED
    BY <2>1, <2>2 DEF queue_message, AsyncQueue
<1>2. PICK n \in Nat : n = Len(s) /\ DOMAIN s = 1 .. n
  BY <1>1, LenProperties
<1>3. DOMAIN t = 1 .. n + 1 /\ t[n + 1] = m /\ \A k \in 1 .. n : t[k] = s[k]
  <2>1. /\ t \in Seq(Message) /\ Len(t) = Len(s) + 1 /\ t[Len(s) + 1] = m
        /\ \A k \in 1 .. Len(s) : t[k] = s[k]
    BY <1>1, AppendProperties
  <2> QED
    BY <1>2, <2>1, LenProperties
<1> HIDE DEF s, t
<1>4. /\ n + 1 \in DOMAIN t /\ \A k \in DOMAIN s : k \in DOMAIN t /\ t[k] = s[k]
      /\ \A k \in DOMAIN t : k \in DOMAIN s \/ k = n + 1
  BY <1>2, <1>3
<1>5. {t[k] : k \in DOMAIN t} = {s[k] : k \in DOMAIN s} \cup {m}
  BY <1>3, <1>4
<1>6. ASSUME \A k, l \in DOMAIN s : s[k] = s[l] /\ s[k] \in Text => k = l,
             m \in Text => m \notin {s[k] : k \in DOMAIN s},
             NEW k \in DOMAIN t, NEW l \in DOMAIN t, t[k] = t[l], t[k] \in Text
      PROVE  k = l
  BY <1>3, <1>4, <1>6
<1> QED
  BY <1>1, <1>5, <1>6 DEF Queued, NoRepeat, s, t

LEMMA PopFacts ==
    ASSUME NEW q \in AsyncQueue, PopReady(q)
    PROVE  /\ Pop(q) \in AsyncQueue /\ Front(q) \in Message
           /\ Queued(q) = Queued(Pop(q)) \cup {Front(q)}
           /\ NoRepeat(q) => NoRepeat(Pop(q))
           /\ NoRepeat(q) /\ Front(q) \in Text => Front(q) \notin Queued(Pop(q))
<1> DEFINE s == q.message_queue
           t == Pop(q).message_queue
<1>1. /\ s \in Seq(Message) /\ s # <<>> /\ t = Tail(s) /\ Front(q) = Head(s)
      /\ Pop(q) \in AsyncQueue
  <2>1. s \in Seq(Message) /\ s # <<>>
    BY DEF AsyncQueue, PopReady
  <2>2. Tail(s) \in Seq(Message)
    BY <2>1, HeadTailProperties
  <2> QED
    BY <2>1, <2>2 DEF Pop, Front, AsyncQueue
<1>2. PICK n \in Nat : n = Len(s) /\ DOMAIN s = 1 .. n
  BY <1>1, LenProperties
<1>3. /\ DOMAIN t = 1 .. n - 1 /\ n >= 1
      /\ \A k \in 1 .. n - 1 : t[k] = s[k + 1]
      /\ Front(q) = s[1] /\ s[1] \in Message
  <2>1. /\ Tail(s) \in Seq(Message) /\ Len(Tail(s)) = Len(s) - 1
        /\ \A k \in 1 .. Len(Tail(s)) : Tail(s)[k] = s[k + 1]
        /\ Head(s) \in Message /\ Head(s) = s[1]
    BY <1>1, HeadTailProperties
  <2>2. n >= 1
    BY <1>1, <1>2, EmptySeq
  <2> QED
    BY <1>1, <1>2, <2>1, <2>2, LenProperties
<1> HIDE DEF s, t
<1>4. 1 \in DOMAIN s /\ \A k \in DOMAIN t : k + 1 \in DOMAIN s /\ k + 1 # 1 /\ t[k] = s[k + 1]
  BY <1>2, <1>3
<1>5. \A k \in DOMAIN s : k = 1 \/ (k - 1 \in DOMAIN t /\ t[k - 1] = s[k])
  <2>1. \A k \in 1 .. n : k = 1 \/ (k - 1 \in 1 .. n - 1 /\ (k - 1) + 1 = k)
    OBVIOUS
  <2> QED
    BY <1>2, <1>3, <2>1
<1>6. {s[k] : k \in DOMAIN s} = {t[k] : k \in DOMAIN t} \cup {Front(q)}
  BY <1>3, <1>4, <1>5
<1>7. ASSUME \A k, l \in DOMAIN s : s[k] = s[l] /\ s[k] \in Text => k = l
      PROVE  /\ \A k, l \in DOMAIN t : t[k] = t[l] /\ t[k] \in Text => k = l
             /\ s[1] \in Text => s[1] \notin {t[k] : k \in DOMAIN t}
  <2>1. ASSUME NEW k \in DOMAIN t, NEW l \in DOMAIN t, t[k] = t[l], t[k] \in Text PROVE k = l
    <3>1. k + 1 = l + 1
      BY <1>4, <1>7, <2>1
    <3> QED
      BY <1>3, <3>1
  <2>2. ASSUME NEW k \in DOMAIN t, s[1] = t[k], s[1] \in Text PROVE FALSE
    BY <1>4, <1>7, <2>2
  <2> QED
    BY <2>1, <2>2
<1> QED
  BY <1>1, <1>3, <1>6, <1>7 DEF Queued, NoRepeat, s, t

LEMMA SleepFacts ==
    ASSUME NEW q \in AsyncQueue
    PROVE  /\ Sleep(q) \in AsyncQueue /\ interrupt(q) \in AsyncQueue
           /\ Queued(Sleep(q)) = Queued(q) /\ Queued(interrupt(q)) = Queued(q)
           /\ NoRepeat(Sleep(q)) <=> NoRepeat(q)
           /\ NoRepeat(interrupt(q)) <=> NoRepeat(q)
<1>1. /\ Sleep(q).message_queue = q.message_queue /\ interrupt(q).message_queue = q.message_queue
      /\ Sleep(q) \in AsyncQueue /\ interrupt(q) \in AsyncQueue
  BY DEF Sleep, interrupt, AsyncQueue
<1> QED
  BY <1>1 DEF Queued, NoRepeat
LEMMA HandlerFacts ==
    ASSUME NEW h \in Handler
    PROVE  /\ h.pipe \in Instance /\ h.pipe.for \in Text \cup {NoMessage}
           /\ h.pc \in {"read", "close"} /\ h = [pipe |-> h.pipe, pc |-> h.pc]
  BY DEF Handler, Instance

LEMMA NewPipeFacts ==
    ASSUME NEW h \in Handler, NEW i \in Instance
    PROVE  /\ [h EXCEPT !.pipe = i] \in Handler
           /\ [h EXCEPT !.pipe = i].pipe = i /\ [h EXCEPT !.pipe = i].pc = h.pc
<1>1. [h EXCEPT !.pipe = i] = [pipe |-> i, pc |-> h.pc]
  BY HandlerFacts
<1> QED
  BY <1>1, HandlerFacts DEF Handler

LEMMA HasReadFacts ==
    ASSUME NEW h \in Handler
    PROVE  /\ [h EXCEPT !.pc = "close"] \in Handler
           /\ [h EXCEPT !.pc = "close"].pipe = h.pipe /\ [h EXCEPT !.pc = "close"].pc = "close"
<1>1. [h EXCEPT !.pc = "close"] = [pipe |-> h.pipe, pc |-> "close"]
  BY HandlerFacts
<1> QED
  BY <1>1, HandlerFacts DEF Handler
---------------------------------------------------------------------------
(* Types *)

LEMMA InitTyped == ASSUME Init PROVE TypeInv
<1>1. <<>> \in Seq(Text)
  BY EmptySeq
<1>2. TypeOK
  BY <1>1, EmptyFacts DEF Init, TypeOK
<1>3. ASSUME NEW e \in End PROVE TextsOnly(e)
  BY EmptyFacts DEF Init, TextsOnly
<1> QED
  BY <1>2, <1>3 DEF TypeInv

LEMMA SenderTyped ==
    ASSUME TypeInv, NEW e \in End, OutputThread(e)
    PROVE  TypeInv'
<1> USE DEF senderVars, receiverVars, serverVars, endVars
<1>0. /\ TypeOK /\ (\A x \in End : TextsOnly(x))
      /\ Peer(e) \in End /\ Peer(e) # e
  BY PeerFacts DEF TypeInv
<1>1. CASE OutputLoop(e)
  BY <1>0, <1>1 DEF OutputLoop, TypeInv, TypeOK, TextsOnly
<1>2. CASE OutputPop(e)
  <2>1. CASE PopReady(output_queue[e])
    <3>1. /\ output_queue' = [output_queue EXCEPT ![e] = Pop(output_queue[e])]
          /\ outgoing' = [outgoing EXCEPT ![e] = Front(output_queue[e])]
          /\ output_pc' = [output_pc EXCEPT ![e] = "open"]
      BY <1>2, <2>1 DEF OutputPop, PopReady, PopWaits, PopEmpty
    <3>2. /\ Pop(output_queue[e]) \in AsyncQueue
          /\ Queued(Pop(output_queue[e])) \subseteq Text /\ Front(output_queue[e]) \in Text
      BY <1>0, <2>1, PopFacts DEF TypeOK, TextsOnly
    <3>3. UNCHANGED <<alive, unsent, receiverVars, serverVars, endVars>>
      BY <1>2 DEF OutputPop
    <3> QED
      BY <1>0, <3>1, <3>2, <3>3 DEF TypeInv, TypeOK, TextsOnly
  <2>2. CASE PopWaits(output_queue[e])
    <3>1. /\ output_queue' = [output_queue EXCEPT ![e] = Sleep(output_queue[e])]
          /\ UNCHANGED <<outgoing, output_pc>>
      BY <1>2, <2>2 DEF OutputPop, PopReady, PopWaits, PopEmpty
    <3>2. /\ Sleep(output_queue[e]) \in AsyncQueue
          /\ Queued(Sleep(output_queue[e])) \subseteq Text
      BY <1>0, SleepFacts DEF TypeOK, TextsOnly
    <3>3. UNCHANGED <<alive, unsent, receiverVars, serverVars, endVars>>
      BY <1>2 DEF OutputPop
    <3> QED
      BY <1>0, <3>1, <3>2, <3>3 DEF TypeInv, TypeOK, TextsOnly
  <2>3. CASE PopEmpty(output_queue[e])
    <3>1. /\ output_pc' = [output_pc EXCEPT ![e] = "done"]
          /\ UNCHANGED <<outgoing, output_queue>>
      BY <1>2, <2>3 DEF OutputPop, PopReady, PopWaits, PopEmpty
    <3>3. UNCHANGED <<alive, unsent, receiverVars, serverVars, endVars>>
      BY <1>2 DEF OutputPop
    <3> QED
      BY <1>0, <3>1, <3>3 DEF TypeInv, TypeOK, TextsOnly
  <2> QED
    BY <1>2, <2>1, <2>2, <2>3 DEF OutputPop
<1>3. CASE OpenPipe(e)
  <2>1. [for |-> outgoing[e], client |-> "open", written |-> FALSE] \in Instance
    BY <1>0, <1>3 DEF OpenPipe, TextsOnly, Instance
  <2> QED
    BY <1>0, <1>3, <2>1 DEF OpenPipe, TypeInv, TypeOK, TextsOnly
<1>4. CASE OpenFails(e) \/ WriteFails(e)
  BY <1>0, <1>4 DEF OpenFails, WriteFails, TypeInv, TypeOK, TextsOnly
<1>5. CASE WritePipe(e)
  <2> DEFINE done == [for |-> outgoing[e], client |-> "closed", written |-> TRUE]
  <2>1. outgoing[e] \in Text
    BY <1>0, <1>5 DEF WritePipe, TextsOnly
  <2>2. done \in Instance /\ done.for = outgoing[e]
    BY <2>1 DEF Instance
  <2> HIDE DEF done
  <2>3. /\ instance' = [instance EXCEPT ![Peer(e)] =
              {IF Connected(i, outgoing[e]) THEN done ELSE i : i \in instance[Peer(e)]}]
        /\ handlers' = [handlers EXCEPT ![Peer(e)] =
              {IF Connected(h.pipe, outgoing[e]) THEN [h EXCEPT !.pipe = done] ELSE h
                   : h \in handlers[Peer(e)]}]
    BY <1>5 DEF WritePipe, ClientDone, done
  <2>4. \A i \in instance'[Peer(e)] : i = done \/ i \in instance[Peer(e)]
    BY <1>0, <2>3 DEF TypeOK
  <2>5. \A h \in handlers'[Peer(e)] :
           \/ h \in handlers[Peer(e)]
           \/ \E g \in handlers[Peer(e)] : h = [g EXCEPT !.pipe = done]
    BY <1>0, <2>3 DEF TypeOK
  <2>6. ASSUME NEW h \in handlers'[Peer(e)]
        PROVE  h \in Handler /\ (h.pipe = done \/ h \in handlers[Peer(e)])
    <3>1. handlers[Peer(e)] \subseteq Handler
      BY <1>0 DEF TypeOK
    <3>2. ASSUME NEW g \in handlers[Peer(e)]
          PROVE  [g EXCEPT !.pipe = done] \in Handler /\ [g EXCEPT !.pipe = done].pipe = done
      BY <2>2, <3>1, NewPipeFacts
    <3>3. CASE h \in handlers[Peer(e)]
      BY <3>1, <3>3
    <3>4. ASSUME NEW g \in handlers[Peer(e)], h = [g EXCEPT !.pipe = done]
          PROVE  h \in Handler /\ h.pipe = done
      BY <3>2, <3>4, Zenon
    <3> QED
      BY <2>5, <3>3, <3>4, Zenon
  <2>7. instance' \in [End -> SUBSET Instance] /\ handlers' \in [End -> SUBSET Handler]
    BY <1>0, <2>2, <2>3, <2>4, <2>6 DEF TypeOK
  <2>8. /\ output_pc' = [output_pc EXCEPT ![e] = "loop"]
        /\ outgoing' = [outgoing EXCEPT ![e] = NoMessage]
        /\ UNCHANGED <<alive, unsent, output_queue, receiverVars, server_pc, endVars>>
    BY <1>5 DEF WritePipe
  <2>9. TypeOK'
    BY <1>0, <2>7, <2>8 DEF TypeOK
  <2>10. ASSUME NEW x \in End PROVE TextsOnly(x)'
    <3>1. /\ \A i \in instance'[x] : i = done \/ i \in instance[x]
          /\ \A h \in handlers'[x] : h.pipe = done \/ h \in handlers[x]
      BY <1>0, <2>3, <2>4, <2>6 DEF TypeOK
    <3>2. /\ \A i \in instance'[x] : i.written => i.for \in Text
          /\ \A h \in handlers'[x] : h.pipe.written => h.pipe.for \in Text
      BY <1>0, <2>1, <2>2, <3>1 DEF TextsOnly
    <3> QED
      BY <1>0, <2>8, <3>2 DEF TextsOnly, TypeOK
  <2> QED
    BY <2>9, <2>10 DEF TypeInv
<1> QED
  BY <1>1, <1>2, <1>3, <1>4, <1>5 DEF OutputThread

LEMMA ServerTyped ==
    ASSUME TypeInv, NEW e \in End, Server(e) \/ \E h \in handlers[e] : HandlerClose(e, h)
    PROVE  TypeInv'
<1> USE DEF senderVars, receiverVars, serverVars, endVars
<1>0. TypeOK /\ (\A x \in End : TextsOnly(x))
  BY DEF TypeInv
<1>1. CASE ServerLoop(e) \/ ServerCreateFails(e) \/ ServerFailed(e)
  BY <1>0, <1>1 DEF ServerLoop, ServerCreateFails, ServerFailed, TypeInv, TypeOK, TextsOnly
<1>2. CASE ServerCreate(e)
  <2>1. Listening \in Instance /\ ~Listening.written
    BY DEF Listening, Instance
  <2> QED
    BY <1>0, <1>2, <2>1 DEF ServerCreate, TypeInv, TypeOK, TextsOnly
<1>3. CASE ServerConnect(e)
  <2>1. PICK p \in {"wait", "connected", "failed"} :
           server_pc' = [server_pc EXCEPT ![e] = p]
    BY <1>3 DEF ServerConnect
  <2> QED
    BY <1>0, <1>3, <2>1 DEF ServerConnect, TypeInv, TypeOK, TextsOnly
<1>4. CASE ServerServe(e)
  <2>1. \A i \in instance[e] : [pipe |-> i, pc |-> "read"] \in Handler
    BY <1>0 DEF Handler, TypeOK
  <2>2. handlers' \in [End -> SUBSET Handler]
    BY <1>0, <1>4, <2>1 DEF ServerServe, TypeOK
  <2>3. TypeOK'
    BY <1>0, <1>4, <2>2 DEF ServerServe, TypeOK
  <2>4. ASSUME NEW x \in End PROVE TextsOnly(x)'
    BY <1>0, <1>4 DEF ServerServe, TypeOK, TextsOnly
  <2> QED
    BY <2>3, <2>4 DEF TypeInv
<1>5. ASSUME NEW h \in handlers[e], HandlerClose(e, h) PROVE TypeInv'
  BY <1>0, <1>5 DEF HandlerClose, TypeInv, TypeOK, TextsOnly
<1> QED
  BY <1>1, <1>2, <1>3, <1>4, <1>5 DEF Server

LEMMA ReceiverTyped ==
    ASSUME TypeInv, NEW e \in End, InputThread(e) \/ \E h \in handlers[e] : HandlerRead(e, h)
    PROVE  TypeInv'
<1> USE DEF senderVars, receiverVars, serverVars, endVars
<1>0. TypeOK /\ (\A x \in End : TextsOnly(x))
  BY DEF TypeInv
<1>1. CASE InputLoop(e)
  BY <1>0, <1>1 DEF InputLoop, TypeInv, TypeOK, TextsOnly
<1>2. CASE InputPop(e)
  <2>0. UNCHANGED <<alive, unsent, senderVars, delivered, serverVars, endVars>>
    BY <1>2 DEF InputPop
  <2>1. CASE PopReady(input_queue[e])
    <3>1. /\ input_queue' = [input_queue EXCEPT ![e] = Pop(input_queue[e])]
          /\ incoming' = [incoming EXCEPT ![e] = Front(input_queue[e])]
          /\ input_pc' = [input_pc EXCEPT ![e] = "dispatch"]
      BY <1>2, <2>1 DEF InputPop, PopReady, PopWaits, PopEmpty
    <3>2. Pop(input_queue[e]) \in AsyncQueue /\ Front(input_queue[e]) \in Message
      BY <1>0, <2>1, PopFacts DEF TypeOK
    <3> QED
      BY <1>0, <2>0, <3>1, <3>2 DEF TypeInv, TypeOK, TextsOnly
  <2>2. CASE PopWaits(input_queue[e])
    <3>1. /\ input_queue' = [input_queue EXCEPT ![e] = Sleep(input_queue[e])]
          /\ UNCHANGED <<incoming, input_pc>>
      BY <1>2, <2>2 DEF InputPop, PopReady, PopWaits, PopEmpty
    <3>2. Sleep(input_queue[e]) \in AsyncQueue
      BY <1>0, SleepFacts DEF TypeOK
    <3> QED
      BY <1>0, <2>0, <3>1, <3>2 DEF TypeInv, TypeOK, TextsOnly
  <2>3. CASE PopEmpty(input_queue[e])
    <3>1. /\ input_pc' = [input_pc EXCEPT ![e] = "done"]
          /\ UNCHANGED <<incoming, input_queue>>
      BY <1>2, <2>3 DEF InputPop, PopReady, PopWaits, PopEmpty
    <3> QED
      BY <1>0, <2>0, <3>1 DEF TypeInv, TypeOK, TextsOnly
  <2> QED
    BY <1>2, <2>1, <2>2, <2>3 DEF InputPop
<1>3. CASE Dispatch(e)
  <2>1. incoming[e] \in Message /\ delivered[e] \in Seq(Text)
    BY <1>0, <1>3 DEF Dispatch, TypeOK, TextsOnly
  <2>2. incoming[e] # Blank => Append(delivered[e], incoming[e]) \in Seq(Text)
    BY <2>1, AppendProperties DEF Text
  <2>3. (IF incoming[e] = Blank THEN delivered[e] ELSE Append(delivered[e], incoming[e]))
           \in Seq(Text)
    BY <2>1, <2>2
  <2>4. delivered' \in [End -> Seq(Text)]
    BY <1>0, <1>3, <2>3 DEF Dispatch, TypeOK
  <2> QED
    BY <1>0, <1>3, <2>4 DEF Dispatch, TypeInv, TypeOK, TextsOnly
<1>4. ASSUME NEW h \in handlers[e], HandlerRead(e, h) PROVE TypeInv'
  <2> DEFINE m == IF h.pipe.written THEN h.pipe.for ELSE Blank
             g == [h EXCEPT !.pc = "close"]
  <2>1. m \in Message
    BY <1>0, MessageFacts DEF TextsOnly
  <2>2. queue_message(input_queue[e], m) \in AsyncQueue
    BY <1>0, <2>1, PushFacts DEF TypeOK
  <2>3. g \in Handler /\ g.pipe = h.pipe
    <3>1. h \in Handler
      BY <1>0 DEF TypeOK
    <3> QED
      BY <3>1, HasReadFacts
  <2>4. /\ input_queue' = [input_queue EXCEPT ![e] = queue_message(input_queue[e], m)]
        /\ handlers' = [handlers EXCEPT ![e] = (handlers[e] \ {h}) \cup {g}]
        /\ UNCHANGED <<alive, unsent, senderVars, input_pc, incoming, delivered,
                       server_pc, instance, endVars>>
    BY <1>4 DEF HandlerRead
  <2> HIDE DEF m, g
  <2>5. handlers' \in [End -> SUBSET Handler] /\ input_queue' \in [End -> AsyncQueue]
    BY <1>0, <2>2, <2>3, <2>4 DEF TypeOK
  <2>6. TypeOK'
    BY <1>0, <2>4, <2>5 DEF TypeOK
  <2>7. ASSUME NEW x \in End PROVE TextsOnly(x)'
    BY <1>0, <2>3, <2>4 DEF TextsOnly, TypeOK
  <2> QED
    BY <2>6, <2>7 DEF TypeInv
<1> QED
  BY <1>1, <1>2, <1>3, <1>4 DEF InputThread
(* The pipes of an end that goes on have their clients' handles closed. *)
HandleClosed(i) == IF i.client = "open" THEN [i EXCEPT !.client = "closed"] ELSE i
Abandoned(h) == [h EXCEPT !.pipe = HandleClosed(h.pipe)]

LEMMA AbandonedFacts ==
    /\ \A i \in Instance : /\ HandleClosed(i) \in Instance
                           /\ HandleClosed(i).for = i.for /\ HandleClosed(i).written = i.written
    /\ \A h \in Handler : /\ Abandoned(h) \in Handler /\ Abandoned(h).pc = h.pc
                          /\ Abandoned(h).pipe.for = h.pipe.for
                          /\ Abandoned(h).pipe.written = h.pipe.written
<1>1. ASSUME NEW i \in Instance
      PROVE  /\ HandleClosed(i) \in Instance
             /\ HandleClosed(i).for = i.for /\ HandleClosed(i).written = i.written
  <2>1. i = [for |-> i.for, client |-> i.client, written |-> i.written]
    BY DEF Instance
  <2>2. [i EXCEPT !.client = "closed"] = [for |-> i.for, client |-> "closed", written |-> i.written]
    BY <2>1
  <2> QED
    BY <2>2 DEF Instance, HandleClosed
<1>2. ASSUME NEW h \in Handler
      PROVE  /\ Abandoned(h) \in Handler /\ Abandoned(h).pc = h.pc
             /\ Abandoned(h).pipe.for = h.pipe.for
             /\ Abandoned(h).pipe.written = h.pipe.written
  <2>1. h.pipe \in Instance
    BY HandlerFacts
  <2>2. HandleClosed(h.pipe) \in Instance
    BY <1>1, <2>1
  <2>3. /\ Abandoned(h) \in Handler /\ Abandoned(h).pc = h.pc
        /\ Abandoned(h).pipe = HandleClosed(h.pipe)
    BY <2>2, NewPipeFacts DEF Abandoned
  <2> QED
    BY <1>1, <2>1, <2>3
<1> QED
  BY <1>1, <1>2

LEMMA ExitFacts ==
    ASSUME TypeOK, NEW e \in End, Exit(e)
    PROVE  /\ instance'[e] = {} /\ handlers'[e] = {}
           /\ instance'[Peer(e)] = {HandleClosed(i) : i \in instance[Peer(e)]}
           /\ handlers'[Peer(e)] = {Abandoned(h) : h \in handlers[Peer(e)]}
           /\ instance' \in [End -> SUBSET Instance] /\ handlers' \in [End -> SUBSET Handler]
<1>0. Peer(e) \in End /\ Peer(e) # e /\ \A x \in End : x = e \/ x = Peer(e)
  BY PeerFacts
<1>1. /\ instance' = [x \in End |-> IF x = e THEN {} ELSE {HandleClosed(i) : i \in instance[x]}]
      /\ handlers' = [x \in End |-> IF x = e THEN {} ELSE {Abandoned(h) : h \in handlers[x]}]
  BY DEF Exit, HandleClosed, Abandoned
<1>2. /\ instance'[e] = {} /\ handlers'[e] = {}
      /\ instance'[Peer(e)] = {HandleClosed(i) : i \in instance[Peer(e)]}
      /\ handlers'[Peer(e)] = {Abandoned(h) : h \in handlers[Peer(e)]}
  BY <1>0, <1>1
<1>3. instance[Peer(e)] \subseteq Instance /\ handlers[Peer(e)] \subseteq Handler
  BY <1>0 DEF TypeOK
<1>4. {HandleClosed(i) : i \in instance[Peer(e)]} \subseteq Instance
  BY <1>3, AbandonedFacts
<1>5. {Abandoned(h) : h \in handlers[Peer(e)]} \subseteq Handler
  BY <1>3, AbandonedFacts
<1>6. ASSUME NEW x \in End PROVE instance'[x] \subseteq Instance /\ handlers'[x] \subseteq Handler
  BY <1>0, <1>2, <1>4, <1>5
<1>7. instance' \in [End -> SUBSET Instance] /\ handlers' \in [End -> SUBSET Handler]
  BY <1>1, <1>6
<1> QED
  BY <1>2, <1>7

LEMMA ProgramTyped ==
    ASSUME TypeInv, NEW e \in End,
           Start(e) \/ (\E m \in Text : Send(e, m)) \/ EndCall(e) \/ EndSteps(e) \/ Exit(e)
    PROVE  TypeInv'
<1> USE DEF senderVars, receiverVars, serverVars, endVars
<1>0. /\ TypeOK /\ (\A x \in End : TextsOnly(x))
      /\ Peer(e) \in End /\ Peer(e) # e /\ \A x \in End : x = e \/ x = Peer(e)
  BY PeerFacts DEF TypeInv
<1>1. CASE Start(e) \/ EndCall(e)
  <2>1. CASE Start(e)
    BY <1>0, <2>1, SMTT(30) DEF Start, TypeInv, TypeOK, TextsOnly
  <2>2. CASE EndCall(e)
    BY <1>0, <2>2 DEF EndCall, TypeInv, TypeOK, TextsOnly
  <2> QED
    BY <1>1, <2>1, <2>2
<1>2. ASSUME NEW m \in Text, Send(e, m) PROVE TypeInv'
  <2>1. /\ queue_message(output_queue[e], m) \in AsyncQueue
        /\ Queued(queue_message(output_queue[e], m)) \subseteq Text
    BY <1>0, PushFacts, MessageFacts DEF TypeOK, TextsOnly
  <2>2. /\ output_queue' = [output_queue EXCEPT ![e] = queue_message(output_queue[e], m)]
        /\ unsent' = [unsent EXCEPT ![Peer(e)] = unsent[Peer(e)] \ {m}]
        /\ UNCHANGED <<alive, output_pc, outgoing, receiverVars, serverVars, endVars>>
    BY <1>2 DEF Send
  <2> QED
    BY <1>0, <2>1, <2>2 DEF TypeInv, TypeOK, TextsOnly
<1>3. CASE EndInterruptInput(e)
  <2>1. interrupt(input_queue[e]) \in AsyncQueue
    BY <1>0, SleepFacts DEF TypeOK
  <2> QED
    BY <1>0, <1>3, <2>1 DEF EndInterruptInput, TypeInv, TypeOK, TextsOnly
<1>4. CASE EndJoinInput(e)
  <2>1. /\ interrupt(output_queue[e]) \in AsyncQueue
        /\ Queued(interrupt(output_queue[e])) \subseteq Text
    BY <1>0, SleepFacts DEF TypeOK, TextsOnly
  <2> QED
    BY <1>0, <1>4, <2>1 DEF EndJoinInput, TypeInv, TypeOK, TextsOnly
<1>5. CASE EndJoinOutput(e) \/ EndJoinServer(e)
  BY <1>0, <1>5 DEF EndJoinOutput, EndJoinServer, TypeInv, TypeOK, TextsOnly
<1>6. CASE Exit(e)
  <2>1. /\ alive' = [alive EXCEPT ![e] = FALSE]
        /\ output_queue' = [output_queue EXCEPT ![e] = EmptyQueue]
        /\ input_queue' = [input_queue EXCEPT ![e] = EmptyQueue]
        /\ output_pc' = [output_pc EXCEPT ![e] = "off"]
        /\ input_pc' = [input_pc EXCEPT ![e] = "off"]
        /\ server_pc' = [server_pc EXCEPT ![e] = "off"]
        /\ outgoing' = [outgoing EXCEPT ![e] = NoMessage]
        /\ incoming' = [incoming EXCEPT ![e] = NoMessage]
        /\ end_pc' = [end_pc EXCEPT ![e] = IF @ = "done" THEN @ ELSE "dead"]
        /\ UNCHANGED <<unsent, delivered, closed>>
    BY <1>6 DEF Exit
  <2>2. /\ instance'[e] = {} /\ handlers'[e] = {}
        /\ instance'[Peer(e)] = {HandleClosed(i) : i \in instance[Peer(e)]}
        /\ handlers'[Peer(e)] = {Abandoned(h) : h \in handlers[Peer(e)]}
        /\ instance' \in [End -> SUBSET Instance] /\ handlers' \in [End -> SUBSET Handler]
    BY <1>0, <1>6, ExitFacts
  <2>3. TypeOK'
    BY <1>0, <2>1, <2>2, EmptyFacts DEF TypeOK
  <2>4. \A i \in instance'[Peer(e)] : i.written => i.for \in Text
    <3>1. ASSUME NEW i \in instance[Peer(e)]
          PROVE  HandleClosed(i).written => HandleClosed(i).for \in Text
      <4>1. i \in Instance /\ (i.written => i.for \in Text)
        BY <1>0 DEF TypeOK, TextsOnly
      <4> QED
        BY <4>1, AbandonedFacts
    <3> QED
      BY <2>2, <3>1
  <2>5. \A h \in handlers'[Peer(e)] : h.pipe.written => h.pipe.for \in Text
    <3>1. ASSUME NEW h \in handlers[Peer(e)]
          PROVE  Abandoned(h).pipe.written => Abandoned(h).pipe.for \in Text
      <4>1. h \in Handler /\ (h.pipe.written => h.pipe.for \in Text)
        BY <1>0 DEF TypeOK, TextsOnly
      <4> QED
        BY <4>1, AbandonedFacts
    <3> QED
      BY <2>2, <3>1
  <2>6. TextsOnly(e)'
    BY <1>0, <2>1, <2>2, EmptyFacts DEF TextsOnly, TypeOK
  <2>7. TextsOnly(Peer(e))'
    BY <1>0, <2>1, <2>4, <2>5 DEF TextsOnly, TypeOK
  <2> QED
    BY <1>0, <2>3, <2>6, <2>7 DEF TypeInv
<1> QED
  BY <1>1, <1>2, <1>3, <1>4, <1>5, <1>6 DEF EndSteps

LEMMA NextTyped == ASSUME TypeInv, [Next]_vars PROVE TypeInv'
<1>1. ASSUME NEW e \in End, OutputThread(e) PROVE TypeInv'
  BY <1>1, SenderTyped
<1>2. ASSUME NEW e \in End, Server(e) \/ \E h \in handlers[e] : HandlerClose(e, h) PROVE TypeInv'
  BY <1>2, ServerTyped
<1>3. ASSUME NEW e \in End, InputThread(e) \/ \E h \in handlers[e] : HandlerRead(e, h) PROVE TypeInv'
  BY <1>3, ReceiverTyped
<1>4. ASSUME NEW e \in End,
             Start(e) \/ (\E m \in Text : Send(e, m)) \/ EndCall(e) \/ EndSteps(e) \/ Exit(e)
      PROVE  TypeInv'
  BY <1>4, ProgramTyped
<1>5. CASE UNCHANGED vars
  BY <1>5 DEF vars, senderVars, receiverVars, serverVars, endVars, TypeInv, TypeOK, TextsOnly
<1> QED
  BY <1>1, <1>2, <1>3, <1>4, <1>5 DEF Next

LEMMA TypesHold == Spec => []TypeInv
  BY InitTyped, NextTyped, PTL DEF Spec

(* Both ends' variables hold values of their types: a connection is for    *)
(* one message, whatever end() or an exit cut short.                       *)
THEOREM PipeTyped == Spec => []TypeOK
<1>1. TypeInv => TypeOK
  BY DEF TypeInv
<1> QED
  BY <1>1, TypesHold, PTL
---------------------------------------------------------------------------
(* end() *)

LEMMA EndKept ==
    ASSUME TypeInv, \A e \in End : EndInv(e), [Next]_vars
    PROVE  \A e \in End : EndInv(e)'
<1> USE DEF senderVars, receiverVars, serverVars, endVars
<1>0. TypeOK
  BY DEF TypeInv
<1>1. ASSUME NEW e \in End, OutputThread(e) PROVE \A x \in End : EndInv(x)'
  BY <1>0, <1>1 DEF OutputThread, OutputLoop, OutputPop, OpenPipe, OpenFails, WritePipe, WriteFails,
                    TypeOK, EndInv
<1>2. ASSUME NEW e \in End, Server(e) PROVE \A x \in End : EndInv(x)'
  BY <1>0, <1>2 DEF Server, ServerLoop, ServerCreate, ServerCreateFails, ServerConnect, ServerServe,
                    ServerFailed, TypeOK, EndInv
<1>3. ASSUME NEW e \in End, InputThread(e) PROVE \A x \in End : EndInv(x)'
  <2>1. /\ input_pc[e] \in {"loop", "pop", "dispatch"}
        /\ UNCHANGED <<alive, output_pc, end_pc>>
        /\ \/ input_pc' = input_pc
           \/ \E p \in {"done", "pop", "dispatch", "loop"} : input_pc' = [input_pc EXCEPT ![e] = p]
    BY <1>3 DEF InputThread, InputLoop, InputPop, Dispatch
  <2> QED
    BY <1>0, <2>1 DEF TypeOK, EndInv
<1>4. ASSUME NEW e \in End, NEW h \in handlers[e], HandlerRead(e, h) \/ HandlerClose(e, h)
      PROVE  \A x \in End : EndInv(x)'
  BY <1>0, <1>4 DEF HandlerRead, HandlerClose, TypeOK, EndInv
<1>5. ASSUME NEW e \in End, Start(e) \/ (\E m \in Text : Send(e, m)) \/ EndCall(e)
      PROVE  \A x \in End : EndInv(x)'
  BY <1>0, <1>5 DEF Start, Send, EndCall, TypeOK, EndInv
<1>6. ASSUME NEW e \in End, EndSteps(e) PROVE \A x \in End : EndInv(x)'
  BY <1>0, <1>6 DEF EndSteps, EndInterruptInput, EndJoinInput, EndJoinOutput, EndJoinServer,
                    TypeOK, EndInv
<1>7. ASSUME NEW e \in End, Exit(e) PROVE \A x \in End : EndInv(x)'
  BY <1>0, <1>7 DEF Exit, TypeOK, EndInv
<1>8. CASE UNCHANGED vars
  BY <1>8 DEF vars, EndInv
<1> QED
  BY <1>1, <1>2, <1>3, <1>4, <1>5, <1>6, <1>7, <1>8 DEF Next
---------------------------------------------------------------------------
(* Where a message is: the steps that move none *)

LEMMA NothingNewKeeps ==
    ASSUME NEW r, NEW m, AtOnePlace(r, m), NothingNew(r, m)
    PROVE  Kept(r, m)
BY DEF NothingNew, Kept, AtOnePlace, Travelling, Arrived

LEMMA OutputQuiet ==
    ASSUME TypeInv, NEW e \in End,
           \/ OutputLoop(e) \/ OpenFails(e) \/ WriteFails(e)
           \/ OutputPop(e) /\ ~PopReady(output_queue[e]),
           NEW r \in End, NEW m \in Text
    PROVE  NothingNew(r, m)
<1> USE DEF senderVars, receiverVars, serverVars, endVars, Unsent, OutQueued, Opening, Writing,
            Waiting, WaitingWritten, Handled, HandledWritten, HasRead, InQueued, Coming
<1>0. /\ TypeOK /\ m # NoMessage /\ Queued(Sleep(output_queue[e])) = Queued(output_queue[e])
      /\ Peer(r) \in End
  BY SleepFacts, MessageFacts, PeerFacts DEF TypeInv, TypeOK
<1>1. CASE OutputLoop(e)
  <2>1. /\ output_pc[e] = "loop"
        /\ output_pc' = [output_pc EXCEPT ![e] = IF closed[e] THEN "done" ELSE "pop"]
        /\ UNCHANGED <<alive, unsent, output_queue, outgoing, receiverVars, serverVars, endVars>>
    BY <1>1 DEF OutputLoop
  <2>2. Opening(r, m)' => Opening(r, m)
    BY <1>0, <2>1 DEF TypeOK
  <2>3. Writing(r, m)' => Writing(r, m)
    BY <1>0, <2>1 DEF TypeOK
  <2> QED
    BY <2>1, <2>2, <2>3 DEF NothingNew
<1>2. CASE OpenFails(e) \/ WriteFails(e)
  BY <1>0, <1>2 DEF OpenFails, WriteFails, TypeOK, NothingNew
<1>3. CASE OutputPop(e) /\ ~PopReady(output_queue[e])
  <2>1. /\ output_pc[e] = "pop" /\ outgoing' = outgoing
        /\ \/ output_queue' = [output_queue EXCEPT ![e] = Sleep(output_queue[e])] /\ output_pc' = output_pc
           \/ output_queue' = output_queue /\ output_pc' = [output_pc EXCEPT ![e] = "done"]
        /\ UNCHANGED <<alive, unsent, receiverVars, serverVars, endVars>>
    BY <1>3 DEF OutputPop
  <2>2. Queued(output_queue[Peer(r)])' = Queued(output_queue[Peer(r)])
    BY <1>0, <2>1 DEF TypeOK
  <2> QED
    BY <1>0, <2>1, <2>2 DEF TypeOK, NothingNew
<1> QED
  BY <1>1, <1>2, <1>3

LEMMA ServerQuiet ==
    ASSUME TypeInv, NEW e \in End,
           \/ ServerLoop(e) \/ ServerCreate(e) \/ ServerCreateFails(e) \/ ServerConnect(e)
           \/ ServerFailed(e) \/ (\E h \in handlers[e] : HandlerClose(e, h)),
           NEW r \in End, NEW m \in Text
    PROVE  NothingNew(r, m)
<1> USE DEF senderVars, receiverVars, serverVars, endVars, Unsent, OutQueued, Opening, Writing,
            Waiting, WaitingWritten, Handled, HandledWritten, HasRead, InQueued, Coming
<1>0. TypeOK /\ m # NoMessage /\ Listening.for = NoMessage
  BY MessageFacts DEF TypeInv, Listening
<1>1. CASE ServerLoop(e) \/ ServerCreateFails(e) \/ ServerConnect(e)
  BY <1>0, <1>1 DEF ServerLoop, ServerCreateFails, ServerConnect, TypeOK, NothingNew
<1>2. CASE ServerCreate(e) \/ ServerFailed(e)
  <2>1. /\ \A i \in instance'[r] : i \in instance[r] \/ i.for = NoMessage
        /\ UNCHANGED <<unsent, output_queue, output_pc, outgoing, input_queue, incoming, handlers>>
    <3>1. PICK S \in {{}, {Listening}} : instance' = [instance EXCEPT ![e] = S]
      BY <1>2 DEF ServerCreate, ServerFailed
    <3>2. \A i \in S : i.for = NoMessage
      BY <1>0
    <3>3. \A i \in instance'[r] : i \in instance[r] \/ i.for = NoMessage
      BY <1>0, <3>1, <3>2 DEF TypeOK
    <3> QED
      BY <1>2, <3>3 DEF ServerCreate, ServerFailed
  <2>2. Waiting(r, m)' => Waiting(r, m)
    BY <1>0, <2>1
  <2>3. WaitingWritten(r, m)' => WaitingWritten(r, m)
    BY <1>0, <2>1
  <2> QED
    BY <2>1, <2>2, <2>3 DEF NothingNew
<1>3. ASSUME NEW h \in handlers[e], HandlerClose(e, h) PROVE NothingNew(r, m)
  BY <1>0, <1>3 DEF HandlerClose, TypeOK, NothingNew
<1> QED
  BY <1>1, <1>2, <1>3

LEMMA InputQuiet ==
    ASSUME TypeInv, NEW e \in End,
           InputLoop(e) \/ Dispatch(e) \/ (InputPop(e) /\ ~PopReady(input_queue[e])),
           NEW r \in End, NEW m \in Text
    PROVE  NothingNew(r, m)
<1> USE DEF senderVars, receiverVars, serverVars, endVars, Unsent, OutQueued, Opening, Writing,
            Waiting, WaitingWritten, Handled, HandledWritten, HasRead, InQueued, Coming
<1>0. /\ TypeOK /\ m # NoMessage /\ Queued(Sleep(input_queue[e])) = Queued(input_queue[e])
  BY SleepFacts, MessageFacts DEF TypeInv, TypeOK
<1>1. CASE InputLoop(e) \/ Dispatch(e)
  BY <1>0, <1>1 DEF InputLoop, Dispatch, TypeOK, NothingNew
<1>2. CASE InputPop(e) /\ ~PopReady(input_queue[e])
  <2>1. /\ incoming' = incoming
        /\ \/ input_queue' = [input_queue EXCEPT ![e] = Sleep(input_queue[e])]
           \/ input_queue' = input_queue
        /\ UNCHANGED <<alive, unsent, senderVars, delivered, serverVars, endVars>>
    BY <1>2 DEF InputPop
  <2>2. Queued(input_queue[r])' = Queued(input_queue[r])
    BY <1>0, <2>1 DEF TypeOK
  <2> QED
    BY <1>0, <2>1, <2>2 DEF TypeOK, NothingNew
<1> QED
  BY <1>1, <1>2

LEMMA ProgramQuiet ==
    ASSUME TypeInv, NEW e \in End,
           Start(e) \/ EndCall(e) \/ EndSteps(e) \/ Exit(e),
           NEW r \in End, NEW m \in Text
    PROVE  NothingNew(r, m)
<1> USE DEF senderVars, receiverVars, serverVars, endVars, Unsent, OutQueued, Opening, Writing,
            Waiting, WaitingWritten, Handled, HandledWritten, HasRead, InQueued, Coming
<1>0. /\ TypeOK /\ m # NoMessage
      /\ Queued(interrupt(input_queue[e])) = Queued(input_queue[e])
      /\ Queued(interrupt(output_queue[e])) = Queued(output_queue[e])
      /\ Peer(e) \in End /\ Peer(e) # e /\ Peer(Peer(e)) = e
      /\ \A x \in End : x = e \/ x = Peer(e)
  BY SleepFacts, MessageFacts, PeerFacts DEF TypeInv, TypeOK
<1>1. CASE Start(e) \/ EndCall(e)
  <2>1. /\ output_pc' = output_pc \/ (output_pc[e] = "off" /\ output_pc' = [output_pc EXCEPT ![e] = "loop"])
        /\ UNCHANGED <<unsent, output_queue, outgoing, input_queue, incoming, instance, handlers>>
    BY <1>1 DEF Start, EndCall
  <2>2. Opening(r, m)' => Opening(r, m)
    BY <1>0, <2>1 DEF TypeOK
  <2>3. Writing(r, m)' => Writing(r, m)
    BY <1>0, <2>1 DEF TypeOK
  <2> QED
    BY <2>1, <2>2, <2>3 DEF NothingNew
<1>2. CASE EndInterruptInput(e)
  <2>1. Queued(input_queue[r])' = Queued(input_queue[r])
    BY <1>0, <1>2 DEF EndInterruptInput, TypeOK
  <2> QED
    BY <1>2, <2>1 DEF EndInterruptInput, NothingNew
<1>3. CASE EndJoinInput(e)
  <2>1. Queued(output_queue[Peer(r)])' = Queued(output_queue[Peer(r)])
    BY <1>0, <1>3 DEF EndJoinInput, TypeOK
  <2> QED
    BY <1>3, <2>1 DEF EndJoinInput, NothingNew
<1>4. CASE EndJoinOutput(e) \/ EndJoinServer(e)
  BY <1>4 DEF EndJoinOutput, EndJoinServer, NothingNew
<1>5. CASE Exit(e)
  <2>1. /\ output_queue' = [output_queue EXCEPT ![e] = EmptyQueue]
        /\ input_queue' = [input_queue EXCEPT ![e] = EmptyQueue]
        /\ output_pc' = [output_pc EXCEPT ![e] = "off"]
        /\ outgoing' = [outgoing EXCEPT ![e] = NoMessage]
        /\ incoming' = [incoming EXCEPT ![e] = NoMessage]
        /\ unsent' = unsent
    BY <1>5 DEF Exit
  <2>2. /\ instance'[e] = {} /\ handlers'[e] = {}
        /\ instance'[Peer(e)] = {HandleClosed(i) : i \in instance[Peer(e)]}
        /\ handlers'[Peer(e)] = {Abandoned(h) : h \in handlers[Peer(e)]}
    BY <1>0, <1>5, ExitFacts
  <2>3. ASSUME NEW i \in instance[Peer(e)]
        PROVE  HandleClosed(i).for = i.for /\ HandleClosed(i).written = i.written
    BY <1>0, AbandonedFacts DEF TypeOK
  <2>4. ASSUME NEW h \in handlers[Peer(e)]
        PROVE  /\ Abandoned(h).pc = h.pc /\ Abandoned(h).pipe.for = h.pipe.for
               /\ Abandoned(h).pipe.written = h.pipe.written
    BY <1>0, AbandonedFacts DEF TypeOK
  <2>5. CASE r = e
    BY <1>0, <2>1, <2>2, <2>5, EmptyFacts DEF TypeOK, NothingNew
  <2>6. CASE r = Peer(e)
    <3>1. /\ Unsent(r, m)' => Unsent(r, m)
          /\ ~OutQueued(r, m)' /\ ~Opening(r, m)' /\ ~Writing(r, m)'
          /\ InQueued(r, m)' => InQueued(r, m)
          /\ Coming(r, m)' => Coming(r, m)
      BY <1>0, <2>1, <2>6, EmptyFacts DEF TypeOK
    <3>2. /\ Waiting(r, m)' => Waiting(r, m)
          /\ WaitingWritten(r, m)' => WaitingWritten(r, m)
      BY <2>2, <2>3, <2>6
    <3>3. /\ Handled(r, m)' => Handled(r, m)
          /\ HandledWritten(r, m)' => HandledWritten(r, m)
          /\ HasRead(r, m)' => HasRead(r, m)
      BY <2>2, <2>4, <2>6
    <3> QED
      BY <3>1, <3>2, <3>3 DEF NothingNew
  <2> QED
    BY <1>0, <2>5, <2>6
<1> QED
  BY <1>1, <1>2, <1>3, <1>4, <1>5 DEF EndSteps
---------------------------------------------------------------------------
(* Where a message is: the steps that move one *)

LEMMA SendMoves ==
    ASSUME PipeInv, NEW e \in End, NEW m \in Text, Send(e, m),
           NEW r \in End, NEW x \in Text
    PROVE  /\ AtOnePlace(r, x)'
           /\ Travelling(r, x)' <=> Travelling(r, x) \/ (r = Peer(e) /\ x = m)
<1> USE DEF receiverVars, serverVars, endVars
<1>0. /\ TypeOK /\ AtOnePlace(r, x)
      /\ Peer(e) \in End /\ Peer(r) \in End /\ Peer(Peer(e)) = e /\ Peer(Peer(r)) = r
      /\ Queued(queue_message(output_queue[e], m)) = Queued(output_queue[e]) \cup {m}
  BY PeerFacts, MessageFacts, PushFacts DEF PipeInv, TypeInv, TypeOK
<1>1. /\ m \in unsent[Peer(e)]
      /\ unsent' = [unsent EXCEPT ![Peer(e)] = unsent[Peer(e)] \ {m}]
      /\ output_queue' = [output_queue EXCEPT ![e] = queue_message(output_queue[e], m)]
      /\ UNCHANGED <<output_pc, outgoing, input_queue, incoming, instance, handlers>>
  BY DEF Send
<1>2. /\ Opening(r, x)' = Opening(r, x) /\ Writing(r, x)' = Writing(r, x)
      /\ Waiting(r, x)' = Waiting(r, x) /\ WaitingWritten(r, x)' = WaitingWritten(r, x)
      /\ Handled(r, x)' = Handled(r, x) /\ HandledWritten(r, x)' = HandledWritten(r, x)
      /\ HasRead(r, x)' = HasRead(r, x)
      /\ InQueued(r, x)' = InQueued(r, x) /\ Coming(r, x)' = Coming(r, x)
  BY <1>1 DEF Opening, Writing, Waiting, WaitingWritten, Handled, HandledWritten, HasRead,
              InQueued, Coming
<1>3. CASE r = Peer(e) /\ x = m
  <2>1. Unsent(r, x) /\ ~Unsent(r, x)' /\ OutQueued(r, x)'
    BY <1>0, <1>1, <1>3 DEF Unsent, OutQueued, TypeOK
  <2> QED
    BY <1>0, <1>2, <1>3, <2>1 DEF AtOnePlace, Travelling, Arrived
<1>4. CASE ~(r = Peer(e) /\ x = m)
  <2>1. Unsent(r, x)' <=> Unsent(r, x)
    BY <1>0, <1>1, <1>4 DEF Unsent, TypeOK
  <2>2. OutQueued(r, x)' <=> OutQueued(r, x)
    BY <1>0, <1>1, <1>4 DEF OutQueued, TypeOK
  <2> QED
    BY <1>0, <1>2, <1>4, <2>1, <2>2 DEF AtOnePlace, Travelling, Arrived
<1> QED
  BY <1>3, <1>4

LEMMA OutputPopMoves ==
    ASSUME PipeInv, NEW e \in End, OutputPop(e), PopReady(output_queue[e]),
           NEW r \in End, NEW m \in Text
    PROVE  Kept(r, m)
<1> USE DEF receiverVars, serverVars, endVars
<1>0. /\ TypeOK /\ AtOnePlace(r, m) /\ NoRepeat(output_queue[e]) /\ TextsOnly(e)
      /\ Peer(e) \in End /\ Peer(r) \in End /\ Peer(Peer(e)) = e /\ Peer(Peer(r)) = r
  BY PeerFacts DEF PipeInv, TypeInv, Single
<1> DEFINE q == output_queue[e]
<1>1. /\ output_pc[e] = "pop"
      /\ output_queue' = [output_queue EXCEPT ![e] = Pop(q)]
      /\ outgoing' = [outgoing EXCEPT ![e] = Front(q)]
      /\ output_pc' = [output_pc EXCEPT ![e] = "open"]
      /\ UNCHANGED <<unsent, input_queue, incoming, instance, handlers>>
  BY DEF OutputPop, PopReady, PopWaits, PopEmpty
<1>2. /\ Queued(q) = Queued(Pop(q)) \cup {Front(q)}
      /\ Front(q) \in Text => Front(q) \notin Queued(Pop(q))
  BY <1>0, PopFacts DEF TypeOK
<1> HIDE DEF q
<1>3. /\ Unsent(r, m)' = Unsent(r, m)
      /\ Waiting(r, m)' = Waiting(r, m) /\ WaitingWritten(r, m)' = WaitingWritten(r, m)
      /\ Handled(r, m)' = Handled(r, m) /\ HandledWritten(r, m)' = HandledWritten(r, m)
      /\ HasRead(r, m)' = HasRead(r, m)
      /\ InQueued(r, m)' = InQueued(r, m) /\ Coming(r, m)' = Coming(r, m)
  BY <1>1 DEF Unsent, Waiting, WaitingWritten, Handled, HandledWritten, HasRead, InQueued, Coming
<1>4. CASE r = Peer(e) /\ m = Front(q)
  <2>1. OutQueued(r, m) /\ ~OutQueued(r, m)' /\ Opening(r, m)' /\ ~Writing(r, m)'
    BY <1>0, <1>1, <1>2, <1>4 DEF OutQueued, Opening, Writing, TypeOK, q
  <2> QED
    BY <1>0, <1>3, <2>1 DEF AtOnePlace, Travelling, Arrived, Kept
<1>5. CASE r = Peer(e) /\ m # Front(q)
  <2>1. OutQueued(r, m)' <=> OutQueued(r, m)
    BY <1>0, <1>1, <1>2, <1>5 DEF OutQueued, TypeOK, q
  <2>2. ~Opening(r, m)' /\ ~Writing(r, m)'
    BY <1>0, <1>1, <1>5 DEF Opening, Writing, TypeOK
  <2> QED
    BY <1>0, <1>3, <2>1, <2>2 DEF AtOnePlace, Travelling, Arrived, Kept
<1>6. CASE r # Peer(e)
  <2>1. Peer(r) # e
    BY <1>0, <1>6
  <2>2. OutQueued(r, m)' = OutQueued(r, m) /\ Opening(r, m)' = Opening(r, m)
        /\ Writing(r, m)' = Writing(r, m)
    BY <1>0, <1>1, <2>1 DEF OutQueued, Opening, Writing, TypeOK
  <2> QED
    BY <1>0, <1>3, <2>2 DEF AtOnePlace, Travelling, Arrived, Kept
<1> QED
  BY <1>4, <1>5, <1>6

LEMMA OpenPipeMoves ==
    ASSUME PipeInv, NEW e \in End, OpenPipe(e), NEW r \in End, NEW m \in Text
    PROVE  Kept(r, m)
<1> USE DEF receiverVars, serverVars, endVars
<1> DEFINE i == [for |-> outgoing[e], client |-> "open", written |-> FALSE]
<1>0. /\ TypeOK /\ AtOnePlace(r, m)
      /\ Peer(e) \in End /\ Peer(r) \in End /\ Peer(Peer(e)) = e /\ Peer(Peer(r)) = r
      /\ i.for = outgoing[e] /\ ~i.written
  BY PeerFacts DEF PipeInv, TypeInv
<1>1. /\ output_pc[e] = "open"
      /\ instance' = [instance EXCEPT ![Peer(e)] = {i}]
      /\ output_pc' = [output_pc EXCEPT ![e] = "write"]
      /\ UNCHANGED <<unsent, output_queue, outgoing, input_queue, incoming, handlers>>
  BY DEF OpenPipe
<1> HIDE DEF i
<1>2. /\ Unsent(r, m)' = Unsent(r, m) /\ OutQueued(r, m)' = OutQueued(r, m)
      /\ Handled(r, m)' = Handled(r, m) /\ HandledWritten(r, m)' = HandledWritten(r, m)
      /\ HasRead(r, m)' = HasRead(r, m)
      /\ InQueued(r, m)' = InQueued(r, m) /\ Coming(r, m)' = Coming(r, m)
  BY <1>1 DEF Unsent, OutQueued, Handled, HandledWritten, HasRead, InQueued, Coming
<1>3. CASE r = Peer(e)
  <2>1. /\ Opening(r, m) <=> m = outgoing[e]
        /\ ~Opening(r, m)' /\ ~Writing(r, m)
        /\ Writing(r, m)' <=> m = outgoing[e]
    BY <1>0, <1>1, <1>3 DEF Opening, Writing, TypeOK
  <2>2. /\ Waiting(r, m)' => m = outgoing[e]
        /\ ~WaitingWritten(r, m)'
    BY <1>0, <1>1, <1>3 DEF Waiting, WaitingWritten, TypeOK
  <2>3. HandledWritten(r, m) => Handled(r, m)
    BY DEF Handled, HandledWritten
  <2> QED
    BY <1>0, <1>2, <2>1, <2>2, <2>3 DEF AtOnePlace, Travelling, Arrived, Kept
<1>4. CASE r # Peer(e)
  <2>1. Peer(r) # e
    BY <1>0, <1>4
  <2>2. Opening(r, m)' = Opening(r, m) /\ Writing(r, m)' = Writing(r, m)
    BY <1>0, <1>1, <2>1 DEF Opening, Writing, TypeOK
  <2>3. Waiting(r, m)' = Waiting(r, m) /\ WaitingWritten(r, m)' = WaitingWritten(r, m)
    BY <1>0, <1>1, <1>4 DEF Waiting, WaitingWritten, TypeOK
  <2> QED
    BY <1>0, <1>2, <2>2, <2>3 DEF AtOnePlace, Travelling, Arrived, Kept
<1> QED
  BY <1>3, <1>4

(* What the client's write leaves at the other end. *)
LEMMA WriteFacts ==
    ASSUME TypeInv, NEW e \in End, WritePipe(e)
    PROVE  LET done == [for |-> outgoing[e], client |-> "closed", written |-> TRUE]
               NewI(i) == IF Connected(i, outgoing[e]) THEN done ELSE i
               NewH(h) == IF Connected(h.pipe, outgoing[e]) THEN [h EXCEPT !.pipe = done] ELSE h
           IN  /\ instance' = [instance EXCEPT ![Peer(e)] = {NewI(i) : i \in instance[Peer(e)]}]
               /\ handlers' = [handlers EXCEPT ![Peer(e)] = {NewH(h) : h \in handlers[Peer(e)]}]
               /\ \A i \in instance[Peer(e)] :
                     /\ NewI(i).for = i.for
                     /\ NewI(i).written => i.written \/ i.for = outgoing[e]
               /\ \A h \in handlers[Peer(e)] :
                     /\ NewH(h).pipe.for = h.pipe.for /\ NewH(h).pc = h.pc
                     /\ NewH(h).pipe.written => h.pipe.written \/ h.pipe.for = outgoing[e]
<1> DEFINE done == [for |-> outgoing[e], client |-> "closed", written |-> TRUE]
           NewI(i) == IF Connected(i, outgoing[e]) THEN done ELSE i
           NewH(h) == IF Connected(h.pipe, outgoing[e]) THEN [h EXCEPT !.pipe = done] ELSE h
<1>1. /\ instance' = [instance EXCEPT ![Peer(e)] = {NewI(i) : i \in instance[Peer(e)]}]
      /\ handlers' = [handlers EXCEPT ![Peer(e)] = {NewH(h) : h \in handlers[Peer(e)]}]
      /\ output_pc[e] = "write"
  BY DEF WritePipe, ClientDone
<1>2. outgoing[e] \in Text /\ done.for = outgoing[e] /\ done \in Instance
  <2>1. outgoing[e] \in Text
    BY <1>1 DEF TypeInv, TextsOnly
  <2> QED
    BY <2>1 DEF Instance
<1> HIDE DEF done
<1>3. ASSUME NEW i \in instance[Peer(e)]
      PROVE  NewI(i).for = i.for /\ (NewI(i).written => i.written \/ i.for = outgoing[e])
  BY <1>2 DEF Connected
<1>4. ASSUME NEW h \in handlers[Peer(e)]
      PROVE  /\ NewH(h).pipe.for = h.pipe.for /\ NewH(h).pc = h.pc
             /\ NewH(h).pipe.written => h.pipe.written \/ h.pipe.for = outgoing[e]
  <2>1. h \in Handler
    BY PeerFacts DEF TypeInv, TypeOK
  <2>2. [h EXCEPT !.pipe = done].pipe = done /\ [h EXCEPT !.pipe = done].pc = h.pc
    BY <1>2, <2>1, NewPipeFacts
  <2> QED
    BY <1>2, <2>2 DEF Connected
<1> QED
  BY <1>1, <1>3, <1>4 DEF done

LEMMA WritePipeMoves ==
    ASSUME PipeInv, NEW e \in End, WritePipe(e), NEW r \in End, NEW m \in Text
    PROVE  Kept(r, m)
<1> USE DEF receiverVars, serverVars, endVars
<1> DEFINE done == [for |-> outgoing[e], client |-> "closed", written |-> TRUE]
           NewI(i) == IF Connected(i, outgoing[e]) THEN done ELSE i
           NewH(h) == IF Connected(h.pipe, outgoing[e]) THEN [h EXCEPT !.pipe = done] ELSE h
<1>0. /\ TypeInv /\ TypeOK /\ AtOnePlace(r, m) /\ m # NoMessage
      /\ Peer(e) \in End /\ Peer(r) \in End /\ Peer(Peer(e)) = e /\ Peer(Peer(r)) = r
  BY PeerFacts, MessageFacts DEF PipeInv, TypeInv
<1>1. /\ output_pc[e] = "write"
      /\ output_pc' = [output_pc EXCEPT ![e] = "loop"]
      /\ outgoing' = [outgoing EXCEPT ![e] = NoMessage]
      /\ UNCHANGED <<unsent, output_queue, input_queue, incoming>>
  BY DEF WritePipe
<1>2. /\ instance' = [instance EXCEPT ![Peer(e)] = {NewI(i) : i \in instance[Peer(e)]}]
      /\ handlers' = [handlers EXCEPT ![Peer(e)] = {NewH(h) : h \in handlers[Peer(e)]}]
      /\ \A i \in instance[Peer(e)] :
            NewI(i).for = i.for /\ (NewI(i).written => i.written \/ i.for = outgoing[e])
      /\ \A h \in handlers[Peer(e)] :
            /\ NewH(h).pipe.for = h.pipe.for /\ NewH(h).pc = h.pc
            /\ NewH(h).pipe.written => h.pipe.written \/ h.pipe.for = outgoing[e]
  BY <1>0, WriteFacts
<1> HIDE DEF NewI, NewH, done
<1>3. /\ Unsent(r, m)' = Unsent(r, m) /\ OutQueued(r, m)' = OutQueued(r, m)
      /\ InQueued(r, m)' = InQueued(r, m) /\ Coming(r, m)' = Coming(r, m)
  BY <1>1 DEF Unsent, OutQueued, InQueued, Coming
<1>4. CASE r = Peer(e)
  <2>1. /\ ~Opening(r, m) /\ ~Opening(r, m)' /\ ~Writing(r, m)'
        /\ Writing(r, m) <=> m = outgoing[e]
    BY <1>0, <1>1, <1>4 DEF Opening, Writing, TypeOK
  <2>2. /\ Waiting(r, m)' => Waiting(r, m)
        /\ WaitingWritten(r, m)' => WaitingWritten(r, m) \/ m = outgoing[e]
    <3>1. instance'[r] = {NewI(i) : i \in instance[r]}
      BY <1>0, <1>2, <1>4 DEF TypeOK
    <3> QED
      BY <1>2, <1>4, <3>1 DEF Waiting, WaitingWritten
  <2>3. /\ Handled(r, m)' => Handled(r, m)
        /\ HasRead(r, m)' => HasRead(r, m)
        /\ HandledWritten(r, m)' => HandledWritten(r, m) \/ m = outgoing[e]
    <3>1. handlers'[r] = {NewH(h) : h \in handlers[r]}
      BY <1>0, <1>2, <1>4 DEF TypeOK
    <3>2. Handled(r, m)' => Handled(r, m)
      BY <1>2, <1>4, <3>1 DEF Handled
    <3>3. HasRead(r, m)' => HasRead(r, m)
      BY <1>2, <1>4, <3>1 DEF HasRead
    <3>4. HandledWritten(r, m)' => HandledWritten(r, m) \/ m = outgoing[e]
      BY <1>2, <1>4, <3>1 DEF HandledWritten
    <3> QED
      BY <3>2, <3>3, <3>4
  <2> QED
    BY <1>0, <1>3, <2>1, <2>2, <2>3 DEF AtOnePlace, Travelling, Arrived, Kept
<1>5. CASE r # Peer(e)
  <2>1. Peer(r) # e
    BY <1>0, <1>5
  <2>2. Opening(r, m)' = Opening(r, m) /\ Writing(r, m)' = Writing(r, m)
    BY <1>0, <1>1, <2>1 DEF Opening, Writing, TypeOK
  <2>3. instance'[r] = instance[r] /\ handlers'[r] = handlers[r]
    BY <1>0, <1>2, <1>5 DEF TypeOK
  <2>4. /\ Waiting(r, m)' = Waiting(r, m) /\ WaitingWritten(r, m)' = WaitingWritten(r, m)
        /\ Handled(r, m)' = Handled(r, m) /\ HandledWritten(r, m)' = HandledWritten(r, m)
        /\ HasRead(r, m)' = HasRead(r, m)
    BY <2>3 DEF Waiting, WaitingWritten, Handled, HandledWritten, HasRead
  <2> QED
    BY <1>0, <1>3, <2>2, <2>4 DEF AtOnePlace, Travelling, Arrived, Kept
<1> QED
  BY <1>4, <1>5

LEMMA ServerServeMoves ==
    ASSUME PipeInv, NEW e \in End, ServerServe(e), NEW r \in End, NEW m \in Text
    PROVE  Kept(r, m)
<1> USE DEF senderVars, receiverVars, endVars
<1> DEFINE Served(i) == [pipe |-> i, pc |-> "read"]
<1>0. TypeOK /\ AtOnePlace(r, m)
  BY DEF PipeInv, TypeInv
<1>1. /\ handlers' = [handlers EXCEPT ![e] = handlers[e] \cup {Served(i) : i \in instance[e]}]
      /\ instance' = [instance EXCEPT ![e] = {}]
      /\ UNCHANGED <<unsent, output_queue, output_pc, outgoing, input_queue, incoming>>
  BY DEF ServerServe
<1>2. \A i : Served(i).pipe = i /\ Served(i).pc = "read"
  OBVIOUS
<1> HIDE DEF Served
<1>3. /\ Unsent(r, m)' = Unsent(r, m) /\ OutQueued(r, m)' = OutQueued(r, m)
      /\ Opening(r, m)' = Opening(r, m) /\ Writing(r, m)' = Writing(r, m)
      /\ InQueued(r, m)' = InQueued(r, m) /\ Coming(r, m)' = Coming(r, m)
  BY <1>1 DEF Unsent, OutQueued, Opening, Writing, InQueued, Coming
<1>4. CASE r = e
  <2>1. /\ handlers'[r] = handlers[r] \cup {Served(i) : i \in instance[r]}
        /\ instance'[r] = {}
    BY <1>0, <1>1, <1>4 DEF TypeOK
  <2>2. ~Waiting(r, m)' /\ ~WaitingWritten(r, m)'
    BY <2>1 DEF Waiting, WaitingWritten
  <2>3. Handled(r, m)' => Handled(r, m) \/ Waiting(r, m)
    BY <1>2, <2>1 DEF Handled, Waiting
  <2>4. HandledWritten(r, m)' => HandledWritten(r, m) \/ WaitingWritten(r, m)
    BY <1>2, <2>1 DEF HandledWritten, WaitingWritten
  <2>5. HasRead(r, m)' => HasRead(r, m)
    BY <1>2, <2>1 DEF HasRead
  <2> QED
    BY <1>0, <1>3, <2>2, <2>3, <2>4, <2>5 DEF AtOnePlace, Travelling, Arrived, Kept
<1>5. CASE r # e
  <2>1. instance'[r] = instance[r] /\ handlers'[r] = handlers[r]
    BY <1>0, <1>1, <1>5 DEF TypeOK
  <2>2. /\ Waiting(r, m)' = Waiting(r, m) /\ WaitingWritten(r, m)' = WaitingWritten(r, m)
        /\ Handled(r, m)' = Handled(r, m) /\ HandledWritten(r, m)' = HandledWritten(r, m)
        /\ HasRead(r, m)' = HasRead(r, m)
    BY <2>1 DEF Waiting, WaitingWritten, Handled, HandledWritten, HasRead
  <2> QED
    BY <1>0, <1>3, <2>2 DEF AtOnePlace, Travelling, Arrived, Kept
<1> QED
  BY <1>4, <1>5

LEMMA HandlerReadMoves ==
    ASSUME PipeInv, NEW e \in End, NEW h \in handlers[e], HandlerRead(e, h),
           NEW r \in End, NEW m \in Text
    PROVE  Kept(r, m)
<1> USE DEF senderVars, endVars
<1> DEFINE text == IF h.pipe.written THEN h.pipe.for ELSE Blank
           g == [h EXCEPT !.pc = "close"]
<1>0. TypeOK /\ AtOnePlace(r, m) /\ Single(e) /\ h \in Handler
  BY DEF PipeInv, TypeInv, TypeOK
<1>1. /\ h.pc = "read"
      /\ input_queue' = [input_queue EXCEPT ![e] = queue_message(input_queue[e], text)]
      /\ handlers' = [handlers EXCEPT ![e] = (handlers[e] \ {h}) \cup {g}]
      /\ UNCHANGED <<unsent, output_queue, output_pc, outgoing, instance, incoming>>
  BY DEF HandlerRead
<1>2. g.pipe = h.pipe /\ g.pc = "close"
  BY <1>0, HasReadFacts
<1>3. Queued(queue_message(input_queue[e], text)) = Queued(input_queue[e]) \cup {text}
  <2>1. text \in Message
    BY MessageFacts DEF PipeInv, TypeInv, TextsOnly
  <2> QED
    BY <1>0, <2>1, PushFacts DEF TypeOK
<1>4. text = m => h.pipe.written /\ h.pipe.for = m
  BY MessageFacts
<1> HIDE DEF text, g
<1>5. /\ Unsent(r, m)' = Unsent(r, m) /\ OutQueued(r, m)' = OutQueued(r, m)
      /\ Opening(r, m)' = Opening(r, m) /\ Writing(r, m)' = Writing(r, m)
      /\ Waiting(r, m)' = Waiting(r, m) /\ WaitingWritten(r, m)' = WaitingWritten(r, m)
      /\ Coming(r, m)' = Coming(r, m)
  BY <1>1 DEF Unsent, OutQueued, Opening, Writing, Waiting, WaitingWritten, Coming
<1>6. CASE r = e
  <2>1. /\ handlers'[r] = (handlers[r] \ {h}) \cup {g}
        /\ input_queue'[r] = queue_message(input_queue[r], text)
    BY <1>0, <1>1, <1>6 DEF TypeOK
  <2>2. /\ Handled(r, m)' => Handled(r, m)
        /\ HandledWritten(r, m)' => HandledWritten(r, m)
    BY <1>2, <2>1 DEF Handled, HandledWritten
  <2>3. InQueued(r, m)' <=> InQueued(r, m) \/ text = m
    BY <1>3, <1>6, <2>1 DEF InQueued
  <2>4. CASE h.pipe.for = m
    <3>1. Handled(r, m) /\ (h.pipe.written => HandledWritten(r, m))
      BY <1>1, <1>6, <2>4 DEF Handled, HandledWritten
    <3>2. ~Handled(r, m)' /\ ~HandledWritten(r, m)'
      BY <1>0, <1>2, <1>6, <2>1, <2>4 DEF Single, Handled, HandledWritten
    <3> QED
      BY <1>0, <1>4, <1>5, <2>3, <3>1, <3>2 DEF AtOnePlace, Travelling, Arrived, Kept
  <2>5. CASE h.pipe.for # m
    <3>1. HasRead(r, m)' => HasRead(r, m)
      BY <1>2, <2>1, <2>5 DEF HasRead
    <3> QED
      BY <1>0, <1>4, <1>5, <2>2, <2>3, <2>5, <3>1 DEF AtOnePlace, Travelling, Arrived, Kept
  <2> QED
    BY <2>4, <2>5
<1>7. CASE r # e
  <2>1. input_queue'[r] = input_queue[r] /\ handlers'[r] = handlers[r]
    BY <1>0, <1>1, <1>7 DEF TypeOK
  <2>2. /\ Handled(r, m)' = Handled(r, m) /\ HandledWritten(r, m)' = HandledWritten(r, m)
        /\ HasRead(r, m)' = HasRead(r, m) /\ InQueued(r, m)' = InQueued(r, m)
    BY <2>1 DEF Handled, HandledWritten, HasRead, InQueued
  <2> QED
    BY <1>0, <1>5, <2>2 DEF AtOnePlace, Travelling, Arrived, Kept
<1> QED
  BY <1>6, <1>7

LEMMA InputPopMoves ==
    ASSUME PipeInv, NEW e \in End, InputPop(e), PopReady(input_queue[e]),
           NEW r \in End, NEW m \in Text
    PROVE  Kept(r, m)
<1> USE DEF senderVars, serverVars, endVars
<1> DEFINE q == input_queue[e]
<1>0. TypeOK /\ AtOnePlace(r, m) /\ NoRepeat(input_queue[e])
  BY DEF PipeInv, TypeInv, Single
<1>1. /\ input_queue' = [input_queue EXCEPT ![e] = Pop(q)]
      /\ incoming' = [incoming EXCEPT ![e] = Front(q)]
      /\ UNCHANGED <<unsent, output_queue, output_pc, outgoing, instance, handlers>>
  BY DEF InputPop, PopReady, PopWaits, PopEmpty
<1>2. /\ Queued(q) = Queued(Pop(q)) \cup {Front(q)}
      /\ Front(q) \in Text => Front(q) \notin Queued(Pop(q))
  BY <1>0, PopFacts DEF TypeOK
<1> HIDE DEF q
<1>3. /\ Unsent(r, m)' = Unsent(r, m) /\ OutQueued(r, m)' = OutQueued(r, m)
      /\ Opening(r, m)' = Opening(r, m) /\ Writing(r, m)' = Writing(r, m)
      /\ Waiting(r, m)' = Waiting(r, m) /\ WaitingWritten(r, m)' = WaitingWritten(r, m)
      /\ Handled(r, m)' = Handled(r, m) /\ HandledWritten(r, m)' = HandledWritten(r, m)
      /\ HasRead(r, m)' = HasRead(r, m)
  BY <1>1 DEF Unsent, OutQueued, Opening, Writing, Waiting, WaitingWritten, Handled,
              HandledWritten, HasRead
<1>4. CASE r = e
  <2>1. /\ Coming(r, m)' <=> m = Front(q)
        /\ InQueued(r, m) <=> m \in Queued(Pop(q)) \/ m = Front(q)
        /\ InQueued(r, m)' <=> m \in Queued(Pop(q))
    BY <1>0, <1>1, <1>2, <1>4 DEF Coming, InQueued, TypeOK, q
  <2>2. InQueued(r, m)' => ~Coming(r, m)'
    BY <1>2, <2>1
  <2> QED
    BY <1>0, <1>3, <2>1, <2>2 DEF AtOnePlace, Travelling, Arrived, Kept
<1>5. CASE r # e
  <2>1. InQueued(r, m)' = InQueued(r, m) /\ Coming(r, m)' = Coming(r, m)
    BY <1>0, <1>1, <1>5 DEF Coming, InQueued, TypeOK
  <2> QED
    BY <1>0, <1>3, <2>1 DEF AtOnePlace, Travelling, Arrived, Kept
<1> QED
  BY <1>4, <1>5

(* The text a callback is called with is nowhere any more. *)
LEMMA DispatchMoves ==
    ASSUME PipeInv, NEW e \in End, Dispatch(e), NEW r \in End, NEW m \in Text
    PROVE  /\ Kept(r, m)
           /\ Travelling(r, m)' <=> Travelling(r, m) /\ ~(r = e /\ m = incoming[e])
<1> USE DEF senderVars, serverVars, endVars
<1>0. TypeOK /\ AtOnePlace(r, m) /\ m # NoMessage
  BY MessageFacts DEF PipeInv, TypeInv
<1>1. /\ incoming' = [incoming EXCEPT ![e] = NoMessage]
      /\ UNCHANGED <<unsent, output_queue, output_pc, outgoing, input_queue, instance, handlers>>
  BY DEF Dispatch
<1>2. NothingNew(r, m)
  BY InputQuiet DEF PipeInv
<1>3. /\ OutQueued(r, m)' = OutQueued(r, m)
      /\ Opening(r, m)' = Opening(r, m) /\ Writing(r, m)' = Writing(r, m)
      /\ WaitingWritten(r, m)' = WaitingWritten(r, m)
      /\ HandledWritten(r, m)' = HandledWritten(r, m)
      /\ InQueued(r, m)' = InQueued(r, m)
  BY <1>1 DEF OutQueued, Opening, Writing, WaitingWritten, HandledWritten, InQueued
<1>4. Coming(r, m)' <=> Coming(r, m) /\ r # e
  BY <1>0, <1>1 DEF Coming, TypeOK
<1>5. CASE r = e /\ m = incoming[e]
  <2>1. Coming(r, m)
    BY <1>5 DEF Coming
  <2>2. /\ ~OutQueued(r, m) /\ ~Opening(r, m) /\ ~Writing(r, m) /\ ~InQueued(r, m)
        /\ ~Waiting(r, m) /\ ~Handled(r, m)
    BY <1>0, <2>1 DEF AtOnePlace, Arrived
  <2>3. ~WaitingWritten(r, m) /\ ~HandledWritten(r, m)
    BY <2>2 DEF Waiting, WaitingWritten, Handled, HandledWritten
  <2> QED
    BY <1>0, <1>2, <1>3, <1>4, <1>5, <2>1, <2>2, <2>3, NothingNewKeeps DEF Travelling, Arrived
<1>6. CASE ~(r = e /\ m = incoming[e])
  <2>1. Coming(r, m)' <=> Coming(r, m)
    BY <1>4, <1>6 DEF Coming
  <2> QED
    BY <1>0, <1>2, <1>3, <1>6, <2>1, NothingNewKeeps DEF Travelling, Arrived
<1> QED
  BY <1>5, <1>6
---------------------------------------------------------------------------
(* One of each *)

LEMMA OutputSingle ==
    ASSUME PipeInv, NEW e \in End, OutputThread(e) \/ \E m \in Text : Send(e, m), NEW x \in End
    PROVE  Single(x)'
<1> USE DEF senderVars, receiverVars, serverVars, endVars
<1>0. /\ TypeInv /\ TypeOK /\ Single(x) /\ Single(e) /\ Peer(e) \in End /\ Peer(Peer(e)) = e
  BY PeerFacts DEF PipeInv, TypeInv
<1>1. CASE OutputLoop(e) \/ OpenFails(e) \/ WriteFails(e)
  BY <1>0, <1>1 DEF OutputLoop, OpenFails, WriteFails, Single
<1>2. CASE OutputPop(e)
  <2>1. /\ UNCHANGED <<input_queue, instance, handlers>>
        /\ \/ PopReady(output_queue[e])
              /\ output_queue' = [output_queue EXCEPT ![e] = Pop(output_queue[e])]
           \/ output_queue' = [output_queue EXCEPT ![e] = Sleep(output_queue[e])]
           \/ output_queue' = output_queue
    BY <1>2 DEF OutputPop
  <2>2. NoRepeat(output_queue[e])
    BY <1>0 DEF Single
  <2>3. /\ PopReady(output_queue[e]) => NoRepeat(Pop(output_queue[e]))
        /\ NoRepeat(Sleep(output_queue[e]))
    BY <1>0, <2>2, PopFacts, SleepFacts DEF TypeOK
  <2>4. NoRepeat(output_queue[x])'
    BY <1>0, <2>1, <2>3 DEF TypeOK, Single
  <2> QED
    BY <1>0, <2>1, <2>4 DEF Single
<1>3. CASE OpenPipe(e)
  <2>1. /\ \A i, j \in instance'[x] : i = j
        /\ UNCHANGED <<output_queue, input_queue, handlers>>
    BY <1>0, <1>3 DEF OpenPipe, TypeOK, Single
  <2> QED
    BY <1>0, <2>1 DEF Single
<1>4. CASE WritePipe(e)
  <2> DEFINE done == [for |-> outgoing[e], client |-> "closed", written |-> TRUE]
             NewI(i) == IF Connected(i, outgoing[e]) THEN done ELSE i
             NewH(h) == IF Connected(h.pipe, outgoing[e]) THEN [h EXCEPT !.pipe = done] ELSE h
  <2>1. /\ instance' = [instance EXCEPT ![Peer(e)] = {NewI(i) : i \in instance[Peer(e)]}]
        /\ handlers' = [handlers EXCEPT ![Peer(e)] = {NewH(h) : h \in handlers[Peer(e)]}]
        /\ \A h \in handlers[Peer(e)] : NewH(h).pipe.for = h.pipe.for
    BY <1>0, <1>4, WriteFacts
  <2>2. UNCHANGED <<output_queue, input_queue>>
    BY <1>4 DEF WritePipe
  <2> HIDE DEF NewI, NewH, done
  <2>3. CASE x = Peer(e)
    <3>1. /\ instance'[x] = {NewI(i) : i \in instance[x]}
          /\ handlers'[x] = {NewH(h) : h \in handlers[x]}
      BY <1>0, <2>1, <2>3 DEF TypeOK
    <3>2. \A i, j \in instance'[x] : i = j
      BY <1>0, <3>1 DEF Single
    <3>3. \A h, g \in handlers'[x] : h.pipe.for = g.pipe.for /\ h.pipe.for \in Text => h = g
      BY <1>0, <2>1, <2>3, <3>1 DEF Single
    <3> QED
      BY <1>0, <2>2, <3>2, <3>3 DEF Single
  <2>4. CASE x # Peer(e)
    BY <1>0, <2>1, <2>2, <2>4 DEF Single, TypeOK
  <2> QED
    BY <2>3, <2>4
<1>5. ASSUME NEW m \in Text, Send(e, m) PROVE Single(x)'
  <2>1. /\ m \in unsent[Peer(e)]
        /\ output_queue' = [output_queue EXCEPT ![e] = queue_message(output_queue[e], m)]
        /\ UNCHANGED <<input_queue, instance, handlers>>
    BY <1>5 DEF Send
  <2>2. m \notin Queued(output_queue[e])
    <3>1. AtOnePlace(Peer(e), m) /\ Unsent(Peer(e), m)
      BY <1>0, <2>1 DEF PipeInv, Unsent
    <3> QED
      BY <1>0, <3>1 DEF AtOnePlace, OutQueued
  <2>3. NoRepeat(queue_message(output_queue[e], m))
    BY <1>0, <2>2, PushFacts, MessageFacts DEF TypeOK, Single
  <2>4. NoRepeat(output_queue[x])'
    BY <1>0, <2>1, <2>3 DEF TypeOK, Single
  <2> QED
    BY <1>0, <2>1, <2>4 DEF Single
<1> QED
  BY <1>1, <1>2, <1>3, <1>4, <1>5 DEF OutputThread

LEMMA ServerSingle ==
    ASSUME PipeInv, NEW e \in End, Server(e) \/ (\E h \in handlers[e] : HandlerClose(e, h)), NEW x \in End
    PROVE  Single(x)'
<1> USE DEF senderVars, receiverVars, serverVars, endVars
<1>0. TypeInv /\ TypeOK /\ Single(x)
  BY DEF PipeInv, TypeInv
<1>1. CASE ServerLoop(e) \/ ServerCreateFails(e) \/ ServerConnect(e)
  BY <1>0, <1>1 DEF ServerLoop, ServerCreateFails, ServerConnect, Single
<1>2. CASE ServerCreate(e) \/ ServerFailed(e)
  <2>1. PICK S \in {{}, {Listening}} : instance' = [instance EXCEPT ![e] = S]
    BY <1>2 DEF ServerCreate, ServerFailed
  <2>2. \A i, j \in S : i = j
    OBVIOUS
  <2>3. \A i, j \in instance'[x] : i = j
    BY <1>0, <2>1, <2>2 DEF TypeOK, Single
  <2> QED
    BY <1>0, <1>2, <2>3 DEF ServerCreate, ServerFailed, Single
<1>3. CASE ServerServe(e)
  <2> DEFINE Served(i) == [pipe |-> i, pc |-> "read"]
  <2>1. /\ handlers' = [handlers EXCEPT ![e] = handlers[e] \cup {Served(i) : i \in instance[e]}]
        /\ instance' = [instance EXCEPT ![e] = {}]
        /\ UNCHANGED <<output_queue, input_queue>>
    BY <1>3 DEF ServerServe
  <2>2. \A i : Served(i).pipe = i
    OBVIOUS
  <2> HIDE DEF Served
  <2>3. CASE x = e
    <3>1. /\ handlers'[x] = handlers[x] \cup {Served(i) : i \in instance[x]}
          /\ instance'[x] = {}
      BY <1>0, <2>1, <2>3 DEF TypeOK
    <3>2. ASSUME NEW i \in instance[x], NEW h \in handlers[x], h.pipe.for = i.for, i.for \in Text
          PROVE  FALSE
      <4>1. AtOnePlace(x, i.for) /\ Waiting(x, i.for)
        BY <3>2 DEF PipeInv, Waiting
      <4>2. h.pc \in {"read", "close"}
        BY <1>0, HandlerFacts DEF TypeOK
      <4>3. Handled(x, i.for) \/ HasRead(x, i.for)
        BY <3>2, <4>2 DEF Handled, HasRead
      <4> QED
        BY <4>1, <4>3 DEF AtOnePlace
    <3>3. ASSUME NEW h \in handlers'[x], NEW g \in handlers'[x],
                 h.pipe.for = g.pipe.for, h.pipe.for \in Text
          PROVE  h = g
      <4>1. CASE h \in handlers[x] /\ g \in handlers[x]
        BY <1>0, <3>3, <4>1 DEF Single
      <4>2. ASSUME NEW i \in instance[x], h = Served(i), g \in handlers[x] PROVE FALSE
        BY <2>2, <3>2, <3>3, <4>2
      <4>3. ASSUME NEW i \in instance[x], g = Served(i), h \in handlers[x] PROVE FALSE
        BY <2>2, <3>2, <3>3, <4>3
      <4>4. ASSUME NEW i \in instance[x], NEW j \in instance[x], h = Served(i), g = Served(j)
            PROVE  h = g
        BY <1>0, <4>4 DEF Single
      <4> QED
        BY <3>1, <4>1, <4>2, <4>3, <4>4
    <3> QED
      BY <1>0, <2>1, <3>1, <3>3 DEF Single
  <2>4. CASE x # e
    BY <1>0, <2>1, <2>4 DEF TypeOK, Single
  <2> QED
    BY <2>3, <2>4
<1>4. ASSUME NEW h \in handlers[e], HandlerClose(e, h) PROVE Single(x)'
  <2>1. /\ handlers'[x] \subseteq handlers[x]
        /\ UNCHANGED <<output_queue, input_queue, instance>>
    BY <1>0, <1>4 DEF HandlerClose, TypeOK
  <2> QED
    BY <1>0, <2>1 DEF Single
<1> QED
  BY <1>1, <1>2, <1>3, <1>4 DEF Server

LEMMA InputSingle ==
    ASSUME PipeInv, NEW e \in End, InputThread(e) \/ (\E h \in handlers[e] : HandlerRead(e, h)), NEW x \in End
    PROVE  Single(x)'
<1> USE DEF senderVars, receiverVars, serverVars, endVars
<1>0. TypeInv /\ TypeOK /\ Single(x) /\ Single(e)
  BY DEF PipeInv, TypeInv
<1>1. CASE InputLoop(e) \/ Dispatch(e)
  BY <1>0, <1>1 DEF InputLoop, Dispatch, Single
<1>2. CASE InputPop(e)
  <2>1. /\ UNCHANGED <<output_queue, instance, handlers>>
        /\ \/ PopReady(input_queue[e])
              /\ input_queue' = [input_queue EXCEPT ![e] = Pop(input_queue[e])]
           \/ input_queue' = [input_queue EXCEPT ![e] = Sleep(input_queue[e])]
           \/ input_queue' = input_queue
    BY <1>2 DEF InputPop
  <2>2. NoRepeat(input_queue[e])
    BY <1>0 DEF Single
  <2>3. /\ PopReady(input_queue[e]) => NoRepeat(Pop(input_queue[e]))
        /\ NoRepeat(Sleep(input_queue[e]))
    BY <1>0, <2>2, PopFacts, SleepFacts DEF TypeOK
  <2>4. NoRepeat(input_queue[x])'
    BY <1>0, <2>1, <2>3 DEF TypeOK, Single
  <2> QED
    BY <1>0, <2>1, <2>4 DEF Single
<1>3. ASSUME NEW h \in handlers[e], HandlerRead(e, h) PROVE Single(x)'
  <2> DEFINE text == IF h.pipe.written THEN h.pipe.for ELSE Blank
             g == [h EXCEPT !.pc = "close"]
  <2>1. /\ h.pc = "read"
        /\ input_queue' = [input_queue EXCEPT ![e] = queue_message(input_queue[e], text)]
        /\ handlers' = [handlers EXCEPT ![e] = (handlers[e] \ {h}) \cup {g}]
        /\ UNCHANGED <<output_queue, instance>>
    BY <1>3 DEF HandlerRead
  <2>2. g.pipe = h.pipe
    BY <1>0, HasReadFacts DEF TypeOK
  <2>3. text \in Message /\ (text \in Text => text \notin Queued(input_queue[e]))
    <3>1. text \in Message
      BY <1>0, MessageFacts DEF TypeInv, TextsOnly
    <3>2. ASSUME text \in Text PROVE text \notin Queued(input_queue[e])
      <4>1. text = h.pipe.for
        BY <3>2, MessageFacts
      <4> HIDE DEF text
      <4>2. AtOnePlace(e, text) /\ Handled(e, text)
        BY <2>1, <3>2, <4>1 DEF PipeInv, Handled
      <4> QED
        BY <4>2 DEF AtOnePlace, Arrived, InQueued
    <3> QED
      BY <3>1, <3>2
  <2> HIDE DEF text, g
  <2>4. NoRepeat(queue_message(input_queue[e], text))
    BY <1>0, <2>3, PushFacts DEF TypeOK, Single
  <2>5. NoRepeat(input_queue[x])'
    BY <1>0, <2>1, <2>4 DEF TypeOK, Single
  <2>6. \A i, j \in handlers'[x] : i.pipe.for = j.pipe.for /\ i.pipe.for \in Text => i = j
    <3>1. CASE x = e
      <4>1. handlers'[x] = (handlers[x] \ {h}) \cup {g}
        BY <1>0, <2>1, <3>1 DEF TypeOK
      <4> QED
        BY <1>0, <2>2, <3>1, <4>1 DEF Single
    <3>2. CASE x # e
      BY <1>0, <2>1, <3>2 DEF TypeOK, Single
    <3> QED
      BY <3>1, <3>2
  <2> QED
    BY <1>0, <2>1, <2>5, <2>6 DEF Single
<1> QED
  BY <1>1, <1>2, <1>3 DEF InputThread

LEMMA ProgramSingle ==
    ASSUME PipeInv, NEW e \in End, Start(e) \/ EndCall(e) \/ EndSteps(e) \/ Exit(e), NEW x \in End
    PROVE  Single(x)'
<1> USE DEF senderVars, receiverVars, serverVars, endVars
<1>0. /\ TypeInv /\ TypeOK /\ Single(x) /\ Single(e)
      /\ NoRepeat(interrupt(input_queue[e])) /\ NoRepeat(interrupt(output_queue[e]))
  BY SleepFacts DEF PipeInv, TypeInv, TypeOK, Single
<1>1. CASE Start(e) \/ EndCall(e) \/ EndJoinOutput(e) \/ EndJoinServer(e)
  BY <1>0, <1>1 DEF Start, EndCall, EndJoinOutput, EndJoinServer, Single
<1>2. CASE EndInterruptInput(e)
  <2>1. NoRepeat(input_queue[x])'
    BY <1>0, <1>2 DEF EndInterruptInput, TypeOK, Single
  <2> QED
    BY <1>0, <1>2, <2>1 DEF EndInterruptInput, Single
<1>3. CASE EndJoinInput(e)
  <2>1. NoRepeat(output_queue[x])'
    BY <1>0, <1>3 DEF EndJoinInput, TypeOK, Single
  <2> QED
    BY <1>0, <1>3, <2>1 DEF EndJoinInput, Single
<1>4. CASE Exit(e)
  <2>1. /\ output_queue' = [output_queue EXCEPT ![e] = EmptyQueue]
        /\ input_queue' = [input_queue EXCEPT ![e] = EmptyQueue]
    BY <1>4 DEF Exit
  <2>2. /\ instance'[e] = {} /\ handlers'[e] = {}
        /\ instance'[Peer(e)] = {HandleClosed(i) : i \in instance[Peer(e)]}
        /\ handlers'[Peer(e)] = {Abandoned(h) : h \in handlers[Peer(e)]}
    BY <1>0, <1>4, ExitFacts
  <2>3. NoRepeat(output_queue[x])' /\ NoRepeat(input_queue[x])'
    BY <1>0, <2>1, EmptyFacts DEF TypeOK, Single
  <2>4. CASE x = e
    BY <2>2, <2>3, <2>4 DEF Single
  <2>5. CASE x = Peer(e)
    <3>1. ASSUME NEW h \in handlers[x] PROVE Abandoned(h).pipe.for = h.pipe.for
      BY <1>0, AbandonedFacts DEF TypeOK
    <3>2. \A i, j \in instance'[x] : i = j
      BY <1>0, <2>2, <2>5 DEF Single
    <3>3. \A h, g \in handlers'[x] : h.pipe.for = g.pipe.for /\ h.pipe.for \in Text => h = g
      BY <1>0, <2>2, <2>5, <3>1 DEF Single
    <3> QED
      BY <2>3, <3>2, <3>3 DEF Single
  <2> QED
    BY <2>4, <2>5, PeerFacts
<1> QED
  BY <1>1, <1>2, <1>3, <1>4 DEF EndSteps
---------------------------------------------------------------------------
(* The invariant *)

(* A step other than send() takes a message on, loses it or does not       *)
(* concern it.                                                             *)
LEMMA StepKeeps ==
    ASSUME PipeInv, [Next]_vars, ~(\E e \in End, m \in Text : Send(e, m)),
           NEW r \in End, NEW x \in Text
    PROVE  Kept(r, x)
<1>0. TypeInv /\ AtOnePlace(r, x)
  BY DEF PipeInv
<1>1. ASSUME NEW e \in End, OutputThread(e) PROVE Kept(r, x)
  <2>1. CASE OutputPop(e) /\ PopReady(output_queue[e])
    BY <2>1, OutputPopMoves
  <2>2. CASE OpenPipe(e)
    BY <2>2, OpenPipeMoves
  <2>3. CASE WritePipe(e)
    BY <2>3, WritePipeMoves
  <2>4. CASE \/ OutputLoop(e) \/ OpenFails(e) \/ WriteFails(e)
             \/ OutputPop(e) /\ ~PopReady(output_queue[e])
    BY <1>0, <2>4, OutputQuiet, NothingNewKeeps
  <2> QED
    BY <1>1, <2>1, <2>2, <2>3, <2>4 DEF OutputThread
<1>2. ASSUME NEW e \in End, Server(e) \/ \E h \in handlers[e] : HandlerClose(e, h)
      PROVE  Kept(r, x)
  <2>1. CASE ServerServe(e)
    BY <2>1, ServerServeMoves
  <2>2. CASE \/ ServerLoop(e) \/ ServerCreate(e) \/ ServerCreateFails(e) \/ ServerConnect(e)
             \/ ServerFailed(e) \/ (\E h \in handlers[e] : HandlerClose(e, h))
    BY <1>0, <2>2, ServerQuiet, NothingNewKeeps
  <2> QED
    BY <1>2, <2>1, <2>2 DEF Server
<1>3. ASSUME NEW e \in End, InputThread(e) PROVE Kept(r, x)
  <2>1. CASE InputPop(e) /\ PopReady(input_queue[e])
    BY <2>1, InputPopMoves
  <2>2. CASE InputLoop(e) \/ Dispatch(e) \/ (InputPop(e) /\ ~PopReady(input_queue[e]))
    BY <1>0, <2>2, InputQuiet, NothingNewKeeps
  <2> QED
    BY <1>3, <2>1, <2>2 DEF InputThread
<1>4. ASSUME NEW e \in End, NEW h \in handlers[e], HandlerRead(e, h) PROVE Kept(r, x)
  BY <1>4, HandlerReadMoves
<1>5. ASSUME NEW e \in End, Start(e) \/ EndCall(e) \/ EndSteps(e) \/ Exit(e) PROVE Kept(r, x)
  BY <1>0, <1>5, ProgramQuiet, NothingNewKeeps
<1>6. CASE UNCHANGED vars
  <2>1. NothingNew(r, x)
    BY <1>6 DEF vars, senderVars, receiverVars, NothingNew, Unsent, OutQueued, Opening, Writing,
                serverVars, Waiting, WaitingWritten, Handled, HandledWritten, HasRead, InQueued, Coming
  <2> QED
    BY <1>0, <2>1, NothingNewKeeps
<1> QED
  BY <1>1, <1>2, <1>3, <1>4, <1>5, <1>6 DEF Next

LEMMA SingleKept ==
    ASSUME PipeInv, [Next]_vars, NEW x \in End
    PROVE  Single(x)'
<1>1. ASSUME NEW e \in End, OutputThread(e) \/ \E m \in Text : Send(e, m) PROVE Single(x)'
  BY <1>1, OutputSingle
<1>2. ASSUME NEW e \in End, Server(e) \/ \E h \in handlers[e] : HandlerClose(e, h)
      PROVE  Single(x)'
  BY <1>2, ServerSingle
<1>3. ASSUME NEW e \in End, InputThread(e) \/ \E h \in handlers[e] : HandlerRead(e, h)
      PROVE  Single(x)'
  BY <1>3, InputSingle
<1>4. ASSUME NEW e \in End, Start(e) \/ EndCall(e) \/ EndSteps(e) \/ Exit(e) PROVE Single(x)'
  BY <1>4, ProgramSingle
<1>5. CASE UNCHANGED vars
  BY <1>5 DEF PipeInv, Single, vars, senderVars, receiverVars, serverVars
<1> QED
  BY <1>1, <1>2, <1>3, <1>4, <1>5 DEF Next

LEMMA InitInv == ASSUME Init PROVE PipeInv
<1> USE DEF Init
<1>1. TypeInv
  BY InitTyped
<1>2. ASSUME NEW e \in End PROVE EndInv(e) /\ Single(e)
  BY EmptyFacts DEF EndInv, Single
<1>3. ASSUME NEW e \in End, NEW m \in Text PROVE AtOnePlace(e, m)
  <2>1. m # NoMessage /\ Peer(e) \in End
    BY MessageFacts, PeerFacts
  <2>2. /\ ~OutQueued(e, m) /\ ~Opening(e, m) /\ ~Writing(e, m) /\ ~Waiting(e, m)
        /\ ~Handled(e, m) /\ ~HasRead(e, m) /\ ~InQueued(e, m) /\ ~Coming(e, m)
    BY <2>1, EmptyFacts DEF OutQueued, Opening, Writing, Waiting, Handled, HasRead, InQueued, Coming
  <2> QED
    BY <2>2 DEF AtOnePlace, Arrived
<1> QED
  BY <1>1, <1>2, <1>3 DEF PipeInv

LEMMA NextInv == ASSUME PipeInv, [Next]_vars PROVE PipeInv'
<1>1. TypeInv'
  BY NextTyped DEF PipeInv
<1>2. \A e \in End : EndInv(e)'
  BY EndKept DEF PipeInv
<1>3. \A e \in End : Single(e)'
  BY SingleKept
<1>4. ASSUME NEW r \in End, NEW x \in Text PROVE AtOnePlace(r, x)'
  <2>1. ASSUME NEW e \in End, NEW m \in Text, Send(e, m) PROVE AtOnePlace(r, x)'
    BY <2>1, SendMoves
  <2>2. CASE ~(\E e \in End, m \in Text : Send(e, m))
    BY <2>2, StepKeeps DEF Kept
  <2> QED
    BY <2>1, <2>2
<1> QED
  BY <1>1, <1>2, <1>3, <1>4 DEF PipeInv

LEMMA InvHolds == Spec => []PipeInv
  BY InitInv, NextInv, PTL DEF Spec
---------------------------------------------------------------------------
(* The channel *)

LEMMA TransitFacts ==
    ASSUME NEW r \in End, NEW m \in Text
    PROVE  /\ m \in InTransit(r) <=> Travelling(r, m)
           /\ (m \in InTransit(r) <=> Travelling(r, m))'
<1> USE DEF Travelling, OutQueued, Opening, Writing, WaitingWritten, HandledWritten, Arrived,
            InQueued, Coming, InTransit
<1>1. m \in InTransit(r) <=> Travelling(r, m)
  OBVIOUS
<1>2. (m \in InTransit(r) <=> Travelling(r, m))'
  OBVIOUS
<1> QED
  BY <1>1, <1>2

LEMMA TransitTyped == ASSUME NEW r PROVE InTransit(r) \subseteq Text /\ InTransit(r)' \subseteq Text
  BY DEF InTransit

LEMMA InitMaps == ASSUME Init PROVE Channel!Init
<1>1. PipeInv
  BY InitInv
<1>2. ASSUME NEW r \in End PROVE InTransit(r) = {}
  <2>1. Peer(r) \in End
    BY PeerFacts
  <2>2. ASSUME NEW m \in Text PROVE ~Travelling(r, m)
    <3>1. m # NoMessage
      BY MessageFacts
    <3> QED
      BY <2>1, <3>1, EmptyFacts DEF Init, Travelling, OutQueued, Opening, Writing, WaitingWritten,
         HandledWritten, Arrived, InQueued, Coming
  <2> QED
    BY <2>2, TransitFacts, TransitTyped
<1>3. [e \in End |-> InTransit(e)] = [e \in End |-> {}]
  BY <1>2
<1>4. [e \in End |-> end_pc[e] # "done"] = [e \in End |-> TRUE]
  BY DEF Init
<1>5. unsent \in [End -> SUBSET Message] /\ delivered = [e \in End |-> <<>>]
  BY MessageFacts DEF Init
<1> QED
  BY <1>3, <1>4, <1>5 DEF Channel!Init

(* All that an unobserved step may do to the channel. *)
LEMMA QuietStepMaps ==
    ASSUME PipeInv, UNCHANGED <<unsent, delivered>>,
           \A e \in End : (end_pc[e] # "done")' = (end_pc[e] # "done"),
           \A r \in End, m \in Text : Kept(r, m)
    PROVE  Channel!Lose
<1>1. ASSUME NEW r \in End PROVE InTransit(r)' \subseteq InTransit(r) /\ InTransit(r)' \subseteq Message
  <2>1. ASSUME NEW m \in Text, m \in InTransit(r)' PROVE m \in InTransit(r)
    <3>1. Travelling(r, m)'
      BY <2>1, TransitFacts
    <3>2. Travelling(r, m)
      BY <3>1 DEF Kept
    <3> QED
      BY <3>2, TransitFacts
  <2> QED
    BY <2>1, TransitTyped, MessageFacts
<1>2. [e \in End |-> InTransit(e)]' \in [End -> SUBSET Message]
  BY <1>1
<1>3. \A e \in End : [x \in End |-> InTransit(x)]'[e] \subseteq [x \in End |-> InTransit(x)][e]
  BY <1>1
<1>4. [e \in End |-> end_pc[e] # "done"]' = [e \in End |-> end_pc[e] # "done"]
  OBVIOUS
<1> QED
  BY <1>2, <1>3, <1>4 DEF Channel!Lose

LEMMA SendMaps ==
    ASSUME PipeInv, NEW e \in End, NEW m \in Text, Send(e, m)
    PROVE  Channel!Send(Peer(e), m)
<1>1. /\ m \in unsent[Peer(e)]
      /\ unsent' = [unsent EXCEPT ![Peer(e)] = unsent[Peer(e)] \ {m}]
      /\ delivered' = delivered /\ end_pc' = end_pc /\ Peer(e) \in End
  BY PeerFacts DEF Send, receiverVars, endVars
<1>2. ASSUME NEW r \in End
      PROVE  InTransit(r)' = IF r = Peer(e) THEN InTransit(r) \cup {m} ELSE InTransit(r)
  <2>1. ASSUME NEW x \in Text
        PROVE  x \in InTransit(r)' <=> x \in InTransit(r) \/ (r = Peer(e) /\ x = m)
    BY SendMoves, TransitFacts
  <2> QED
    BY <2>1, TransitTyped
<1>3. [x \in End |-> InTransit(x)]' =
         [[x \in End |-> InTransit(x)] EXCEPT ![Peer(e)] = [x \in End |-> InTransit(x)][Peer(e)] \cup {m}]
  BY <1>1, <1>2
<1>4. [x \in End |-> end_pc[x] # "done"]' = [x \in End |-> end_pc[x] # "done"]
  BY <1>1
<1> QED
  BY <1>1, <1>3, <1>4 DEF Channel!Send

LEMMA DispatchMaps ==
    ASSUME PipeInv, NEW e \in End, Dispatch(e), incoming[e] # Blank
    PROVE  incoming[e] \in Text /\ Channel!Deliver(e, incoming[e])
<1> DEFINE m == incoming[e]
<1>0. TypeOK /\ TextsOnly(e) /\ EndInv(e)
  BY DEF PipeInv, TypeInv
<1>1. /\ input_pc[e] = "dispatch" /\ m \in Text
      /\ delivered' = [delivered EXCEPT ![e] = Append(delivered[e], m)]
      /\ unsent' = unsent /\ end_pc' = end_pc
  BY <1>0 DEF Dispatch, TextsOnly, Text, endVars
<1>2. end_pc[e] # "done" /\ m \in InTransit(e)
  BY <1>0, <1>1, TransitFacts DEF EndInv, Travelling, Arrived, Coming
<1> HIDE DEF m
<1>3. ASSUME NEW r \in End
      PROVE  InTransit(r)' = IF r = e THEN InTransit(r) \ {m} ELSE InTransit(r)
  <2>1. ASSUME NEW x \in Text
        PROVE  x \in InTransit(r)' <=> x \in InTransit(r) /\ ~(r = e /\ x = m)
    BY DispatchMoves, TransitFacts DEF m
  <2> QED
    BY <2>1, TransitTyped
<1>4. [x \in End |-> InTransit(x)]' =
         [[x \in End |-> InTransit(x)] EXCEPT ![e] = [x \in End |-> InTransit(x)][e] \ {m}]
  BY <1>3
<1>5. [x \in End |-> end_pc[x] # "done"]' = [x \in End |-> end_pc[x] # "done"]
  BY <1>1
<1>6. [x \in End |-> end_pc[x] # "done"][e] /\ m \in [x \in End |-> InTransit(x)][e]
  BY <1>2
<1>7. Channel!Deliver(e, m)
  BY <1>1, <1>4, <1>5, <1>6 DEF Channel!Deliver
<1> QED
  BY <1>1, <1>7 DEF m

LEMMA CloseMaps ==
    ASSUME TypeOK, NEW e \in End, EndJoinServer(e)
    PROVE  Channel!Close(e)
<1>1. /\ end_pc' = [end_pc EXCEPT ![e] = "done"]
      /\ UNCHANGED <<unsent, delivered, output_queue, outgoing, input_queue, incoming, instance, handlers>>
  BY DEF EndJoinServer, senderVars, receiverVars, serverVars
<1>2. [x \in End |-> InTransit(x)]' = [x \in End |-> InTransit(x)]
  BY <1>1 DEF InTransit
<1>3. [x \in End |-> end_pc[x] # "done"]' = [[x \in End |-> end_pc[x] # "done"] EXCEPT ![e] = FALSE]
  BY <1>1 DEF TypeOK
<1> QED
  BY <1>1, <1>2, <1>3 DEF Channel!Close

LEMMA StepMaps == ASSUME PipeInv, [Next]_vars PROVE [Channel!Next]_Channel!channelVars
<1> USE DEF senderVars, receiverVars, serverVars, endVars
<1>0. TypeOK
  BY DEF PipeInv, TypeInv
<1>1. ASSUME NEW e \in End, NEW m \in Text, Send(e, m) PROVE Channel!Next
  BY <1>1, SendMaps, PeerFacts, MessageFacts DEF Channel!Next
<1>2. ASSUME NEW e \in End, Dispatch(e), incoming[e] # Blank PROVE Channel!Next
  BY <1>2, DispatchMaps, MessageFacts DEF Channel!Next
<1>3. ASSUME NEW e \in End, EndJoinServer(e) PROVE Channel!Next
  BY <1>0, <1>3, CloseMaps DEF Channel!Next
<1> DEFINE Same == /\ UNCHANGED <<unsent, delivered>>
                   /\ \A x \in End : (end_pc[x] # "done")' = (end_pc[x] # "done")
<1>4. ASSUME ~(\E e \in End, m \in Text : Send(e, m)), Same PROVE Channel!Next
  BY <1>4, StepKeeps, QuietStepMaps DEF Channel!Next
<1>5. ASSUME NEW e \in End, OutputThread(e) PROVE Same
  BY <1>5 DEF OutputThread, OutputLoop, OutputPop, OpenPipe, OpenFails, WritePipe, WriteFails
<1>6. ASSUME NEW e \in End, Server(e) PROVE Same
  BY <1>6 DEF Server, ServerLoop, ServerCreate, ServerCreateFails, ServerConnect, ServerServe, ServerFailed
<1>7. ASSUME NEW e \in End, InputThread(e), ~(Dispatch(e) /\ incoming[e] # Blank) PROVE Same
  <2>1. CASE InputLoop(e) \/ InputPop(e)
    BY <2>1 DEF InputLoop, InputPop
  <2>2. CASE Dispatch(e) /\ incoming[e] = Blank
    BY <1>0, <2>2 DEF Dispatch, TypeOK
  <2> QED
    BY <1>7, <2>1, <2>2 DEF InputThread
<1>8. ASSUME NEW e \in End, NEW h \in handlers[e], HandlerRead(e, h) \/ HandlerClose(e, h) PROVE Same
  BY <1>8 DEF HandlerRead, HandlerClose
<1>9. ASSUME NEW e \in End, Start(e) \/ EndCall(e) \/ EndInterruptInput(e) \/ EndJoinInput(e)
                            \/ EndJoinOutput(e)
      PROVE  Same
  BY <1>0, <1>9 DEF Start, EndCall, EndInterruptInput, EndJoinInput, EndJoinOutput, TypeOK
<1>10. ASSUME NEW e \in End, Exit(e) PROVE Same
  BY <1>0, <1>10 DEF Exit, TypeOK
<1>11. ASSUME UNCHANGED vars PROVE Same
  BY <1>11 DEF vars
<1> HIDE DEF Same
<1>12. CASE \E e \in End, m \in Text : Send(e, m)
  BY <1>1, <1>12
<1>13. CASE ~(\E e \in End, m \in Text : Send(e, m))
  <2>1. ASSUME NEW e \in End, InputThread(e) PROVE Same \/ Channel!Next
    BY <1>2, <1>7, <2>1
  <2>2. ASSUME NEW e \in End, EndSteps(e) PROVE Same \/ Channel!Next
    BY <1>3, <1>9, <2>2 DEF EndSteps
  <2>3. ASSUME Next PROVE Same \/ Channel!Next
    BY <1>5, <1>6, <1>8, <1>9, <1>10, <1>13, <2>1, <2>2, <2>3 DEF Next
  <2> QED
    BY <1>4, <1>11, <1>13, <2>3
<1> QED
  BY <1>12, <1>13

(* The two ends implement MessageChannel: whatever fails, whichever end is *)
(* ended or exits and in whatever order the threads run, a message that is *)
(* sent is handed to the callback at most once, none is made up, and the   *)
(* callback is not called once end() has returned.                         *)
THEOREM PipeIsChannel == Spec => ImplementsChannel
<1>1. Init => Channel!Init
  BY InitMaps
<1>2. PipeInv /\ [Next]_vars => [Channel!Next]_Channel!channelVars
  BY StepMaps
<1> QED
  BY <1>1, <1>2, InvHolds, PTL DEF Spec, ImplementsChannel, Channel!Spec
=============================================================================
