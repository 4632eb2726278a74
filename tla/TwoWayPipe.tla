----------------------------- MODULE TwoWayPipe -----------------------------
(***************************************************************************)
(* Two TwoWayPipeMessageIPC objects talking to each other, one in the      *)
(* runner and one in the Settings process                                  *)
(* (common/interop/two_way_pipe_message_ipc.cpp).  Each has an output      *)
(* thread, an input thread, a thread that serves its input pipe and one    *)
(* detached thread per connection; every message travels over a            *)
(* connection of its own.  end() stops the first three threads.            *)
(*                                                                         *)
(* closed is an ordinary bool that several threads read while end()        *)
(* writes it; every loop that reads it calls functions the compiler cannot *)
(* look into, so that each reading sees the latest value.                  *)
(***************************************************************************)
EXTENDS AsyncMessageQueue

CONSTANTS
    Runner, Settings,   \* the two ends
    Blank,              \* the text of a message of which nothing was read
    NoMessage,          \* not a message
    Ending,             \* the ends whose program calls end()
    Exiting,            \* the ends whose process may exit
    Faults              \* may system calls on a sound pipe fail?

ASSUME EndsAssumption == Runner # Settings
ASSUME MessageAssumption == Blank \in Message /\ NoMessage \notin Message
ASSUME FaultsAssumption == Faults \in BOOLEAN

End == {Runner, Settings}
Peer(e) == IF e = Runner THEN Settings ELSE Runner
Text == Message \ {Blank}

VARIABLES
    alive,          \* the end's process
    unsent,         \* what is still to be sent to the end
    output_queue, input_queue,
    output_pc, outgoing,   \* output_queue_thread and the message it sends
    input_pc, incoming,    \* input_queue_thread and the message it has
    server_pc,      \* input_pipe_thread
    instance,       \* the pipe instance that thread holds, as a set
    handlers,       \* the threads in handle_pipe_connection
    closed, end_pc, \* the flag, and how far end() has got
    delivered       \* the messages the callback was called with

senderVars == <<output_queue, output_pc, outgoing>>
receiverVars == <<input_queue, input_pc, incoming, delivered>>
serverVars == <<server_pc, instance, handlers>>
endVars == <<closed, end_pc>>
vars == <<alive, unsent, senderVars, receiverVars, serverVars, endVars>>

(* A pipe instance, by the message its client has connected for: it waits  *)
(* for a client, the client's handle is open or it is closed.              *)
Instance == [for : Text \cup {NoMessage}, client : {"none", "open", "closed"},
             written : BOOLEAN]
Listening == [for |-> NoMessage, client |-> "none", written |-> FALSE]

(* A connection's thread reads and queues the message, then closes the     *)
(* instance.                                                               *)
Handler == [pipe : Instance, pc : {"read", "close"}]

Init ==
    /\ alive = [e \in End |-> TRUE]
    /\ unsent \in [End -> SUBSET Text]
    /\ output_queue = [e \in End |-> EmptyQueue]
    /\ input_queue = [e \in End |-> EmptyQueue]
    /\ output_pc = [e \in End |-> "off"]
    /\ outgoing = [e \in End |-> NoMessage]
    /\ input_pc = [e \in End |-> "off"]
    /\ incoming = [e \in End |-> NoMessage]
    /\ server_pc = [e \in End |-> "off"]
    /\ instance = [e \in End |-> {}]
    /\ handlers = [e \in End |-> {}]
    /\ closed = [e \in End |-> FALSE]
    /\ end_pc = [e \in End |-> "none"]
    /\ delivered = [e \in End |-> <<>>]

(* start(): the three threads begin, in any order. *)
Start(e) ==
    /\ alive[e]
    /\ output_pc[e] = "off"
    /\ output_pc' = [output_pc EXCEPT ![e] = "loop"]
    /\ input_pc' = [input_pc EXCEPT ![e] = "loop"]
    /\ server_pc' = [server_pc EXCEPT ![e] = "loop"]
    /\ UNCHANGED <<alive, unsent, output_queue, outgoing, input_queue, incoming,
                   delivered, instance, handlers, endVars>>

(* send(), which the program calls until it calls end(). *)
Send(e, m) ==
    /\ alive[e] /\ output_pc[e] # "off" /\ end_pc[e] = "none"
    /\ m \in unsent[Peer(e)]
    /\ unsent' = [unsent EXCEPT ![Peer(e)] = @ \ {m}]
    /\ output_queue' = [output_queue EXCEPT ![e] = queue_message(@, m)]
    /\ UNCHANGED <<alive, output_pc, outgoing, receiverVars, serverVars, endVars>>

---------------------------------------------------------------------------
(* consume_output_queue_thread and send_pipe_message *)

OutputLoop(e) ==
    /\ output_pc[e] = "loop"
    /\ output_pc' = [output_pc EXCEPT ![e] = IF closed[e] THEN "done" ELSE "pop"]
    /\ UNCHANGED <<alive, unsent, output_queue, outgoing, receiverVars, serverVars, endVars>>

OutputPop(e) ==
    /\ output_pc[e] = "pop"
    /\ LET q == output_queue[e]
       IN  \/ /\ PopReady(q)
              /\ output_queue' = [output_queue EXCEPT ![e] = Pop(q)]
              /\ outgoing' = [outgoing EXCEPT ![e] = Front(q)]
              /\ output_pc' = [output_pc EXCEPT ![e] = "open"]
           \/ /\ PopWaits(q)
              /\ output_queue' = [output_queue EXCEPT ![e] = Sleep(q)]
              /\ UNCHANGED <<outgoing, output_pc>>
           \/ /\ PopEmpty(q)
              /\ output_pc' = [output_pc EXCEPT ![e] = "done"]
              /\ UNCHANGED <<outgoing, output_queue>>
    /\ UNCHANGED <<alive, unsent, receiverVars, serverVars, endVars>>

(* CreateFile gets the instance that waits for a client; a ConnectNamedPipe *)
(* that was waiting too returns.                                            *)
OpenPipe(e) ==
    LET r == Peer(e)
    IN  /\ output_pc[e] = "open"
        /\ instance[r] = {Listening}
        /\ instance' = [instance EXCEPT ![r] =
               {[for |-> outgoing[e], client |-> "open", written |-> FALSE]}]
        /\ server_pc' = [server_pc EXCEPT ![r] = IF @ = "wait" THEN "connected" ELSE @]
        /\ output_pc' = [output_pc EXCEPT ![e] = "write"]
        /\ UNCHANGED <<alive, unsent, output_queue, outgoing, receiverVars, handlers, endVars>>

(* There is no pipe of that name, or every instance stays busy for 20      *)
(* seconds: the message is dropped.                                        *)
OpenFails(e) ==
    LET r == Peer(e)
    IN  /\ output_pc[e] = "open"
        /\ instance[r] # {Listening}
        /\ Faults \/ (instance[r] = {} /\ handlers[r] = {})
        /\ output_pc' = [output_pc EXCEPT ![e] = "loop"]
        /\ outgoing' = [outgoing EXCEPT ![e] = NoMessage]
        /\ UNCHANGED <<alive, unsent, output_queue, receiverVars, serverVars, endVars>>

(* The instance end r has for the client that is sending m, wherever it is. *)
Connected(i, m) == i.for = m /\ i.client = "open"
HasClient(r, m) == \/ \E i \in instance[r] : Connected(i, m)
                   \/ \E h \in handlers[r] : Connected(h.pipe, m)
ClientDone(r, m, done) ==
    /\ instance' = [instance EXCEPT ![r] =
           {IF Connected(i, m) THEN done ELSE i : i \in @}]
    /\ handlers' = [handlers EXCEPT ![r] =
           {IF Connected(h.pipe, m) THEN [h EXCEPT !.pipe = done] ELSE h : h \in @}]

(* The message is written and the handle is closed. *)
WritePipe(e) ==
    LET m == outgoing[e]
    IN  /\ output_pc[e] = "write"
        /\ HasClient(Peer(e), m)
        /\ ClientDone(Peer(e), m, [for |-> m, client |-> "closed", written |-> TRUE])
        /\ output_pc' = [output_pc EXCEPT ![e] = "loop"]
        /\ outgoing' = [outgoing EXCEPT ![e] = NoMessage]
        /\ UNCHANGED <<alive, unsent, output_queue, receiverVars, server_pc, endVars>>

(* SetNamedPipeHandleState or WriteFile fails: the message is dropped and  *)
(* the handle is never closed.                                             *)
WriteFails(e) ==
    /\ output_pc[e] = "write"
    /\ Faults \/ ~HasClient(Peer(e), outgoing[e])
    /\ output_pc' = [output_pc EXCEPT ![e] = "loop"]
    /\ outgoing' = [outgoing EXCEPT ![e] = NoMessage]
    /\ UNCHANGED <<alive, unsent, output_queue, receiverVars, serverVars, endVars>>

OutputThread(e) == \/ OutputLoop(e) \/ OutputPop(e) \/ OpenPipe(e) \/ OpenFails(e)
                   \/ WritePipe(e) \/ WriteFails(e)

---------------------------------------------------------------------------
(* start_named_pipe_server.  current_connect_pipe_handle is set from       *)
(* ServerCreate to ServerServe or ServerFailed.                            *)

ServerLoop(e) ==
    /\ server_pc[e] = "loop"
    /\ server_pc' = [server_pc EXCEPT ![e] = IF closed[e] THEN "done" ELSE "create"]
    /\ UNCHANGED <<alive, unsent, senderVars, receiverVars, instance, handlers, endVars>>

ServerCreate(e) ==
    /\ server_pc[e] = "create"
    /\ instance' = [instance EXCEPT ![e] = {Listening}]
    /\ server_pc' = [server_pc EXCEPT ![e] = "connect"]
    /\ UNCHANGED <<alive, unsent, senderVars, receiverVars, handlers, endVars>>

(* CreateNamedPipe fails: the thread returns. *)
ServerCreateFails(e) ==
    /\ server_pc[e] = "create"
    /\ Faults
    /\ server_pc' = [server_pc EXCEPT ![e] = "done"]
    /\ UNCHANGED <<alive, unsent, senderVars, receiverVars, instance, handlers, endVars>>

(* ConnectNamedPipe waits for a client, or finds that one has connected    *)
(* since the instance was created (ERROR_PIPE_CONNECTED) or has even       *)
(* closed its handle again (ERROR_NO_DATA).                                *)
ServerConnect(e) ==
    /\ server_pc[e] = "connect"
    /\ \E i \in instance[e] :
          server_pc' = [server_pc EXCEPT ![e] = CASE i.client = "none" -> "wait"
                                                  [] i.client = "open" -> "connected"
                                                  [] OTHER -> "failed"]
    /\ UNCHANGED <<alive, unsent, senderVars, receiverVars, instance, handlers, endVars>>

(* The handle is taken back and a thread is started for the connection. *)
ServerServe(e) ==
    /\ server_pc[e] = "connected"
    /\ handlers' = [handlers EXCEPT ![e] =
                       @ \cup {[pipe |-> i, pc |-> "read"] : i \in instance[e]}]
    /\ instance' = [instance EXCEPT ![e] = {}]
    /\ server_pc' = [server_pc EXCEPT ![e] = "loop"]
    /\ UNCHANGED <<alive, unsent, senderVars, receiverVars, endVars>>

(* The handle is taken back and closed, with whatever was written to it. *)
ServerFailed(e) ==
    /\ server_pc[e] = "failed"
    /\ instance' = [instance EXCEPT ![e] = {}]
    /\ server_pc' = [server_pc EXCEPT ![e] = "loop"]
    /\ UNCHANGED <<alive, unsent, senderVars, receiverVars, handlers, endVars>>

Server(e) == \/ ServerLoop(e) \/ ServerCreate(e) \/ ServerCreateFails(e)
             \/ ServerConnect(e) \/ ServerServe(e) \/ ServerFailed(e)

(* handle_pipe_connection.  A client that went away without writing leaves *)
(* a buffer of zeros that is not trimmed.                                  *)
HandlerRead(e, h) ==
    /\ h \in handlers[e] /\ h.pc = "read"
    /\ h.pipe.client = "closed"
    /\ input_queue' = [input_queue EXCEPT ![e] =
                          queue_message(@, IF h.pipe.written THEN h.pipe.for ELSE Blank)]
    /\ handlers' = [handlers EXCEPT ![e] = (@ \ {h}) \cup {[h EXCEPT !.pc = "close"]}]
    /\ UNCHANGED <<alive, unsent, senderVars, input_pc, incoming, delivered,
                   server_pc, instance, endVars>>

HandlerClose(e, h) ==
    /\ h \in handlers[e] /\ h.pc = "close"
    /\ handlers' = [handlers EXCEPT ![e] = @ \ {h}]
    /\ UNCHANGED <<alive, unsent, senderVars, receiverVars, server_pc, instance, endVars>>

---------------------------------------------------------------------------
(* consume_input_queue_thread *)

InputLoop(e) ==
    /\ input_pc[e] = "loop"
    /\ input_pc' = [input_pc EXCEPT ![e] = IF closed[e] THEN "done" ELSE "pop"]
    /\ UNCHANGED <<alive, unsent, senderVars, input_queue, incoming, delivered, serverVars, endVars>>

InputPop(e) ==
    /\ input_pc[e] = "pop"
    /\ LET q == input_queue[e]
       IN  \/ /\ PopReady(q)
              /\ input_queue' = [input_queue EXCEPT ![e] = Pop(q)]
              /\ incoming' = [incoming EXCEPT ![e] = Front(q)]
              /\ input_pc' = [input_pc EXCEPT ![e] = "dispatch"]
           \/ /\ PopWaits(q)
              /\ input_queue' = [input_queue EXCEPT ![e] = Sleep(q)]
              /\ UNCHANGED <<incoming, input_pc>>
           \/ /\ PopEmpty(q)
              /\ input_pc' = [input_pc EXCEPT ![e] = "done"]
              /\ UNCHANGED <<incoming, input_queue>>
    /\ UNCHANGED <<alive, unsent, senderVars, delivered, serverVars, endVars>>

(* Mutant: the callback takes a text of zeros for a message. *)
MutDispatchBlank(e) ==
    /\ input_pc[e] = "dispatch"
    /\ delivered' = [delivered EXCEPT ![e] = Append(@, incoming[e])]
    /\ incoming' = [incoming EXCEPT ![e] = NoMessage]
    /\ input_pc' = [input_pc EXCEPT ![e] = "loop"]
    /\ UNCHANGED <<alive, unsent, senderVars, input_queue, serverVars, endVars>>

(* The callback; neither program's makes anything of a text of zeros. *)
Dispatch(e) ==
    /\ input_pc[e] = "dispatch"
    /\ delivered' = [delivered EXCEPT ![e] =
                        IF incoming[e] = Blank THEN @ ELSE Append(@, incoming[e])]
    /\ incoming' = [incoming EXCEPT ![e] = NoMessage]
    /\ input_pc' = [input_pc EXCEPT ![e] = "loop"]
    /\ UNCHANGED <<alive, unsent, senderVars, input_queue, serverVars, endVars>>

InputThread(e) == InputLoop(e) \/ InputPop(e) \/ Dispatch(e)

---------------------------------------------------------------------------
(* end(), called once, by a thread of its own program *)

EndCall(e) ==
    /\ e \in Ending
    /\ alive[e] /\ output_pc[e] # "off" /\ end_pc[e] = "none"
    /\ closed' = [closed EXCEPT ![e] = TRUE]
    /\ end_pc' = [end_pc EXCEPT ![e] = "interrupt_input"]
    /\ UNCHANGED <<alive, unsent, senderVars, receiverVars, serverVars>>

EndInterruptInput(e) ==
    /\ end_pc[e] = "interrupt_input"
    /\ input_queue' = [input_queue EXCEPT ![e] = interrupt(@)]
    /\ end_pc' = [end_pc EXCEPT ![e] = "join_input"]
    /\ UNCHANGED <<alive, unsent, senderVars, input_pc, incoming, delivered, serverVars, closed>>

(* input_queue_thread is joined and the output queue interrupted. *)
EndJoinInput(e) ==
    /\ end_pc[e] = "join_input"
    /\ input_pc[e] = "done"
    /\ output_queue' = [output_queue EXCEPT ![e] = interrupt(@)]
    /\ end_pc' = [end_pc EXCEPT ![e] = "join_output"]
    /\ UNCHANGED <<alive, unsent, output_pc, outgoing, receiverVars, serverVars, closed>>

(* output_queue_thread is joined; CancelIoEx ends a ConnectNamedPipe that  *)
(* waits at that moment.                                                   *)
EndJoinOutput(e) ==
    /\ end_pc[e] = "join_output"
    /\ output_pc[e] = "done"
    /\ server_pc' = [server_pc EXCEPT ![e] = IF @ = "wait" THEN "failed" ELSE @]
    /\ end_pc' = [end_pc EXCEPT ![e] = "join_server"]
    /\ UNCHANGED <<alive, unsent, senderVars, receiverVars, instance, handlers, closed>>

EndJoinServer(e) ==
    /\ end_pc[e] = "join_server"
    /\ server_pc[e] = "done"
    /\ end_pc' = [end_pc EXCEPT ![e] = "done"]
    /\ UNCHANGED <<alive, unsent, senderVars, receiverVars, serverVars, closed>>

EndSteps(e) == \/ EndInterruptInput(e) \/ EndJoinInput(e) \/ EndJoinOutput(e)
               \/ EndJoinServer(e)

(* The process ends: its threads and its pipe are gone and its handles     *)
(* are closed.                                                             *)
Exit(e) ==
    /\ e \in Exiting
    /\ alive[e]
    /\ alive' = [alive EXCEPT ![e] = FALSE]
    /\ output_queue' = [output_queue EXCEPT ![e] = EmptyQueue]
    /\ input_queue' = [input_queue EXCEPT ![e] = EmptyQueue]
    /\ output_pc' = [output_pc EXCEPT ![e] = "off"]
    /\ input_pc' = [input_pc EXCEPT ![e] = "off"]
    /\ server_pc' = [server_pc EXCEPT ![e] = "off"]
    /\ outgoing' = [outgoing EXCEPT ![e] = NoMessage]
    /\ incoming' = [incoming EXCEPT ![e] = NoMessage]
    /\ LET Close(i) == IF i.client = "open" THEN [i EXCEPT !.client = "closed"] ELSE i
       IN  /\ instance' = [x \in End |-> IF x = e THEN {} ELSE {Close(i) : i \in instance[x]}]
           /\ handlers' = [x \in End |-> IF x = e THEN {}
                 ELSE {[h EXCEPT !.pipe = Close(h.pipe)] : h \in handlers[x]}]
    /\ end_pc' = [end_pc EXCEPT ![e] = IF @ = "done" THEN @ ELSE "dead"]
    /\ UNCHANGED <<unsent, delivered, closed>>

Next == \E e \in End :
    \/ Start(e) \/ OutputThread(e) \/ Server(e) \/ InputThread(e)
    \/ \E m \in Text : Send(e, m)
    \/ \E h \in handlers[e] : HandlerRead(e, h) \/ HandlerClose(e, h)
    \/ EndCall(e) \/ EndSteps(e) \/ Exit(e)

Spec == Init /\ [][Next]_vars

---------------------------------------------------------------------------
(* Type invariant of the two ends' state. *)
TypeOK ==
    /\ alive \in [End -> BOOLEAN]
    /\ unsent \in [End -> SUBSET Text]
    /\ output_queue \in [End -> AsyncQueue] /\ input_queue \in [End -> AsyncQueue]
    /\ output_pc \in [End -> {"off", "loop", "pop", "open", "write", "done"}]
    /\ outgoing \in [End -> Text \cup {NoMessage}]
    /\ input_pc \in [End -> {"off", "loop", "pop", "dispatch", "done"}]
    /\ incoming \in [End -> Message \cup {NoMessage}]
    /\ server_pc \in [End -> {"off", "loop", "create", "connect", "wait",
                              "connected", "failed", "done"}]
    /\ instance \in [End -> SUBSET Instance]
    /\ handlers \in [End -> SUBSET Handler]
    /\ closed \in [End -> BOOLEAN]
    /\ end_pc \in [End -> {"none", "interrupt_input", "join_input", "join_output",
                           "join_server", "done", "dead"}]
    /\ delivered \in [End -> Seq(Text)]

(* Where a message to end e may be on its way. *)
Queued(q) == {q.message_queue[k] : k \in DOMAIN q.message_queue}
InTransit(e) ==
    ( Queued(output_queue[Peer(e)]) \cup {outgoing[Peer(e)]}
      \cup {i.for : i \in {j \in instance[e] : j.written}}
      \cup {h.pipe.for : h \in {g \in handlers[e] : g.pipe.written /\ g.pc = "read"}}
      \cup Queued(input_queue[e]) \cup {incoming[e]} ) \cap Text

Channel == INSTANCE MessageChannel
    WITH transit <- [e \in End |-> InTransit(e)],
         open <- [e \in End |-> end_pc[e] # "done"]

(* The two ends implement MessageChannel: over all the queues, threads and *)
(* connections a message passes through it is neither duplicated nor made  *)
(* up, and the callback is silent once end() has returned.                 *)
ImplementsChannel == Channel!Spec

---------------------------------------------------------------------------
(* Liveness: every thread that can take a step takes one.  The program     *)
(* starts its end, sends what it has to send and need not end or exit.     *)
Fairness == \A e \in End :
    /\ WF_vars(OutputThread(e)) /\ WF_vars(Server(e)) /\ WF_vars(InputThread(e))
    /\ WF_vars(\E h \in handlers[e] : HandlerRead(e, h) \/ HandlerClose(e, h))
    /\ WF_vars(EndSteps(e))
    /\ WF_vars(Start(e)) /\ WF_vars(\E m \in Text : Send(e, m))

FairSpec == Spec /\ Fairness

Done(e, m) == \E k \in DOMAIN delivered[e] : delivered[e][k] = m
Gone(e) == closed[e] \/ ~alive[e]

(* A message a connection's thread has to read gets to the callback unless *)
(* that end is ended: no wake-up of the input thread is lost.              *)
ReceivedGetsDispatched == \A e \in End, m \in Text :
    (\E h \in handlers[e] : h.pipe.written /\ h.pipe.for = m) ~> (Done(e, m) \/ Gone(e))

(* end() gets past the joins of both queues' threads, whatever the peer    *)
(* does: neither waits for a message that does not come or for a pipe.     *)
EndPassesQueues == \A e \in End :
    end_pc[e] = "interrupt_input" ~> end_pc[e] \in {"join_server", "done", "dead"}

(* "Cancels the Pipe currently waiting for a connection": end() returns. *)
EndReturns == \A e \in End : closed[e] ~> end_pc[e] \in {"done", "dead"}
=============================================================================
