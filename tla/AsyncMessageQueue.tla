-------------------------- MODULE AsyncMessageQueue --------------------------
(***************************************************************************)
(* The queue a producer and one consuming thread share                     *)
(* (common/interop/async_message_queue.h), as a value.  asleep: the        *)
(* consumer waits on message_ready.  Each operation is one critical        *)
(* section of queue_mutex; the notification that follows a section only    *)
(* wakes a consumer that already waits, so it is part of the same step.    *)
(***************************************************************************)
EXTENDS Sequences

CONSTANT Message

AsyncQueue == [message_queue : Seq(Message), interrupted : BOOLEAN, asleep : BOOLEAN]

EmptyQueue == [message_queue |-> <<>>, interrupted |-> FALSE, asleep |-> FALSE]

(* Mutant: the consumer is not notified. *)
MutSilentPush(q, m) == [q EXCEPT !.message_queue = Append(@, m)]

queue_message(q, m) == [q EXCEPT !.message_queue = Append(@, m), !.asleep = FALSE]

(* pop_message finds nothing and waits. *)
PopWaits(q) == ~q.asleep /\ ~q.interrupted /\ q.message_queue = <<>>
Sleep(q) == [q EXCEPT !.asleep = TRUE]

(* pop_message gives up, with the empty string, whatever is still queued. *)
PopEmpty(q) == ~q.asleep /\ q.interrupted

(* Mutant: a message stays in the queue when it is taken. *)
MutPopCopies(q) == q

(* pop_message takes the first message. *)
PopReady(q) == ~q.asleep /\ ~q.interrupted /\ q.message_queue # <<>>
Front(q) == Head(q.message_queue)
Pop(q) == [q EXCEPT !.message_queue = Tail(@)]

(* Mutant: a consumer that waits is not woken. *)
MutInterruptSilent(q) == [q EXCEPT !.interrupted = TRUE]

interrupt(q) == [q EXCEPT !.interrupted = TRUE, !.asleep = FALSE]
==============================================================================
