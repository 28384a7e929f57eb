------------------------------ MODULE TriQueue ------------------------------
(***************************************************************************)
(* The class triqueue_t of src/src/triqueue.h: one circular buffer and two *)
(* iterators into it.  An iterator is a position counted from the head of  *)
(* the buffer (circular.h:87-163), so a pop makes it point one item later  *)
(* and pop() has to move both back.                                        *)
(*                                                                         *)
(* The user here is the one the class is written for: it does not push     *)
(* into a full buffer, and it looks (can_pop) before it pops.              *)
(***************************************************************************)
EXTENDS CircularBuffer

VARIABLES end_output,    \* position after the last item of the output part
          end_internal   \* position after the last item of the middle part

triqueueVars == <<bufferVars, end_output, end_internal>>

can_pop == end_output # 0
middle_empty == end_internal = end_output
third_empty == end_internal = contents_size
-----------------------------------------------------------------------------
TriQueueInit == BufferInit /\ end_output = 0 /\ end_internal = 0

push(x) ==
    /\ HasRoom
    /\ push_back(x)
    /\ UNCHANGED <<end_output, end_internal>>

\* Mutant of pop: one of the two iterators is not moved back.
pop_moves_one ==
    /\ can_pop
    /\ pop_front
    /\ end_output' = end_output - 1
    /\ UNCHANGED end_internal

pop ==
    /\ can_pop
    /\ pop_front
    /\ end_output' = end_output - 1
    /\ end_internal' = end_internal - 1

move_to_first ==
    /\ ~middle_empty
    /\ end_output' = end_output + 1
    /\ UNCHANGED <<bufferVars, end_internal>>

move_to_second ==
    /\ ~third_empty
    /\ end_internal' = end_internal + 1
    /\ UNCHANGED <<bufferVars, end_output>>

\* Mutant of rewind_middle: assigns the other way round.
rewind_middle_forwards ==
    /\ end_output' = end_internal
    /\ UNCHANGED <<bufferVars, end_internal>>

rewind_middle ==
    /\ end_internal' = end_output
    /\ UNCHANGED <<bufferVars, end_output>>

\* rewrite_event on the item that peek_middle() returns by reference.
rewrite_middle(x) ==
    /\ ~middle_empty
    /\ assign_at(end_output, x)
    /\ UNCHANGED <<end_output, end_internal>>

\* rewrite_event on the item of peek_third(), its const cast away.
rewrite_third(x) ==
    /\ ~third_empty
    /\ assign_at(end_internal, x)
    /\ UNCHANGED <<end_output, end_internal>>

\* The machine that owns the queue is deleted with what is in it, and a new one
\* is constructed: ~circular_buffer, which destroys as clear() does.
recreate ==
    /\ clear
    /\ end_output' = 0
    /\ end_internal' = 0

TriQueueNext ==
    \/ \E x \in Items : push(x) \/ rewrite_middle(x) \/ rewrite_third(x)
    \/ pop
    \/ move_to_first
    \/ move_to_second
    \/ rewind_middle
    \/ recreate

TriQueueSpec == TriQueueInit /\ [][TriQueueNext]_triqueueVars
-----------------------------------------------------------------------------
(***************************************************************************)
(* The iterators stay inside the buffer and in order, so no operation      *)
(* dereferences a position that holds no item (at_unchecked does not       *)
(* look).                                                                  *)
(***************************************************************************)
IteratorsInOrder ==
    /\ BufferTypeOK
    /\ end_output \in Nat /\ end_internal \in Nat
    /\ end_output <= end_internal
    /\ end_internal <= contents_size

Part(from, to) == [i \in 1 .. to - from |-> at_unchecked(from + i - 1)]

Queues == INSTANCE ThreeQueues WITH
    q <- [output   |-> Part(0, end_output),
          internal |-> Part(end_output, end_internal),
          input    |-> Part(end_internal, contents_size)]

(***************************************************************************)
(* Two positions in a ring behave as the three sequences of the drawing in *)
(* machine.h:133-147: a pop, which renumbers every position, a push that   *)
(* wraps around, a rewind and a write in place leave every other item in   *)
(* its queue and in its order.                                             *)
(***************************************************************************)
ImplementsThreeQueues == Queues!QueuesSpec
=============================================================================
