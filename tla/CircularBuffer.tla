--------------------------- MODULE CircularBuffer ---------------------------
(***************************************************************************)
(* The class circular_buffer of src/src/circular.h, in the instantiation   *)
(* the triqueue uses: always_accept_data_when_full = FALSE, so a push_back *)
(* on a full buffer takes neither branch that stores the item.             *)
(*                                                                         *)
(* A slot whose element was never constructed, or was destroyed, holds     *)
(* Raw: reading it is what the class must never make its user do.          *)
(***************************************************************************)
EXTENDS Naturals, Sequences

CONSTANTS Items,        \* the values stored
          Raw,          \* the contents of a slot that holds no object
          Capacity      \* array_size_, 100 in machine.h

\* The constructor starts with head_ = 1, a legal subscript from 2 slots on.
ASSUME CapacityAssumption == Capacity \in Nat /\ Capacity >= 2
ASSUME RawAssumption == Raw \notin Items

VARIABLES array,            \* array_: slot -> item or Raw
          head,             \* head_: subscript of the oldest item
          tail,             \* tail_: subscript of the newest item
          contents_size     \* contents_size_

bufferVars == <<array, head, tail, contents_size>>

Slots == 0 .. Capacity - 1

normalise(n) == n % Capacity

index_to_subscript(index) == normalise(index + head)

at_unchecked(index) == array[index_to_subscript(index)]

next_tail == IF tail + 1 = Capacity THEN 0 ELSE tail + 1

next_head == IF head + 1 = Capacity THEN 0 ELSE head + 1

HasRoom == contents_size < Capacity
-----------------------------------------------------------------------------
BufferInit ==
    /\ array = [s \in Slots |-> Raw]
    /\ head = 1
    /\ tail = 0
    /\ contents_size = 0

\* The item is stored only when there is room, but increment_tail() runs in
\* either case.
push_back(x) ==
    /\ array' = IF contents_size = Capacity
                THEN array
                ELSE [array EXCEPT ![next_tail] = x]
    /\ contents_size' = contents_size + 1
    /\ tail' = next_tail
    /\ UNCHANGED head

\* Mutant of pop_front: destroys after increment_head().
pop_front_destroys_next ==
    /\ contents_size > 0
    /\ head' = next_head
    /\ contents_size' = contents_size - 1
    /\ array' = [array EXCEPT ![next_head] = Raw]
    /\ UNCHANGED tail

\* increment_head() "precondition: !empty()": every user checks it first.
pop_front ==
    /\ contents_size > 0
    /\ head' = next_head
    /\ contents_size' = contents_size - 1
    /\ array' = [array EXCEPT ![head] = Raw]
    /\ UNCHANGED tail

\* Mutant of clear: head_ is not reset.
clear_keeps_head ==
    /\ array' = [s \in Slots |-> Raw]
    /\ tail' = 0
    /\ contents_size' = 0
    /\ UNCHANGED head

\* The elements at the positions 0 .. contents_size - 1 are destroyed.
clear ==
    /\ array' = [s \in Slots |->
                    IF \E n \in 0 .. contents_size - 1 : s = index_to_subscript(n)
                    THEN Raw ELSE array[s]]
    /\ head' = 1
    /\ tail' = 0
    /\ contents_size' = 0

\* A write through the reference that operator[] (or *iterator) returns.
assign_at(index, x) ==
    /\ index < contents_size
    /\ array' = [array EXCEPT ![index_to_subscript(index)] = x]
    /\ UNCHANGED <<head, tail, contents_size>>

-----------------------------------------------------------------------------
BufferTypeOK ==
    /\ array \in [Slots -> Items \cup {Raw}]
    /\ head \in Slots
    /\ tail \in Slots
    /\ contents_size \in 0 .. Capacity

(***************************************************************************)
(* A slot holds an object exactly when one of the positions of the buffer  *)
(* is mapped to it, so no operation reads a raw slot, constructs over a    *)
(* live object or destroys a dead one (push_back's construct, pop_front's  *)
(* and clear's destroy).                                                   *)
(***************************************************************************)
LiveSlots == {index_to_subscript(n) : n \in 0 .. contents_size - 1}

ObjectsAreLive == \A s \in Slots : (array[s] # Raw) <=> (s \in LiveSlots)

\* The sequence of items the buffer stands for, oldest first.
Contents == [i \in 1 .. contents_size |-> at_unchecked(i - 1)]

Fifo == INSTANCE BoundedFifo WITH contents <- Contents

(***************************************************************************)
(* Every operation of the class acts on the stored items as the bounded    *)
(* FIFO does: wrap-around never reorders, loses or duplicates an item.     *)
(***************************************************************************)
ImplementsFifo == Fifo!FifoSpec
=============================================================================
