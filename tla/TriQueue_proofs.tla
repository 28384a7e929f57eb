-------------------------- MODULE TriQueue_proofs --------------------------
(***************************************************************************)
(* The three-part queue, for every capacity and every set of items: its    *)
(* iterators stay in the buffer, in order; no slot is used that holds no   *)
(* object; the buffer is a FIFO; and the two iterators in it are the three *)
(* queues of ThreeQueues.                                                  *)
(***************************************************************************)
EXTENDS TriQueue, SequenceTheorems, TLAPS

\* Subscripts that are moved on are subscripts.
LEMMA SubscriptsMove ==
    ASSUME head \in Slots, tail \in Slots
    PROVE  next_head \in Slots /\ next_tail \in Slots
BY CapacityAssumption DEF Slots, next_head, next_tail

\* The subscript of a position is one of a slot.
LEMMA SubscriptInSlots ==
    ASSUME head \in Slots, NEW index \in Nat
    PROVE  index_to_subscript(index) \in Slots
<1>1. index + head \in Nat
  BY CapacityAssumption DEF Slots
<1>2. (index + head) % Capacity \in 0 .. Capacity - 1
  BY <1>1, CapacityAssumption
<1>3. QED
  BY <1>2 DEF index_to_subscript, normalise, Slots

\* A write through a reference keeps the types of the buffer.
LEMMA AssignKeepsTypes ==
    ASSUME BufferTypeOK, NEW x \in Items, NEW index \in Nat, assign_at(index, x)
    PROVE  BufferTypeOK'
BY SubscriptInSlots DEF assign_at, BufferTypeOK

LEMMA TriQueueInitOK == TriQueueInit => IteratorsInOrder
BY CapacityAssumption
   DEF TriQueueInit, BufferInit, IteratorsInOrder, BufferTypeOK, Slots

LEMMA TriQueueNextOK == IteratorsInOrder /\ [TriQueueNext]_triqueueVars => IteratorsInOrder'
<1> SUFFICES ASSUME IteratorsInOrder, [TriQueueNext]_triqueueVars PROVE IteratorsInOrder'
  OBVIOUS
<1> USE DEF IteratorsInOrder
<1>1. ASSUME NEW x \in Items, push(x) PROVE IteratorsInOrder'
  <2>1. next_tail \in Slots
    BY SubscriptsMove DEF BufferTypeOK
  <2>2. BufferTypeOK'
    BY <1>1, <2>1, CapacityAssumption DEF push, push_back, HasRoom, BufferTypeOK
  <2>3. QED
    BY <1>1, <2>2, CapacityAssumption DEF push, push_back, BufferTypeOK
<1>2. CASE pop
  <2>1. next_head \in Slots
    BY SubscriptsMove DEF BufferTypeOK
  <2>2. BufferTypeOK'
    BY <1>2, <2>1, CapacityAssumption DEF pop, pop_front, BufferTypeOK
  <2>3. QED
    BY <1>2, <2>2, CapacityAssumption DEF pop, pop_front, can_pop, BufferTypeOK
<1>3. CASE move_to_first \/ move_to_second \/ rewind_middle
  <2>1. UNCHANGED bufferVars
    BY <1>3 DEF move_to_first, move_to_second, rewind_middle
  <2>2. BufferTypeOK'
    BY <2>1 DEF bufferVars, BufferTypeOK
  <2>3. contents_size \in Nat /\ contents_size' = contents_size
    BY <2>1, CapacityAssumption DEF bufferVars, BufferTypeOK
  <2>4. QED
    BY <1>3, <2>2, <2>3
       DEF move_to_first, move_to_second, rewind_middle, middle_empty, third_empty
<1>4. ASSUME NEW x \in Items, rewrite_middle(x) \/ rewrite_third(x)
      PROVE  IteratorsInOrder'
  <2>1. BufferTypeOK'
    BY <1>4, AssignKeepsTypes DEF rewrite_middle, rewrite_third
  <2>2. UNCHANGED <<end_output, end_internal, contents_size>>
    BY <1>4 DEF rewrite_middle, rewrite_third, assign_at
  <2>3. QED
    BY <2>1, <2>2
<1>5. CASE recreate
  <2>1. BufferTypeOK'
    BY <1>5, CapacityAssumption DEF recreate, clear, BufferTypeOK, Slots
  <2>2. QED
    BY <1>5, <2>1 DEF recreate, clear
<1>6. CASE UNCHANGED triqueueVars
  BY <1>6 DEF triqueueVars, bufferVars, BufferTypeOK
<1>7. QED
  BY <1>1, <1>2, <1>3, <1>4, <1>5, <1>6 DEF TriQueueNext

(***************************************************************************)
(* Whatever is pushed, popped, moved, rewound or rewritten, both saved     *)
(* positions name items that are in the buffer or its end, and the         *)
(* subscripts stay legal: at_unchecked may be unchecked.                   *)
(***************************************************************************)
THEOREM IteratorsStayInOrder == TriQueueSpec => []IteratorsInOrder
BY TriQueueInitOK, TriQueueNextOK, PTL DEF TriQueueSpec
-----------------------------------------------------------------------------
(***************************************************************************)
(* The ring.  Head, tail and size are three variables for two positions:   *)
(* the next item goes where the position behind the last one is mapped to. *)
(***************************************************************************)
TailFollows == next_tail = index_to_subscript(contents_size)

RingInv == IteratorsInOrder /\ TailFollows /\ ObjectsAreLive

\* One turn of the ring: what % does to a subscript below twice the capacity.
LEMMA Wraps ==
    ASSUME NEW n \in 0 .. 2 * Capacity - 1
    PROVE  normalise(n) = IF n < Capacity THEN n ELSE n - Capacity
<1>1. Capacity \in Nat /\ Capacity >= 2
  BY CapacityAssumption
<1>2. CASE n < Capacity
  BY <1>1, <1>2, SMTT(30) DEF normalise
<1>3. CASE n >= Capacity
  BY <1>1, <1>3, SMTT(30) DEF normalise
<1>4. QED
  BY <1>1, <1>2, <1>3

\* The subscript of the position n counted from the slot h.
SlotOf(h, n) == IF n + h < Capacity THEN n + h ELSE n + h - Capacity

LEMMA NormaliseIsSlot ==
    ASSUME NEW h \in Slots, NEW n \in 0 .. Capacity
    PROVE  normalise(n + h) = SlotOf(h, n)
<1>1. n + h \in 0 .. 2 * Capacity - 1
  BY CapacityAssumption DEF Slots
<1>2. normalise(n + h) = IF n + h < Capacity THEN n + h ELSE n + h - Capacity
  BY <1>1, Wraps, CapacityAssumption DEF Slots
<1>3. QED
  BY <1>2, CapacityAssumption DEF SlotOf, Slots

LEMMA PositionsAreSlots ==
    ASSUME NEW h \in Slots, NEW size \in 0 .. Capacity
    PROVE  \A n \in 0 .. size - 1 : normalise(n + h) = SlotOf(h, n)
<1>1. 0 .. size - 1 \subseteq 0 .. Capacity
  BY CapacityAssumption
<1>2. QED
  BY <1>1, NormaliseIsSlot

LEMMA SubscriptIsSlot ==
    ASSUME head \in Slots, NEW n \in 0 .. Capacity
    PROVE  index_to_subscript(n) = SlotOf(head, n)
BY NormaliseIsSlot DEF index_to_subscript

\* Different positions are in different slots.
LEMMA SlotsDiffer ==
    ASSUME NEW h \in Slots, NEW m \in 0 .. Capacity - 1, NEW n \in 0 .. Capacity - 1,
           SlotOf(h, m) = SlotOf(h, n)
    PROVE  m = n
BY CapacityAssumption DEF Slots, SlotOf

LEMMA SlotOfIsSlot ==
    ASSUME NEW h \in Slots, NEW n \in 0 .. Capacity
    PROVE  SlotOf(h, n) \in Slots
BY CapacityAssumption DEF Slots, SlotOf

\* What the types say about the sizes, without the arrays.
LEMMA Sizes ==
    ASSUME IteratorsInOrder
    PROVE  /\ contents_size \in Nat /\ contents_size <= Capacity
           /\ end_output \in Nat /\ end_internal \in Nat
           /\ end_output <= end_internal /\ end_internal <= contents_size
           /\ head \in Slots /\ tail \in Slots
           /\ Capacity \in Nat /\ Capacity >= 2
BY CapacityAssumption DEF IteratorsInOrder, BufferTypeOK

\* ObjectsAreLive with the subscripts worked out.
LEMMA LiveMeansSlot ==
    ASSUME IteratorsInOrder
    PROVE  ObjectsAreLive <=>
               \A s \in Slots : (array[s] # Raw) <=>
                   \E n \in 0 .. contents_size - 1 : s = SlotOf(head, n)
<1>1. \A n \in 0 .. contents_size - 1 : index_to_subscript(n) = SlotOf(head, n)
  BY Sizes, SubscriptIsSlot
<1>2. QED
  BY <1>1 DEF ObjectsAreLive, LiveSlots

LEMMA LiveMeansSlotNext ==
    ASSUME IteratorsInOrder'
    PROVE  ObjectsAreLive' <=>
               \A s \in Slots : (array'[s] # Raw) <=>
                   \E n \in 0 .. contents_size' - 1 : s = SlotOf(head', n)
<1>1. head' \in Slots /\ contents_size' \in 0 .. Capacity
  BY DEF IteratorsInOrder, BufferTypeOK
<1>2. \A n \in 0 .. contents_size' - 1 : normalise(n + head') = SlotOf(head', n)
  BY <1>1, PositionsAreSlots
<1>3. ObjectsAreLive' <=>
          \A s \in Slots : (array'[s] # Raw) <=>
              s \in {normalise(n + head') : n \in 0 .. contents_size' - 1}
  BY DEF ObjectsAreLive, LiveSlots, index_to_subscript
<1>4. QED
  BY <1>2, <1>3
-----------------------------------------------------------------------------
LEMMA RingInit == TriQueueInit => RingInv
<1> SUFFICES ASSUME TriQueueInit PROVE RingInv
  OBVIOUS
<1>1. IteratorsInOrder
  BY TriQueueInitOK
<1>2. TailFollows
  <2>1. index_to_subscript(0) = SlotOf(1, 0)
    BY <1>1, Sizes, SubscriptIsSlot DEF TriQueueInit, BufferInit
  <2>2. QED
    BY <2>1, CapacityAssumption DEF TailFollows, next_tail, SlotOf, TriQueueInit, BufferInit
<1>3. ObjectsAreLive
  BY <1>1, LiveMeansSlot DEF TriQueueInit, BufferInit
<1>4. QED
  BY <1>1, <1>2, <1>3 DEF RingInv

LEMMA PushKeepsRing ==
    ASSUME RingInv, IteratorsInOrder', NEW x \in Items, push(x)
    PROVE  RingInv'
<1>1. /\ contents_size < Capacity /\ contents_size' = contents_size + 1
      /\ array' = [array EXCEPT ![next_tail] = x]
      /\ head' = head
      /\ tail' = next_tail
  BY Sizes DEF RingInv, push, push_back, HasRoom
<1>2. next_tail = SlotOf(head, contents_size) /\ next_tail \in Slots
  BY <1>1, Sizes, SubscriptIsSlot, SlotOfIsSlot DEF RingInv, TailFollows
<1>3. TailFollows'
  <2>1. head' \in Slots /\ contents_size + 1 \in 0 .. Capacity
    BY <1>1, Sizes DEF RingInv
  <2>2. index_to_subscript(contents_size)' = SlotOf(head, contents_size + 1)
    BY <1>1, <2>1, NormaliseIsSlot DEF index_to_subscript
  <2>3. next_tail' = IF next_tail + 1 = Capacity THEN 0 ELSE next_tail + 1
    BY <1>1 DEF next_tail
  <2>4. QED
    BY <1>1, <1>2, <2>2, <2>3, Sizes DEF TailFollows, SlotOf, Slots, RingInv
<1>4. ObjectsAreLive'
  <2>1. \A s \in Slots : (array[s] # Raw) <=>
            \E n \in 0 .. contents_size - 1 : s = SlotOf(head, n)
    BY LiveMeansSlot DEF RingInv
  <2>2. SUFFICES ASSUME NEW s \in Slots
                 PROVE  (array'[s] # Raw) <=>
                            \E n \in 0 .. contents_size : s = SlotOf(head, n)
    BY <1>1, LiveMeansSlotNext, Sizes DEF RingInv
  <2>3. array'[s] = IF s = SlotOf(head, contents_size) THEN x ELSE array[s]
    BY <1>1, <1>2 DEF RingInv, IteratorsInOrder, BufferTypeOK
  <2>4. x # Raw
    BY RawAssumption
  <2>5. 0 .. contents_size = (0 .. contents_size - 1) \cup {contents_size}
    BY Sizes DEF RingInv
  <2>6. QED
    BY <2>1, <2>3, <2>4, <2>5
<1>5. QED
  BY <1>3, <1>4 DEF RingInv

\* The head moves on and every position with it: the one before is the next one.
LEMMA SlotAfterPop ==
    ASSUME IteratorsInOrder, NEW n \in 0 .. Capacity - 1
    PROVE  /\ next_head \in Slots
           /\ SlotOf(next_head, n) = SlotOf(head, n + 1)
BY Sizes DEF next_head, SlotOf, Slots

LEMMA PopKeepsRing ==
    ASSUME RingInv, IteratorsInOrder', pop
    PROVE  RingInv'
<1>1. /\ contents_size > 0 /\ contents_size' = contents_size - 1
      /\ array' = [array EXCEPT ![head] = Raw]
      /\ head' = next_head
      /\ tail' = tail
  BY DEF pop, pop_front
<1>2. TailFollows'
  <2>1. /\ head' \in Slots
        /\ contents_size - 1 \in 0 .. Capacity - 1 /\ contents_size - 1 \in 0 .. Capacity
    BY <1>1, Sizes, SubscriptsMove DEF RingInv
  <2>2. index_to_subscript(contents_size)' = SlotOf(next_head, contents_size - 1)
    BY <1>1, <2>1, NormaliseIsSlot DEF index_to_subscript
  <2>3. index_to_subscript(contents_size) = SlotOf(head, contents_size)
    BY Sizes, SubscriptIsSlot DEF RingInv
  <2>4. next_tail' = next_tail
    BY <1>1 DEF next_tail
  <2>5. SlotOf(next_head, contents_size - 1) = SlotOf(head, contents_size)
    <3>1. (contents_size - 1) + 1 = contents_size
      BY Sizes DEF RingInv
    <3>2. SlotOf(next_head, contents_size - 1) = SlotOf(head, (contents_size - 1) + 1)
      BY <2>1, SlotAfterPop DEF RingInv
    <3>3. QED
      BY <3>1, <3>2
  <2>6. QED
    BY <2>2, <2>3, <2>4, <2>5 DEF TailFollows, RingInv
<1>3. ObjectsAreLive'
  <2>1. \A s \in Slots : (array[s] # Raw) <=>
            \E n \in 0 .. contents_size - 1 : s = SlotOf(head, n)
    BY LiveMeansSlot DEF RingInv
  <2>2. SUFFICES ASSUME NEW s \in Slots
                 PROVE  (array'[s] # Raw) <=>
                            \E n \in 0 .. contents_size - 2 : s = SlotOf(next_head, n)
    BY <1>1, LiveMeansSlotNext, Sizes DEF RingInv
  <2>3. array'[s] = IF s = head THEN Raw ELSE array[s]
    BY <1>1 DEF RingInv, IteratorsInOrder, BufferTypeOK
  <2>4. (\E n \in 0 .. contents_size - 2 : s = SlotOf(next_head, n)) <=>
            \E n \in 1 .. contents_size - 1 : s = SlotOf(head, n)
    <3>1. \A n \in 0 .. contents_size - 2 :
              SlotOf(next_head, n) = SlotOf(head, n + 1) /\ n + 1 \in 1 .. contents_size - 1
      BY Sizes, SlotAfterPop DEF RingInv
    <3>2. \A n \in 1 .. contents_size - 1 :
              SlotOf(next_head, n - 1) = SlotOf(head, n) /\ n - 1 \in 0 .. contents_size - 2
      BY Sizes, SlotAfterPop DEF RingInv
    <3>3. QED
      BY <3>1, <3>2
  <2>5. head = SlotOf(head, 0) /\ head \in Slots
    BY Sizes DEF RingInv, SlotOf, Slots
  <2>6. \A n \in 1 .. contents_size - 1 : SlotOf(head, n) # head
    BY <2>5, Sizes, SlotsDiffer DEF RingInv
  <2>7. 0 .. contents_size - 1 = {0} \cup (1 .. contents_size - 1)
    BY <1>1, Sizes DEF RingInv
  <2>8. QED
    BY <2>1, <2>3, <2>4, <2>5, <2>6, <2>7
<1>4. QED
  BY <1>2, <1>3 DEF RingInv

\* A write through a reference to an item that is there.
LEMMA AssignKeepsRing ==
    ASSUME RingInv, IteratorsInOrder', NEW x \in Items, NEW index \in Nat,
           assign_at(index, x)
    PROVE  RingInv'
<1>1. /\ index < contents_size /\ contents_size' = contents_size
      /\ array' = [array EXCEPT ![SlotOf(head, index)] = x]
      /\ head' = head
      /\ tail' = tail
  <2>1. index \in 0 .. Capacity /\ head \in Slots
    BY Sizes DEF RingInv, assign_at
  <2>2. QED
    BY <2>1, SubscriptIsSlot DEF assign_at
<1>2. TailFollows'
  BY <1>1 DEF TailFollows, next_tail, index_to_subscript, RingInv
<1>3. ObjectsAreLive'
  <2>1. \A s \in Slots : (array[s] # Raw) <=>
            \E n \in 0 .. contents_size - 1 : s = SlotOf(head, n)
    BY LiveMeansSlot DEF RingInv
  <2>2. SUFFICES ASSUME NEW s \in Slots
                 PROVE  (array'[s] # Raw) <=>
                            \E n \in 0 .. contents_size - 1 : s = SlotOf(head, n)
    BY <1>1, LiveMeansSlotNext DEF RingInv
  <2>3. SlotOf(head, index) \in Slots
    BY <1>1, Sizes, SlotOfIsSlot DEF RingInv
  <2>4. array'[s] = IF s = SlotOf(head, index) THEN x ELSE array[s]
    BY <1>1, <2>3 DEF RingInv, IteratorsInOrder, BufferTypeOK
  <2>5. x # Raw /\ index \in 0 .. contents_size - 1
    BY <1>1, RawAssumption, Sizes DEF RingInv
  <2>6. QED
    BY <2>1, <2>4, <2>5
<1>4. QED
  BY <1>2, <1>3 DEF RingInv

LEMMA RecreateKeepsRing ==
    ASSUME RingInv, IteratorsInOrder', recreate
    PROVE  RingInv'
<1>1. head' = 1 /\ tail' = 0 /\ contents_size' = 0
  BY DEF recreate, clear
<1>2. TailFollows'
  <2>1. head' \in Slots /\ 0 \in 0 .. Capacity
    BY <1>1, CapacityAssumption DEF Slots
  <2>2. index_to_subscript(contents_size)' = SlotOf(1, 0)
    BY <1>1, <2>1, NormaliseIsSlot DEF index_to_subscript
  <2>3. QED
    BY <1>1, <2>2, CapacityAssumption DEF TailFollows, next_tail, SlotOf
<1>3. ObjectsAreLive'
  <2>1. \A s \in Slots : array'[s] = Raw
    BY DEF recreate, clear, RingInv, ObjectsAreLive, LiveSlots
  <2>2. QED
    BY <1>1, <2>1, LiveMeansSlotNext
<1>4. QED
  BY <1>2, <1>3 DEF RingInv

LEMMA RingNext == RingInv /\ [TriQueueNext]_triqueueVars => RingInv'
<1> SUFFICES ASSUME RingInv, [TriQueueNext]_triqueueVars PROVE RingInv'
  OBVIOUS
<1>1. IteratorsInOrder'
  BY TriQueueNextOK DEF RingInv
<1>2. ASSUME NEW x \in Items, push(x) PROVE RingInv'
  BY <1>1, <1>2, PushKeepsRing
<1>3. CASE pop
  BY <1>1, <1>3, PopKeepsRing
<1>4. CASE UNCHANGED bufferVars
  BY <1>1, <1>4
     DEF bufferVars, RingInv, TailFollows, next_tail, index_to_subscript,
         ObjectsAreLive, LiveSlots
<1>5. ASSUME NEW x \in Items, rewrite_middle(x) \/ rewrite_third(x) PROVE RingInv'
  BY <1>1, <1>5, Sizes, AssignKeepsRing DEF RingInv, rewrite_middle, rewrite_third
<1>6. CASE recreate
  BY <1>1, <1>6, RecreateKeepsRing
<1>7. QED
  BY <1>2, <1>3, <1>4, <1>5, <1>6
     DEF TriQueueNext, move_to_first, move_to_second, rewind_middle, triqueueVars

(***************************************************************************)
(* A slot holds an object exactly when a position is mapped to it: no item *)
(* is read that was never stored, and none is overwritten or left behind,  *)
(* however often head and tail have passed the end of the array.           *)
(***************************************************************************)
THEOREM ObjectsStayLive == TriQueueSpec => []ObjectsAreLive
<1>1. RingInv => ObjectsAreLive
  BY DEF RingInv
<1>2. QED
  BY <1>1, RingInit, RingNext, PTL DEF TriQueueSpec
-----------------------------------------------------------------------------
(***************************************************************************)
(* The items at the positions from .. to - 1 of a ring whose head is h.    *)
(***************************************************************************)
Slot == Items \cup {Raw}

Stored(a, h, from, to) == [i \in 1 .. to - from |-> a[SlotOf(h, from + i - 1)]]

\* The state of the ring without its iterators.
Arrays == [Slots -> Slot]

LEMMA StoredIsSeq ==
    ASSUME NEW a \in Arrays, NEW h \in Slots,
           NEW from \in 0 .. Capacity, NEW to \in from .. Capacity
    PROVE  /\ Stored(a, h, from, to) \in Seq(Slot)
           /\ Len(Stored(a, h, from, to)) = to - from
           /\ \A i \in 1 .. to - from : Stored(a, h, from, to)[i] = a[SlotOf(h, from + i - 1)]
<1>1. \A i \in 1 .. to - from : from + i - 1 \in 0 .. Capacity
  BY CapacityAssumption
<1>2. \A i \in 1 .. to - from : a[SlotOf(h, from + i - 1)] \in Slot
  BY <1>1, SlotOfIsSlot DEF Arrays
<1>3. to - from \in Nat
  BY CapacityAssumption
<1>4. QED
  BY <1>2, <1>3 DEF Stored

\* What is stored at a position outside is not seen.
LEMMA StoredElsewhere ==
    ASSUME NEW a \in Arrays, NEW h \in Slots,
           NEW from \in 0 .. Capacity, NEW to \in from .. Capacity,
           NEW k \in 0 .. Capacity - 1, k < from \/ k >= to, NEW x
    PROVE  Stored([a EXCEPT ![SlotOf(h, k)] = x], h, from, to) = Stored(a, h, from, to)
<1> DEFINE b == [a EXCEPT ![SlotOf(h, k)] = x]
<1>1. ASSUME NEW i \in 1 .. to - from
      PROVE  b[SlotOf(h, from + i - 1)] = a[SlotOf(h, from + i - 1)]
  <2> DEFINE n == from + i - 1
  <2>1. n \in 0 .. Capacity - 1 /\ n \in 0 .. Capacity /\ n # k
    BY CapacityAssumption
  <2> HIDE DEF n
  <2>2. SlotOf(h, n) # SlotOf(h, k)
    BY <2>1, SlotsDiffer
  <2>3. SlotOf(h, n) \in Slots
    BY <2>1, SlotOfIsSlot
  <2>4. b[SlotOf(h, n)] = a[SlotOf(h, n)]
    BY <2>2, <2>3 DEF Arrays
  <2>5. QED
    BY <2>4 DEF n
<1> HIDE DEF b
<1>2. Stored(b, h, from, to) = Stored(a, h, from, to)
  BY <1>1 DEF Stored
<1>3. QED
  BY <1>2 DEF b

\* One position more.
LEMMA StoredAppends ==
    ASSUME NEW a \in Arrays, NEW h \in Slots,
           NEW from \in 0 .. Capacity - 1, NEW to \in from .. Capacity - 1
    PROVE  Stored(a, h, from, to + 1) = Append(Stored(a, h, from, to), a[SlotOf(h, to)])
<1> DEFINE s == Stored(a, h, from, to)
           t == Stored(a, h, from, to + 1)
           x == a[SlotOf(h, to)]
<1>1. from \in 0 .. Capacity /\ to \in from .. Capacity /\ to + 1 \in from .. Capacity
  BY CapacityAssumption
<1>2. s \in Seq(Slot) /\ Len(s) = to - from
  BY <1>1, StoredIsSeq
<1>3. /\ t \in Seq(Slot) /\ Len(t) = (to + 1) - from
      /\ \A i \in 1 .. (to + 1) - from : t[i] = a[SlotOf(h, from + i - 1)]
  BY <1>1, StoredIsSeq
<1>4. x \in Slot
  BY <1>1, SlotOfIsSlot, CapacityAssumption DEF Arrays
<1>5. \A i \in 1 .. to - from : t[i] = s[i]
  BY <1>1, <1>3, StoredIsSeq, CapacityAssumption
<1>6. t[(to - from) + 1] = x
  <2>1. (to - from) + 1 \in 1 .. (to + 1) - from /\ from + ((to - from) + 1) - 1 = to
    BY <1>1, CapacityAssumption
  <2>2. QED
    BY <1>3, <2>1
<1> HIDE DEF s, t, x
<1>7. /\ Append(s, x) \in Seq(Slot) /\ Len(Append(s, x)) = Len(s) + 1
      /\ \A i \in 1 .. Len(s) : Append(s, x)[i] = s[i]
      /\ Append(s, x)[Len(s) + 1] = x
  BY <1>2, <1>4, AppendProperties
<1>8. Len(t) = Len(Append(s, x)) /\ \A i \in 1 .. Len(t) : t[i] = Append(s, x)[i]
  <2>1. Len(t) = Len(s) + 1 /\ Len(s) \in Nat
    BY <1>1, <1>2, <1>3, CapacityAssumption
  <2>2. 1 .. Len(t) = (1 .. Len(s)) \cup {Len(s) + 1}
    BY <2>1
  <2>3. t[Len(s) + 1] = x /\ \A i \in 1 .. Len(s) : t[i] = s[i]
    BY <1>2, <1>5, <1>6
  <2>4. QED
    BY <1>7, <2>1, <2>2, <2>3
<1>9. t = Append(s, x)
  BY <1>3, <1>7, <1>8, SeqEqual
<1>10. QED
  BY <1>9 DEF s, t, x

\* One position less, at the front.
LEMMA StoredTail ==
    ASSUME NEW a \in Arrays, NEW h \in Slots,
           NEW from \in 0 .. Capacity - 1, NEW to \in from + 1 .. Capacity
    PROVE  /\ Stored(a, h, from, to) # <<>>
           /\ Head(Stored(a, h, from, to)) = a[SlotOf(h, from)]
           /\ Tail(Stored(a, h, from, to)) = Stored(a, h, from + 1, to)
<1> DEFINE s == Stored(a, h, from, to)
           t == Stored(a, h, from + 1, to)
<1>1. from \in 0 .. Capacity /\ from + 1 \in 0 .. Capacity
      /\ to \in from .. Capacity /\ to \in from + 1 .. Capacity
  BY CapacityAssumption
<1>2. /\ s \in Seq(Slot) /\ Len(s) = to - from
      /\ \A i \in 1 .. to - from : s[i] = a[SlotOf(h, from + i - 1)]
  BY <1>1, StoredIsSeq
<1>3. /\ t \in Seq(Slot) /\ Len(t) = to - (from + 1)
      /\ \A i \in 1 .. to - (from + 1) : t[i] = a[SlotOf(h, (from + 1) + i - 1)]
  BY <1>1, StoredIsSeq
<1>4. s[1] = a[SlotOf(h, from)]
  <2>1. 1 \in 1 .. to - from /\ from + 1 - 1 = from
    BY <1>1, CapacityAssumption
  <2>2. QED
    BY <1>2, <2>1
<1>5. \A i \in 1 .. to - (from + 1) : t[i] = s[i + 1]
  <2>1. SUFFICES ASSUME NEW i \in 1 .. to - (from + 1) PROVE t[i] = s[i + 1]
    OBVIOUS
  <2>2. i + 1 \in 1 .. to - from /\ from + (i + 1) - 1 = (from + 1) + i - 1
    BY <1>1, CapacityAssumption
  <2>3. QED
    BY <1>2, <1>3, <2>2
<1>6. Len(s) \in Nat /\ Len(s) >= 1 /\ Len(t) = Len(s) - 1
  BY <1>1, <1>2, <1>3, CapacityAssumption
<1> HIDE DEF s, t
<1>7. s # <<>>
  BY <1>6
<1>8. /\ Tail(s) \in Seq(Slot) /\ Len(Tail(s)) = Len(s) - 1
      /\ \A i \in 1 .. Len(Tail(s)) : Tail(s)[i] = s[i + 1]
  BY <1>2, <1>7, HeadTailProperties
<1>9. Tail(s) = t
  BY <1>2, <1>3, <1>5, <1>6, <1>8, SeqEqual
<1>10. Head(s) = s[1]
  BY <1>2, <1>7
<1>11. QED
  BY <1>4, <1>7, <1>9, <1>10 DEF s, t

LEMMA StoredNothing ==
    ASSUME NEW a, NEW h, NEW n \in 0 .. Capacity
    PROVE  Stored(a, h, n, n) = <<>>
BY CapacityAssumption DEF Stored

\* Two parts that meet are one.
LEMMA StoredConcat ==
    ASSUME NEW a \in Arrays, NEW h \in Slots, NEW from \in 0 .. Capacity,
           NEW mid \in from .. Capacity, NEW to \in mid .. Capacity
    PROVE  Stored(a, h, from, mid) \o Stored(a, h, mid, to) = Stored(a, h, from, to)
<1> DEFINE s == Stored(a, h, from, mid)
           t == Stored(a, h, mid, to)
           u == Stored(a, h, from, to)
<1>1. mid \in 0 .. Capacity /\ to \in from .. Capacity /\ mid >= from /\ to >= mid
  BY CapacityAssumption
<1>2. /\ s \in Seq(Slot) /\ Len(s) = mid - from
      /\ \A i \in 1 .. mid - from : s[i] = a[SlotOf(h, from + i - 1)]
  BY StoredIsSeq
<1>3. /\ t \in Seq(Slot) /\ Len(t) = to - mid
      /\ \A i \in 1 .. to - mid : t[i] = a[SlotOf(h, mid + i - 1)]
  BY <1>1, StoredIsSeq
<1>4. /\ u \in Seq(Slot) /\ Len(u) = to - from
      /\ \A i \in 1 .. to - from : u[i] = a[SlotOf(h, from + i - 1)]
  BY <1>1, StoredIsSeq
<1> HIDE DEF s, t, u
<1>5. /\ s \o t \in Seq(Slot)
      /\ Len(s \o t) = Len(s) + Len(t)
      /\ \A i \in 1 .. Len(s) + Len(t) :
             (s \o t)[i] = IF i <= Len(s) THEN s[i] ELSE t[i - Len(s)]
  BY <1>2, <1>3, ConcatProperties
<1>6. Len(s) + Len(t) = to - from
  BY <1>1, <1>2, <1>3, CapacityAssumption
<1>7. ASSUME NEW i \in 1 .. to - from PROVE (s \o t)[i] = u[i]
  <2>1. CASE i <= mid - from
    <3>1. i \in 1 .. mid - from /\ i \in 1 .. Len(s) + Len(t)
      BY <1>1, <1>6, <2>1, CapacityAssumption
    <3>2. (s \o t)[i] = s[i]
      BY <1>2, <1>5, <2>1, <3>1
    <3>3. s[i] = a[SlotOf(h, from + i - 1)]
      BY <1>2, <3>1
    <3>4. u[i] = a[SlotOf(h, from + i - 1)]
      BY <1>4
    <3>5. QED
      BY <3>2, <3>3, <3>4
  <2>2. CASE i > mid - from
    <3>1. i - (mid - from) \in 1 .. to - mid
          /\ mid + (i - (mid - from)) - 1 = from + i - 1
      BY <1>1, <2>2, CapacityAssumption
    <3>2. (s \o t)[i] = t[i - (mid - from)]
      BY <1>1, <1>2, <1>5, <1>6, <2>2, CapacityAssumption
    <3>3. QED
      BY <1>3, <1>4, <3>1, <3>2
  <2>3. i <= mid - from \/ i > mid - from
    BY <1>1, CapacityAssumption
  <2>4. QED
    BY <2>1, <2>2, <2>3, Zenon
<1>8. s \o t = u
  BY <1>4, <1>5, <1>6, <1>7, SeqEqual
<1>9. QED
  BY <1>8 DEF s, t, u

\* A write at a position inside.
LEMMA StoredReplaced ==
    ASSUME NEW a \in Arrays, NEW h \in Slots,
           NEW from \in 0 .. Capacity, NEW to \in from .. Capacity,
           NEW k \in from .. to - 1, NEW x \in Items
    PROVE  Stored([a EXCEPT ![SlotOf(h, k)] = x], h, from, to)
               = [Stored(a, h, from, to) EXCEPT ![k - from + 1] = x]
<1> DEFINE b == [a EXCEPT ![SlotOf(h, k)] = x]
           at(i) == from + i - 1
<1>1. k \in 0 .. Capacity - 1 /\ k \in 0 .. Capacity /\ k - from + 1 \in 1 .. to - from
  BY CapacityAssumption
<1>2. ASSUME NEW i \in 1 .. to - from
      PROVE  b[SlotOf(h, at(i))] = IF i = k - from + 1 THEN x ELSE a[SlotOf(h, at(i))]
  <2>1. /\ at(i) \in 0 .. Capacity - 1 /\ at(i) \in 0 .. Capacity
        /\ (at(i) = k) <=> (i = k - from + 1)
    BY CapacityAssumption
  <2> HIDE DEF at
  <2>2. SlotOf(h, at(i)) \in Slots
    BY <2>1, SlotOfIsSlot
  <2>3. (SlotOf(h, at(i)) = SlotOf(h, k)) <=> (at(i) = k)
    BY <1>1, <2>1, SlotsDiffer
  <2>4. QED
    BY <2>1, <2>2, <2>3 DEF Arrays
<1> HIDE DEF b
<1>3. Stored(b, h, from, to) = [Stored(a, h, from, to) EXCEPT ![k - from + 1] = x]
  BY <1>2 DEF Stored, at
<1>4. QED
  BY <1>3 DEF b
-----------------------------------------------------------------------------
(***************************************************************************)
(* What each way of using the ring does to a part of it.                   *)
(***************************************************************************)
\* An item is stored behind the last one.
LEMMA StoredBehind ==
    ASSUME NEW a \in Arrays, NEW h \in Slots,
           NEW from \in 0 .. Capacity - 1, NEW to \in from .. Capacity - 1, NEW x \in Items
    PROVE  Stored([a EXCEPT ![SlotOf(h, to)] = x], h, from, to + 1)
               = Append(Stored(a, h, from, to), x)
<1> DEFINE b == [a EXCEPT ![SlotOf(h, to)] = x]
<1>1. /\ from \in 0 .. Capacity /\ to \in from .. Capacity
      /\ to \in 0 .. Capacity - 1 /\ to \in 0 .. Capacity
  BY CapacityAssumption
<1>2. SlotOf(h, to) \in Slots
  BY <1>1, SlotOfIsSlot
<1>3. b \in Arrays /\ b[SlotOf(h, to)] = x
  BY <1>2 DEF Arrays, Slot
<1>4. Stored(b, h, from, to) = Stored(a, h, from, to)
  BY <1>1, StoredElsewhere
<1> HIDE DEF b
<1>5. Stored(b, h, from, to + 1) = Append(Stored(b, h, from, to), b[SlotOf(h, to)])
  BY <1>3, StoredAppends
<1>6. Stored(b, h, from, to + 1) = Append(Stored(a, h, from, to), x)
  BY <1>3, <1>4, <1>5
<1>7. QED
  BY <1>6 DEF b

\* The first item is destroyed and the head moves on.
LEMMA StoredAfterPop ==
    ASSUME NEW a \in Arrays, NEW h \in Slots,
           NEW from \in 0 .. Capacity - 1, NEW to \in from .. Capacity - 1
    PROVE  Stored([a EXCEPT ![SlotOf(h, 0)] = Raw], SlotOf(h, 1), from, to)
               = Stored(a, h, from + 1, to + 1)
<1> DEFINE b == [a EXCEPT ![SlotOf(h, 0)] = Raw]
<1>1. /\ from + 1 \in 0 .. Capacity /\ to + 1 \in from + 1 .. Capacity
      /\ 0 \in 0 .. Capacity - 1 /\ 0 < from + 1
  BY CapacityAssumption
<1>2. Stored(b, h, from + 1, to + 1) = Stored(a, h, from + 1, to + 1)
  <2>1. ASSUME NEW f \in 0 .. Capacity, NEW t \in f .. Capacity, 0 < f
        PROVE  Stored(b, h, f, t) = Stored(a, h, f, t)
    BY <1>1, <2>1, StoredElsewhere
  <2> HIDE DEF b
  <2>2. QED
    BY <1>1, <2>1
<1>3. ASSUME NEW i \in 1 .. to - from
      PROVE  SlotOf(SlotOf(h, 1), from + i - 1) = SlotOf(h, (from + 1) + i - 1)
  BY CapacityAssumption DEF SlotOf, Slots
<1> HIDE DEF b
<1>4. (to + 1) - (from + 1) = to - from
  BY CapacityAssumption
<1>5. Stored(b, SlotOf(h, 1), from, to) = Stored(b, h, from + 1, to + 1)
  BY <1>3, <1>4 DEF Stored
<1>6. Stored(b, SlotOf(h, 1), from, to) = Stored(a, h, from + 1, to + 1)
  BY <1>2, <1>5
<1>7. QED
  BY <1>6 DEF b

\* The first item of a part is replaced, as the three queues say it.
LEMMA FirstReplaced ==
    ASSUME NEW S, NEW s \in Seq(S), s # <<>>, NEW x \in S
    PROVE  [s EXCEPT ![1] = x] = <<x>> \o Tail(s)
<1> DEFINE t == [s EXCEPT ![1] = x]
           u == <<x>> \o Tail(s)
<1>1. Len(s) \in Nat /\ Len(s) >= 1 /\ DOMAIN s = 1 .. Len(s)
  BY LenProperties, EmptySeq
<1>2. t \in Seq(S) /\ Len(t) = Len(s)
      /\ \A i \in 1 .. Len(s) : t[i] = IF i = 1 THEN x ELSE s[i]
  BY <1>1, ExceptSeq
<1>3. /\ Tail(s) \in Seq(S) /\ Len(Tail(s)) = Len(s) - 1
      /\ \A i \in 1 .. Len(Tail(s)) : Tail(s)[i] = s[i + 1]
  BY HeadTailProperties
<1>4. <<x>> \in Seq(S) /\ Len(<<x>>) = 1 /\ <<x>>[1] = x
  OBVIOUS
<1>5. /\ u \in Seq(S) /\ Len(u) = 1 + Len(Tail(s))
      /\ \A i \in 1 .. 1 + Len(Tail(s)) : u[i] = IF i <= 1 THEN <<x>>[i] ELSE Tail(s)[i - 1]
  BY <1>3, <1>4, ConcatProperties
<1>6. \A i \in 1 .. Len(s) : t[i] = u[i]
  <2>1. SUFFICES ASSUME NEW i \in 1 .. Len(s) PROVE t[i] = u[i]
    OBVIOUS
  <2>2. CASE i = 1
    BY <1>1, <1>2, <1>3, <1>4, <1>5, <2>2
  <2>3. CASE i # 1
    <3>1. i - 1 \in 1 .. Len(Tail(s)) /\ (i - 1) + 1 = i /\ i \in 1 .. 1 + Len(Tail(s)) /\ ~(i <= 1)
      BY <1>1, <1>3, <2>3
    <3>2. t[i] = s[i]
      BY <1>2, <2>3
    <3>3. u[i] = Tail(s)[i - 1]
      BY <1>5, <3>1
    <3>4. Tail(s)[i - 1] = s[(i - 1) + 1]
      BY <1>3, <3>1
    <3>5. QED
      BY <3>1, <3>2, <3>3, <3>4
  <2>4. QED
    BY <2>2, <2>3
<1>7. Len(u) = Len(s)
  BY <1>1, <1>3, <1>5
<1> HIDE DEF t, u
<1>8. t = u
  BY <1>2, <1>5, <1>6, <1>7, SeqEqual
<1>9. QED
  BY <1>8 DEF t, u

\* The first item of a part is written through a reference.
LEMMA StoredFirstReplaced ==
    ASSUME NEW a \in Arrays, NEW h \in Slots,
           NEW from \in 0 .. Capacity - 1, NEW to \in from + 1 .. Capacity, NEW x \in Items
    PROVE  Stored([a EXCEPT ![SlotOf(h, from)] = x], h, from, to)
               = <<x>> \o Tail(Stored(a, h, from, to))
<1> DEFINE s == Stored(a, h, from, to)
<1>1. from \in 0 .. Capacity /\ to \in from .. Capacity /\ from \in from .. to - 1
      /\ from - from + 1 = 1
  BY CapacityAssumption
<1>2. Stored([a EXCEPT ![SlotOf(h, from)] = x], h, from, to) = [s EXCEPT ![1] = x]
  BY <1>1, StoredReplaced
<1>3. s \in Seq(Slot) /\ s # <<>>
  BY <1>1, StoredIsSeq, StoredTail
<1>4. x \in Slot
  BY DEF Slot
<1> HIDE DEF s
<1>5. [s EXCEPT ![1] = x] = <<x>> \o Tail(s)
  BY <1>3, <1>4, FirstReplaced
<1>6. QED
  BY <1>2, <1>5 DEF s
-----------------------------------------------------------------------------
(***************************************************************************)
(* The queues that the class stands for, as functions of its variables.    *)
(***************************************************************************)
\* The positions of a part, with the subscripts worked out.
LEMMA PartIsStored ==
    ASSUME NEW a, NEW h \in Slots, NEW from \in 0 .. Capacity, NEW to \in from .. Capacity
    PROVE  [i \in 1 .. to - from |-> a[normalise((from + i - 1) + h)]] = Stored(a, h, from, to)
<1>1. ASSUME NEW i \in 1 .. to - from
      PROVE  normalise((from + i - 1) + h) = SlotOf(h, from + i - 1)
  <2>1. from + i - 1 \in 0 .. Capacity
    BY CapacityAssumption
  <2>2. QED
    BY <2>1, NormaliseIsSlot
<1>2. QED
  BY <1>1 DEF Stored

LEMMA ContentsIsStored ==
    ASSUME NEW a, NEW h \in Slots, NEW size \in 0 .. Capacity
    PROVE  [i \in 1 .. size |-> a[normalise((i - 1) + h)]] = Stored(a, h, 0, size)
<1>1. ASSUME NEW i \in 1 .. size
      PROVE  normalise((i - 1) + h) = SlotOf(h, 0 + i - 1)
  <2>1. i - 1 \in 0 .. Capacity /\ i - 1 = 0 + i - 1
    BY CapacityAssumption
  <2>2. QED
    BY <2>1, NormaliseIsSlot
<1>2. size - 0 = size
  BY CapacityAssumption
<1>3. QED
  BY <1>1, <1>2 DEF Stored

\* The types of the parts.
LEMMA PartBounds ==
    ASSUME IteratorsInOrder
    PROVE  /\ array \in Arrays /\ head \in Slots
           /\ contents_size \in 0 .. Capacity
           /\ 0 \in 0 .. Capacity /\ end_output \in 0 .. Capacity
           /\ end_internal \in 0 .. Capacity
           /\ end_output \in 0 .. Capacity
           /\ end_internal \in end_output .. Capacity
           /\ contents_size \in end_internal .. Capacity
BY CapacityAssumption DEF IteratorsInOrder, BufferTypeOK, Arrays, Slot

Three(s, t, u) == [output |-> s, internal |-> t, input |-> u]

QueuesAre(a, h, o, m, n) ==
    Three(Stored(a, h, 0, o), Stored(a, h, o, m), Stored(a, h, m, n))

TheQueues == [output   |-> Part(0, end_output),
              internal |-> Part(end_output, end_internal),
              input    |-> Part(end_internal, contents_size)]

LEMMA QueuesNow ==
    IteratorsInOrder =>
        /\ Contents = Stored(array, head, 0, contents_size)
        /\ TheQueues = QueuesAre(array, head, end_output, end_internal, contents_size)
<1> SUFFICES ASSUME IteratorsInOrder
             PROVE  /\ Contents = Stored(array, head, 0, contents_size)
                    /\ TheQueues = QueuesAre(array, head, end_output, end_internal, contents_size)
  OBVIOUS
<1> USE PartBounds
<1>1. Contents = Stored(array, head, 0, contents_size)
  BY ContentsIsStored DEF Contents, at_unchecked, index_to_subscript
<1>2. /\ Part(0, end_output) = Stored(array, head, 0, end_output)
      /\ Part(end_output, end_internal) = Stored(array, head, end_output, end_internal)
      /\ Part(end_internal, contents_size) = Stored(array, head, end_internal, contents_size)
  BY PartIsStored DEF Part, at_unchecked, index_to_subscript
<1>3. QED
  BY <1>1, <1>2 DEF TheQueues, QueuesAre, Three

LEMMA QueuesThen ==
    (IteratorsInOrder =>
        /\ Contents = Stored(array, head, 0, contents_size)
        /\ TheQueues = QueuesAre(array, head, end_output, end_internal, contents_size))'
BY QueuesNow, PTL

\* The step of the class that changes the queues from one value to another.
LEMMA QueuesStep ==
    ASSUME IteratorsInOrder, IteratorsInOrder'
    PROVE  /\ Contents = Stored(array, head, 0, contents_size)
           /\ Contents' = Stored(array', head', 0, contents_size')
           /\ TheQueues = QueuesAre(array, head, end_output, end_internal, contents_size)
           /\ TheQueues' = QueuesAre(array', head', end_output', end_internal', contents_size')
<1>1. /\ Contents' = Stored(array, head, 0, contents_size)'
      /\ TheQueues' = QueuesAre(array, head, end_output, end_internal, contents_size)'
  BY QueuesThen
<1>2. QED
  BY <1>1, QueuesNow DEF QueuesAre, Three, Stored
-----------------------------------------------------------------------------
(***************************************************************************)
(* The operations on the three queues, as functions of the variables.      *)
(***************************************************************************)
\* What the operators on the three queues do to a record of three sequences.
LEMMA PushedOnParts ==
    ASSUME NEW s, NEW t, NEW u, NEW x
    PROVE  Queues!Pushed(Three(s, t, u), x) = Three(s, t, Append(u, x))
BY DEF Queues!Pushed, Three

LEMMA PoppedOnParts ==
    ASSUME NEW s, NEW t, NEW u
    PROVE  Queues!Popped(Three(s, t, u)) = Three(Tail(s), t, u)
<1> DEFINE y == Tail(Three(s, t, u).output)
<1>1. y = Tail(s)
  BY DEF Three
<1>2. Queues!Popped(Three(s, t, u)) = [Three(s, t, u) EXCEPT !.output = y]
  BY DEF Queues!Popped
<1> HIDE DEF y
<1>3. [Three(s, t, u) EXCEPT !.output = y] = Three(y, t, u)
  BY DEF Three
<1>4. QED
  BY <1>1, <1>2, <1>3

LEMMA RewoundOnParts ==
    ASSUME NEW s, NEW t, NEW u
    PROVE  Queues!MiddleRewound(Three(s, t, u)) = Three(s, <<>>, t \o u)
<1> DEFINE r == Queues!MiddleRewound(Three(s, t, u))
<1>1. r \in [output : {s}, internal : {<<>>}, input : {t \o u}]
  BY DEF Queues!MiddleRewound, Three
<1> HIDE DEF r
<1>2. r = [output |-> r.output, internal |-> r.internal, input |-> r.input]
  BY <1>1
<1>3. r.output = s /\ r.internal = <<>> /\ r.input = t \o u
  BY <1>1
<1>4. QED
  BY <1>2, <1>3 DEF r, Three

LEMMA ReplacedOnParts ==
    ASSUME NEW s, NEW t, NEW u, NEW x
    PROVE  /\ Queues!MiddleReplaced(Three(s, t, u), x) = Three(s, <<x>> \o Tail(t), u)
           /\ Queues!ThirdReplaced(Three(s, t, u), x) = Three(s, t, <<x>> \o Tail(u))
<1>1. Queues!MiddleReplaced(Three(s, t, u), x) = Three(s, <<x>> \o Tail(t), u)
  BY DEF Queues!MiddleReplaced, Three
<1>2. Queues!ThirdReplaced(Three(s, t, u), x) = Three(s, t, <<x>> \o Tail(u))
  BY DEF Queues!ThirdReplaced, Three
<1>3. QED
  BY <1>1, <1>2

LEMMA QueuesPushed ==
    ASSUME NEW a \in Arrays, NEW h \in Slots, NEW n \in 0 .. Capacity - 1,
           NEW m \in 0 .. n, NEW o \in 0 .. m, NEW x \in Items
    PROVE  QueuesAre([a EXCEPT ![SlotOf(h, n)] = x], h, o, m, n + 1)
               = Queues!Pushed(QueuesAre(a, h, o, m, n), x)
<1> DEFINE b == [a EXCEPT ![SlotOf(h, n)] = x]
<1>1. /\ o \in 0 .. Capacity /\ m \in o .. Capacity /\ m \in 0 .. Capacity - 1
      /\ n \in m .. Capacity - 1 /\ 0 \in 0 .. Capacity /\ o \in 0 .. Capacity
      /\ n >= o /\ n >= m
  BY CapacityAssumption
<1>2. Stored(b, h, 0, o) = Stored(a, h, 0, o)
  BY <1>1, StoredElsewhere
<1>3. Stored(b, h, o, m) = Stored(a, h, o, m)
  BY <1>1, StoredElsewhere
<1>4. Stored(b, h, m, n + 1) = Append(Stored(a, h, m, n), x)
  BY <1>1, StoredBehind
<1> HIDE DEF b
<1>5. QueuesAre(b, h, o, m, n + 1) = Queues!Pushed(QueuesAre(a, h, o, m, n), x)
  <2> DEFINE s == Stored(a, h, 0, o)
             t == Stored(a, h, o, m)
             u == Stored(a, h, m, n)
  <2>1. QueuesAre(b, h, o, m, n + 1) = Three(s, t, Append(u, x))
    BY <1>2, <1>3, <1>4 DEF QueuesAre
  <2>2. QueuesAre(a, h, o, m, n) = Three(s, t, u)
    BY DEF QueuesAre
  <2> HIDE DEF s, t, u
  <2>3. Queues!Pushed(Three(s, t, u), x) = Three(s, t, Append(u, x))
    BY PushedOnParts
  <2>4. QED
    BY <2>1, <2>2, <2>3
<1>6. QED
  BY <1>5 DEF b

LEMMA QueuesPopped ==
    ASSUME NEW a \in Arrays, NEW h \in Slots, NEW n \in 0 .. Capacity,
           NEW m \in 0 .. n, NEW o \in 1 .. m
    PROVE  /\ QueuesAre(a, h, o, m, n).output # <<>>
           /\ QueuesAre([a EXCEPT ![SlotOf(h, 0)] = Raw], SlotOf(h, 1), o - 1, m - 1, n - 1)
                  = Queues!Popped(QueuesAre(a, h, o, m, n))
<1> DEFINE b == [a EXCEPT ![SlotOf(h, 0)] = Raw]
           g == SlotOf(h, 1)
<1>1. ASSUME NEW from \in 1 .. Capacity, NEW to \in from .. Capacity
      PROVE  Stored(b, g, from - 1, to - 1) = Stored(a, h, from, to)
  <2>1. /\ from - 1 \in 0 .. Capacity - 1 /\ to - 1 \in from - 1 .. Capacity - 1
        /\ (from - 1) + 1 = from /\ (to - 1) + 1 = to
    BY CapacityAssumption
  <2>2. Stored(b, g, from - 1, to - 1) = Stored(a, h, (from - 1) + 1, (to - 1) + 1)
    BY <2>1, StoredAfterPop
  <2>3. QED
    BY <2>1, <2>2
<1>2. /\ o \in 1 .. Capacity /\ m \in o .. Capacity /\ m \in 1 .. Capacity
      /\ n \in m .. Capacity
      /\ 0 \in 0 .. Capacity - 1 /\ o \in 0 + 1 .. Capacity /\ 1 \in 1 .. Capacity
      /\ 0 + 1 = 1 /\ 1 - 1 = 0
  BY CapacityAssumption
<1>3. /\ Stored(a, h, 0, o) # <<>>
      /\ Tail(Stored(a, h, 0, o)) = Stored(a, h, 1, o)
  <2>1. Tail(Stored(a, h, 0, o)) = Stored(a, h, 0 + 1, o) /\ Stored(a, h, 0, o) # <<>>
    BY <1>2, StoredTail
  <2>2. QED
    BY <1>2, <2>1
<1> HIDE DEF b, g
<1>4. /\ Stored(b, g, 0, o - 1) = Stored(a, h, 1, o)
      /\ Stored(b, g, o - 1, m - 1) = Stored(a, h, o, m)
      /\ Stored(b, g, m - 1, n - 1) = Stored(a, h, m, n)
  <2>1. Stored(b, g, 1 - 1, o - 1) = Stored(a, h, 1, o)
    BY <1>1, <1>2
  <2>2. QED
    BY <1>1, <1>2, <2>1
<1>5. QueuesAre(b, g, o - 1, m - 1, n - 1) = Queues!Popped(QueuesAre(a, h, o, m, n))
  <2> DEFINE s == Stored(a, h, 0, o)
             t == Stored(a, h, o, m)
             u == Stored(a, h, m, n)
  <2>1. QueuesAre(b, g, o - 1, m - 1, n - 1) = Three(Tail(s), t, u)
    BY <1>3, <1>4 DEF QueuesAre
  <2>2. QueuesAre(a, h, o, m, n) = Three(s, t, u)
    BY DEF QueuesAre
  <2> HIDE DEF s, t, u
  <2>3. Queues!Popped(Three(s, t, u)) = Three(Tail(s), t, u)
    BY PoppedOnParts
  <2>4. QED
    BY <2>1, <2>2, <2>3
<1>6. QueuesAre(a, h, o, m, n).output # <<>>
  BY <1>3 DEF QueuesAre, Three
<1>7. QED
  BY <1>5, <1>6 DEF b, g

LEMMA QueuesMovedToFirst ==
    ASSUME NEW a \in Arrays, NEW h \in Slots, NEW n \in 0 .. Capacity,
           NEW m \in 0 .. n, NEW o \in 0 .. m, o # m
    PROVE  QueuesAre(a, h, o + 1, m, n) = Queues!MovedToFirst(QueuesAre(a, h, o, m, n))
<1>1. /\ o \in 0 .. Capacity - 1 /\ m \in o + 1 .. Capacity
      /\ 0 \in 0 .. Capacity - 1 /\ o \in 0 .. Capacity - 1
  BY CapacityAssumption
<1>2. /\ Stored(a, h, o, m) # <<>>
      /\ Head(Stored(a, h, o, m)) = a[SlotOf(h, o)]
      /\ Tail(Stored(a, h, o, m)) = Stored(a, h, o + 1, m)
  BY <1>1, StoredTail
<1>3. Stored(a, h, 0, o + 1) = Append(Stored(a, h, 0, o), a[SlotOf(h, o)])
  BY <1>1, StoredAppends
<1>4. QED
  BY <1>2, <1>3 DEF QueuesAre, Three, Queues!MovedToFirst

LEMMA QueuesMovedToSecond ==
    ASSUME NEW a \in Arrays, NEW h \in Slots, NEW n \in 0 .. Capacity,
           NEW m \in 0 .. n, NEW o \in 0 .. m, m # n
    PROVE  QueuesAre(a, h, o, m + 1, n) = Queues!MovedToSecond(QueuesAre(a, h, o, m, n))
<1>1. /\ m \in 0 .. Capacity - 1 /\ n \in m + 1 .. Capacity
      /\ o \in 0 .. Capacity - 1 /\ m \in o .. Capacity - 1
  BY CapacityAssumption
<1>2. /\ Stored(a, h, m, n) # <<>>
      /\ Head(Stored(a, h, m, n)) = a[SlotOf(h, m)]
      /\ Tail(Stored(a, h, m, n)) = Stored(a, h, m + 1, n)
  BY <1>1, StoredTail
<1>3. Stored(a, h, o, m + 1) = Append(Stored(a, h, o, m), a[SlotOf(h, m)])
  BY <1>1, StoredAppends
<1>4. QED
  BY <1>2, <1>3 DEF QueuesAre, Three, Queues!MovedToSecond

LEMMA QueuesRewound ==
    ASSUME NEW a \in Arrays, NEW h \in Slots, NEW n \in 0 .. Capacity,
           NEW m \in 0 .. n, NEW o \in 0 .. m
    PROVE  QueuesAre(a, h, o, o, n) = Queues!MiddleRewound(QueuesAre(a, h, o, m, n))
<1>1. o \in 0 .. Capacity /\ m \in o .. Capacity /\ n \in m .. Capacity
  BY CapacityAssumption
<1>2. Stored(a, h, o, o) = <<>>
  BY <1>1, StoredNothing
<1>3. Stored(a, h, o, m) \o Stored(a, h, m, n) = Stored(a, h, o, n)
  BY <1>1, StoredConcat
<1>4. QED
  <2> DEFINE s == Stored(a, h, 0, o)
             t == Stored(a, h, o, m)
             u == Stored(a, h, m, n)
  <2>1. QueuesAre(a, h, o, o, n) = Three(s, <<>>, t \o u)
    BY <1>2, <1>3 DEF QueuesAre
  <2>2. QueuesAre(a, h, o, m, n) = Three(s, t, u)
    BY DEF QueuesAre
  <2> HIDE DEF s, t, u
  <2>3. Queues!MiddleRewound(Three(s, t, u)) = Three(s, <<>>, t \o u)
    BY RewoundOnParts
  <2>4. QED
    BY <2>1, <2>2, <2>3

LEMMA QueuesMiddleReplaced ==
    ASSUME NEW a \in Arrays, NEW h \in Slots, NEW n \in 0 .. Capacity,
           NEW m \in 0 .. n, NEW o \in 0 .. m, o # m, NEW x \in Items
    PROVE  /\ QueuesAre(a, h, o, m, n).internal # <<>>
           /\ QueuesAre([a EXCEPT ![SlotOf(h, o)] = x], h, o, m, n)
                  = Queues!MiddleReplaced(QueuesAre(a, h, o, m, n), x)
<1> DEFINE b == [a EXCEPT ![SlotOf(h, o)] = x]
<1>1. /\ o \in 0 .. Capacity - 1 /\ m \in o + 1 .. Capacity /\ o \in 0 .. Capacity
      /\ m \in 0 .. Capacity /\ n \in m .. Capacity /\ 0 \in 0 .. Capacity
      /\ o >= o /\ o < m
  BY CapacityAssumption
<1>2. Stored(b, h, 0, o) = Stored(a, h, 0, o)
  <2>1. ASSUME NEW f \in 0 .. Capacity, NEW t \in f .. Capacity, o >= t
        PROVE  Stored(b, h, f, t) = Stored(a, h, f, t)
    BY <1>1, <2>1, StoredElsewhere
  <2> HIDE DEF b
  <2>2. QED
    BY <1>1, <2>1
<1>3. Stored(b, h, m, n) = Stored(a, h, m, n)
  BY <1>1, StoredElsewhere
<1>4. Stored(b, h, o, m) = <<x>> \o Tail(Stored(a, h, o, m))
  BY <1>1, StoredFirstReplaced
<1>5. Stored(a, h, o, m) # <<>>
  BY <1>1, StoredTail
<1> HIDE DEF b
<1>6. QueuesAre(b, h, o, m, n) = Queues!MiddleReplaced(QueuesAre(a, h, o, m, n), x)
  BY <1>2, <1>3, <1>4, ReplacedOnParts DEF QueuesAre
<1>7. QueuesAre(a, h, o, m, n).internal # <<>>
  BY <1>5 DEF QueuesAre, Three
<1>8. QED
  BY <1>6, <1>7 DEF b

LEMMA QueuesThirdReplaced ==
    ASSUME NEW a \in Arrays, NEW h \in Slots, NEW n \in 0 .. Capacity,
           NEW m \in 0 .. n, NEW o \in 0 .. m, m # n, NEW x \in Items
    PROVE  /\ QueuesAre(a, h, o, m, n).input # <<>>
           /\ QueuesAre([a EXCEPT ![SlotOf(h, m)] = x], h, o, m, n)
                  = Queues!ThirdReplaced(QueuesAre(a, h, o, m, n), x)
<1> DEFINE b == [a EXCEPT ![SlotOf(h, m)] = x]
<1>1. /\ m \in 0 .. Capacity - 1 /\ n \in m + 1 .. Capacity /\ o \in 0 .. Capacity
      /\ o \in 0 .. Capacity /\ m \in o .. Capacity /\ 0 \in 0 .. Capacity
      /\ m >= m /\ m >= o
  BY CapacityAssumption
<1>2. Stored(b, h, 0, o) = Stored(a, h, 0, o)
  BY <1>1, StoredElsewhere
<1>3. Stored(b, h, o, m) = Stored(a, h, o, m)
  BY <1>1, StoredElsewhere
<1>4. Stored(b, h, m, n) = <<x>> \o Tail(Stored(a, h, m, n))
  BY <1>1, StoredFirstReplaced
<1>5. Stored(a, h, m, n) # <<>>
  BY <1>1, StoredTail
<1> HIDE DEF b
<1>6. QueuesAre(b, h, o, m, n) = Queues!ThirdReplaced(QueuesAre(a, h, o, m, n), x)
  BY <1>2, <1>3, <1>4, ReplacedOnParts DEF QueuesAre
<1>7. QueuesAre(a, h, o, m, n).input # <<>>
  BY <1>5 DEF QueuesAre, Three
<1>8. QED
  BY <1>6, <1>7 DEF b
-----------------------------------------------------------------------------
(***************************************************************************)
(* The steps of the class, as changes of its variables.                    *)
(***************************************************************************)
LEMMA PushDoes ==
    ASSUME RingInv, NEW x \in Items, push(x)
    PROVE  /\ contents_size \in 0 .. Capacity - 1
           /\ array' = [array EXCEPT ![SlotOf(head, contents_size)] = x]
           /\ head' = head /\ contents_size' = contents_size + 1
           /\ end_output' = end_output /\ end_internal' = end_internal
<1>1. contents_size \in 0 .. Capacity - 1
  BY Sizes DEF RingInv, push, HasRoom
<1>2. next_tail = SlotOf(head, contents_size)
  BY Sizes, SubscriptIsSlot DEF RingInv, TailFollows
<1>3. QED
  BY <1>1, <1>2, CapacityAssumption DEF push, push_back

LEMMA PopDoes ==
    ASSUME RingInv, pop
    PROVE  /\ end_output \in 1 .. end_internal
           /\ array' = [array EXCEPT ![SlotOf(head, 0)] = Raw]
           /\ head' = SlotOf(head, 1) /\ contents_size' = contents_size - 1
           /\ end_output' = end_output - 1 /\ end_internal' = end_internal - 1
<1>1. end_output \in 1 .. end_internal
  BY Sizes DEF RingInv, pop, can_pop
<1>2. SlotOf(head, 0) = head /\ SlotOf(head, 1) = next_head
  BY Sizes DEF RingInv, SlotOf, next_head, Slots
<1>3. QED
  BY <1>1, <1>2 DEF pop, pop_front

LEMMA AssignDoes ==
    ASSUME RingInv, NEW x \in Items, NEW index \in Nat, assign_at(index, x)
    PROVE  /\ index < contents_size
           /\ array' = [array EXCEPT ![SlotOf(head, index)] = x]
           /\ UNCHANGED <<head, contents_size>>
<1>1. index \in 0 .. Capacity /\ head \in Slots
  BY Sizes DEF RingInv, assign_at
<1>2. QED
  BY <1>1, SubscriptIsSlot DEF assign_at

\* The ranges of the variables, as the lemmas about the parts ask for them.
LEMMA RingRanges ==
    ASSUME RingInv
    PROVE  /\ array \in Arrays /\ head \in Slots
           /\ contents_size \in 0 .. Capacity
           /\ end_internal \in 0 .. contents_size
           /\ end_output \in 0 .. end_internal
           /\ end_output \in Nat /\ end_internal \in Nat
BY PartBounds, Sizes DEF RingInv

LEMMA StepOfThreeQueues ==
    RingInv /\ RingInv' /\ [TriQueueNext]_triqueueVars => [Queues!QueuesNext]_TheQueues
<1> SUFFICES ASSUME RingInv, RingInv', [TriQueueNext]_triqueueVars
             PROVE  [Queues!QueuesNext]_TheQueues
  OBVIOUS
<1>1. /\ TheQueues = QueuesAre(array, head, end_output, end_internal, contents_size)
      /\ TheQueues' = QueuesAre(array', head', end_output', end_internal', contents_size')
  BY QueuesStep DEF RingInv
<1> USE RingRanges
<1>2. ASSUME NEW x \in Items, push(x) PROVE TheQueues' = Queues!Pushed(TheQueues, x)
  BY <1>1, <1>2, PushDoes, QueuesPushed
<1>3. CASE pop
  <2>1. TheQueues.output # <<>> /\ TheQueues' = Queues!Popped(TheQueues)
    <3>1. /\ end_output \in 1 .. end_internal
          /\ array' = [array EXCEPT ![SlotOf(head, 0)] = Raw]
          /\ head' = SlotOf(head, 1) /\ contents_size' = contents_size - 1
          /\ end_output' = end_output - 1 /\ end_internal' = end_internal - 1
      BY <1>3, PopDoes
    <3>2. TheQueues' = QueuesAre([array EXCEPT ![SlotOf(head, 0)] = Raw], SlotOf(head, 1),
                                 end_output - 1, end_internal - 1, contents_size - 1)
      BY <1>1, <3>1
    <3>3. QED
      BY <1>1, <3>1, <3>2, QueuesPopped
  <2>2. QED
    BY <2>1 DEF Queues!QueuesNext, TheQueues
<1>4. CASE move_to_first
  BY <1>1, <1>4, QueuesMovedToFirst
     DEF move_to_first, middle_empty, bufferVars, Queues!QueuesNext, TheQueues
<1>5. CASE move_to_second
  BY <1>1, <1>5, QueuesMovedToSecond
     DEF move_to_second, third_empty, bufferVars, Queues!QueuesNext, TheQueues
<1>6. CASE rewind_middle
  BY <1>1, <1>6, QueuesRewound DEF rewind_middle, bufferVars, Queues!QueuesNext, TheQueues
<1>7. ASSUME NEW x \in Items, rewrite_middle(x)
      PROVE  TheQueues.internal # <<>> /\ TheQueues' = Queues!MiddleReplaced(TheQueues, x)
  BY <1>1, <1>7, AssignDoes, QueuesMiddleReplaced DEF rewrite_middle, middle_empty
<1>8. ASSUME NEW x \in Items, rewrite_third(x)
      PROVE  TheQueues.input # <<>> /\ TheQueues' = Queues!ThirdReplaced(TheQueues, x)
  BY <1>1, <1>8, AssignDoes, QueuesThirdReplaced DEF rewrite_third, third_empty
<1>9. CASE recreate
  <2>1. TheQueues' = QueuesAre(array', head', 0, 0, 0)
    BY <1>1, <1>9 DEF recreate, clear
  <2>2. TheQueues' = Queues!EmptyQueues
    BY <2>1, StoredNothing, CapacityAssumption DEF QueuesAre, Three, Queues!EmptyQueues
  <2>3. QED
    BY <2>2 DEF Queues!QueuesNext, TheQueues
<1>10. CASE UNCHANGED triqueueVars
  BY <1>1, <1>10 DEF triqueueVars, bufferVars
<1>11. QED
  BY <1>2, <1>3, <1>4, <1>5, <1>6, <1>7, <1>8, <1>9, <1>10
     DEF TriQueueNext, Queues!QueuesNext, TheQueues

LEMMA StartOfThreeQueues == TriQueueInit => Queues!QueuesInit
<1> SUFFICES ASSUME TriQueueInit PROVE Queues!QueuesInit
  OBVIOUS
<1>1. RingInv
  BY RingInit
<1>2. TheQueues = QueuesAre(array, head, 0, 0, 0)
  BY <1>1, QueuesNow DEF RingInv, TriQueueInit, BufferInit
<1>3. TheQueues = Queues!EmptyQueues
  BY <1>2, StoredNothing, CapacityAssumption DEF QueuesAre, Three, Queues!EmptyQueues
<1>4. QED
  BY <1>3 DEF Queues!QueuesInit, TheQueues

(***************************************************************************)
(* Two positions in a ring are three queues.  Every operation of           *)
(* triqueue_t changes the three sequences of machine.h:133-147 as          *)
(* ThreeQueues says, or not at all: a pop that renumbers the positions, a  *)
(* push behind the end of the array, a rewind and a write in place lose,   *)
(* repeat or reorder nothing, for every capacity.                          *)
(***************************************************************************)
THEOREM TriQueueImplementsThreeQueues == TriQueueSpec => ImplementsThreeQueues
<1>1. TriQueueSpec => []RingInv
  BY RingInit, RingNext, PTL DEF TriQueueSpec
<1>2. QED
  BY <1>1, StartOfThreeQueues, StepOfThreeQueues, PTL
     DEF TriQueueSpec, ImplementsThreeQueues, Queues!QueuesSpec, TheQueues
-----------------------------------------------------------------------------
(***************************************************************************)
(* The buffer as one sequence.                                             *)
(***************************************************************************)
LEMMA ContentsHoldItems ==
    ASSUME RingInv
    PROVE  /\ Stored(array, head, 0, contents_size) \in Seq(Slot)
           /\ Len(Stored(array, head, 0, contents_size)) = contents_size
           /\ DOMAIN Stored(array, head, 0, contents_size) = 1 .. contents_size
<1> USE RingRanges
<1>1. 0 \in 0 .. Capacity /\ contents_size \in 0 .. Capacity /\ contents_size - 0 = contents_size
  BY CapacityAssumption
<1>2. /\ Stored(array, head, 0, contents_size) \in Seq(Slot)
      /\ Len(Stored(array, head, 0, contents_size)) = contents_size
  BY <1>1, StoredIsSeq
<1>3. QED
  BY <1>2, LenProperties

\* A write through a reference replaces one item of the sequence.
LEMMA WriteInPlace ==
    ASSUME RingInv, IteratorsInOrder', NEW x \in Items, NEW index \in Nat,
           assign_at(index, x)
    PROVE  Fifo!FifoNext
<1> USE RingRanges
<1>1. /\ index \in 0 .. contents_size - 1
      /\ array' = [array EXCEPT ![SlotOf(head, index)] = x]
      /\ head' = head /\ contents_size' = contents_size
  BY AssignDoes
<1>2. /\ Contents = Stored(array, head, 0, contents_size)
      /\ Contents' = Stored([array EXCEPT ![SlotOf(head, index)] = x], head, 0, contents_size)
  BY <1>1, QueuesStep DEF RingInv
<1>3. /\ 0 \in 0 .. Capacity /\ contents_size \in 0 .. Capacity
      /\ index - 0 + 1 = index + 1 /\ index + 1 \in 1 .. contents_size
  BY <1>1, CapacityAssumption
<1>4. Contents' = [Contents EXCEPT ![index + 1] = x]
  <2> DEFINE b(k) == [array EXCEPT ![SlotOf(head, k)] = x]
             s == Stored(array, head, 0, contents_size)
  <2>1. ASSUME NEW from \in 0 .. Capacity, NEW to \in from .. Capacity, NEW k \in from .. to - 1
        PROVE  Stored(b(k), head, from, to)
                   = [Stored(array, head, from, to) EXCEPT ![k - from + 1] = x]
    BY StoredReplaced
  <2> HIDE DEF b
  <2>2. Stored(b(index), head, 0, contents_size) = [s EXCEPT ![index - 0 + 1] = x]
    BY <1>1, <1>3, <2>1
  <2>3. Contents' = Stored(b(index), head, 0, contents_size)
    BY <1>2 DEF b
  <2> HIDE DEF s
  <2>4. [s EXCEPT ![index - 0 + 1] = x] = [s EXCEPT ![index + 1] = x]
    BY <1>3
  <2>5. QED
    BY <1>2, <2>2, <2>3, <2>4 DEF s
<1>5. index + 1 \in DOMAIN Contents
  BY <1>2, <1>3, ContentsHoldItems
<1>6. QED
  BY <1>4, <1>5 DEF Fifo!FifoNext, Fifo!Replace

LEMMA StepOfFifo ==
    RingInv /\ RingInv' /\ [TriQueueNext]_triqueueVars => [Fifo!FifoNext]_Contents
<1> SUFFICES ASSUME RingInv, RingInv', [TriQueueNext]_triqueueVars
             PROVE  [Fifo!FifoNext]_Contents
  OBVIOUS
<1>1. /\ Contents = Stored(array, head, 0, contents_size)
      /\ Contents' = Stored(array', head', 0, contents_size')
  BY QueuesStep DEF RingInv
<1> USE RingRanges
<1>2. ASSUME NEW x \in Items, push(x) PROVE Fifo!Push(x)
  <2>1. /\ contents_size \in 0 .. Capacity - 1
        /\ array' = [array EXCEPT ![SlotOf(head, contents_size)] = x]
        /\ head' = head /\ contents_size' = contents_size + 1
    BY <1>2, PushDoes
  <2>2. Contents' = Stored([array EXCEPT ![SlotOf(head, contents_size)] = x],
                           head, 0, contents_size + 1)
    BY <1>1, <2>1
  <2>3. 0 \in 0 .. Capacity - 1 /\ contents_size \in 0 .. Capacity - 1
    BY <2>1, CapacityAssumption
  <2>4. Contents' = Append(Contents, x)
    BY <1>1, <2>2, <2>3, StoredBehind
  <2>5. Len(Contents) < Capacity
    BY <1>1, <2>1, ContentsHoldItems, CapacityAssumption
  <2>6. QED
    BY <2>4, <2>5 DEF Fifo!Push
<1>3. CASE pop
  <2>1. /\ contents_size \in 1 .. Capacity
        /\ array' = [array EXCEPT ![SlotOf(head, 0)] = Raw]
        /\ head' = SlotOf(head, 1) /\ contents_size' = contents_size - 1
    BY <1>3, PopDoes, CapacityAssumption
  <2>2. Contents' = Stored([array EXCEPT ![SlotOf(head, 0)] = Raw], SlotOf(head, 1),
                           0, contents_size - 1)
    BY <1>1, <2>1
  <2>3. /\ 0 \in 0 .. Capacity - 1 /\ contents_size - 1 \in 0 .. Capacity - 1
        /\ contents_size \in 0 + 1 .. Capacity /\ (contents_size - 1) + 1 = contents_size
    BY <2>1, CapacityAssumption
  <2>4. Contents' = Stored(array, head, 0 + 1, (contents_size - 1) + 1)
    BY <2>2, <2>3, StoredAfterPop
  <2>5. Contents # <<>> /\ Tail(Contents) = Stored(array, head, 0 + 1, contents_size)
    BY <1>1, <2>3, StoredTail
  <2>6. QED
    BY <2>3, <2>4, <2>5 DEF Fifo!FifoNext, Fifo!Pop
<1>4. CASE UNCHANGED bufferVars
  BY <1>1, <1>4 DEF bufferVars
<1>5. ASSUME NEW x \in Items, rewrite_middle(x) \/ rewrite_third(x) PROVE Fifo!FifoNext
  BY <1>5, WriteInPlace DEF RingInv, rewrite_middle, rewrite_third
<1>6. CASE recreate
  <2>1. Contents' = Stored(array', head', 0, 0)
    BY <1>1, <1>6 DEF recreate, clear
  <2>2. QED
    BY <2>1, StoredNothing, CapacityAssumption DEF Fifo!FifoNext, Fifo!Empty
<1>7. QED
  BY <1>2, <1>3, <1>4, <1>5, <1>6
     DEF TriQueueNext, Fifo!FifoNext, move_to_first, move_to_second, rewind_middle,
         triqueueVars

LEMMA StartOfFifo == TriQueueInit => Fifo!FifoInit
<1> SUFFICES ASSUME TriQueueInit PROVE Fifo!FifoInit
  OBVIOUS
<1>1. Contents = Stored(array, head, 0, 0)
  BY RingInit, QueuesNow DEF RingInv, TriQueueInit, BufferInit
<1>2. QED
  BY <1>1, StoredNothing, CapacityAssumption DEF Fifo!FifoInit

(***************************************************************************)
(* The circular buffer is a FIFO of at most Capacity items: through any    *)
(* number of turns of the ring an operation appends one item, removes the  *)
(* oldest, changes one in place or empties it.                             *)
(***************************************************************************)
THEOREM BufferImplementsFifo == TriQueueSpec => ImplementsFifo
<1>1. TriQueueSpec => []RingInv
  BY RingInit, RingNext, PTL DEF TriQueueSpec
<1>2. QED
  BY <1>1, StartOfFifo, StepOfFifo, PTL DEF TriQueueSpec, ImplementsFifo, Fifo!FifoSpec
=============================================================================
