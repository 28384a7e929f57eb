----------------------------- MODULE BoundedFifo -----------------------------
(***************************************************************************)
(* What src/src/circular.h promises the program: a first-in first-out      *)
(* sequence of at most Capacity items, whose new items are refused (not    *)
(* added) when it is full.                                                 *)
(***************************************************************************)
EXTENDS Naturals, Sequences

CONSTANTS Items,      \* the values stored
          Capacity    \* at most so many at a time

VARIABLE contents

FifoTypeOK == contents \in Seq(Items) /\ Len(contents) <= Capacity

FifoInit == contents = <<>>

Push(x) ==
    contents' = IF Len(contents) < Capacity THEN Append(contents, x) ELSE contents

Pop == contents # <<>> /\ contents' = Tail(contents)

Empty == contents' = <<>>

\* An element is changed where it is: operator[] returns a reference.
Replace(i, x) ==
    i \in DOMAIN contents /\ contents' = [contents EXCEPT ![i] = x]

FifoNext ==
    \/ \E x \in Items : Push(x)
    \/ Pop
    \/ Empty
    \/ \E x \in Items : \E i \in DOMAIN contents : Replace(i, x)

FifoSpec == FifoInit /\ [][FifoNext]_contents
=============================================================================
