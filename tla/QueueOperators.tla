--------------------------- MODULE QueueOperators ---------------------------
(***************************************************************************)
(* The queue as machine.h draws it:                                        *)
(*                                                                         *)
(*      output    |  internal   |  input                                   *)
(*      waits for |  suspect,   |  not looked                              *)
(*      thaw      |  undecided  |  at yet                                  *)
(*                                                                         *)
(* one sequence cut at two places.  Each operator is what a method of      *)
(* triqueue_t (src/src/triqueue.h) does to it, as a function on records    *)
(* [output, internal, input].  TriQueue.tla is the class itself, two       *)
(* positions in a circular buffer, and is checked to implement these.      *)
(***************************************************************************)
EXTENDS Naturals, Sequences

QueuesOf(Item) ==
    [output : Seq(Item), internal : Seq(Item), input : Seq(Item)]

EmptyQueues == [output |-> <<>>, internal |-> <<>>, input |-> <<>>]

\* Everything held, in the order it came.
Everything(q) == q.output \o q.internal \o q.input

Pushed(q, item) == [q EXCEPT !.input = Append(@, item)]

\* pop(): callers ask can_pop() first.
Popped(q) == [q EXCEPT !.output = Tail(@)]

\* The head of the input is scanned into the middle queue.
MovedToSecond(q) ==
    IF q.input = <<>> THEN q
    ELSE [q EXCEPT !.internal = Append(@, Head(q.input)), !.input = Tail(@)]

\* The head of the middle queue is decided and goes to the output.
MovedToFirst(q) ==
    IF q.internal = <<>> THEN q
    ELSE [q EXCEPT !.output = Append(@, Head(q.internal)), !.internal = Tail(@)]

\* Mutant of MiddleRewound: put back behind the input.
MiddleRewoundBehind(q) == [q EXCEPT !.internal = <<>>, !.input = @ \o q.internal]

\* What was scanned but is still undecided is to be scanned again.
MiddleRewound(q) ==
    [q EXCEPT !.internal = <<>>, !.input = q.internal \o @]

\* Writes through the references peek_middle() and peek_third() return.
MiddleReplaced(q, item) == [q EXCEPT !.internal = <<item>> \o Tail(@)]

ThirdReplaced(q, item) == [q EXCEPT !.input = <<item>> \o Tail(@)]
=============================================================================
