----------------------- MODULE QueueOperators_proofs -----------------------
(***************************************************************************)
(* What the queue operators return on queues whose items are of known      *)
(* types: Item in the output, Held in the two parts behind it.             *)
(***************************************************************************)
EXTENDS QueueOperators, SequenceTheorems, TLAPS

QueuesHolding(Item, Held) ==
    [output : Seq(Item), internal : Seq(Held), input : Seq(Held)]

\* A queue is its three parts.
LEMMA QueueIsRecord ==
    ASSUME NEW Item, NEW Held, NEW q \in QueuesHolding(Item, Held)
    PROVE  /\ q = [output |-> q.output, internal |-> q.internal, input |-> q.input]
           /\ q.output \in Seq(Item)
           /\ q.internal \in Seq(Held)
           /\ q.input \in Seq(Held)
BY DEF QueuesHolding

\* Scanning moves the head of the input behind the middle queue.
LEMMA MovedToSecondReturns ==
    ASSUME NEW Item, NEW Held, NEW q \in QueuesHolding(Item, Held), q.input # <<>>
    PROVE  /\ MovedToSecond(q) = [output   |-> q.output,
                                  internal |-> Append(q.internal, Head(q.input)),
                                  input    |-> Tail(q.input)]
           /\ MovedToSecond(q) \in QueuesHolding(Item, Held)
           /\ Head(q.input) \in Held
BY HeadTailProperties, AppendProperties DEF MovedToSecond, QueuesHolding

\* A decision moves the head of the middle queue behind the output.
LEMMA MovedToFirstReturns ==
    ASSUME NEW Item, NEW Held, Held \subseteq Item,
           NEW q \in QueuesHolding(Item, Held), q.internal # <<>>
    PROVE  /\ MovedToFirst(q) = [output   |-> Append(q.output, Head(q.internal)),
                                 internal |-> Tail(q.internal),
                                 input    |-> q.input]
           /\ MovedToFirst(q) \in QueuesHolding(Item, Held)
<1>1. Head(q.internal) \in Item /\ Tail(q.internal) \in Seq(Held)
  BY HeadTailProperties DEF QueuesHolding
<1>2. QED
  BY <1>1, AppendProperties DEF MovedToFirst, QueuesHolding

\* A rewind leaves nothing undecided.
LEMMA MiddleRewoundReturns ==
    ASSUME NEW Item, NEW Held, NEW q \in QueuesHolding(Item, Held)
    PROVE  /\ MiddleRewound(q) \in QueuesHolding(Item, Held)
           /\ MiddleRewound(q).internal = <<>>
BY ConcatProperties, EmptySeq DEF MiddleRewound, QueuesHolding

\* The decision that every way out of a suspicion ends in: the head of the
\* middle queue, rewritten, goes to the output and the others are put back.
LEMMA HeadDecided ==
    ASSUME NEW Item, NEW Held, Held \subseteq Item,
           NEW q \in QueuesHolding(Item, Held), q.internal # <<>>, NEW item \in Item
    PROVE  LET decided == MiddleRewound(MovedToFirst(MiddleReplaced(q, item)))
           IN  /\ decided \in QueuesHolding(Item, Held)
               /\ decided.internal = <<>>
<1> DEFINE rest == Tail(q.internal)
           replaced == MiddleReplaced(q, item)
           moved == MovedToFirst(replaced)
<1>1. rest \in Seq(Held) /\ rest \in Seq(Item)
  BY HeadTailProperties, SeqMonotonic DEF QueuesHolding
<1>2. /\ <<item>> \o rest \in Seq(Item)
      /\ <<item>> \o rest # <<>>
      /\ Head(<<item>> \o rest) = item
      /\ Tail(<<item>> \o rest) = rest
  BY <1>1
<1>3. /\ replaced \in [output : Seq(Item), internal : Seq(Item), input : Seq(Held)]
      /\ replaced.output = q.output
      /\ replaced.internal = <<item>> \o rest
      /\ replaced.input = q.input
  BY <1>2 DEF MiddleReplaced, QueuesHolding
<1>4. moved = [replaced EXCEPT !.output = Append(q.output, item), !.internal = rest]
  BY <1>2, <1>3 DEF MovedToFirst
<1>5. Append(q.output, item) \in Seq(Item)
  BY AppendProperties DEF QueuesHolding
<1>6. moved \in QueuesHolding(Item, Held)
  BY <1>1, <1>3, <1>4, <1>5 DEF QueuesHolding
<1>7. QED
  BY <1>6, MiddleRewoundReturns

\* With nothing undecided, the head of the input, rewritten, passes to the output.
LEMMA HeadPasses ==
    ASSUME NEW Item, NEW Held, Held \subseteq Item,
           NEW q \in QueuesHolding(Item, Held),
           q.internal = <<>>, q.input # <<>>, NEW item \in Item
    PROVE  LET passed == MovedToFirst(MovedToSecond(ThirdReplaced(q, item)))
           IN  /\ passed \in QueuesHolding(Item, Held)
               /\ passed.internal = <<>>
<1> DEFINE rest == Tail(q.input)
           replaced == ThirdReplaced(q, item)
           scanned == MovedToSecond(replaced)
           passed == MovedToFirst(scanned)
<1>1. rest \in Seq(Held) /\ rest \in Seq(Item)
  BY HeadTailProperties, SeqMonotonic DEF QueuesHolding
<1>2. /\ <<item>> \o rest \in Seq(Item)
      /\ <<item>> \o rest # <<>>
      /\ Head(<<item>> \o rest) = item
      /\ Tail(<<item>> \o rest) = rest
  BY <1>1
<1>3. /\ replaced \in [output : Seq(Item), internal : Seq(Held), input : Seq(Item)]
      /\ replaced.output = q.output
      /\ replaced.internal = <<>>
      /\ replaced.input = <<item>> \o rest
  BY <1>2 DEF ThirdReplaced, QueuesHolding
<1>4. scanned = [replaced EXCEPT !.internal = Append(<<>>, item), !.input = rest]
  BY <1>2, <1>3 DEF MovedToSecond
<1>5. /\ Append(<<>>, item) \in Seq(Item)
      /\ Append(<<>>, item) # <<>>
      /\ Head(Append(<<>>, item)) = item
      /\ Tail(Append(<<>>, item)) = <<>>
  BY AppendProperties, EmptySeq, HeadTailAppend
<1>6. /\ scanned \in [output : Seq(Item), internal : Seq(Item), input : Seq(Held)]
      /\ scanned.output = q.output
      /\ scanned.internal = Append(<<>>, item)
      /\ scanned.input = rest
  BY <1>1, <1>3, <1>4, <1>5 DEF QueuesHolding
<1>7. passed = [scanned EXCEPT !.output = Append(q.output, item), !.internal = <<>>]
  BY <1>5, <1>6 DEF MovedToFirst
<1>8. Append(q.output, item) \in Seq(Item) /\ <<>> \in Seq(Held)
  BY AppendProperties, EmptySeq DEF QueuesHolding
<1>9. passed \in QueuesHolding(Item, Held) /\ passed.internal = <<>>
  BY <1>6, <1>7, <1>8 DEF QueuesHolding
<1>10. QED
  BY <1>9

\* The same, not rewritten.
LEMMA HeadPassesAsIs ==
    ASSUME NEW Item, NEW Held, Held \subseteq Item,
           NEW q \in QueuesHolding(Item, Held), q.internal = <<>>, q.input # <<>>
    PROVE  LET passed == MovedToFirst(MovedToSecond(q))
           IN  /\ passed \in QueuesHolding(Item, Held)
               /\ passed.internal = <<>>
<1> DEFINE scanned == MovedToSecond(q)
           first == Head(q.input)
<1>1. scanned \in QueuesHolding(Item, Held)
  BY MovedToSecondReturns
<1>2. scanned.internal = Append(<<>>, first) /\ first \in Held
  BY MovedToSecondReturns
<1>3. scanned.internal # <<>> /\ Tail(scanned.internal) = <<>>
  BY <1>2, AppendProperties, EmptySeq, HeadTailAppend
<1> HIDE DEF scanned
<1>4. MovedToFirst(scanned) \in QueuesHolding(Item, Held)
  BY <1>1, <1>3, MovedToFirstReturns
<1>5. MovedToFirst(scanned) = [output   |-> Append(scanned.output, Head(scanned.internal)),
                               internal |-> Tail(scanned.internal),
                               input    |-> scanned.input]
  BY <1>1, <1>3, MovedToFirstReturns
<1>6. MovedToFirst(scanned).internal = <<>>
  BY <1>3, <1>5
<1>7. QED
  BY <1>4, <1>6 DEF scanned

\* The head of the middle queue is decided as it is.
LEMMA HeadDecidedAsIs ==
    ASSUME NEW Item, NEW Held, Held \subseteq Item,
           NEW q \in QueuesHolding(Item, Held), q.internal # <<>>
    PROVE  LET decided == MiddleRewound(MovedToFirst(q))
           IN  /\ decided \in QueuesHolding(Item, Held)
               /\ decided.internal = <<>>
BY MovedToFirstReturns, MiddleRewoundReturns
-----------------------------------------------------------------------------
(***************************************************************************)
(* Nothing gets lost: what moving the cuts does to the whole.              *)
(***************************************************************************)
LEMMA CutMoves ==
    ASSUME NEW Item, NEW s \in Seq(Item), NEW t \in Seq(Item), t # <<>>
    PROVE  Append(s, Head(t)) \o Tail(t) = s \o t
<1>1. Head(t) \in Item /\ Tail(t) \in Seq(Item)
  BY HeadTailProperties
<1>2. Append(s, Head(t)) = s \o <<Head(t)>> /\ <<Head(t)>> \in Seq(Item)
  BY <1>1, AppendIsConcat
<1>3. t = <<Head(t)>> \o Tail(t)
  BY HeadTailProperties, SMT
<1>4. (s \o <<Head(t)>>) \o Tail(t) = s \o (<<Head(t)>> \o Tail(t))
  BY <1>1, <1>2, ConcatAssociative
<1>5. QED
  BY <1>2, <1>3, <1>4

LEMMA SecondKeepsAll ==
    ASSUME NEW Item, NEW q \in QueuesOf(Item), q.input # <<>>
    PROVE  /\ MovedToSecond(q) \in QueuesOf(Item)
           /\ Everything(MovedToSecond(q)) = Everything(q)
<1> DEFINE first == Head(q.input)
           rest == Tail(q.input)
           moved == MovedToSecond(q)
<1>0. \A s, t, u \in Seq(Item) : (s \o t) \o u = s \o (t \o u)
  BY ConcatAssociative
<1>1. q.output \in Seq(Item) /\ q.internal \in Seq(Item) /\ q.input \in Seq(Item)
  BY DEF QueuesOf
<1>2. first \in Item /\ rest \in Seq(Item) /\ Append(q.internal, first) \in Seq(Item)
  BY <1>1, HeadTailProperties, AppendProperties
<1>3. moved = [q EXCEPT !.internal = Append(q.internal, first), !.input = rest]
  BY DEF MovedToSecond
<1>4. /\ moved \in QueuesOf(Item)
      /\ moved.output = q.output
      /\ moved.internal = Append(q.internal, first)
      /\ moved.input = rest
  BY <1>2, <1>3 DEF QueuesOf
<1>5. q.output \o q.internal \in Seq(Item)
  BY <1>1, ConcatProperties
<1>6. q.output \o Append(q.internal, first) = Append(q.output \o q.internal, first)
  <2>1. <<first>> \in Seq(Item)
    BY <1>2
  <2>2. /\ Append(q.internal, first) = q.internal \o <<first>>
        /\ Append(q.output \o q.internal, first) = (q.output \o q.internal) \o <<first>>
    BY <1>1, <1>2, <1>5, AppendIsConcat
  <2>3. q.output \o (q.internal \o <<first>>) = (q.output \o q.internal) \o <<first>>
    BY <1>1, <2>1, <1>0
  <2>4. QED
    BY <2>2, <2>3
<1>7. Append(q.output \o q.internal, first) \o rest = (q.output \o q.internal) \o q.input
  BY <1>1, <1>5, CutMoves
<1>8. QED
  BY <1>4, <1>6, <1>7 DEF Everything

LEMMA FirstKeepsAll ==
    ASSUME NEW Item, NEW q \in QueuesOf(Item), q.internal # <<>>
    PROVE  /\ MovedToFirst(q) \in QueuesOf(Item)
           /\ Everything(MovedToFirst(q)) = Everything(q)
<1> DEFINE first == Head(q.internal)
           rest == Tail(q.internal)
           moved == MovedToFirst(q)
<1>1. q.output \in Seq(Item) /\ q.internal \in Seq(Item) /\ q.input \in Seq(Item)
  BY DEF QueuesOf
<1>2. first \in Item /\ rest \in Seq(Item) /\ Append(q.output, first) \in Seq(Item)
  BY <1>1, HeadTailProperties, AppendProperties
<1>3. moved = [q EXCEPT !.output = Append(q.output, first), !.internal = rest]
  BY DEF MovedToFirst
<1>4. /\ moved \in QueuesOf(Item)
      /\ moved.output = Append(q.output, first)
      /\ moved.internal = rest
      /\ moved.input = q.input
  BY <1>2, <1>3 DEF QueuesOf
<1>5. Append(q.output, first) \o rest = q.output \o q.internal
  BY <1>1, CutMoves
<1>6. QED
  BY <1>4, <1>5 DEF Everything

LEMMA RewindKeepsAll ==
    ASSUME NEW Item, NEW q \in QueuesOf(Item)
    PROVE  /\ MiddleRewound(q) \in QueuesOf(Item)
           /\ Everything(MiddleRewound(q)) = Everything(q)
<1> DEFINE again == q.internal \o q.input
           rewound == MiddleRewound(q)
<1>0. \A s, t, u \in Seq(Item) : (s \o t) \o u = s \o (t \o u)
  BY ConcatAssociative
<1>1. q.output \in Seq(Item) /\ q.internal \in Seq(Item) /\ q.input \in Seq(Item)
  BY DEF QueuesOf
<1>2. again \in Seq(Item) /\ <<>> \in Seq(Item)
  BY <1>1, ConcatProperties, EmptySeq
<1>3. rewound = [q EXCEPT !.internal = <<>>, !.input = again]
  BY DEF MiddleRewound
<1>4. (q.output \o <<>>) \o again = (q.output \o q.internal) \o q.input
  <2>1. q.output \o <<>> = q.output
    BY <1>1, ConcatEmptySeq
  <2>2. (q.output \o q.internal) \o q.input = q.output \o (q.internal \o q.input)
    BY <1>0, <1>1
  <2>3. QED
    BY <2>1, <2>2
<1> HIDE DEF again
<1>5. /\ rewound \in QueuesOf(Item)
      /\ rewound.output = q.output
      /\ rewound.internal = <<>>
      /\ rewound.input = again
  BY <1>2, <1>3 DEF QueuesOf
<1>6. QED
  BY <1>4, <1>5 DEF Everything

LEMMA OutputComesFirst ==
    ASSUME NEW Item, NEW q \in QueuesOf(Item)
    PROVE  Everything(q) = q.output \o (q.internal \o q.input)
<1>0. \A s, t, u \in Seq(Item) : (s \o t) \o u = s \o (t \o u)
  BY ConcatAssociative
<1>1. q.output \in Seq(Item) /\ q.internal \in Seq(Item) /\ q.input \in Seq(Item)
  BY DEF QueuesOf
<1>2. (q.output \o q.internal) \o q.input = q.output \o (q.internal \o q.input)
  BY <1>0, <1>1
<1>3. QED
  BY <1>2 DEF Everything

\* The event that came comes last, the one that is popped first.
LEMMA PushedIsLast ==
    ASSUME NEW Item, NEW q \in QueuesOf(Item), NEW item \in Item
    PROVE  Everything(Pushed(q, item)) = Append(Everything(q), item)
<1>0. \A s, t, u \in Seq(Item) : (s \o t) \o u = s \o (t \o u)
  BY ConcatAssociative
<1>1. q.output \in Seq(Item) /\ q.internal \in Seq(Item) /\ q.input \in Seq(Item)
  BY DEF QueuesOf
<1>2. q.output \o q.internal \in Seq(Item)
  BY <1>1, ConcatProperties
<1>3. <<item>> \in Seq(Item)
  OBVIOUS
<1>4. /\ Pushed(q, item).output = q.output
      /\ Pushed(q, item).internal = q.internal
      /\ Pushed(q, item).input = Append(q.input, item)
  BY DEF Pushed, QueuesOf
<1>5. (q.output \o q.internal) \o (q.input \o <<item>>)
          = ((q.output \o q.internal) \o q.input) \o <<item>>
  BY <1>1, <1>2, <1>3, <1>0
<1>6. Append(q.input, item) = q.input \o <<item>>
  BY <1>1, AppendIsConcat
<1>7. Append(Everything(q), item) = Everything(q) \o <<item>>
  BY <1>1, <1>2, ConcatProperties, AppendIsConcat DEF Everything
<1>8. QED
  BY <1>4, <1>5, <1>6, <1>7 DEF Everything

LEMMA PoppedIsFirst ==
    ASSUME NEW Item, NEW q \in QueuesOf(Item), q.output # <<>>
    PROVE  Everything(q) = <<Head(q.output)>> \o Everything(Popped(q))
<1> DEFINE first == Head(q.output)
           rest == Tail(q.output)
<1>0. \A s, t, u \in Seq(Item) : (s \o t) \o u = s \o (t \o u)
  BY ConcatAssociative
<1>1. q.output \in Seq(Item) /\ q.internal \in Seq(Item) /\ q.input \in Seq(Item)
  BY DEF QueuesOf
<1>2. first \in Item /\ rest \in Seq(Item) /\ q.output = <<first>> \o rest
  BY <1>1, HeadTailProperties, SMT
<1>3. /\ Popped(q).output = rest
      /\ Popped(q).internal = q.internal
      /\ Popped(q).input = q.input
  BY DEF Popped, QueuesOf
<1>4. <<first>> \in Seq(Item) /\ rest \o q.internal \in Seq(Item)
  BY <1>1, <1>2, ConcatProperties
<1>5. (<<first>> \o rest) \o q.internal = <<first>> \o (rest \o q.internal)
  BY <1>1, <1>2, <1>4, <1>0
<1>6. (<<first>> \o (rest \o q.internal)) \o q.input
          = <<first>> \o ((rest \o q.internal) \o q.input)
  BY <1>1, <1>4, <1>0
<1>7. QED
  BY <1>2, <1>3, <1>5, <1>6 DEF Everything
=============================================================================
