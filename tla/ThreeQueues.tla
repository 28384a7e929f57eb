---------------------------- MODULE ThreeQueues ----------------------------
(***************************************************************************)
(* The abstract specification of triqueue_t: a record of three sequences   *)
(* on which the operators of QueueOperators act.                           *)
(***************************************************************************)
EXTENDS QueueOperators

CONSTANT Items

VARIABLE q

QueuesInit == q = EmptyQueues

QueuesNext ==
    \/ \E x \in Items : q' = Pushed(q, x)
    \/ q.output # <<>> /\ q' = Popped(q)
    \/ q' = MovedToSecond(q)
    \/ q' = MovedToFirst(q)
    \/ q' = MiddleRewound(q)
    \/ q' = EmptyQueues
    \/ \E x \in Items :
          \/ q.internal # <<>> /\ q' = MiddleReplaced(q, x)
          \/ q.input # <<>> /\ q' = ThirdReplaced(q, x)

QueuesSpec == QueuesInit /\ [][QueuesNext]_q
=============================================================================
