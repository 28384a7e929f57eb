------------------------ MODULE ForkingCalls_proofs ------------------------
(***************************************************************************)
(* What the calls into the forking machine, nested or parallel, do to each *)
(* other: who may move, what may reach a frozen plugin, and that the last  *)
(* one out leaves nothing undone; what becomes of the events they bring:   *)
(* none is lost, their times and codes are kept, and they alone decide     *)
(* what is a fork.                                                         *)
(***************************************************************************)
EXTENDS ForkingMachine_proofs, WellFoundedInduction

\* The labels an activation goes through, one step after the other.
Moves ==
    {<<"enter", "automaton">>, <<"automaton", "automaton">>, <<"automaton", "flush">>,
     <<"flush", "relay">>, <<"relay", "relaying">>, <<"relaying", "flush">>,
     <<"flush", "flushed">>, <<"flushed", "push_time">>, <<"flushed", "decide">>,
     <<"push_time", "pushing">>, <<"push_time", "decide">>,
     <<"pushing", "pushed">>, <<"pushed", "decide">>}

\* Where an activation is about to hand something to the next plugin.
Delivering == {"relay", "push_time", "pushing"}

CallStarts(c) ==
    /\ pc[c] = "idle" /\ EnvironmentTurn
    /\ Goto(c, "enter") \/ Goto(c, "decide")
    /\ stack' = IF SingleThread THEN <<c>> \o stack ELSE stack
    /\ UNCHANGED <<hand, frozen, outputVars>>

CallMoves(c) ==
    /\ Running(c)
    /\ \E label \in Labels :
          /\ <<pc[c], label>> \in Moves
          /\ Goto(c, label)
          /\ frozen /\ label \in Delivering => pc[c] \in Delivering
    /\ pc[c] \notin {"relay", "pushing"} => UNCHANGED outputVars
    /\ UNCHANGED <<stack, call, frozen, thawed>>

CallEnds(c) ==
    /\ Running(c)
    /\ pc[c] = "decide"
    /\ Returned(c)
    /\ UNCHANGED <<hand, frozen, thawed, outputVars>>

\* Neither is called, goes on nor returns.
NoCall ==
    /\ UNCHANGED <<pc, call, hand, stack, mLock, outputVars>>
    /\ frozen' # frozen => EnvironmentTurn

LEMMA ProceedIsCall ==
    ASSUME IInv, NEW c \in Callers, Proceed(c)
    PROVE  CallMoves(c) \/ CallEnds(c)
<1> USE DEF Moves, Delivering, Labels
<1>1. CASE LockAutomaton(c)
  BY <1>1 DEF LockAutomaton, CallMoves, worldVars
<1>2. CASE Iterate(c)
  <2>1. Goto(c, "automaton")
    BY <1>2 DEF IInv, ActivationInv, Iterate, callVars, Goto
  <2>2. QED
    BY <1>2, <2>1 DEF Iterate, CallMoves, callVars, worldVars
<1>3. CASE UnlockAutomaton(c)
  BY <1>3 DEF UnlockAutomaton, CallMoves, worldVars
<1>4. CASE pop_event_if_present(c)
  BY <1>4 DEF pop_event_if_present, output_frozen, CallMoves, worldVars
<1>5. CASE relay_event(c)
  BY <1>5 DEF relay_event, CallMoves, worldVars
<1>6. CASE relay_returns(c)
  BY <1>6 DEF relay_returns, CallMoves, worldVars
<1>7. CASE FlushEnds(c)
  BY <1>7 DEF FlushEnds, CallMoves, worldVars
<1>8. CASE TimeMayPass(c)
  BY <1>8 DEF TimeMayPass, output_frozen, CallMoves, worldVars
<1>9. CASE push_time_to_next(c)
  BY <1>9 DEF push_time_to_next, CallMoves, worldVars
<1>10. CASE push_time(c)
  BY <1>10 DEF push_time, CallMoves, worldVars
<1>11. CASE push_time_returns(c)
  BY <1>11 DEF push_time_returns, CallMoves, worldVars
<1>12. CASE Return(c)
  BY <1>12 DEF Return, CallEnds, worldVars
<1>13. QED
  BY <1>1, <1>2, <1>3, <1>4, <1>5, <1>6, <1>7, <1>8, <1>9, <1>10, <1>11, <1>12 DEF Proceed

\* Every step is one of the four.
LEMMA StepsOfCalls ==
    ASSUME IInv, [Next]_vars
    PROVE  \/ \E c \in Callers : CallStarts(c) \/ CallMoves(c) \/ CallEnds(c)
           \/ NoCall
<1>1. ASSUME NEW c \in Callers, NEW key \in Typed, NEW kind \in Kinds,
             accept_event(c, key, kind)
      PROVE  CallStarts(c)
  BY <1>1 DEF accept_event, Called, CallStarts
<1>2. ASSUME NEW c \in Callers, NEW key \in Typed, NEW kind \in Kinds,
             accept_out_of_bound(c, key, kind)
      PROVE  NoCall
  BY <1>2 DEF accept_out_of_bound, NoCall, callVars, worldVars
<1>3. ASSUME NEW c \in Callers, TheTime(c) PROVE CallStarts(c)
  BY <1>3 DEF TheTime, accept_time, Called, CallStarts
<1>4. ASSUME NEW c \in Callers, accept_confirmation(c) PROVE CallStarts(c)
  BY <1>4 DEF accept_confirmation, Called, CallStarts
<1>5. CASE configure \/ Tick \/ Freeze \/ Thaw \/ ToggleMouseKeys
  BY <1>5 DEF configure, Tick, Freeze, Thaw, ToggleMouseKeys, MayDisturb, NoCall, callVars
<1>6. CASE UNCHANGED vars
  BY <1>6 DEF vars, NoCall, callVars, worldVars
<1>7. QED
  BY <1>1, <1>2, <1>3, <1>4, <1>5, <1>6, ProceedIsCall DEF Next, Arrives
-----------------------------------------------------------------------------
(***************************************************************************)
(* One thread: only the activation on top of the stack is anywhere but     *)
(* inside the next plugin.                                                 *)
(***************************************************************************)
Waiting == Outcalls \cup {"idle"}

OnlyTopMoves ==
    \A c \in Callers : pc[c] \in Waiting \/ (stack # <<>> /\ Head(stack) = c)

\* An output that froze meanwhile is given nothing.
FrozenCalls == frozen => \A c \in Callers : pc[c] \notin Delivering

LEMMA OneThread ==
    ASSUME IInv, SingleThread, OnlyTopMoves, [Next]_vars
    PROVE  OnlyTopMoves'
<1> USE DEF Waiting, Outcalls
<1>1. pc \in [Callers -> Labels] /\ stack \in Seq(Callers)
  BY DEF IInv, ActivationInv
<1>2. ASSUME NEW c \in Callers, CallStarts(c) PROVE OnlyTopMoves'
  <2>1. stack' # <<>> /\ Head(stack') = c
    BY <1>1, <1>2 DEF CallStarts
  <2>2. \A d \in Callers : pc[d] \in Waiting
    BY <1>2 DEF CallStarts, EnvironmentTurn, OnlyTopMoves
  <2>3. \A d \in Callers : d # c => pc'[d] = pc[d]
    BY <1>1, <1>2 DEF CallStarts, Goto
  <2>4. QED
    BY <2>1, <2>2, <2>3 DEF OnlyTopMoves
<1>3. ASSUME NEW c \in Callers, CallMoves(c) PROVE OnlyTopMoves'
  <2>1. Head(stack) = c /\ stack # <<>> /\ stack' = stack
    BY <1>3 DEF CallMoves, Running
  <2>2. \A d \in Callers : d # c => pc'[d] = pc[d]
    BY <1>1, <1>3 DEF CallMoves, Goto
  <2>3. QED
    BY <2>1, <2>2 DEF OnlyTopMoves
<1>4. ASSUME NEW c \in Callers, CallEnds(c) PROVE OnlyTopMoves'
  <2>1. Head(stack) = c
    BY <1>4 DEF CallEnds, Running
  <2>2. /\ pc'[c] = "idle"
        /\ \A d \in Callers : d # c => pc'[d] = pc[d]
    BY <1>1, <1>4 DEF CallEnds, Returned, Goto
  <2>3. QED
    BY <2>1, <2>2 DEF OnlyTopMoves
<1>5. CASE NoCall
  BY <1>5 DEF NoCall, OnlyTopMoves
<1>6. QED
  BY <1>2, <1>3, <1>4, <1>5, StepsOfCalls

LEMMA FrozenStays ==
    ASSUME IInv, SingleThread, OnlyTopMoves, FrozenCalls, [Next]_vars
    PROVE  FrozenCalls'
<1> USE DEF Delivering
<1>1. pc \in [Callers -> Labels]
  BY DEF IInv, ActivationInv
<1>2. ASSUME NEW c \in Callers, CallStarts(c) PROVE FrozenCalls'
  BY <1>1, <1>2 DEF CallStarts, Goto, FrozenCalls
<1>3. ASSUME NEW c \in Callers, CallMoves(c) PROVE FrozenCalls'
  BY <1>1, <1>3 DEF CallMoves, Goto, FrozenCalls
<1>4. ASSUME NEW c \in Callers, CallEnds(c) PROVE FrozenCalls'
  BY <1>1, <1>4 DEF CallEnds, Returned, Goto, FrozenCalls
<1>5. CASE NoCall
  <2>1. CASE frozen' = frozen
    BY <1>5, <2>1 DEF NoCall, FrozenCalls
  <2>2. CASE frozen' # frozen
    <3>1. \A c \in Callers : pc[c] \in Waiting
      BY <1>5, <2>2 DEF NoCall, EnvironmentTurn, OnlyTopMoves, Waiting, Outcalls
    <3>2. QED
      BY <1>5, <3>1 DEF NoCall, FrozenCalls, Waiting, Outcalls
  <2>3. QED
    BY <2>1, <2>2
<1>6. QED
  BY <1>2, <1>3, <1>4, <1>5, StepsOfCalls

LEMMA FrozenStep ==
    ASSUME IInv, FrozenCalls, [Next]_vars
    PROVE  frozen => UNCHANGED outputVars
<1>1. ASSUME NEW c \in Callers, CallStarts(c) \/ CallMoves(c) \/ CallEnds(c)
      PROVE  frozen => UNCHANGED outputVars
  BY <1>1 DEF CallStarts, CallMoves, CallEnds, FrozenCalls, Delivering
<1>2. CASE NoCall
  BY <1>2 DEF NoCall
<1>3. QED
  BY <1>1, <1>2, StepsOfCalls

(***************************************************************************)
(* With one thread (the X server's), however the calls nest and whenever   *)
(* the next plugin freezes -- inside relay_event and push_time too --, it  *)
(* is handed nothing until it thaws: the assertion at fork-plugin.cpp:73   *)
(* cannot fail.                                                            *)
(***************************************************************************)
THEOREM NothingReachesFrozen ==
    ASSUME SingleThread
    PROVE  Spec => FrozenGetsNothing
<1> DEFINE CallsInv == IInv /\ OnlyTopMoves /\ FrozenCalls
<1>1. Init => CallsInv
  <2>1. Init => OnlyTopMoves /\ FrozenCalls
    BY DEF Init, OnlyTopMoves, FrozenCalls, Waiting
  <2>2. QED
    BY <2>1, InitEstablishes
<1>2. CallsInv /\ [Next]_vars => CallsInv'
  BY NextPreserves, OneThread, FrozenStays
<1>3. CallsInv /\ [Next]_vars => [frozen => UNCHANGED outputVars]_vars
  BY FrozenStep
<1> HIDE DEF CallsInv
<1>4. QED
  BY <1>1, <1>2, <1>3, PTL DEF Spec, FrozenGetsNothing
-----------------------------------------------------------------------------
(***************************************************************************)
(* The lock is held over run_automaton, and for ever by an accept_time     *)
(* whose time had moved backwards.                                         *)
(***************************************************************************)
LockIsHeld ==
    /\ \A c \in Callers : pc[c] = "automaton" => mLock = c
    /\ mLock # Nobody =>
          pc[mLock] = "automaton" \/ (pc[mLock] = "decide" /\ call[mLock] = "time")

\* Nobody has yet to run the automaton, and nothing is in the way of it.
Calm ==
    /\ ~frozen /\ ~thawed /\ Unlocked
    /\ \A c \in Callers : pc[c] \notin {"enter", "automaton"}

FlushLabels == {"flush", "relay", "relaying"}

Flushing == \E c \in Callers : pc[c] \in FlushLabels

\* Somebody is going to return the time of the decision.
WillAnswer == \E c \in Callers : pc[c] # "idle" /\ call[c] # "confirmation"

CalmMeansDone ==
    Calm => /\ tq.input = <<>> /\ ~TimeDecides
            /\ tq.output = <<>> \/ Flushing

\* wake is when the caller that waits is going to call again.
WakesInTime(wake) == Calm => state = "normal" \/ wake = mDecision_time \/ WillAnswer

RestInv == LockIsHeld /\ CalmMeansDone /\ WakesInTime(wakeup)

(***************************************************************************)
(* The steps as the lock and the caller that waits see them.               *)
(***************************************************************************)
\* A call comes in: it will run the automaton, or is stuck with the lock.
Entered(c) ==
    \E kind \in Calls :
        /\ Called(c, kind)
        /\ \/ Goto(c, "enter") /\ mLock' = mLock
           \/ kind = "time" /\ Unlocked /\ Goto(c, "decide") /\ mLock' = c
        /\ UNCHANGED <<decisionVars, wakeup>>

\* Somebody goes on between the automaton and the answer.
GoesOn(c) ==
    /\ pc[c] \notin {"idle", "enter", "automaton", "decide"}
    /\ \E label \in Labels \ {"idle", "enter", "automaton"} :
          /\ Goto(c, label)
          /\ \/ pc[c] \in FlushLabels => label \in FlushLabels
             \/ tq.output = <<>> \/ frozen
    /\ tq'.input = tq.input /\ (tq.output = <<>> => tq'.output = <<>>)
    /\ mCurrent_time' \in {0, mCurrent_time}
    /\ UNCHANGED <<decisionVars, mLock, call, frozen, thawed, wakeup>>

\* Nobody does; the next plugin may freeze or thaw.
Around ==
    /\ UNCHANGED <<decisionVars, tq, mLock, pc, call>>
    /\ mCurrent_time' \in {0, mCurrent_time}
    /\ (UNCHANGED <<frozen, thawed>>) \/ frozen' \/ thawed'
    /\ Typed \subseteq Keys => wakeup' = wakeup

LEMMA StepsOfAnswers ==
    ASSUME IInv, [Next]_vars
    PROVE  \/ \E c \in Callers : \/ Entered(c) \/ GoesOn(c)
                                 \/ LockAutomaton(c) \/ Iterate(c) \/ UnlockAutomaton(c)
                                 \/ Return(c)
           \/ Around
<1> USE DEF machineVars, callVars, worldVars
<1>1. ASSUME NEW c \in Callers, Arrives(c) PROVE Entered(c) \/ Around
  <2>1. PICK key \in Typed, kind \in Kinds :
            accept_event(c, key, kind) \/ accept_out_of_bound(c, key, kind)
    BY <1>1 DEF Arrives
  <2>2. CASE accept_event(c, key, kind)
    BY <2>2 DEF accept_event, Entered, Calls
  <2>3. CASE accept_out_of_bound(c, key, kind)
    BY <2>3, OutOfBoundAssumption DEF accept_out_of_bound, Around, Keycodes
  <2>4. QED
    BY <2>1, <2>2, <2>3
<1>2. ASSUME NEW c \in Callers, TheTime(c) \/ accept_confirmation(c) PROVE Entered(c)
  BY <1>2 DEF TheTime, accept_time, accept_confirmation, Entered, Calls
<1>3. ASSUME NEW c \in Callers, pop_event_if_present(c) PROVE GoesOn(c)
  <2>1. tq'.input = tq.input /\ tq.output # <<>>
    BY <1>3
       DEF pop_event_if_present, Popped, IInv, AutomatonInv, HoldingEvents, QueuesHolding
  <2>2. Goto(c, "relay") /\ pc[c] = "flush"
    BY <1>3 DEF pop_event_if_present
  <2>3. QED
    BY <1>3, <2>1, <2>2 DEF pop_event_if_present, GoesOn, FlushLabels, Labels
<1>4. ASSUME NEW c \in Callers, relay_event(c) \/ relay_returns(c) PROVE GoesOn(c)
  BY <1>4 DEF relay_event, relay_returns, GoesOn, FlushLabels, Labels
<1>5. ASSUME NEW c \in Callers, FlushEnds(c) PROVE GoesOn(c)
  BY <1>5 DEF FlushEnds, output_frozen, GoesOn, FlushLabels, Labels
<1>6. ASSUME NEW c \in Callers, TimeMayPass(c) \/ push_time(c) \/ push_time_returns(c)
      PROVE  GoesOn(c)
  <2>1. PICK label \in {"decide", "push_time", "pushed"} : Goto(c, label)
    BY <1>6 DEF TimeMayPass, push_time, push_time_returns
  <2>2. pc[c] \in {"flushed", "pushing", "pushed"}
    BY <1>6 DEF TimeMayPass, push_time, push_time_returns
  <2>3. UNCHANGED <<machineVars, mLock, call, frozen, thawed, wakeup>>
    BY <1>6 DEF TimeMayPass, push_time, push_time_returns
  <2>4. QED
    BY <2>1, <2>2, <2>3 DEF GoesOn, FlushLabels, Labels
<1>7. ASSUME NEW c \in Callers, push_time_to_next(c) PROVE GoesOn(c)
  <2>1. PICK label \in {"decide", "pushing"} : Goto(c, label)
    BY <1>7 DEF push_time_to_next
  <2>2. mCurrent_time' \in {0, mCurrent_time}
    BY <1>7 DEF push_time_to_next
  <2>3. QED
    BY <1>7, <2>1, <2>2 DEF push_time_to_next, GoesOn, FlushLabels, Labels
<1>8. CASE configure \/ Tick \/ Freeze \/ Thaw \/ ToggleMouseKeys
  BY <1>8 DEF configure, Tick, Freeze, Thaw, ToggleMouseKeys, Around
<1>9. CASE UNCHANGED vars
  BY <1>9 DEF vars, Around
<1>10. QED
  BY <1>1, <1>2, <1>3, <1>4, <1>5, <1>6, <1>7, <1>8, <1>9 DEF Next, Proceed

LEMMA LockStays ==
    ASSUME IInv, LockIsHeld, [Next]_vars
    PROVE  LockIsHeld'
<1>1. /\ pc \in [Callers -> Labels] /\ call \in [Callers -> Calls]
      /\ mLock \in Callers \cup {Nobody} /\ Nobody \notin Callers
  BY CallersAssumption DEF IInv, ActivationInv
<1>2. ASSUME NEW c \in Callers, Entered(c) PROVE LockIsHeld'
  <2>1. PICK kind \in Calls :
            /\ Called(c, kind)
            /\ \/ Goto(c, "enter") /\ mLock' = mLock
               \/ kind = "time" /\ Unlocked /\ Goto(c, "decide") /\ mLock' = c
    BY <1>2 DEF Entered
  <2>2. /\ \A d \in Callers : d # c => pc'[d] = pc[d] /\ call'[d] = call[d]
        /\ pc[c] = "idle" /\ call'[c] = kind
    BY <1>1, <2>1 DEF Called, Goto
  <2>3. CASE Goto(c, "enter") /\ mLock' = mLock
    <3>1. pc'[c] = "enter"
      BY <1>1, <2>3 DEF Goto
    <3>2. mLock # c
      BY <1>1, <2>2 DEF LockIsHeld
    <3>3. QED
      BY <1>1, <2>2, <2>3, <3>1, <3>2 DEF LockIsHeld
  <2>4. CASE kind = "time" /\ Unlocked /\ Goto(c, "decide") /\ mLock' = c
    <3>1. pc'[c] = "decide"
      BY <1>1, <2>4 DEF Goto
    <3>2. \A d \in Callers : pc'[d] # "automaton"
      BY <1>1, <2>2, <2>4, <3>1 DEF LockIsHeld, Unlocked
    <3>3. QED
      BY <2>2, <2>4, <3>1, <3>2 DEF LockIsHeld
  <2>5. QED
    BY <2>1, <2>3, <2>4
<1>3. ASSUME NEW c \in Callers, GoesOn(c) PROVE LockIsHeld'
  <2>1. /\ \A d \in Callers : d # c => pc'[d] = pc[d]
        /\ pc[c] \notin {"automaton", "decide"} /\ pc'[c] # "automaton"
        /\ UNCHANGED <<mLock, call>>
    BY <1>1, <1>3 DEF GoesOn, Goto
  <2>2. mLock # c
    BY <1>1, <2>1 DEF LockIsHeld
  <2>3. QED
    BY <1>1, <2>1, <2>2 DEF LockIsHeld
<1>4. ASSUME NEW c \in Callers, LockAutomaton(c) PROVE LockIsHeld'
  <2>1. /\ \A d \in Callers : pc'[d] = IF d = c THEN "automaton" ELSE pc[d]
        /\ mLock = Nobody /\ mLock' = c
    BY <1>1, <1>4 DEF LockAutomaton, Goto, Unlocked
  <2>2. QED
    BY <1>1, <2>1 DEF LockIsHeld
<1>5. ASSUME NEW c \in Callers, Iterate(c) PROVE LockIsHeld'
  BY <1>5 DEF Iterate, callVars, LockIsHeld
<1>6. ASSUME NEW c \in Callers, UnlockAutomaton(c) PROVE LockIsHeld'
  <2>1. /\ \A d \in Callers : pc'[d] = IF d = c THEN "flush" ELSE pc[d]
        /\ mLock = c /\ mLock' = Nobody
    BY <1>1, <1>6 DEF UnlockAutomaton, Goto, Locked
  <2>2. QED
    BY <2>1 DEF LockIsHeld
<1>7. ASSUME NEW c \in Callers, Return(c) PROVE LockIsHeld'
  <2>1. /\ \A d \in Callers : d # c => pc'[d] = pc[d] /\ call'[d] = call[d]
        /\ pc'[c] = "idle" /\ pc[c] = "decide"
        /\ mLock' = mLock
        /\ mLock = c => call[c] = "confirmation"
    BY <1>1, <1>7 DEF Return, Returned, Goto, Unlocked
  <2>2. mLock # c
    BY <1>1, <2>1 DEF LockIsHeld
  <2>3. QED
    BY <1>1, <2>1, <2>2 DEF LockIsHeld
<1>8. CASE Around
  BY <1>8 DEF Around, LockIsHeld
<1>9. QED
  BY <1>2, <1>3, <1>4, <1>5, <1>6, <1>7, <1>8, StepsOfAnswers

\* Returns the time of the decision.
Answers(c) == pc[c] # "idle" /\ pc'[c] = "idle" /\ call[c] # "confirmation"

LEMMA AnswersReturn ==
    ASSUME IInv, NEW c \in Callers, [Next]_vars, Answers(c)
    PROVE  Return(c)
<1>1. pc \in [Callers -> Labels]
  BY DEF IInv, ActivationInv
<1>2. ASSUME NEW d \in Callers, Return(d) PROVE Return(c)
  BY <1>1, <1>2 DEF Answers, Return, Returned, Goto
<1>3. ASSUME NEW d \in Callers, Entered(d) \/ GoesOn(d) PROVE FALSE
  BY <1>1, <1>3 DEF Answers, Entered, GoesOn, Goto
<1>4. ASSUME NEW d \in Callers, LockAutomaton(d) \/ Iterate(d) \/ UnlockAutomaton(d)
      PROVE  FALSE
  BY <1>1, <1>4 DEF Answers, LockAutomaton, Iterate, UnlockAutomaton, callVars, Goto
<1>5. CASE Around
  BY <1>5 DEF Around, Answers
<1>6. QED
  BY <1>2, <1>3, <1>4, <1>5, StepsOfAnswers

\* The waiting caller keeps its time until somebody answers, and the answer is
\* the time of the decision.
LEMMA WakesStay ==
    ASSUME IInv, LockIsHeld, NEW wake, NEW later, [Next]_vars, WakesInTime(wake),
           \A c \in Callers :
               Answers(c) /\ ~frozen => state = "normal" \/ later = mDecision_time,
           (\A c \in Callers : ~Answers(c)) => later = wake
    PROVE  Calm' => state' = "normal" \/ later = mDecision_time' \/ WillAnswer'
<1> SUFFICES ASSUME Calm' PROVE state' = "normal" \/ later = mDecision_time' \/ WillAnswer'
  OBVIOUS
<1> USE DEF Calm, Unlocked
<1>1. /\ pc \in [Callers -> Labels] /\ call \in [Callers -> Calls]
      /\ Nobody \notin Callers
  BY CallersAssumption DEF IInv, ActivationInv
<1>2. ASSUME NEW c \in Callers, Answers(c)
      PROVE  state' = "normal" \/ later = mDecision_time' \/ WillAnswer'
  <2>1. frozen' = frozen /\ UNCHANGED decisionVars
    BY <1>2, AnswersReturn DEF Return, machineVars, worldVars
  <2>2. QED
    BY <1>2, <2>1 DEF decisionVars
<1>3. CASE \A c \in Callers : ~Answers(c)
  <2>1. later = wake
    BY <1>3
  <2>2. ASSUME NEW c \in Callers, Entered(c) PROVE FALSE
    BY <1>1, <2>2 DEF Entered, Called, Goto
  <2>3. ASSUME NEW c \in Callers, LockAutomaton(c) \/ Iterate(c) PROVE FALSE
    BY <1>1, <2>3 DEF LockAutomaton, Iterate, callVars, Goto
  <2>4. ASSUME NEW c \in Callers, UnlockAutomaton(c) PROVE state' = "normal" \/ WillAnswer'
    <3>1. /\ pc'[c] = "flush" /\ call' = call /\ frozen' = frozen
          /\ UNCHANGED decisionVars
      BY <1>1, <2>4 DEF UnlockAutomaton, Goto, machineVars, worldVars
    <3>2. state = "normal" \/ call[c] # "confirmation"
      BY <2>4, <3>1 DEF UnlockAutomaton, output_frozen, Forcing
    <3>3. QED
      BY <3>1, <3>2 DEF WillAnswer, decisionVars
  <2>5. ASSUME NEW c \in Callers, GoesOn(c)
        PROVE  Calm /\ (WillAnswer => WillAnswer') /\ UNCHANGED decisionVars
    <3>1. /\ \A d \in Callers : d # c => pc'[d] = pc[d]
          /\ pc[c] \notin {"enter", "automaton"} /\ pc'[c] # "idle"
          /\ UNCHANGED <<decisionVars, mLock, call, frozen, thawed>>
      BY <1>1, <2>5 DEF GoesOn, Goto
    <3>2. QED
      BY <3>1 DEF WillAnswer
  <2>6. ASSUME NEW c \in Callers, Return(c)
        PROVE  Calm /\ (WillAnswer => WillAnswer') /\ UNCHANGED decisionVars
    <3>1. /\ \A d \in Callers : d # c => pc'[d] = pc[d] /\ call'[d] = call[d]
          /\ pc[c] = "decide" /\ pc'[c] = "idle"
          /\ UNCHANGED <<decisionVars, mLock, frozen, thawed>>
      BY <1>1, <2>6 DEF Return, Returned, Goto, machineVars, worldVars
    <3>2. call[c] = "confirmation"
      BY <1>3, <3>1 DEF Answers
    <3>3. QED
      BY <3>1, <3>2 DEF WillAnswer
  <2>7. ASSUME Around
        PROVE  Calm /\ (WillAnswer => WillAnswer') /\ UNCHANGED decisionVars
    BY <2>7 DEF Around, WillAnswer
  <2>8. CASE Calm /\ (WillAnswer => WillAnswer') /\ UNCHANGED decisionVars
    BY <2>1, <2>8 DEF WakesInTime, decisionVars
  <2>9. QED
    BY <2>2, <2>3, <2>4, <2>5, <2>6, <2>7, <2>8, StepsOfAnswers
<1>4. QED
  BY <1>2, <1>3

\* The automaton alone decides.
LEMMA StepsOfDecisions ==
    ASSUME IInv, [Next]_vars
    PROVE  (\E c \in Callers : Iterate(c)) \/ UNCHANGED decisionVars
BY StepsOfAnswers
   DEF Entered, GoesOn, Around, LockAutomaton, UnlockAutomaton, Return, machineVars

\* The automaton stops with everything looked at, unless the output is frozen,
\* and what follows leaves nothing in the output either.
LEMMA DoneStays ==
    ASSUME IInv, LockIsHeld, CalmMeansDone, [Next]_vars
    PROVE  CalmMeansDone'
<1> SUFFICES ASSUME Calm'
             PROVE  /\ tq'.input = <<>> /\ ~TimeDecides'
                    /\ tq'.output = <<>> \/ Flushing'
  BY DEF CalmMeansDone
<1> USE DEF Calm, Unlocked
<1>1. /\ pc \in [Callers -> Labels] /\ Nobody \notin Callers
      /\ mCurrent_time \in Nat
  BY CallersAssumption DEF IInv, ActivationInv, Times
<1>2. ASSUME NEW c \in Callers, Entered(c) PROVE FALSE
  BY <1>1, <1>2 DEF Entered, Called, Goto
<1>3. ASSUME NEW c \in Callers, LockAutomaton(c) \/ Iterate(c) PROVE FALSE
  BY <1>1, <1>3 DEF LockAutomaton, Iterate, callVars, Goto
<1>4. ASSUME NEW c \in Callers, UnlockAutomaton(c)
      PROVE  tq'.input = <<>> /\ ~TimeDecides' /\ Flushing'
  <2>1. /\ pc'[c] = "flush"
        /\ UNCHANGED <<decisionVars, mCurrent_time, tq, frozen>>
    BY <1>1, <1>4 DEF UnlockAutomaton, Goto, machineVars, worldVars
  <2>2. tq.input = <<>> /\ ~TimeDecides
    BY <1>4, <2>1 DEF UnlockAutomaton, output_frozen
  <2>3. QED
    BY <2>1, <2>2 DEF TimeDecides, Flushing, FlushLabels, decisionVars
<1>5. ASSUME NEW c \in Callers, GoesOn(c)
      PROVE  /\ tq'.input = <<>> /\ ~TimeDecides'
             /\ tq'.output = <<>> \/ Flushing'
  <2>1. PICK label \in Labels \ {"idle", "enter", "automaton"} :
            /\ Goto(c, label)
            /\ \/ pc[c] \in FlushLabels => label \in FlushLabels
               \/ tq.output = <<>> \/ frozen
    BY <1>5 DEF GoesOn
  <2>2. \A d \in Callers : pc'[d] = IF d = c THEN label ELSE pc[d]
    BY <1>1, <2>1 DEF Goto
  <2>3. Calm
    BY <1>5, <2>2 DEF GoesOn
  <2>4. tq'.input = <<>> /\ ~TimeDecides'
    BY <1>5, <2>3 DEF GoesOn, CalmMeansDone, TimeDecides, decisionVars
  <2>5. tq.output # <<>> => Flushing'
    BY <2>1, <2>2, <2>3 DEF CalmMeansDone, Flushing
  <2>6. QED
    BY <1>5, <2>4, <2>5 DEF GoesOn
<1>6. ASSUME NEW c \in Callers, Return(c)
      PROVE  /\ tq'.input = <<>> /\ ~TimeDecides'
             /\ tq'.output = <<>> \/ Flushing'
  <2>1. /\ \A d \in Callers : d # c => pc'[d] = pc[d]
        /\ pc[c] = "decide"
        /\ UNCHANGED <<decisionVars, mCurrent_time, tq, mLock, frozen, thawed>>
    BY <1>1, <1>6 DEF Return, Returned, Goto, machineVars, worldVars
  <2>2. Calm
    BY <2>1
  <2>3. Flushing => Flushing'
    BY <2>1 DEF Flushing, FlushLabels
  <2>4. QED
    BY <2>1, <2>2, <2>3 DEF CalmMeansDone, TimeDecides, decisionVars
<1>7. CASE Around
  BY <1>7 DEF Around, CalmMeansDone, TimeDecides, Flushing, decisionVars
<1>8. QED
  BY <1>2, <1>3, <1>4, <1>5, <1>6, <1>7, StepsOfAnswers

LEMMA RestNext ==
    ASSUME Typed \subseteq Keys, IInv, RestInv, [Next]_vars
    PROVE  RestInv'
<1>1. LockIsHeld' /\ CalmMeansDone'
  BY LockStays, DoneStays DEF RestInv
<1>2. ASSUME NEW c \in Callers, Answers(c)
      PROVE  state = "normal" \/ wakeup' = mDecision_time
  BY <1>2, AnswersReturn DEF Answers, Return, next_decision_time
<1>3. ASSUME \A c \in Callers : ~Answers(c) PROVE wakeup' = wakeup
  <2>1. ASSUME NEW c \in Callers, Return(c) PROVE wakeup' = wakeup
    <3>1. pc[c] = "decide" /\ pc'[c] = "idle"
      BY <2>1 DEF Return, Returned, Goto, RestInv, IInv, ActivationInv
    <3>2. QED
      BY <1>3, <2>1, <3>1 DEF Answers, Return
  <2>2. QED
    BY <2>1, StepsOfAnswers
       DEF Entered, GoesOn, LockAutomaton, Iterate, UnlockAutomaton, Around
<1>4. WakesInTime(wakeup)'
  BY <1>2, <1>3, WakesStay DEF RestInv, WakesInTime
<1>5. QED
  BY <1>1, <1>4 DEF RestInv

LEMMA RestInit == Init => RestInv
<1> SUFFICES ASSUME Init PROVE RestInv
  OBVIOUS
<1>1. LockIsHeld
  BY DEF Init, LockIsHeld
<1>2. CalmMeansDone /\ WakesInTime(wakeup)
  BY DEF Init, CalmMeansDone, WakesInTime, TimeDecides, EmptyQueues
<1>3. QED
  BY <1>1, <1>2 DEF RestInv

LEMMA RestInvMeansAtRest ==
    ASSUME IInv, RestInv
    PROVE  AtRest
<1> SUFFICES ASSUME \A c \in Callers : pc[c] = "idle", ~frozen, ~thawed
             PROVE  /\ tq.output = <<>> /\ tq.input = <<>>
                    /\ ~TimeDecides
                    /\ state # "normal" => wakeup = mDecision_time
  BY DEF AtRest
<1>1. mLock = Nobody
  BY DEF RestInv, LockIsHeld, IInv, ActivationInv
<1>2. Calm
  BY <1>1 DEF Calm, Unlocked
<1>3. ~Flushing /\ ~WillAnswer
  BY DEF Flushing, FlushLabels, WillAnswer
<1>4. QED
  BY <1>2, <1>3 DEF RestInv, CalmMeansDone, WakesInTime

(***************************************************************************)
(* Between calls, with the output open and every thaw announced, the       *)
(* machine has nothing left to do and whoever called knows when to call    *)
(* again -- for any number of callers, nested or in parallel, and any      *)
(* order of freezes, thaws, confirmations and requests.  (An event above   *)
(* MAX_KEYCODE is answered with 0 whatever the machine waits for, hence    *)
(* the hypothesis.)                                                        *)
(***************************************************************************)
THEOREM NothingLeftUndone ==
    ASSUME Typed \subseteq Keys
    PROVE  Spec => []AtRest
<1> DEFINE Inv == IInv /\ RestInv
<1>1. Init => Inv
  BY InitEstablishes, RestInit
<1>2. Inv /\ [Next]_vars => Inv'
  BY NextPreserves, RestNext
<1>3. Inv => AtRest
  BY RestInvMeansAtRest
<1> HIDE DEF Inv
<1>4. QED
  BY <1>1, <1>2, <1>3, PTL DEF Spec
-----------------------------------------------------------------------------
(***************************************************************************)
(* Events as they came in: rewriting the code of one, and moving the cuts  *)
(* of the queue, change none of them.                                      *)
(***************************************************************************)
LEMMA OriginalIsEvent ==
    ASSUME NEW e \in Events
    PROVE  /\ Original(e) \in Events
           /\ Original(e).time = e.time
           /\ \A code \in Keycodes : Original(rewritten(e, code)) = Original(e)
BY DEF Original, rewritten, Events, Keycodes

LEMMA OriginalsOf ==
    ASSUME NEW s \in Seq(Events)
    PROVE  /\ Originals(s) \in Seq(Events)
           /\ Len(Originals(s)) = Len(s)
           /\ \A i \in 1 .. Len(s) : Originals(s)[i] = Original(s[i])
<1>1. DOMAIN s = 1 .. Len(s) /\ Len(s) \in Nat
  BY LenProperties
<1>2. \A i \in 1 .. Len(s) : Original(s[i]) \in Events
  BY ElementOfSeq, OriginalIsEvent
<1>3. Originals(s) = [i \in 1 .. Len(s) |-> Original(s[i])]
  BY <1>1 DEF Originals
<1>4. QED
  BY <1>1, <1>2, <1>3

LEMMA ConcatOfEvents ==
    \A f, g \in Seq(Events) :
        /\ f \o g \in Seq(Events) /\ Len(f \o g) = Len(f) + Len(g)
        /\ \A i \in 1 .. Len(f) + Len(g) :
               (f \o g)[i] = IF i <= Len(f) THEN f[i] ELSE g[i - Len(f)]
BY ConcatProperties

LEMMA OriginalsConcat ==
    ASSUME NEW s \in Seq(Events), NEW t \in Seq(Events)
    PROVE  Originals(s \o t) = Originals(s) \o Originals(t)
<1> DEFINE f == Originals(s)
           g == Originals(t)
           whole == Originals(s \o t)
<1>1. /\ s \o t \in Seq(Events) /\ Len(s \o t) = Len(s) + Len(t)
      /\ \A i \in 1 .. Len(s) + Len(t) :
             (s \o t)[i] = IF i <= Len(s) THEN s[i] ELSE t[i - Len(s)]
  BY ConcatOfEvents
<1>2. f \in Seq(Events) /\ Len(f) = Len(s) /\ \A i \in 1 .. Len(s) : f[i] = Original(s[i])
  BY OriginalsOf
<1>3. g \in Seq(Events) /\ Len(g) = Len(t) /\ \A i \in 1 .. Len(t) : g[i] = Original(t[i])
  BY OriginalsOf
<1>4. /\ whole \in Seq(Events) /\ Len(whole) = Len(s) + Len(t)
      /\ \A i \in 1 .. Len(s) + Len(t) : whole[i] = Original((s \o t)[i])
  BY <1>1, OriginalsOf
<1> HIDE DEF f, g, whole
<1>5. /\ f \o g \in Seq(Events) /\ Len(f \o g) = Len(s) + Len(t)
      /\ \A i \in 1 .. Len(s) + Len(t) :
             (f \o g)[i] = IF i <= Len(s) THEN f[i] ELSE g[i - Len(s)]
  <2>1. f \in Seq(Events) /\ g \in Seq(Events) /\ Len(f) = Len(s) /\ Len(g) = Len(t)
    BY <1>2, <1>3
  <2>2. /\ f \o g \in Seq(Events) /\ Len(f \o g) = Len(f) + Len(g)
        /\ \A i \in 1 .. Len(f) + Len(g) :
               (f \o g)[i] = IF i <= Len(f) THEN f[i] ELSE g[i - Len(f)]
    BY <2>1, ConcatOfEvents
  <2>3. QED
    BY <2>1, <2>2
<1>6. ASSUME NEW i \in 1 .. Len(s) + Len(t) PROVE whole[i] = (f \o g)[i]
  <2>1. Len(s) \in Nat /\ Len(t) \in Nat
    BY LenProperties
  <2>2. CASE i <= Len(s)
    BY <1>1, <1>2, <1>4, <1>5, <2>1, <2>2
  <2>3. CASE ~(i <= Len(s))
    <3>1. i - Len(s) \in 1 .. Len(t)
      BY <2>1, <2>3
    <3>2. QED
      BY <1>1, <1>3, <1>4, <1>5, <2>3, <3>1
  <2>4. QED
    BY <2>2, <2>3
<1>7. whole = f \o g
  BY <1>4, <1>5, <1>6, SeqEqual
<1>8. QED
  BY <1>7 DEF f, g, whole

LEMMA OriginalsOfOne ==
    ASSUME NEW e \in Events
    PROVE  Originals(<<e>>) = <<Original(e)>>
<1>1. DOMAIN <<e>> = 1 .. 1 /\ <<e>>[1] = e
  OBVIOUS
<1>2. Originals(<<e>>) = [i \in 1 .. 1 |-> Original(<<e>>[i])]
  BY <1>1 DEF Originals
<1>3. QED
  BY <1>2

\* The head was rewritten.
LEMMA HeadReplaced ==
    ASSUME NEW s \in Seq(Events), s # <<>>, NEW item \in Events,
           Original(item) = Original(Head(s))
    PROVE  /\ <<item>> \o Tail(s) \in Seq(Events)
           /\ <<item>> \o Tail(s) # <<>>
           /\ Originals(<<item>> \o Tail(s)) = Originals(s)
<1>1. Head(s) \in Events /\ Tail(s) \in Seq(Events) /\ s = <<Head(s)>> \o Tail(s)
  BY HeadTailProperties, SMT
<1>2. <<item>> \in Seq(Events) /\ <<Head(s)>> \in Seq(Events)
  BY <1>1
<1>3. Originals(<<item>> \o Tail(s)) = Originals(<<item>>) \o Originals(Tail(s))
  BY <1>1, <1>2, OriginalsConcat
<1>4. Originals(<<Head(s)>> \o Tail(s)) = Originals(<<Head(s)>>) \o Originals(Tail(s))
  BY <1>1, <1>2, OriginalsConcat
<1>5. Originals(<<item>>) = Originals(<<Head(s)>>)
  BY <1>1, OriginalsOfOne
<1>6. Originals(<<item>> \o Tail(s)) = Originals(s)
  BY <1>1, <1>3, <1>4, <1>5
<1>7. <<item>> \o Tail(s) \in Seq(Events) /\ <<item>> \o Tail(s) # <<>>
  BY <1>1, <1>2
<1>8. QED
  BY <1>6, <1>7

LEMMA OriginalsOfQueue ==
    ASSUME NEW q \in QueuesOf(Events)
    PROVE  /\ Everything(q) \in Seq(Events)
           /\ Originals(Everything(q))
                  = (Originals(q.output) \o Originals(q.internal)) \o Originals(q.input)
<1>1. q.output \in Seq(Events) /\ q.internal \in Seq(Events) /\ q.input \in Seq(Events)
  BY DEF QueuesOf
<1>2. q.output \o q.internal \in Seq(Events)
  BY <1>1, ConcatProperties
<1>3. Originals(q.output \o q.internal) = Originals(q.output) \o Originals(q.internal)
  BY <1>1, OriginalsConcat
<1>4. Originals((q.output \o q.internal) \o q.input)
          = Originals(q.output \o q.internal) \o Originals(q.input)
  BY <1>1, <1>2, OriginalsConcat
<1>5. QED
  BY <1>1, <1>2, <1>3, <1>4, ConcatProperties DEF Everything

LEMMA MiddleReplacedKeeps ==
    ASSUME NEW q \in QueuesOf(Events), q.internal # <<>>, NEW item \in Events,
           Original(item) = Original(Head(q.internal))
    PROVE  /\ MiddleReplaced(q, item) \in QueuesOf(Events)
           /\ MiddleReplaced(q, item).internal # <<>>
           /\ Originals(Everything(MiddleReplaced(q, item))) = Originals(Everything(q))
<1> DEFINE middle == <<item>> \o Tail(q.internal)
           replaced == MiddleReplaced(q, item)
<1>1. q.internal \in Seq(Events)
  BY DEF QueuesOf
<1>2. middle \in Seq(Events) /\ middle # <<>> /\ Originals(middle) = Originals(q.internal)
  BY <1>1, HeadReplaced
<1>3. replaced = [q EXCEPT !.internal = middle]
  BY DEF MiddleReplaced
<1> HIDE DEF middle
<1>4. /\ replaced \in QueuesOf(Events)
      /\ replaced.output = q.output
      /\ replaced.internal = middle
      /\ replaced.input = q.input
  BY <1>2, <1>3 DEF QueuesOf
<1> HIDE DEF replaced
<1>5. Originals(Everything(replaced)) = Originals(Everything(q))
  BY <1>2, <1>4, OriginalsOfQueue
<1>6. QED
  BY <1>2, <1>4, <1>5 DEF replaced

LEMMA ThirdReplacedKeeps ==
    ASSUME NEW q \in QueuesOf(Events), q.input # <<>>, NEW item \in Events,
           Original(item) = Original(Head(q.input))
    PROVE  /\ ThirdReplaced(q, item) \in QueuesOf(Events)
           /\ ThirdReplaced(q, item).input # <<>>
           /\ Originals(Everything(ThirdReplaced(q, item))) = Originals(Everything(q))
<1> DEFINE third == <<item>> \o Tail(q.input)
           replaced == ThirdReplaced(q, item)
<1>1. q.input \in Seq(Events)
  BY DEF QueuesOf
<1>2. third \in Seq(Events) /\ third # <<>> /\ Originals(third) = Originals(q.input)
  BY <1>1, HeadReplaced
<1>3. replaced = [q EXCEPT !.input = third]
  BY DEF ThirdReplaced
<1> HIDE DEF third
<1>4. /\ replaced \in QueuesOf(Events)
      /\ replaced.output = q.output
      /\ replaced.internal = q.internal
      /\ replaced.input = third
  BY <1>2, <1>3 DEF QueuesOf
<1> HIDE DEF replaced
<1>5. Originals(Everything(replaced)) = Originals(Everything(q))
  BY <1>2, <1>4, OriginalsOfQueue
<1>6. QED
  BY <1>2, <1>4, <1>5 DEF replaced

\* An event that passes through, or is decided, keeps its place.
LEMMA PassedThroughKeeps ==
    ASSUME NEW q \in QueuesOf(Events), q.input # <<>>
    PROVE  /\ PassedThrough(q) \in QueuesOf(Events)
           /\ Everything(PassedThrough(q)) = Everything(q)
<1> DEFINE scanned == MovedToSecond(q)
<1>1. scanned \in QueuesOf(Events) /\ Everything(scanned) = Everything(q)
  BY SecondKeepsAll
<1>2. scanned.internal = Append(q.internal, Head(q.input))
  BY DEF MovedToSecond, QueuesOf
<1>3. q.internal \in Seq(Events) /\ Head(q.input) \in Events
  BY HeadTailProperties DEF QueuesOf
<1>4. scanned.internal # <<>>
  BY <1>2, <1>3, AppendProperties
<1> HIDE DEF scanned
<1>5. /\ MovedToFirst(scanned) \in QueuesOf(Events)
      /\ Everything(MovedToFirst(scanned)) = Everything(scanned)
  BY <1>1, <1>4, FirstKeepsAll
<1>6. QED
  BY <1>1, <1>5 DEF scanned, PassedThrough

LEMMA DecidedKeeps ==
    ASSUME NEW q \in QueuesOf(Events), q.internal # <<>>
    PROVE  /\ MiddleRewound(MovedToFirst(q)) \in QueuesOf(Events)
           /\ Everything(MiddleRewound(MovedToFirst(q))) = Everything(q)
BY FirstKeepsAll, RewindKeepsAll
-----------------------------------------------------------------------------
(***************************************************************************)
(* The stack of one thread: who waits on it, and what is in his hand.      *)
(***************************************************************************)
LEMMA LeastOf ==
    ASSUME NEW T, T \subseteq Nat, T # {}
    PROVE  \E least \in T : \A n \in T : least <= n
<1> DEFINE R == {pair \in Nat \X Nat : pair[1] < pair[2]}
<1>1. IsWellFoundedOn(R, Nat)
  BY NatLessThanWellFounded DEF OpToRel
<1> HIDE DEF R
<1>2. PICK least \in T : \A n \in T : ~(<<n, least>> \in R)
  BY <1>1, WFMin
<1>3. ASSUME NEW n \in T PROVE least <= n
  <2>1. n \in Nat /\ least \in Nat
    OBVIOUS
  <2>2. n < least => <<n, least>> \in R
    BY <2>1 DEF R
  <2>3. QED
    BY <1>2, <2>1, <2>2
<1>4. QED
  BY <1>3

\* Only the first of the sequences that are put together has anything in it.
LEMMA FlattenFirst ==
    ASSUME NEW S, NEW seqs \in Seq(Seq(S)), seqs # <<>>,
           \A i \in 2 .. Len(seqs) : seqs[i] = <<>>
    PROVE  FlattenSeq(seqs) = seqs[1]
<1> DEFINE n == Len(seqs)
           Flattens(f) == f = [i \in 1 .. n |-> IF i = 1 THEN seqs[i] ELSE f[i - 1] \o seqs[i]]
           flatten == CHOOSE f : Flattens(f)
<1>1. n \in Nat /\ n >= 1 /\ seqs[1] \in Seq(S)
  BY LenProperties, EmptySeq, ElementOfSeq
<1>2. FlattenSeq(seqs) = flatten[n]
  BY <1>1 DEF FlattenSeq
<1>3. \E f : Flattens(f)
  <2> DEFINE first == [i \in 1 .. n |-> seqs[1]]
  <2>1. ASSUME NEW i \in 1 .. n
        PROVE  first[i] = IF i = 1 THEN seqs[i] ELSE first[i - 1] \o seqs[i]
    <3>1. CASE i = 1
      BY <3>1
    <3>2. CASE i # 1
      <4>1. i - 1 \in 1 .. n /\ i \in 2 .. n
        BY <1>1, <3>2
      <4>2. seqs[1] \o <<>> = seqs[1]
        BY <1>1, ConcatEmptySeq
      <4>3. QED
        BY <3>2, <4>1, <4>2
    <3>3. QED
      BY <3>1, <3>2
  <2>2. Flattens(first)
    BY <2>1
  <2>3. QED
    BY <2>2
<1>4. Flattens(flatten)
  BY <1>3
<1> HIDE DEF flatten
<1>5. ASSUME NEW i \in 1 .. n
      PROVE  flatten[i] = IF i = 1 THEN seqs[i] ELSE flatten[i - 1] \o seqs[i]
  BY <1>4
<1>6. \A i \in 1 .. n : flatten[i] = seqs[1]
  <2> DEFINE Wrong == {i \in 1 .. n : flatten[i] # seqs[1]}
  <2>1. SUFFICES ASSUME Wrong # {} PROVE FALSE
    OBVIOUS
  <2>2. Wrong \subseteq Nat
    BY <1>1
  <2>3. PICK least \in Wrong : \A i \in Wrong : least <= i
    BY <2>1, <2>2, LeastOf
  <2>4. least # 1
    BY <1>5, <2>3
  <2>5. least - 1 \in 1 .. n /\ least \in 2 .. n /\ least - 1 \notin Wrong
    BY <1>1, <2>3, <2>4
  <2>6. flatten[least] = seqs[1] \o <<>>
    BY <1>5, <2>4, <2>5
  <2>7. QED
    BY <1>1, <2>3, <2>6, ConcatEmptySeq
<1>7. QED
  BY <1>1, <1>2, <1>6

\* On the stack is who was called and did not return, once.
StackInv ==
    /\ OnlyTopMoves
    /\ \A c \in Callers : pc[c] # "idle" => \E i \in DOMAIN stack : stack[i] = c
    /\ \A i \in DOMAIN stack : pc[stack[i]] # "idle"
    /\ \A i, j \in DOMAIN stack : stack[i] = stack[j] => i = j

HandInv ==
    \A c \in Callers : IF pc[c] = "relay" THEN Len(hand[c]) = 1 ELSE hand[c] = <<>>

TopHand == IF stack = <<>> THEN <<>> ELSE hand[Head(stack)]

LEMMA StackStays ==
    ASSUME IInv, SingleThread, StackInv, [Next]_vars
    PROVE  StackInv'
<1>1. pc \in [Callers -> Labels] /\ stack \in Seq(Callers)
  BY DEF IInv, ActivationInv
<1>2. DOMAIN stack = 1 .. Len(stack) /\ Len(stack) \in Nat
  BY <1>1, LenProperties
<1>3. OnlyTopMoves'
  BY OneThread DEF StackInv
<1>4. ASSUME NEW c \in Callers, CallStarts(c) PROVE StackInv'
  <2>1. /\ pc[c] = "idle" /\ stack' = <<c>> \o stack
        /\ \A d \in Callers : IF d = c THEN pc'[d] # "idle" ELSE pc'[d] = pc[d]
    BY <1>1, <1>4 DEF CallStarts, Goto
  <2>2. /\ DOMAIN stack' = 1 .. Len(stack) + 1
        /\ stack'[1] = c
        /\ \A i \in 2 .. Len(stack) + 1 : stack'[i] = stack[i - 1]
    BY <1>1, <1>2, <2>1
  <2>3. \A i \in 2 .. Len(stack) + 1 : i - 1 \in DOMAIN stack /\ stack[i - 1] \in Callers
    BY <1>1, <1>2, ElementOfSeq
  <2>4. \A i \in 2 .. Len(stack) + 1 : stack'[i] # c
    BY <2>1, <2>2, <2>3 DEF StackInv
  <2>5. \A i \in DOMAIN stack' : pc'[stack'[i]] # "idle"
    BY <1>2, <2>1, <2>2, <2>3, <2>4 DEF StackInv
  <2>6. ASSUME NEW i \in DOMAIN stack', NEW j \in DOMAIN stack', stack'[i] = stack'[j]
        PROVE  i = j
    <3>1. CASE i = 1 \/ j = 1
      BY <1>2, <2>2, <2>4, <2>6, <3>1
    <3>2. CASE i # 1 /\ j # 1
      <4>1. i \in 2 .. Len(stack) + 1 /\ j \in 2 .. Len(stack) + 1
        BY <1>2, <2>2, <3>2
      <4>2. i - 1 = j - 1
        BY <2>2, <2>3, <2>6, <4>1 DEF StackInv
      <4>3. QED
        BY <1>2, <4>1, <4>2
    <3>3. QED
      BY <3>1, <3>2
  <2>7. ASSUME NEW d \in Callers, pc'[d] # "idle"
        PROVE  \E i \in DOMAIN stack' : stack'[i] = d
    <3>1. CASE d = c
      BY <1>2, <2>2, <3>1
    <3>2. CASE d # c
      <4>1. PICK i \in DOMAIN stack : stack[i] = d
        BY <2>1, <2>7, <3>2 DEF StackInv
      <4>2. i + 1 \in 2 .. Len(stack) + 1 /\ (i + 1) - 1 = i
        BY <1>2
      <4>3. stack'[i + 1] = d
        BY <2>2, <4>1, <4>2
      <4>4. QED
        BY <1>2, <2>2, <4>2, <4>3
    <3>3. QED
      BY <3>1, <3>2
  <2>8. QED
    BY <1>3, <2>5, <2>6, <2>7 DEF StackInv
<1>5. ASSUME NEW c \in Callers, CallMoves(c) PROVE StackInv'
  <2>1. /\ stack' = stack /\ pc[c] # "idle"
        /\ \A d \in Callers : IF d = c THEN pc'[d] # "idle" ELSE pc'[d] = pc[d]
    BY <1>1, <1>5 DEF CallMoves, Goto, Moves
  <2>2. \A i \in DOMAIN stack : stack[i] \in Callers
    BY <1>1, <1>2, ElementOfSeq
  <2>3. QED
    BY <1>3, <2>1, <2>2 DEF StackInv
<1>6. ASSUME NEW c \in Callers, CallEnds(c) PROVE StackInv'
  <2>1. /\ stack # <<>> /\ Head(stack) = c /\ stack' = Tail(stack)
        /\ \A d \in Callers : pc'[d] = IF d = c THEN "idle" ELSE pc[d]
    BY <1>1, <1>6 DEF CallEnds, Returned, Running, Goto
  <2>2. /\ stack[1] = c /\ Len(stack) >= 1
        /\ DOMAIN stack' = 1 .. Len(stack) - 1
        /\ \A i \in 1 .. Len(stack) - 1 : stack'[i] = stack[i + 1]
    BY <1>1, <1>2, <2>1, HeadTailProperties, LenProperties
  <2>3. \A i \in 1 .. Len(stack) - 1 :
            i + 1 \in DOMAIN stack /\ stack[i + 1] \in Callers /\ 1 \in DOMAIN stack
    BY <1>1, <1>2, <2>2, ElementOfSeq
  <2>4. \A i \in 1 .. Len(stack) - 1 : stack[i + 1] # c
    BY <1>2, <2>2, <2>3 DEF StackInv
  <2>5. \A i \in DOMAIN stack' : pc'[stack'[i]] # "idle"
    BY <1>2, <2>1, <2>2, <2>3, <2>4 DEF StackInv
  <2>6. ASSUME NEW i \in DOMAIN stack', NEW j \in DOMAIN stack', stack'[i] = stack'[j]
        PROVE  i = j
    <3>1. i + 1 = j + 1
      BY <2>2, <2>3, <2>6 DEF StackInv
    <3>2. QED
      BY <1>2, <2>2, <3>1
  <2>7. ASSUME NEW d \in Callers, pc'[d] # "idle"
        PROVE  \E i \in DOMAIN stack' : stack'[i] = d
    <3>1. d # c /\ pc[d] # "idle"
      BY <2>1, <2>7
    <3>2. PICK i \in DOMAIN stack : stack[i] = d
      BY <3>1 DEF StackInv
    <3>3. i # 1
      BY <2>2, <3>1, <3>2
    <3>4. i - 1 \in 1 .. Len(stack) - 1 /\ (i - 1) + 1 = i
      BY <1>2, <3>3
    <3>5. QED
      BY <2>2, <3>2, <3>4
  <2>8. QED
    BY <1>3, <2>5, <2>6, <2>7 DEF StackInv
<1>7. CASE NoCall
  BY <1>3, <1>7 DEF NoCall, StackInv
<1>8. QED
  BY <1>4, <1>5, <1>6, <1>7, StepsOfCalls

\* What is in hand is in the hand of the top of the stack.
LEMMA InHandIsTop ==
    ASSUME IInv, SingleThread, StackInv, HandInv
    PROVE  InHand = TopHand
<1> DEFINE hands == [i \in DOMAIN stack |-> hand[stack[i]]]
<1>1. /\ stack \in Seq(Callers) /\ hand \in [Callers -> Seq(Events)]
      /\ DOMAIN stack = 1 .. Len(stack) /\ Len(stack) \in Nat
  BY LenProperties DEF IInv, ActivationInv
<1>2. \A i \in 1 .. Len(stack) : stack[i] \in Callers
  BY <1>1, ElementOfSeq
<1>3. hands \in Seq(Seq(Events)) /\ Len(hands) = Len(stack)
  BY <1>1, <1>2
<1>4. CASE stack = <<>>
  <2>1. Len(hands) = 0 /\ hands = <<>>
    BY <1>3, <1>4, EmptySeq
  <2>2. QED
    BY <1>4, <2>1 DEF InHand, TopHand, FlattenSeq
<1>5. CASE stack # <<>>
  <2>1. Len(stack) >= 1 /\ stack[1] = Head(stack) /\ hands # <<>>
    BY <1>1, <1>3, <1>5, LenProperties, EmptySeq
  <2>2. ASSUME NEW i \in 2 .. Len(hands) PROVE hands[i] = <<>>
    <3>1. i \in DOMAIN stack /\ 1 \in DOMAIN stack /\ i # 1
      BY <1>1, <1>3, <2>1
    <3>2. stack[i] # Head(stack)
      BY <2>1, <3>1 DEF StackInv
    <3>3. pc[stack[i]] # "relay"
      BY <1>1, <1>2, <3>1, <3>2 DEF StackInv, OnlyTopMoves, Waiting, Outcalls
    <3>4. QED
      BY <1>1, <1>2, <3>1, <3>3 DEF HandInv
  <2>3. hands[1] = hand[Head(stack)]
    BY <1>1, <2>1
  <2> HIDE DEF hands
  <2>4. FlattenSeq(hands) = hands[1]
    BY <1>3, <2>1, <2>2, FlattenFirst
  <2>5. QED
    BY <1>5, <2>3, <2>4 DEF InHand, TopHand, hands
<1>6. QED
  BY <1>4, <1>5
-----------------------------------------------------------------------------
(***************************************************************************)
(* What the machine still owes the next plugin: the events in hand and     *)
(* those in the queue, as they came in.                                    *)
(***************************************************************************)
Due == Originals(TopHand \o Everything(tq))

\* Nobody takes an event in his hand or gives it away.
HandsStill ==
    /\ hand' = hand
    /\ \A c \in Callers : pc'[c] = "relay" <=> pc[c] = "relay"
    /\ stack' = stack \/ \E c \in Callers : CallStarts(c) \/ CallEnds(c)

TakesEvent(c) ==
    \E key \in Typed, kind \in Kinds :
        accept_event(c, key, kind) /\ tq' # tq

\* Where events move; every other step leaves them where they are.
LEMMA StepsOfEvents ==
    ASSUME IInv, [Next]_vars
    PROVE  \/ \E c \in Callers : \/ TakesEvent(c) \/ Iterate(c)
                                 \/ pop_event_if_present(c) \/ relay_event(c)
           \/ HandsStill /\ UNCHANGED <<tq, accepted, delivered>>
<1> USE DEF machineVars, callVars, keyboardVars, outputVars
<1>0. pc \in [Callers -> Labels]
  BY DEF IInv, ActivationInv
<1>1. ASSUME NEW c \in Callers, NEW key \in Typed, NEW kind \in Kinds,
             accept_event(c, key, kind)
      PROVE  TakesEvent(c) \/ (HandsStill /\ UNCHANGED <<tq, accepted, delivered>>)
  <2>1. CallStarts(c)
    BY <1>1 DEF accept_event, Called, CallStarts
  <2>2. HandsStill
    BY <1>0, <1>1, <2>1 DEF HandsStill, accept_event, Called, Goto
  <2>3. CASE kind = "press" /\ key_forked(key)
    BY <1>1, <2>2, <2>3 DEF accept_event
  <2>4. CASE ~(kind = "press" /\ key_forked(key))
    <3>1. tq' = Pushed(tq, [key |-> key, code |-> key, kind |-> kind, time |-> clock])
      BY <1>1, <2>4 DEF accept_event
    <3>2. tq'.input = Append(tq.input, [key |-> key, code |-> key, kind |-> kind, time |-> clock])
      BY <3>1 DEF Pushed, IInv, AutomatonInv, HoldingEvents, QueuesHolding
    <3>3. tq.input \in Seq(FreshEvents) /\
          [key |-> key, code |-> key, kind |-> kind, time |-> clock] \in FreshEvents
      BY <1>1 DEF IInv, AutomatonInv, EnvironmentInv, HoldingEvents, QueuesHolding,
                  accept_event, FreshEvents, Events, Keycodes
    <3>4. tq'.input # tq.input
      BY <3>2, <3>3, AppendProperties, LenProperties
    <3>5. QED
      BY <1>1, <3>4 DEF TakesEvent
  <2>5. QED
    BY <2>3, <2>4
<1>2. ASSUME NEW c \in Callers, NEW key \in Typed, NEW kind \in Kinds,
             accept_out_of_bound(c, key, kind)
      PROVE  HandsStill /\ UNCHANGED <<tq, accepted, delivered>>
  BY <1>2 DEF accept_out_of_bound, HandsStill
<1>3. ASSUME NEW c \in Callers, TheTime(c) \/ accept_confirmation(c)
      PROVE  HandsStill /\ UNCHANGED <<tq, accepted, delivered>>
  <2>1. CallStarts(c)
    BY <1>3 DEF TheTime, accept_time, accept_confirmation, Called, CallStarts
  <2>2. QED
    BY <1>0, <1>3, <2>1
       DEF HandsStill, TheTime, accept_time, accept_confirmation, Called, Goto
<1>4. ASSUME NEW c \in Callers, Return(c)
      PROVE  HandsStill /\ UNCHANGED <<tq, accepted, delivered>>
  <2>1. CallEnds(c)
    BY <1>4 DEF Return, CallEnds, worldVars
  <2>2. QED
    BY <1>0, <1>4, <2>1 DEF HandsStill, Return, Returned, Goto
<1>5. ASSUME NEW c \in Callers,
             \/ LockAutomaton(c) \/ UnlockAutomaton(c) \/ relay_returns(c) \/ FlushEnds(c)
             \/ TimeMayPass(c) \/ push_time_to_next(c) \/ push_time(c)
             \/ push_time_returns(c)
      PROVE  HandsStill /\ UNCHANGED <<tq, accepted, delivered>>
  <2>1. CASE LockAutomaton(c) \/ UnlockAutomaton(c) \/ relay_returns(c) \/ FlushEnds(c)
    BY <1>0, <2>1
       DEF HandsStill, Goto, LockAutomaton, UnlockAutomaton, relay_returns, FlushEnds
  <2>2. CASE TimeMayPass(c) \/ push_time_to_next(c)
    BY <1>0, <2>2 DEF HandsStill, Goto, TimeMayPass, push_time_to_next
  <2>3. CASE push_time(c) \/ push_time_returns(c)
    BY <1>0, <2>3 DEF HandsStill, Goto, push_time, push_time_returns
  <2>4. QED
    BY <1>5, <2>1, <2>2, <2>3
<1>6. CASE configure \/ Tick \/ Freeze \/ Thaw \/ ToggleMouseKeys
  BY <1>6 DEF configure, Tick, Freeze, Thaw, ToggleMouseKeys, HandsStill
<1>7. CASE UNCHANGED vars
  BY <1>7 DEF vars, HandsStill
<1>8. QED
  BY <1>1, <1>2, <1>3, <1>4, <1>5, <1>6, <1>7 DEF Next, Arrives, Proceed

\* A hand holds one event, from the pop to relay_event.
LEMMA HandsStay ==
    ASSUME IInv, HandInv, [Next]_vars
    PROVE  HandInv'
<1>1. pc \in [Callers -> Labels] /\ hand \in [Callers -> Seq(Events)]
  BY DEF IInv, ActivationInv
<1>2. CASE HandsStill
  BY <1>2 DEF HandsStill, HandInv
<1>3. ASSUME NEW c \in Callers, TakesEvent(c) PROVE HandInv'
  BY <1>1, <1>3 DEF TakesEvent, accept_event, Called, Goto, HandInv
<1>4. ASSUME NEW c \in Callers, Iterate(c) PROVE HandInv'
  BY <1>4 DEF Iterate, callVars, HandInv
<1>5. ASSUME NEW c \in Callers, pop_event_if_present(c) PROVE HandInv'
  BY <1>1, <1>5 DEF pop_event_if_present, Goto, HandInv
<1>6. ASSUME NEW c \in Callers, relay_event(c) PROVE HandInv'
  BY <1>1, <1>6 DEF relay_event, Goto, HandInv
<1>7. QED
  BY <1>2, <1>3, <1>4, <1>5, <1>6, StepsOfEvents

LEMMA TopHandStill ==
    ASSUME IInv, SingleThread, StackInv, HandInv, HandsStill
    PROVE  TopHand' = TopHand
<1>1. /\ pc \in [Callers -> Labels] /\ stack \in Seq(Callers)
      /\ DOMAIN stack = 1 .. Len(stack) /\ Len(stack) \in Nat
  BY LenProperties DEF IInv, ActivationInv
<1>2. hand' = hand
  BY DEF HandsStill
<1>3. CASE stack' = stack
  BY <1>2, <1>3 DEF TopHand
<1>4. ASSUME NEW c \in Callers, CallStarts(c) PROVE TopHand' = TopHand
  <2>1. stack' # <<>> /\ Head(stack') = c /\ pc[c] = "idle"
    BY <1>1, <1>4 DEF CallStarts
  <2>2. TopHand' = <<>>
    BY <1>2, <2>1 DEF TopHand, HandInv
  <2>3. stack # <<>> => pc[Head(stack)] \in Outcalls /\ Head(stack) \in Callers
    BY <1>1, <1>4, HeadTailProperties DEF CallStarts, EnvironmentTurn
  <2>4. QED
    BY <2>2, <2>3 DEF TopHand, HandInv, Outcalls
<1>5. ASSUME NEW c \in Callers, CallEnds(c) PROVE TopHand' = TopHand
  <2>1. stack # <<>> /\ Head(stack) = c /\ pc[c] = "decide" /\ stack' = Tail(stack)
    BY <1>5 DEF CallEnds, Running, Returned
  <2>2. TopHand = <<>>
    BY <2>1 DEF TopHand, HandInv
  <2>3. ASSUME stack' # <<>> PROVE hand[Head(stack')] = <<>>
    <3>1. /\ stack' \in Seq(Callers) /\ Len(stack') = Len(stack) - 1
          /\ Head(stack') = stack'[1] /\ Len(stack') >= 1
          /\ stack'[1] = stack[2]
      BY <1>1, <2>1, <2>3, HeadTailProperties, LenProperties
    <3>2. 1 \in DOMAIN stack /\ 2 \in DOMAIN stack /\ stack[1] = Head(stack)
      BY <1>1, <2>1, <3>1, LenProperties
    <3>3. stack[2] # Head(stack) /\ stack[2] \in Callers
      BY <1>1, <3>2, ElementOfSeq DEF StackInv
    <3>4. pc[stack[2]] \in Waiting
      BY <3>3 DEF StackInv, OnlyTopMoves
    <3>5. QED
      BY <3>1, <3>3, <3>4 DEF HandInv, Waiting, Outcalls
  <2>4. QED
    BY <1>2, <2>2, <2>3 DEF TopHand
<1>6. QED
  BY <1>3, <1>4, <1>5 DEF HandsStill

\* One iteration of the automaton rewrites at most a code.
LEMMA ActivateKeeps ==
    ASSUME IInv, NEW q \in HoldingEvents, q.internal # <<>>, activate_fork_rewind(q)
    PROVE  Originals(Everything(tq')) = Originals(Everything(q))
<1> DEFINE event == Head(q.internal)
           target == config.fork_keycode[event.code]
           item == rewritten(event, target)
           replaced == MiddleReplaced(q, item)
<1>1. event \in FreshEvents
  BY HeadTailProperties DEF HoldingEvents, QueuesHolding
<1>2. event \in Events /\ target \in Keycodes
  BY <1>1, FreshEventHasKey DEF IInv, AutomatonInv, ConfigType
<1>3. item \in Events /\ Original(item) = Original(event)
  BY <1>2, RewrittenIsEvent, OriginalIsEvent
<1>4. q \in QueuesOf(Events)
  BY HoldingEventsAreQueues
<1>5. tq' = MiddleRewound(MovedToFirst(replaced))
  BY DEF activate_fork_rewind
<1> HIDE DEF item
<1>6. /\ replaced \in QueuesOf(Events) /\ replaced.internal # <<>>
      /\ Originals(Everything(replaced)) = Originals(Everything(q))
  BY <1>3, <1>4, MiddleReplacedKeeps
<1> HIDE DEF replaced
<1>7. Everything(tq') = Everything(replaced)
  BY <1>5, <1>6, DecidedKeeps
<1>8. QED
  BY <1>6, <1>7

LEMMA IterateKeeps ==
    ASSUME IInv, NEW c \in Callers, Iterate(c)
    PROVE  Originals(Everything(tq')) = Originals(Everything(tq))
<1> DEFINE e == Head(tq.input)
<1>1. /\ tq \in HoldingEvents /\ tq \in QueuesOf(Events)
      /\ tq \in QueuesHolding(Events, FreshEvents)
  BY HoldingEventsAreQueues DEF IInv, AutomatonInv, HoldingEvents
<1>2. state # "normal" => tq.internal # <<>>
  BY DEF IInv, AutomatonInv, SuspectHeadsMiddle
<1>3. CASE (TimeDecides \/ Forcing(c)) /\ activate_fork_rewind(tq)
  BY <1>1, <1>2, <1>3, ActivateKeeps DEF TimeDecides, Forcing
<1>4. CASE tq.input # <<>> /\ transition_by_key(e)
  <2>1. e \in Events
    BY <1>1, <1>4, HeadTailProperties DEF QueuesOf
  <2> HIDE DEF e
  <2>2. CASE tq' = MovedToSecond(tq)
    BY <1>1, <1>4, <2>2, SecondKeepsAll
  <2>3. CASE tq' = PassedThrough(tq)
    BY <1>1, <1>4, <2>3, PassedThroughKeeps
  <2>4. CASE tq' = tq
    BY <2>4
  <2>5. CASE state # "normal" /\ tq' = MiddleRewound(MovedToFirst(tq))
    BY <1>1, <1>2, <2>5, DecidedKeeps
  <2>6. CASE ReleaseForked(e)
    <3> DEFINE item == rewritten(e, released_as(e.code))
               replaced == ThirdReplaced(tq, item)
    <3>1. e.code \in Keys
      BY <1>1, <1>4, HeadTailProperties, FreshEventHasKey DEF QueuesHolding, e
    <3>2. item \in Events /\ Original(item) = Original(e)
      <4>1. released_as(e.code) \in Keycodes
        BY <3>1 DEF released_as, IInv, AutomatonInv, DecisionTypes
      <4>2. QED
        BY <2>1, <4>1, RewrittenIsEvent, OriginalIsEvent
    <3>3. tq' = PassedThrough(replaced)
      BY <2>6 DEF ReleaseForked
    <3> HIDE DEF item
    <3>4. /\ replaced \in QueuesOf(Events) /\ replaced.input # <<>>
          /\ Originals(Everything(replaced)) = Originals(Everything(tq))
      BY <1>1, <1>4, <3>2, ThirdReplacedKeeps DEF e
    <3> HIDE DEF replaced
    <3>5. QED
      BY <3>3, <3>4, PassedThroughKeeps
  <2>7. CASE ForkedKeyRepeats(e)
    <3> DEFINE scanned == MovedToSecond(tq)
    <3>1. scanned \in HoldingEvents /\ scanned.internal = Append(tq.internal, e)
      BY <1>1, <1>4, MovedToSecondReturns DEF HoldingEvents, e
    <3>2. scanned.internal # <<>>
      BY <1>1, <2>1, <3>1, AppendProperties DEF QueuesOf
    <3>3. Everything(scanned) = Everything(tq)
      BY <1>1, <1>4, SecondKeepsAll
    <3>4. activate_fork_rewind(scanned)
      BY <2>7 DEF ForkedKeyRepeats
    <3> HIDE DEF scanned
    <3>5. QED
      BY <3>1, <3>2, <3>3, <3>4, ActivateKeeps
  <2>8. CASE DecidedByEventTime(e)
    BY <1>1, <1>2, <2>8, ActivateKeeps DEF DecidedByEventTime
  <2>9. \/ ForkedKeyRepeats(e) \/ DecidedByEventTime(e) \/ ReleaseForked(e)
        \/ tq' = MovedToSecond(tq) \/ tq' = PassedThrough(tq) \/ tq' = tq
        \/ state # "normal" /\ tq' = MiddleRewound(MovedToFirst(tq))
    <3>1. ASSUME state = "normal", apply_event_to_normal(e)
          PROVE  \/ ReleaseForked(e)
                 \/ tq' = MovedToSecond(tq) \/ tq' = PassedThrough(tq)
      BY <3>1
         DEF apply_event_to_normal, StartSuspecting, SelfForkedRepeats, StartSelfForked,
             PassUnforkable
    <3>2. ASSUME state # "normal",
                 apply_event_to_suspect(e) \/ apply_event_to_verify_state(e)
          PROVE  \/ tq' = MovedToSecond(tq) \/ tq' = tq
                 \/ tq' = MiddleRewound(MovedToFirst(tq))
      BY <3>2
         DEF apply_event_to_suspect, apply_event_to_verify_state, SuspectReleased,
             OtherReleased, SuspectRepeats, SuspectRepeatsUnhandled, StartVerifying,
             VerificatorReleased, OtherWhileVerifying, do_confirm_non_fork
    <3>3. QED
      BY <1>4, <3>1, <3>2 DEF transition_by_key
  <2>10. QED
    BY <2>2, <2>3, <2>4, <2>5, <2>6, <2>7, <2>8, <2>9
<1>5. QED
  BY <1>3, <1>4 DEF Iterate, e

LEMMA DueOf ==
    ASSUME NEW top \in Seq(Events), NEW q \in QueuesOf(Events)
    PROVE  /\ top \o Everything(q) \in Seq(Events)
           /\ Originals(top \o Everything(q)) \in Seq(Events)
           /\ Originals(top \o Everything(q)) = Originals(top) \o Originals(Everything(q))
<1>1. Everything(q) \in Seq(Events)
  BY OriginalsOfQueue
<1>2. QED
  BY <1>1, ConcatProperties, OriginalsOf, OriginalsConcat

LEMMA TopOf ==
    ASSUME NEW calls \in Seq(Callers), NEW hands \in [Callers -> Seq(Events)]
    PROVE  (IF calls = <<>> THEN <<>> ELSE hands[Head(calls)]) \in Seq(Events)
BY HeadTailProperties, EmptySeq

LEMMA DueTypes ==
    ASSUME IInv
    PROVE  /\ tq \in QueuesOf(Events)
           /\ TopHand \in Seq(Events)
           /\ Due \in Seq(Events)
           /\ Due = Originals(TopHand) \o Originals(Everything(tq))
<1>1. tq \in QueuesOf(Events)
  BY HoldingEventsAreQueues DEF IInv, AutomatonInv
<1>2. TopHand \in Seq(Events)
  BY TopOf DEF IInv, ActivationInv, TopHand
<1>3. QED
  BY <1>1, <1>2, DueOf DEF Due

\* The event comes last, at the present time.
Enters(e) ==
    /\ e \in Events /\ e.time = clock
    /\ Due' = Append(Due, e) /\ accepted' = Append(accepted, e)
    /\ mCurrent_time' = 0
    /\ UNCHANGED <<delivered, downstream_time, clock, now>>

\* The event that came first of those due is relayed.
Leaves(e) ==
    /\ Due # <<>> /\ e = Head(Due) /\ Due' = Tail(Due)
    /\ Originals(delivered') = Append(Originals(delivered), e)
    /\ downstream_time' = e.time
    /\ UNCHANGED <<accepted, mCurrent_time, clock, now>>

LEMMA TakingEnters ==
    ASSUME IInv, IInv', SingleThread, StackInv, HandInv, NEW c \in Callers, TakesEvent(c)
    PROVE  \E e \in Events : Enters(e)
<1>1. PICK key \in Typed, kind \in Kinds : accept_event(c, key, kind) /\ tq' # tq
  BY DEF TakesEvent
<1> DEFINE event == [key |-> key, code |-> key, kind |-> kind, time |-> clock]
<1>2. event \in Events /\ Original(event) = event /\ event.time = clock
  BY <1>1 DEF accept_event, IInv, EnvironmentInv, Events, Keycodes, Original, rewritten
<1>3. tq' = Pushed(tq, event) /\ accepted' = Append(accepted, event)
  BY <1>1 DEF accept_event
<1>4. TopHand' = TopHand
  <2>1. CallStarts(c)
    BY <1>1 DEF accept_event, Called, CallStarts, outputVars
  <2>2. HandsStill
    BY <1>1, <2>1 DEF HandsStill, accept_event, Called, Goto, IInv, ActivationInv
  <2>3. QED
    BY <2>2, TopHandStill
<1> HIDE DEF event
<1>5. Everything(tq') = Append(Everything(tq), event)
  BY <1>2, <1>3, DueTypes, PushedIsLast
<1>6. Due' = Append(Due, event)
  <2>1. TopHand \in Seq(Events) /\ Everything(tq) \in Seq(Events)
    BY DueTypes, OriginalsOfQueue
  <2>2. TopHand \o Append(Everything(tq), event) = Append(TopHand \o Everything(tq), event)
    <3>1. ASSUME NEW s \in Seq(Events), NEW t \in Seq(Events)
          PROVE  s \o Append(t, event) = Append(s \o t, event)
      <4>1. s \o t \in Seq(Events) /\ <<event>> \in Seq(Events)
        BY <1>2, ConcatProperties
      <4>2. (s \o t) \o <<event>> = s \o (t \o <<event>>)
        BY <4>1, ConcatAssociative
      <4>3. Append(s \o t, event) = (s \o t) \o <<event>>
        BY <1>2, <4>1, AppendIsConcat
      <4>4. Append(t, event) = t \o <<event>>
        BY <1>2, AppendIsConcat
      <4>5. QED
        BY <4>2, <4>3, <4>4
    <3>2. QED
      BY <2>1, <3>1
  <2>3. Originals(Append(TopHand \o Everything(tq), event)) = Append(Due, event)
    <3>1. ASSUME NEW s \in Seq(Events)
          PROVE  Originals(Append(s, event)) = Append(Originals(s), event)
      <4>1. <<event>> \in Seq(Events) /\ Originals(s) \in Seq(Events)
        BY <1>2, OriginalsOf
      <4>2. Append(s, event) = s \o <<event>>
        BY <1>2, AppendIsConcat
      <4>3. Append(Originals(s), event) = Originals(s) \o <<event>>
        BY <1>2, <4>1, AppendIsConcat
      <4>4. Originals(<<event>>) = <<event>>
        BY <1>2, OriginalsOfOne
      <4>5. Originals(s \o <<event>>) = Originals(s) \o Originals(<<event>>)
        BY <4>1, OriginalsConcat
      <4>6. QED
        BY <4>2, <4>3, <4>4, <4>5
    <3>2. TopHand \o Everything(tq) \in Seq(Events)
      BY <2>1, ConcatProperties
    <3>3. QED
      BY <3>1, <3>2 DEF Due
  <2>4. QED
    BY <1>4, <1>5, <2>2, <2>3 DEF Due
<1>7. Enters(event)
  BY <1>1, <1>2, <1>3, <1>6 DEF Enters, accept_event, outputVars
<1>8. QED
  BY <1>2, <1>7

LEMMA PoppingKeepsDue ==
    ASSUME IInv, IInv', SingleThread, StackInv, HandInv,
           NEW c \in Callers, pop_event_if_present(c)
    PROVE  Due' = Due
<1> DEFINE first == Head(tq.output)
<1>1. /\ tq' = Popped(tq) /\ tq.output # <<>>
      /\ hand' = [hand EXCEPT ![c] = <<first>>]
      /\ stack' = stack /\ stack # <<>> /\ Head(stack) = c /\ pc[c] = "flush"
  BY DEF pop_event_if_present, Running
<1>2. TopHand = <<>>
  BY <1>1 DEF TopHand, HandInv
<1>3. TopHand' = <<first>>
  BY <1>1 DEF TopHand, IInv, ActivationInv
<1>4. Everything(tq) = <<first>> \o Everything(Popped(tq))
  BY <1>1, DueTypes, PoppedIsFirst
<1>5. Everything(tq) \in Seq(Events)
  BY DueTypes, OriginalsOfQueue
<1>6. <<>> \o Everything(tq) = Everything(tq)
  BY <1>5, ConcatEmptySeq
<1>7. QED
  BY <1>1, <1>2, <1>3, <1>4, <1>6 DEF Due

LEMMA IterateKeepsDue ==
    ASSUME IInv, IInv', NEW c \in Callers, Iterate(c)
    PROVE  Due' = Due
<1>1. TopHand' = TopHand
  BY DEF Iterate, callVars, TopHand
<1>2. Originals(Everything(tq')) = Originals(Everything(tq))
  BY IterateKeeps
<1>3. tq' \in QueuesOf(Events)
  BY HoldingEventsAreQueues DEF IInv, AutomatonInv
<1>4. Due' = Originals(TopHand) \o Originals(Everything(tq'))
  BY <1>1, <1>3, DueTypes, DueOf DEF Due
<1>5. QED
  BY <1>2, <1>4, DueTypes

LEMMA RelayingLeaves ==
    ASSUME IInv, IInv', SingleThread, StackInv, HandInv, NEW c \in Callers, relay_event(c)
    PROVE  \E e \in Events : Leaves(e)
<1> DEFINE event == Head(hand[c])
           e == Original(event)
           rest == Originals(Everything(tq))
<1>1. /\ hand[c] \in Seq(Events) /\ Len(hand[c]) = 1
      /\ stack' = stack /\ stack # <<>> /\ Head(stack) = c
      /\ hand' = [hand EXCEPT ![c] = <<>>] /\ tq' = tq
      /\ delivered' = delivered \o hand[c]
      /\ downstream_time' = event.time
  BY DEF relay_event, Running, HandInv, IInv, ActivationInv, machineVars
<1>2. hand[c] = <<event>> /\ event \in Events
  BY <1>1, HeadTailProperties, LenProperties, SMT
<1>3. e \in Events /\ e.time = event.time
  BY <1>2, OriginalIsEvent
<1>4. TopHand = <<event>> /\ TopHand' = <<>>
  BY <1>1, <1>2 DEF TopHand, IInv, ActivationInv
<1>5. Everything(tq) \in Seq(Events) /\ rest \in Seq(Events)
  BY DueTypes, OriginalsOfQueue, OriginalsOf
<1>6. Due' = rest
  <2>1. <<>> \o Everything(tq) = Everything(tq)
    BY <1>5, ConcatEmptySeq
  <2>2. QED
    BY <1>1, <1>4, <2>1 DEF Due
<1>7. Due = <<e>> \o rest
  BY <1>2, <1>4, DueTypes, OriginalsOfOne
<1>8. Originals(delivered') = Append(Originals(delivered), e)
  <2>1. delivered \in Seq(Events) /\ Originals(delivered) \in Seq(Events)
    BY OriginalsOf DEF IInv, EnvironmentInv
  <2>2. <<event>> \in Seq(Events)
    BY <1>2
  <2>3. Originals(delivered \o <<event>>) = Originals(delivered) \o <<e>>
    BY <1>2, <2>1, <2>2, OriginalsConcat, OriginalsOfOne
  <2>4. Append(Originals(delivered), e) = Originals(delivered) \o <<e>>
    BY <1>3, <2>1, AppendIsConcat
  <2>5. QED
    BY <1>1, <1>2, <2>3, <2>4
<1> HIDE DEF e, rest
<1>9. Due # <<>> /\ Head(Due) = e /\ Tail(Due) = rest
  BY <1>3, <1>5, <1>7
<1>10. Leaves(e)
  BY <1>1, <1>3, <1>6, <1>8, <1>9
     DEF Leaves, relay_event, machineVars, keyboardVars, worldVars
<1>11. QED
  BY <1>3, <1>10

LEMMA DueSteps ==
    ASSUME IInv, IInv', SingleThread, StackInv, HandInv, [Next]_vars
    PROVE  \/ \E e \in Events : Enters(e) \/ Leaves(e)
           \/ UNCHANGED <<Due, accepted, delivered>>
<1>1. ASSUME NEW c \in Callers, TakesEvent(c) PROVE \E e \in Events : Enters(e)
  BY <1>1, TakingEnters
<1>2. ASSUME NEW c \in Callers, relay_event(c) PROVE \E e \in Events : Leaves(e)
  BY <1>2, RelayingLeaves
<1>3. ASSUME NEW c \in Callers, pop_event_if_present(c)
      PROVE  UNCHANGED <<Due, accepted, delivered>>
  BY <1>3, PoppingKeepsDue DEF pop_event_if_present, keyboardVars, outputVars
<1>4. ASSUME NEW c \in Callers, Iterate(c) PROVE UNCHANGED <<Due, accepted, delivered>>
  BY <1>4, IterateKeepsDue DEF Iterate, keyboardVars, outputVars
<1>5. CASE HandsStill /\ UNCHANGED <<tq, accepted, delivered>>
  BY <1>5, TopHandStill DEF Due
<1>6. QED
  BY <1>1, <1>2, <1>3, <1>4, <1>5, StepsOfEvents

(***************************************************************************)
(* What was accepted was relayed or is due, each event once and in the     *)
(* order it came.                                                          *)
(***************************************************************************)
NothingLost == Originals(delivered) \o Due = accepted

LEMMA NothingGetsLost ==
    ASSUME IInv, IInv', SingleThread, StackInv, HandInv, NothingLost, [Next]_vars
    PROVE  NothingLost'
<1>1. /\ Due \in Seq(Events) /\ Originals(delivered) \in Seq(Events)
      /\ Originals(delivered) \o Due = accepted
  BY DueTypes, OriginalsOf DEF IInv, EnvironmentInv, NothingLost
<1>2. ASSUME NEW e \in Events, Enters(e) PROVE NothingLost'
  <2>1. ASSUME NEW s \in Seq(Events), NEW t \in Seq(Events)
        PROVE  s \o Append(t, e) = Append(s \o t, e)
    <3>1. s \o t \in Seq(Events) /\ <<e>> \in Seq(Events)
      BY ConcatProperties
    <3>2. (s \o t) \o <<e>> = s \o (t \o <<e>>)
      BY <3>1, ConcatAssociative
    <3>3. Append(s \o t, e) = (s \o t) \o <<e>>
      BY <3>1, AppendIsConcat
    <3>4. Append(t, e) = t \o <<e>>
      BY AppendIsConcat
    <3>5. QED
      BY <3>2, <3>3, <3>4
  <2>2. Originals(delivered) \o Append(Due, e) = Append(accepted, e)
    BY <1>1, <2>1
  <2>3. QED
    BY <1>2, <2>2 DEF Enters, NothingLost
<1>3. ASSUME NEW e \in Events, Leaves(e) PROVE NothingLost'
  <2>1. Append(Originals(delivered), Head(Due)) \o Tail(Due) = Originals(delivered) \o Due
    BY <1>1, <1>3, CutMoves DEF Leaves
  <2>2. QED
    BY <1>1, <1>3, <2>1 DEF Leaves, NothingLost
<1>4. CASE UNCHANGED <<Due, accepted, delivered>>
  BY <1>4 DEF NothingLost
<1>5. QED
  BY <1>2, <1>3, <1>4, DueSteps

LEMMA ConservedIsNothingLost ==
    ASSUME IInv, SingleThread, StackInv, HandInv, NothingLost
    PROVE  Conserved
<1>1. InHand = TopHand
  BY InHandIsTop
<1>2. delivered \in Seq(Events) /\ TopHand \in Seq(Events) /\ Everything(tq) \in Seq(Events)
  BY DueTypes, OriginalsOfQueue DEF IInv, EnvironmentInv
<1>3. TopHand \o Everything(tq) \in Seq(Events)
  BY <1>2, ConcatProperties
<1>4. delivered \o (TopHand \o Everything(tq)) = (delivered \o TopHand) \o Everything(tq)
  BY <1>2, ConcatAssociative
<1>5. Originals(delivered \o (TopHand \o Everything(tq))) = Originals(delivered) \o Due
  BY <1>2, <1>3, OriginalsConcat DEF Due
<1>6. QED
  BY <1>1, <1>4, <1>5 DEF Conserved, NothingLost

ThreadInv == IInv /\ StackInv /\ HandInv /\ NothingLost

LEMMA ThreadInit == Init => ThreadInv
<1> SUFFICES ASSUME Init PROVE ThreadInv
  OBVIOUS
<1>1. IInv
  BY InitEstablishes
<1>2. StackInv /\ HandInv
  BY DEF Init, StackInv, HandInv, OnlyTopMoves, Waiting
<1>3. NothingLost
  <2>1. /\ TopHand = <<>> /\ Everything(tq) = <<>> /\ delivered = <<>> /\ accepted = <<>>
    <3>1. \A s \in Seq(Events) : <<>> \o s = s
      BY ConcatEmptySeq
    <3>2. <<>> \in Seq(Events)
      BY EmptySeq
    <3>3. <<>> \o <<>> = <<>>
      BY <3>1, <3>2
    <3>4. QED
      BY <3>3 DEF Init, TopHand, Everything, EmptyQueues
  <2>2. <<>> \in Seq(Events) /\ <<>> \o <<>> = <<>>
    BY EmptySeq, ConcatEmptySeq
  <2>3. Originals(<<>>) = <<>>
    <3>1. Originals(<<>>) \in Seq(Events) /\ Len(Originals(<<>>)) = 0
      BY <2>2, OriginalsOf
    <3>2. QED
      BY <3>1, EmptySeq
  <2>4. QED
    BY <2>1, <2>2, <2>3 DEF NothingLost, Due
<1>4. QED
  BY <1>1, <1>2, <1>3 DEF ThreadInv

LEMMA ThreadNext ==
    ASSUME SingleThread, ThreadInv, [Next]_vars
    PROVE  ThreadInv'
<1>1. IInv'
  BY NextPreserves DEF ThreadInv
<1>2. StackInv' /\ HandInv'
  BY StackStays, HandsStay DEF ThreadInv
<1>3. NothingLost'
  BY <1>1, NothingGetsLost DEF ThreadInv
<1>4. QED
  BY <1>1, <1>2, <1>3 DEF ThreadInv

LEMMA ThreadInvariance ==
    ASSUME SingleThread
    PROVE  Spec => []ThreadInv
BY ThreadInit, ThreadNext, PTL DEF Spec

(***************************************************************************)
(* "We take over pevent and promise to deliver back": with one thread, an  *)
(* event that was accepted is downstream, in the hand of a caller or in    *)
(* the queue, once and in its place, through rewinds, freezes and calls    *)
(* from inside relay_event.                                                *)
(***************************************************************************)
THEOREM EventsConserved ==
    ASSUME SingleThread
    PROVE  Spec => []Conserved
<1>1. ThreadInv => Conserved
  BY ConservedIsNothingLost DEF ThreadInv
<1>2. QED
  BY <1>1, ThreadInvariance, PTL
-----------------------------------------------------------------------------
(***************************************************************************)
(* Times.  What is due is in the order of its times, none of them is later *)
(* than the clock nor than the time the machine was given, and whoever is  *)
(* about to push a time pushes one between what was sent and what is due.  *)
(***************************************************************************)
InTimeOrder(s) == \A i, j \in DOMAIN s : i <= j => s[i].time <= s[j].time
NoneBefore(time, s) == \A i \in DOMAIN s : time <= s[i].time
NoneAfter(s, time) == \A i \in DOMAIN s : s[i].time <= time

TimesInv ==
    /\ InTimeOrder(Due) /\ NoneAfter(Due, clock)
    /\ NoneBefore(downstream_time, Due)
    /\ downstream_time <= clock /\ mCurrent_time <= clock
    /\ mCurrent_time # 0 => downstream_time <= mCurrent_time /\ NoneAfter(Due, mCurrent_time)

PushInv ==
    \A c \in Callers : pc[c] = "pushing" =>
        /\ downstream_time <= now[c] /\ now[c] <= clock
        /\ NoneBefore(now[c], Due)
        /\ mCurrent_time # 0 => now[c] <= mCurrent_time

\* An event of the present time comes last.
LEMMA OrderOfAppended ==
    ASSUME NEW s \in Seq(Events), NEW e \in Events, NEW time \in Times,
           InTimeOrder(s), NoneAfter(s, e.time), NoneBefore(time, s), time <= e.time
    PROVE  /\ InTimeOrder(Append(s, e))
           /\ NoneAfter(Append(s, e), e.time)
           /\ NoneBefore(time, Append(s, e))
<1>1. /\ DOMAIN s = 1 .. Len(s) /\ Len(s) \in Nat
      /\ \A i \in 1 .. Len(s) : s[i].time \in Nat
  BY LenProperties, ElementOfSeq, EventFields DEF Times
<1>2. /\ DOMAIN Append(s, e) = 1 .. Len(s) + 1
      /\ \A i \in 1 .. Len(s) : Append(s, e)[i] = s[i]
      /\ Append(s, e)[Len(s) + 1] = e
  BY <1>1, AppendProperties, LenProperties
<1>3. e.time \in Nat
  BY EventFields DEF Times
<1>4. QED
  BY <1>1, <1>2, <1>3 DEF InTimeOrder, NoneAfter, NoneBefore

\* What is behind the head is not before it.
LEMMA OrderOfTail ==
    ASSUME NEW s \in Seq(Events), s # <<>>, InTimeOrder(s)
    PROVE  /\ InTimeOrder(Tail(s))
           /\ NoneBefore(Head(s).time, Tail(s))
           /\ \A time : NoneAfter(s, time) => NoneAfter(Tail(s), time)
           /\ \A time : NoneBefore(time, s) => time <= Head(s).time
           /\ \A time : NoneAfter(s, time) => Head(s).time <= time
<1>1. DOMAIN s = 1 .. Len(s) /\ Len(s) \in Nat /\ Len(s) >= 1
  BY LenProperties, EmptySeq
<1>2. /\ Head(s) = s[1] /\ 1 \in DOMAIN s
      /\ DOMAIN Tail(s) = 1 .. Len(s) - 1
      /\ \A i \in 1 .. Len(s) - 1 : Tail(s)[i] = s[i + 1] /\ i + 1 \in DOMAIN s /\ 1 <= i + 1
  BY <1>1, HeadTailProperties, LenProperties
<1>3. InTimeOrder(Tail(s))
  BY <1>1, <1>2 DEF InTimeOrder
<1>4. NoneBefore(Head(s).time, Tail(s))
  BY <1>1, <1>2 DEF InTimeOrder, NoneBefore
<1>5. QED
  BY <1>2, <1>3, <1>4 DEF NoneBefore, NoneAfter

LEMMA DueTimes ==
    ASSUME IInv
    PROVE  /\ \A i \in DOMAIN Due : Due[i].time \in Nat
           /\ clock \in Nat /\ downstream_time \in Nat /\ mCurrent_time \in Nat
           /\ \A c \in Callers : now[c] \in Nat
<1>1. Due \in Seq(Events)
  BY DueTypes
<1>2. ASSUME NEW i \in DOMAIN Due PROVE Due[i].time \in Nat
  <2>1. Due[i] \in Events
    BY <1>1, ElementOfSeq, LenProperties
  <2>2. QED
    BY <2>1, EventFields DEF Times
<1>3. QED
  BY <1>2 DEF IInv, ActivationInv, EnvironmentInv, Times

\* While somebody is called or relays, nobody is about to push a time.
LEMMA NobodyPushing ==
    ASSUME IInv, SingleThread, StackInv, NEW c \in Callers,
           EnvironmentTurn \/ (Running(c) /\ pc[c] # "pushing")
    PROVE  \A d \in Callers : pc[d] # "pushing"
BY DEF EnvironmentTurn, Running, StackInv, OnlyTopMoves, Waiting, Outcalls

LEMMA TimesOfEnters ==
    ASSUME IInv, IInv', TimesInv, NEW e \in Events, Enters(e)
    PROVE  TimesInv'
<1>1. Due \in Seq(Events)
  BY DueTypes
<1>2. /\ InTimeOrder(Append(Due, e)) /\ NoneAfter(Append(Due, e), e.time)
      /\ NoneBefore(downstream_time, Append(Due, e))
  BY <1>1, OrderOfAppended DEF TimesInv, Enters, IInv, EnvironmentInv
<1>3. clock \in Nat
  BY DueTimes
<1>4. QED
  BY <1>2, <1>3 DEF TimesInv, Enters

LEMMA TimesOfLeaves ==
    ASSUME IInv, IInv', TimesInv, NEW e \in Events, Leaves(e)
    PROVE  TimesInv' /\ downstream_time' >= downstream_time
<1>1. Due \in Seq(Events) /\ Due # <<>>
  BY DueTypes DEF Leaves
<1>2. /\ InTimeOrder(Tail(Due)) /\ NoneBefore(e.time, Tail(Due))
      /\ NoneAfter(Tail(Due), clock) /\ e.time <= clock
      /\ downstream_time <= e.time
      /\ mCurrent_time # 0 => e.time <= mCurrent_time /\ NoneAfter(Tail(Due), mCurrent_time)
  BY <1>1, OrderOfTail DEF TimesInv, Leaves
<1>3. downstream_time \in Nat /\ e.time \in Nat
  BY DueTimes, EventFields DEF Times
<1>4. QED
  BY <1>2, <1>3 DEF TimesInv, Leaves

\* The time to push is not later than anything due, nor earlier than what was sent.
LEMMA TimeToPushFits ==
    ASSUME IInv, TimesInv, TopHand = <<>>, TimeToPush # 0
    PROVE  /\ downstream_time <= TimeToPush /\ TimeToPush <= clock
           /\ NoneBefore(TimeToPush, Due)
<1>1. /\ tq \in QueuesOf(Events) /\ Everything(tq) \in Seq(Events)
      /\ Due \in Seq(Events)
  BY DueTypes, OriginalsOfQueue
<1>2. Due = Originals(Everything(tq))
  <2>1. <<>> \o Everything(tq) = Everything(tq)
    BY <1>1, ConcatEmptySeq
  <2>2. QED
    BY <2>1 DEF Due
<1>3. Len(Due) = Len(Everything(tq)) /\ Len(Due) \in Nat /\ DOMAIN Due = 1 .. Len(Due)
  BY <1>1, <1>2, OriginalsOf, LenProperties
<1>4. CASE Everything(tq) = <<>>
  <2>1. DOMAIN Due = {}
    BY <1>3, <1>4, EmptySeq
  <2>2. TimeToPush = mCurrent_time
    BY <1>4 DEF TimeToPush
  <2>3. QED
    BY <2>1, <2>2 DEF TimesInv, NoneBefore
<1>5. CASE Everything(tq) # <<>>
  <2>1. Len(Due) >= 1 /\ 1 \in DOMAIN Due
    BY <1>1, <1>3, <1>5, EmptySeq, LenProperties
  <2>2. TimeToPush = Due[1].time
    <3>1. TimeToPush = Head(Everything(tq)).time /\ Head(Everything(tq)) = Everything(tq)[1]
      BY <1>1, <1>5 DEF TimeToPush
    <3>2. Everything(tq)[1] \in Events /\ Due[1] = Original(Everything(tq)[1])
      BY <1>1, <1>2, <1>3, <2>1, OriginalsOf, ElementOfSeq
    <3>3. QED
      BY <3>1, <3>2, OriginalIsEvent
  <2>3. QED
    BY <1>3, <2>1, <2>2 DEF TimesInv, InTimeOrder, NoneBefore, NoneAfter
<1>6. QED
  BY <1>4, <1>5

\* Calls, which may give a time, and the steps that neither push nor give one.
GivesTime ==
    /\ EnvironmentTurn
    /\ mCurrent_time' \in {0, clock, mCurrent_time}
    /\ UNCHANGED <<downstream_time, clock, now>>

LeavesTime ==
    /\ clock' >= clock
    /\ UNCHANGED <<downstream_time, mCurrent_time, now>>

LEMMA StepsOfTimes ==
    ASSUME IInv, [Next]_vars
    PROVE  \/ \E c \in Callers : push_time_to_next(c) \/ push_time(c) \/ relay_event(c)
           \/ /\ GivesTime \/ LeavesTime
              /\ \A c \in Callers : pc'[c] = "pushing" => pc[c] = "pushing"
<1> USE DEF machineVars, callVars, outputVars, worldVars
<1>0. pc \in [Callers -> Labels] /\ clock \in Nat
  BY DEF IInv, ActivationInv, EnvironmentInv, Times
<1>1. ASSUME NEW c \in Callers, NEW key \in Typed, NEW kind \in Kinds,
             accept_event(c, key, kind) \/ accept_out_of_bound(c, key, kind)
      PROVE  GivesTime /\ \A d \in Callers : pc'[d] = "pushing" => pc[d] = "pushing"
  BY <1>0, <1>1 DEF accept_event, accept_out_of_bound, Called, Goto, GivesTime
<1>2. ASSUME NEW c \in Callers, TheTime(c) \/ accept_confirmation(c)
      PROVE  GivesTime /\ \A d \in Callers : pc'[d] = "pushing" => pc[d] = "pushing"
  BY <1>0, <1>2
     DEF TheTime, GivenTimes, accept_time, accept_confirmation, Called, Goto, GivesTime
<1>3. ASSUME NEW c \in Callers, LockAutomaton(c) \/ Iterate(c) \/ UnlockAutomaton(c)
      PROVE  LeavesTime /\ \A d \in Callers : pc'[d] = "pushing" => pc[d] = "pushing"
  BY <1>0, <1>3 DEF LockAutomaton, Iterate, UnlockAutomaton, Goto, LeavesTime
<1>4. ASSUME NEW c \in Callers,
             \/ pop_event_if_present(c) \/ relay_returns(c) \/ FlushEnds(c)
             \/ TimeMayPass(c) \/ push_time_returns(c) \/ Return(c)
      PROVE  LeavesTime /\ \A d \in Callers : pc'[d] = "pushing" => pc[d] = "pushing"
  <2>1. CASE pop_event_if_present(c) \/ relay_returns(c) \/ FlushEnds(c)
    BY <1>0, <2>1 DEF pop_event_if_present, relay_returns, FlushEnds, Goto, LeavesTime
  <2>2. CASE TimeMayPass(c) \/ push_time_returns(c) \/ Return(c)
    BY <1>0, <2>2 DEF TimeMayPass, push_time_returns, Return, Returned, Goto, LeavesTime
  <2>3. QED
    BY <1>4, <2>1, <2>2
<1>5. CASE configure \/ Tick \/ Freeze \/ Thaw \/ ToggleMouseKeys
  BY <1>0, <1>5 DEF configure, Tick, Freeze, Thaw, ToggleMouseKeys, LeavesTime
<1>6. CASE UNCHANGED vars
  BY <1>0, <1>6 DEF vars, LeavesTime
<1>7. QED
  BY <1>1, <1>2, <1>3, <1>4, <1>5, <1>6 DEF Next, Arrives, Proceed

LEMMA PushTimeToNextFits ==
    ASSUME IInv, SingleThread, StackInv, HandInv, TimesInv,
           NEW c \in Callers, push_time_to_next(c), Due' = Due
    PROVE  TimesInv' /\ PushInv' /\ downstream_time' = downstream_time
<1>1. /\ stack # <<>> /\ Head(stack) = c /\ pc[c] = "push_time"
      /\ UNCHANGED <<downstream_time, clock>>
      /\ mCurrent_time' = mCurrent_time \/ mCurrent_time' = 0
      /\ now' = [now EXCEPT ![c] = TimeToPush]
      /\ pc' = [pc EXCEPT ![c] = IF now'[c] = 0 THEN "decide" ELSE "pushing"]
  BY DEF push_time_to_next, Running, outputVars, worldVars, Goto
<1>2. TimesInv'
  BY <1>1, DueTimes DEF TimesInv
<1>3. \A d \in Callers : pc[d] # "pushing"
  BY <1>1, NobodyPushing DEF Running
<1>4. PushInv'
  <2>1. /\ now'[c] = TimeToPush
        /\ \A d \in Callers : pc'[d] = "pushing" => d = c /\ TimeToPush # 0
    BY <1>1, <1>3 DEF IInv, ActivationInv
  <2>2. TopHand = <<>>
    BY <1>1 DEF TopHand, HandInv
  <2>3. mCurrent_time' # 0 => TimeToPush <= mCurrent_time'
    BY DueTimes DEF push_time_to_next, TimeToPush
  <2>4. TimeToPush # 0 => /\ downstream_time <= TimeToPush /\ TimeToPush <= clock
                          /\ NoneBefore(TimeToPush, Due)
    BY <2>2, TimeToPushFits
  <2>5. QED
    BY <1>1, <2>1, <2>3, <2>4 DEF PushInv
<1>5. QED
  BY <1>1, <1>2, <1>4

LEMMA PushTimeFits ==
    ASSUME IInv, SingleThread, StackInv, TimesInv, PushInv,
           NEW c \in Callers, push_time(c), Due' = Due
    PROVE  TimesInv' /\ PushInv' /\ downstream_time' >= downstream_time
<1>1. /\ stack # <<>> /\ Head(stack) = c /\ pc[c] = "pushing"
      /\ UNCHANGED <<mCurrent_time, clock>>
      /\ downstream_time' = now[c]
      /\ pc' = [pc EXCEPT ![c] = "pushed"]
  BY DEF push_time, Running, machineVars, worldVars, Goto
<1>2. downstream_time \in Nat /\ now[c] \in Nat
  BY DueTimes
<1>3. /\ downstream_time <= now[c] /\ now[c] <= clock /\ NoneBefore(now[c], Due)
      /\ mCurrent_time # 0 => now[c] <= mCurrent_time
  BY <1>1 DEF PushInv
<1>4. TimesInv'
  <2>1. InTimeOrder(Due') /\ NoneAfter(Due', clock') /\ mCurrent_time' <= clock'
    BY <1>1 DEF TimesInv
  <2>2. mCurrent_time' # 0 => NoneAfter(Due', mCurrent_time')
    BY <1>1 DEF TimesInv
  <2>3. NoneBefore(downstream_time', Due')
    BY <1>1, <1>3, Zenon
  <2>4. downstream_time' <= clock' /\ (mCurrent_time' # 0 => downstream_time' <= mCurrent_time')
    BY <1>1, <1>3
  <2>5. QED
    BY <2>1, <2>2, <2>3, <2>4 DEF TimesInv
<1>5. \A d \in Callers : pc'[d] # "pushing"
  BY <1>1 DEF IInv, ActivationInv, StackInv, OnlyTopMoves, Waiting, Outcalls
<1>6. QED
  BY <1>1, <1>2, <1>3, <1>4, <1>5 DEF PushInv

LEMMA TimesStep ==
    ASSUME IInv, IInv', SingleThread, StackInv, HandInv, TimesInv, PushInv, [Next]_vars
    PROVE  TimesInv' /\ PushInv' /\ downstream_time' >= downstream_time
<1>0. downstream_time \in Nat /\ clock \in Nat
  BY DueTimes
<1>1. ASSUME NEW c \in Callers, TakesEvent(c)
      PROVE  TimesInv' /\ PushInv' /\ downstream_time' >= downstream_time
  <2>1. PICK e \in Events : Enters(e)
    BY <1>1, TakingEnters
  <2>2. \A d \in Callers : pc[d] # "pushing"
    BY <1>1, NobodyPushing DEF TakesEvent, accept_event, Called
  <2>3. \A d \in Callers : pc'[d] # "pushing"
    BY <1>1, <2>2 DEF TakesEvent, accept_event, Goto, IInv, ActivationInv
  <2>4. QED
    BY <1>0, <2>1, <2>3, TimesOfEnters DEF PushInv, Enters
<1>2. ASSUME NEW c \in Callers, relay_event(c)
      PROVE  TimesInv' /\ PushInv' /\ downstream_time' >= downstream_time
  <2>1. PICK e \in Events : Leaves(e)
    BY <1>2, RelayingLeaves
  <2>2. \A d \in Callers : pc[d] # "pushing"
    BY <1>2, NobodyPushing DEF relay_event
  <2>3. \A d \in Callers : pc'[d] # "pushing"
    BY <1>2, <2>2 DEF relay_event, Goto, IInv, ActivationInv
  <2>4. QED
    BY <2>1, <2>3, TimesOfLeaves DEF PushInv
<1>3. CASE Due' = Due /\ ~ \E c \in Callers : relay_event(c)
  <2>1. ASSUME NEW c \in Callers, push_time_to_next(c)
        PROVE  TimesInv' /\ PushInv' /\ downstream_time' >= downstream_time
    BY <1>0, <1>3, <2>1, PushTimeToNextFits
  <2>2. ASSUME NEW c \in Callers, push_time(c)
        PROVE  TimesInv' /\ PushInv' /\ downstream_time' >= downstream_time
    BY <1>3, <2>2, PushTimeFits
  <2>3. ASSUME GivesTime, \A c \in Callers : pc'[c] = "pushing" => pc[c] = "pushing"
        PROVE  TimesInv' /\ PushInv' /\ downstream_time' >= downstream_time
    <3>1. \A c \in Callers : pc'[c] # "pushing"
      BY <2>3, NobodyPushing DEF GivesTime
    <3>2. TimesInv'
      BY <1>0, <1>3, <2>3 DEF GivesTime, TimesInv
    <3>3. QED
      BY <1>0, <2>3, <3>1, <3>2 DEF GivesTime, PushInv
  <2>4. ASSUME LeavesTime, \A c \in Callers : pc'[c] = "pushing" => pc[c] = "pushing"
        PROVE  TimesInv' /\ PushInv' /\ downstream_time' >= downstream_time
    <3>1. /\ clock' \in Nat /\ mCurrent_time \in Nat
          /\ \A i \in DOMAIN Due : Due[i].time \in Nat
          /\ \A c \in Callers : now[c] \in Nat
      BY DueTimes DEF IInv, EnvironmentInv, Times
    <3>2. TimesInv'
      BY <1>0, <1>3, <2>4, <3>1 DEF LeavesTime, TimesInv, NoneAfter
    <3>3. PushInv'
      BY <1>0, <1>3, <2>4, <3>1 DEF LeavesTime, PushInv
    <3>4. QED
      BY <1>0, <2>4, <3>2, <3>3 DEF LeavesTime
  <2>5. QED
    BY <1>3, <2>1, <2>2, <2>3, <2>4, StepsOfTimes
<1>4. (\E c \in Callers : TakesEvent(c) \/ relay_event(c)) \/ Due' = Due
  <2>1. ASSUME NEW c \in Callers, pop_event_if_present(c) PROVE Due' = Due
    BY <2>1, PoppingKeepsDue
  <2>2. ASSUME NEW c \in Callers, Iterate(c) PROVE Due' = Due
    BY <2>2, IterateKeepsDue
  <2>3. CASE HandsStill /\ UNCHANGED <<tq, accepted, delivered>>
    BY <2>3, TopHandStill DEF Due
  <2>4. QED
    BY <2>1, <2>2, <2>3, StepsOfEvents
<1>5. QED
  BY <1>1, <1>2, <1>3, <1>4

\* At first nothing is due.
LEMMA NothingDueAtFirst == Init => DOMAIN Due = {}
<1> SUFFICES ASSUME Init PROVE DOMAIN Due = {}
  OBVIOUS
<1>1. NothingLost /\ IInv
  BY ThreadInit DEF ThreadInv
<1>2. delivered = <<>> /\ accepted = <<>> /\ <<>> \in Seq(Events)
  BY EmptySeq DEF Init
<1>3. Originals(<<>>) \in Seq(Events) /\ Due \in Seq(Events)
  BY <1>1, <1>2, OriginalsOf, DueTypes
<1>4. Originals(<<>>) \o Due = <<>>
  BY <1>1, <1>2 DEF NothingLost
<1>5. Due = <<>>
  <2>1. ASSUME NEW s \in Seq(Events), NEW t \in Seq(Events), s \o t = <<>>
        PROVE  t = <<>>
    BY <2>1, ConcatProperties, LenProperties, EmptySeq
  <2>2. QED
    BY <1>3, <1>4, <2>1
<1>6. QED
  BY <1>3, <1>5, EmptySeq

(***************************************************************************)
(* The next plugin never sees time go back, over events and pushed times   *)
(* together: with one thread, whatever is held back, frozen, forced, or    *)
(* called from inside the calls to it.                                     *)
(***************************************************************************)
THEOREM TimeNeverGoesBack ==
    ASSUME SingleThread
    PROVE  Spec => DownstreamTimeMonotone
<1> DEFINE Inv == ThreadInv /\ TimesInv /\ PushInv
<1>1. Init => Inv
  <2>1. Init => TimesInv /\ PushInv
    <3> SUFFICES ASSUME Init PROVE TimesInv /\ PushInv
      OBVIOUS
    <3>1. DOMAIN Due = {}
      BY NothingDueAtFirst
    <3>2. QED
      BY <3>1 DEF Init, TimesInv, PushInv, InTimeOrder, NoneAfter, NoneBefore
  <2>2. QED
    BY <2>1, ThreadInit
<1>2. Inv /\ [Next]_vars => Inv' /\ downstream_time' >= downstream_time
  <2>1. SUFFICES ASSUME Inv, [Next]_vars
                 PROVE  Inv' /\ downstream_time' >= downstream_time
    OBVIOUS
  <2>2. ThreadInv'
    BY <2>1, ThreadNext
  <2>3. QED
    BY <2>1, <2>2, TimesStep DEF ThreadInv
<1> HIDE DEF Inv
<1>3. QED
  BY <1>1, <1>2, PTL DEF Spec, DownstreamTimeMonotone
-----------------------------------------------------------------------------
(***************************************************************************)
(* The clock started at 1, so no event has the time 0 that means no time,  *)
(* and neither has a decision.                                             *)
(***************************************************************************)
LateInv ==
    /\ clock >= 1 /\ NoneBefore(1, Due)
    /\ state # "normal" => mDecision_time >= 1

\* What is behind something due is due, and as late.
LEMMA LaterOfConcat ==
    ASSUME NEW a \in Seq(Events), NEW b \in Seq(Events), NEW time,
           NoneBefore(time, a \o b)
    PROVE  NoneBefore(time, b)
<1>1. /\ DOMAIN a = 1 .. Len(a) /\ Len(a) \in Nat
      /\ DOMAIN b = 1 .. Len(b) /\ Len(b) \in Nat
      /\ DOMAIN (a \o b) = 1 .. Len(a) + Len(b)
  BY LenProperties, ConcatProperties
<1>2. ASSUME NEW i \in DOMAIN b PROVE time <= b[i].time
  <2>1. Len(a) + i \in DOMAIN (a \o b) /\ (a \o b)[Len(a) + i] = b[i]
    BY <1>1
  <2>2. QED
    BY <2>1 DEF NoneBefore
<1>3. QED
  BY <1>2 DEF NoneBefore

\* The event the automaton looks at is one of those due.
LEMMA HeadIsLate ==
    ASSUME IInv, NEW time, NoneBefore(time, Due), tq.input # <<>>
    PROVE  time <= Head(tq.input).time
<1> DEFINE every == TopHand \o Everything(tq)
<1>1. /\ TopHand \in Seq(Events) /\ tq.output \in Seq(Events)
      /\ tq.internal \in Seq(Events) /\ tq.input \in Seq(Events)
  BY DueTypes DEF QueuesOf
<1>2. Everything(tq) \in Seq(Events)
  BY DueTypes, OriginalsOfQueue
<1>3. NoneBefore(time, every)
  <2>1. every \in Seq(Events)
    BY <1>1, <1>2, ConcatProperties
  <2> HIDE DEF every
  <2>2. /\ DOMAIN Originals(every) = DOMAIN every
        /\ \A i \in DOMAIN every : every[i] \in Events /\ Originals(every)[i] = Original(every[i])
    BY <2>1, ElementOfSeq, LenProperties DEF Originals
  <2>3. \A i \in DOMAIN every : Originals(every)[i].time = every[i].time
    BY <2>2, OriginalIsEvent
  <2>4. Due = Originals(every)
    BY DEF Due, every
  <2>5. QED
    BY <2>2, <2>3, <2>4 DEF NoneBefore
<1>4. NoneBefore(time, Everything(tq))
  BY <1>1, <1>2, <1>3, LaterOfConcat
<1>5. NoneBefore(time, tq.input)
  <2>1. ASSUME NEW a \in Seq(Events), NEW b \in Seq(Events), NEW d \in Seq(Events),
               NoneBefore(time, a \o b \o d)
        PROVE  NoneBefore(time, d)
    BY <2>1, ConcatProperties, LaterOfConcat
  <2>2. QED
    BY <1>1, <1>4, <2>1 DEF Everything
<1>6. 1 \in DOMAIN tq.input /\ Head(tq.input) = tq.input[1]
  BY <1>1, LenProperties, EmptySeq
<1>7. QED
  BY <1>5, <1>6 DEF NoneBefore

\* A decision is not before the event that started it.
LEMMA DecisionIsLate ==
    ASSUME IInv, LateInv, NEW c \in Callers, Iterate(c)
    PROVE  state' # "normal" => mDecision_time' >= 1
<1> DEFINE e == Head(tq.input)
<1>1. /\ mDecision_time \in Nat /\ suspect_time \in Nat
      /\ state # "normal" => mDecision_time <= suspect_time + VERIFICATION_INTERVAL
      /\ VERIFICATION_INTERVAL \in Nat /\ OVERLAP_TOLERANCE \in Nat
  BY LimitsAssumption DEF IInv, AutomatonInv, DecisionTypes, SuspectHeadsMiddle, Times
<1>2. ASSUME tq.input # <<>> PROVE e \in Events /\ e.time >= 1 /\ e.time \in Nat
  <2>1. tq.input \in Seq(FreshEvents)
    BY DEF IInv, AutomatonInv, HoldingEvents, QueuesHolding
  <2>2. e \in Events
    BY <1>2, <2>1, HeadTailProperties, FreshEventHasKey
  <2>3. 1 <= e.time
    BY <1>2, HeadIsLate DEF LateInv
  <2>4. QED
    BY <2>2, <2>3, EventFields DEF Times
<1> HIDE DEF e
<1>3. ASSUME tq.input # <<>>, StartSuspecting(e) PROVE mDecision_time' >= 1
  BY <1>1, <1>2, <1>3 DEF StartSuspecting, verification_interval_of
<1>4. ASSUME tq.input # <<>>, state = "suspect", StartVerifying(e)
      PROVE  mDecision_time' >= 1
  BY <1>1, <1>2, <1>4
     DEF StartVerifying, LateInv, verifier_decision_time, verification_interval_of,
         overlap_tolerance_of
<1>5. ASSUME NEW q, activate_fork_rewind(q) PROVE state' = "normal"
  BY <1>5 DEF activate_fork_rewind, rewind_machine
<1>6. ASSUME transition_by_key(e)
      PROVE  \/ state' = "normal"
             \/ StartSuspecting(e)
             \/ state = "suspect" /\ StartVerifying(e)
             \/ state # "normal" /\ mDecision_time' = mDecision_time
  <2>1. ASSUME state = "normal", apply_event_to_normal(e)
        PROVE  state' = "normal" \/ StartSuspecting(e)
    BY <2>1
       DEF apply_event_to_normal, SelfForkedRepeats, StartSelfForked, ReleaseForked,
           PassUnforkable, decisionVars
  <2>2. ASSUME state = "suspect", apply_event_to_suspect(e)
        PROVE  \/ state' = "normal" \/ StartVerifying(e)
               \/ mDecision_time' = mDecision_time
    BY <2>2
       DEF apply_event_to_suspect, SuspectReleased, OtherReleased, SuspectRepeats,
           SuspectRepeatsUnhandled, do_confirm_non_fork, rewind_machine, decisionVars
  <2>3. ASSUME state = "verify", apply_event_to_verify_state(e)
        PROVE  state' = "normal" \/ mDecision_time' = mDecision_time
    BY <2>3
       DEF apply_event_to_verify_state, SuspectReleased, VerificatorReleased,
           OtherWhileVerifying, do_confirm_non_fork, rewind_machine, decisionVars
  <2>4. CASE ForkedKeyRepeats(e) \/ DecidedByEventTime(e)
    BY <1>5, <2>4 DEF ForkedKeyRepeats, DecidedByEventTime
  <2>5. QED
    BY <1>6, <2>1, <2>2, <2>3, <2>4 DEF transition_by_key
<1>7. CASE tq.input # <<>> /\ transition_by_key(e)
  BY <1>3, <1>4, <1>6, <1>7 DEF LateInv
<1>8. CASE activate_fork_rewind(tq)
  BY <1>5, <1>8
<1>9. QED
  BY <1>7, <1>8 DEF Iterate, e

LEMMA LateStays ==
    ASSUME IInv, IInv', SingleThread, StackInv, HandInv, LateInv, [Next]_vars
    PROVE  LateInv'
<1>0. clock \in Nat /\ Due \in Seq(Events)
  BY DueTimes, DueTypes
<1>1. clock' >= 1
  <2>1. clock' \in {clock, clock + 1}
    BY DEF Next, vars, worldVars, Arrives, accept_event, accept_out_of_bound, TheTime,
           accept_time, accept_confirmation, Proceed, LockAutomaton, Iterate,
           UnlockAutomaton, pop_event_if_present, relay_event, relay_returns, FlushEnds,
           TimeMayPass, push_time_to_next, push_time, push_time_returns, Return,
           configure, Tick, Freeze, Thaw, ToggleMouseKeys
  <2>2. QED
    BY <1>0, <2>1 DEF LateInv
<1>2. NoneBefore(1, Due')
  <2>1. ASSUME NEW e \in Events, Enters(e) PROVE NoneBefore(1, Due')
    <3>1. e.time >= 1 /\ Due' = Append(Due, e)
      BY <2>1 DEF Enters, LateInv
    <3>2. /\ DOMAIN Append(Due, e) = 1 .. Len(Due) + 1 /\ DOMAIN Due = 1 .. Len(Due)
          /\ \A i \in 1 .. Len(Due) : Append(Due, e)[i] = Due[i]
          /\ Append(Due, e)[Len(Due) + 1] = e
          /\ Len(Due) \in Nat
      BY <1>0, AppendProperties, LenProperties
    <3>3. e.time \in Nat
      BY EventFields DEF Times
    <3>4. QED
      BY <3>1, <3>2, <3>3 DEF NoneBefore, LateInv
  <2>2. ASSUME NEW e \in Events, Leaves(e) PROVE NoneBefore(1, Due')
    <3>1. Due = <<Head(Due)>> \o Tail(Due) /\ Head(Due) \in Events /\ Tail(Due) \in Seq(Events)
      BY <1>0, <2>2, HeadTailProperties DEF Leaves
    <3>2. <<Head(Due)>> \in Seq(Events)
      BY <3>1
    <3>3. NoneBefore(1, Tail(Due))
      BY <3>1, <3>2, LaterOfConcat DEF LateInv
    <3>4. QED
      BY <2>2, <3>3 DEF Leaves
  <2>3. CASE Due' = Due
    BY <2>3 DEF LateInv
  <2>4. QED
    BY <2>1, <2>2, <2>3, DueSteps
<1>3. state' # "normal" => mDecision_time' >= 1
  <2>1. ASSUME NEW c \in Callers, Iterate(c) PROVE state' # "normal" => mDecision_time' >= 1
    BY <2>1, DecisionIsLate
  <2>2. CASE UNCHANGED decisionVars
    BY <2>2 DEF decisionVars, LateInv
  <2>3. QED
    BY <2>1, <2>2, StepsOfDecisions
<1>4. QED
  BY <1>1, <1>2, <1>3 DEF LateInv

LEMMA LateInit == Init => LateInv
BY NothingDueAtFirst DEF Init, LateInv, NoneBefore
-----------------------------------------------------------------------------
(***************************************************************************)
(* What the automaton puts into the output agrees with forkActive.         *)
(***************************************************************************)

\* Forks are given and changed, but not taken away: a suspect whose fork is
\* gone is sent as keycode 0, and forkActive does not know.
NoForkRemoved == "configure" \in Environment => NoKey \notin ForkTargets

\* What is forked, or suspected, has a fork.
ForksInv ==
    /\ \A key \in Keys : key_forked(key) => forkable_p(key)
    /\ state # "normal" => forkable_p(suspect)

\* code is what forkActive may say of a key whose last event is e.
Agrees(e, code) ==
    /\ code # NoKey => press_p(e) /\ e.code = code
    /\ press_p(e) /\ e.code # e.key => code = e.code /\ code # NoKey

\* forkActive keeps up with an event e that is decided.
Remembers(e) ==
    /\ e \in Events
    /\ \A key \in Keys : key # e.key => forkActive'[key] = forkActive[key]
    /\ Agrees(e, forkActive'[e.key])
    /\ release_p(e) =>
          e.code = IF forkActive[e.key] = NoKey THEN e.key ELSE forkActive[e.key]

Decides(e) == Remembers(e) /\ tq'.output = Append(tq.output, e)

\* What the two ways to the output append to it.
LEMMA MiddleHeadGoesOut ==
    ASSUME NEW q \in QueuesOf(Events), q.internal # <<>>
    PROVE  MiddleRewound(MovedToFirst(q)).output = Append(q.output, Head(q.internal))
<1>1. MovedToFirst(q).output = Append(q.output, Head(q.internal))
  BY DEF MovedToFirst, QueuesOf
<1>2. MovedToFirst(q) \in QueuesOf(Events)
  BY FirstKeepsAll
<1>3. QED
  BY <1>1, <1>2 DEF MiddleRewound, QueuesOf

LEMMA InputHeadGoesOut ==
    ASSUME NEW q \in QueuesOf(Events), q.internal = <<>>, q.input # <<>>
    PROVE  PassedThrough(q).output = Append(q.output, Head(q.input))
<1>1. Head(q.input) \in Events
  BY HeadTailProperties DEF QueuesOf
<1>2. /\ MovedToSecond(q).internal = Append(q.internal, Head(q.input))
      /\ MovedToSecond(q).output = q.output
  BY DEF MovedToSecond, QueuesOf
<1>3. MovedToSecond(q) \in QueuesOf(Events)
  BY SecondKeepsAll
<1>4. Append(<<>>, Head(q.input)) # <<>> /\ Head(Append(<<>>, Head(q.input))) = Head(q.input)
  BY <1>1
<1>5. QED
  BY <1>2, <1>3, <1>4 DEF PassedThrough, MovedToFirst, QueuesOf

LEMMA ReplacedHeads ==
    ASSUME NEW q \in QueuesOf(Events), NEW item \in Events
    PROVE  /\ q.internal # <<>> =>
                /\ MiddleReplaced(q, item) \in QueuesOf(Events)
                /\ MiddleReplaced(q, item).output = q.output
                /\ MiddleReplaced(q, item).internal # <<>>
                /\ Head(MiddleReplaced(q, item).internal) = item
           /\ q.input # <<>> =>
                /\ ThirdReplaced(q, item) \in QueuesOf(Events)
                /\ ThirdReplaced(q, item).output = q.output
                /\ ThirdReplaced(q, item).internal = q.internal
                /\ ThirdReplaced(q, item).input # <<>>
                /\ Head(ThirdReplaced(q, item).input) = item
<1>1. ASSUME NEW s \in Seq(Events), s # <<>>
      PROVE  /\ <<item>> \o Tail(s) \in Seq(Events)
             /\ <<item>> \o Tail(s) # <<>>
             /\ Head(<<item>> \o Tail(s)) = item
  <2>1. Tail(s) \in Seq(Events) /\ <<item>> \in Seq(Events)
    BY <1>1, HeadTailProperties
  <2>2. QED
    BY <2>1
<1>2. q.internal \in Seq(Events) /\ q.input \in Seq(Events)
  BY DEF QueuesOf
<1>3. /\ q.internal # <<>> =>
           /\ <<item>> \o Tail(q.internal) \in Seq(Events)
           /\ <<item>> \o Tail(q.internal) # <<>>
           /\ Head(<<item>> \o Tail(q.internal)) = item
      /\ q.input # <<>> =>
           /\ <<item>> \o Tail(q.input) \in Seq(Events)
           /\ <<item>> \o Tail(q.input) # <<>>
           /\ Head(<<item>> \o Tail(q.input)) = item
  BY <1>1, <1>2
<1>4. ASSUME NEW t
      PROVE  /\ [q EXCEPT !.internal = t] = [output |-> q.output, internal |-> t, input |-> q.input]
             /\ [q EXCEPT !.input = t] = [output |-> q.output, internal |-> q.internal, input |-> t]
  BY DEF QueuesOf
<1>5. /\ MiddleReplaced(q, item) = [output   |-> q.output,
                                     internal |-> <<item>> \o Tail(q.internal),
                                     input    |-> q.input]
      /\ ThirdReplaced(q, item) = [output   |-> q.output,
                                    internal |-> q.internal,
                                    input    |-> <<item>> \o Tail(q.input)]
  BY <1>4 DEF MiddleReplaced, ThirdReplaced
<1>6. q.output \in Seq(Events)
  BY DEF QueuesOf
<1>7. QED
  BY <1>2, <1>3, <1>5, <1>6 DEF QueuesOf

\* The head of the middle is sent as its fork.
LEMMA ActivateSends ==
    ASSUME IInv, NEW q \in HoldingEvents, q.internal # <<>>, q.output = tq.output,
           activate_fork_rewind(q)
    PROVE  LET event == Head(q.internal)
               item == rewritten(event, config.fork_keycode[event.key])
           IN  /\ event \in Events /\ event.code = event.key
               /\ item \in Events /\ item.key = event.key /\ item.kind = event.kind
               /\ item.code = config.fork_keycode[event.key]
               /\ tq'.output = Append(tq.output, item)
               /\ forkActive' = [forkActive EXCEPT ![event.key] = item.code]
<1> DEFINE event == Head(q.internal)
           target == config.fork_keycode[event.key]
           item == rewritten(event, target)
           replaced == MiddleReplaced(q, item)
<1>1. event \in FreshEvents
  BY HeadTailProperties DEF HoldingEvents, QueuesHolding
<1>2. /\ event \in Events /\ target \in Keycodes
      /\ event.code = event.key /\ event.key \in Keys
  BY <1>1, FreshEventHasKey DEF IInv, AutomatonInv, ConfigType, FreshEvents
<1>3. /\ item \in Events /\ item.key = event.key /\ item.kind = event.kind
      /\ item.code = target
  BY <1>2, RewrittenIsEvent DEF rewritten, Events
<1>4. q \in QueuesOf(Events)
  BY HoldingEventsAreQueues
<1>5. /\ tq' = MiddleRewound(MovedToFirst(replaced))
      /\ forkActive' = [forkActive EXCEPT ![event.key] = target]
  BY <1>2 DEF activate_fork_rewind
<1> HIDE DEF item
<1>6. tq'.output = Append(tq.output, item)
  <2>1. /\ replaced \in QueuesOf(Events) /\ replaced.internal # <<>>
        /\ Head(replaced.internal) = item /\ replaced.output = tq.output
    BY <1>3, <1>4, ReplacedHeads
  <2>2. QED
    BY <1>5, <2>1, MiddleHeadGoesOut
<1> HIDE DEF replaced, target, event
<1>7. QED
  BY <1>2, <1>3, <1>5, <1>6 DEF item, target, event

LEMMA ActivateDecides ==
    ASSUME IInv, NEW q \in HoldingEvents, q.internal # <<>>, q.output = tq.output,
           press_p(Head(q.internal)), forkable_p(Head(q.internal).code),
           activate_fork_rewind(q)
    PROVE  \E e : Decides(e)
<1> DEFINE event == Head(q.internal)
           item == rewritten(event, config.fork_keycode[event.key])
<1>1. /\ event \in Events /\ event.code = event.key
      /\ item \in Events /\ item.key = event.key /\ item.kind = event.kind
      /\ item.code = config.fork_keycode[event.key]
      /\ tq'.output = Append(tq.output, item)
      /\ forkActive' = [forkActive EXCEPT ![event.key] = item.code]
  BY ActivateSends
<1>2. item.code # NoKey /\ press_p(event) /\ event.key \in Keys
  BY <1>1, EventFields DEF forkable_p
<1> HIDE DEF item, event
<1>3. press_p(item) /\ ~release_p(item)
  BY <1>1, <1>2 DEF press_p, release_p
<1>4. forkActive \in [Keys -> Keycodes]
  BY DEF IInv, AutomatonInv, DecisionTypes
<1>5. /\ forkActive'[item.key] = item.code
      /\ \A key \in Keys : key # item.key => forkActive'[key] = forkActive[key]
  BY <1>1, <1>2, <1>4
<1>6. Remembers(item)
  BY <1>1, <1>2, <1>3, <1>5 DEF Remembers, Agrees
<1>7. QED
  BY <1>1, <1>6 DEF Decides


\* A round of the loop decides one event or none.
LEMMA IterateDecides ==
    ASSUME IInv, ForksInv, NEW c \in Callers, Iterate(c)
    PROVE  (\E e : Decides(e)) \/ (tq'.output = tq.output /\ forkActive' = forkActive)
<1> DEFINE e == Head(tq.input)
           Quiet == tq'.output = tq.output /\ forkActive' = forkActive
<1>1. /\ tq \in HoldingEvents /\ tq \in QueuesOf(Events)
      /\ tq \in QueuesHolding(Events, FreshEvents)
  BY HoldingEventsAreQueues DEF IInv, AutomatonInv, HoldingEvents
<1>2. /\ state = "normal" => tq.internal = <<>>
      /\ state # "normal" =>
           /\ tq.internal # <<>>
           /\ press_p(Head(tq.internal)) /\ Head(tq.internal).code = suspect
           /\ forkActive[suspect] = NoKey /\ forkable_p(suspect)
  BY DEF IInv, AutomatonInv, SuspectHeadsMiddle, ForksInv
<1>3. forkActive \in [Keys -> Keycodes]
  BY DEF IInv, AutomatonInv, DecisionTypes
<1>4. CASE (TimeDecides \/ Forcing(c)) /\ activate_fork_rewind(tq)
  BY <1>1, <1>2, <1>4, ActivateDecides DEF TimeDecides, Forcing
<1>5. CASE tq.input # <<>> /\ transition_by_key(e)
  <2>1. e \in FreshEvents
    BY <1>1, <1>5, HeadTailProperties DEF QueuesHolding
  <2>2. e \in Events /\ e.code = e.key /\ e.key \in Keys
    BY <2>1, FreshEventHasKey DEF FreshEvents
  <2>3. MovedToSecond(tq).output = tq.output /\ MovedToSecond(tq) \in HoldingEvents
    BY <1>1, <1>5, MovedToSecondReturns DEF HoldingEvents
  <2>4. MovedToSecond(tq).internal = Append(tq.internal, e)
    BY <1>1, <1>5, MovedToSecondReturns
  <2> HIDE DEF e
  <2>5. CASE ForkedKeyRepeats(e)
    <3>1. key_forked(e.key) /\ press_p(e) /\ activate_fork_rewind(MovedToSecond(tq))
      BY <2>2, <2>5 DEF ForkedKeyRepeats, RepeatOfForked
    <3>2. Head(MovedToSecond(tq).internal) = IF tq.internal = <<>> THEN e ELSE Head(tq.internal)
      <4>1. tq.internal \in Seq(Events)
        BY <1>1 DEF QueuesOf
      <4>2. Head(Append(tq.internal, e)) = IF tq.internal = <<>> THEN e ELSE Head(tq.internal)
        BY <2>2, <4>1
      <4>3. QED
        BY <2>4, <4>2
    <3>3. MovedToSecond(tq).internal # <<>>
      BY <1>1, <2>2, <2>4, AppendProperties DEF QueuesOf
    <3>4. forkable_p(e.code)
      BY <2>2, <3>1 DEF ForksInv
    <3>5. QED
      BY <1>2, <2>3, <3>1, <3>2, <3>3, <3>4, ActivateDecides
  <2>6. CASE DecidedByEventTime(e)
    <3>1. state # "normal" /\ activate_fork_rewind(tq)
      BY <2>6 DEF DecidedByEventTime
    <3>2. QED
      BY <1>1, <1>2, <3>1, ActivateDecides
  <2>7. CASE ~RepeatOfForked(e) /\ state = "normal" /\ apply_event_to_normal(e)
    <3>1. press_p(e) => forkActive[e.key] \in {e.key, NoKey}
      BY <2>2, <2>7 DEF RepeatOfForked, key_forked
    <3>2. press_p(e) <=> ~release_p(e)
      BY <2>2, EventFields DEF press_p, release_p, Kinds
    <3>3. tq' = PassedThrough(tq) => tq'.output = Append(tq.output, e)
      BY <1>1, <1>2, <1>5, <2>7, InputHeadGoesOut DEF e
    <3>4. CASE StartSuspecting(e)
      BY <2>3, <3>4 DEF StartSuspecting
    <3>5. CASE SelfForkedRepeats(e)
      <4>1. press_p(e) /\ forkActive[e.code] = e.code /\ forkActive' = forkActive
        BY <3>5 DEF SelfForkedRepeats, might_fork
      <4>2. Remembers(e)
        BY <2>2, <3>2, <4>1 DEF Remembers, Agrees
      <4>3. QED
        BY <3>3, <3>5, <4>2 DEF Decides, SelfForkedRepeats
    <3>6. CASE StartSelfForked(e)
      <4>1. press_p(e) /\ forkActive' = [forkActive EXCEPT ![e.code] = e.code]
        BY <3>6 DEF StartSelfForked, might_fork
      <4>2. Remembers(e)
        BY <1>3, <2>2, <3>2, <4>1 DEF Remembers, Agrees
      <4>3. QED
        BY <3>3, <3>6, <4>2 DEF Decides, StartSelfForked
    <3>7. CASE ReleaseForked(e)
      <4> DEFINE item == rewritten(e, released_as(e.code))
      <4>1. /\ release_p(e) /\ forkActive[e.code] # NoKey
            /\ tq' = PassedThrough(ThirdReplaced(tq, item))
            /\ forkActive' = [forkActive EXCEPT ![e.code] = NoKey]
        BY <3>7 DEF ReleaseForked
      <4>2. forkActive[e.code] \in Keycodes
        BY <1>3, <2>2
      <4>3. /\ item \in Events /\ item.key = e.key /\ item.kind = e.kind
            /\ item.code = forkActive[e.code]
        BY <2>2, <4>2, RewrittenIsEvent DEF rewritten, released_as, Events
      <4> HIDE DEF item
      <4>4. tq'.output = Append(tq.output, item)
        <5>1. /\ ThirdReplaced(tq, item) \in QueuesOf(Events)
              /\ ThirdReplaced(tq, item).output = tq.output
              /\ ThirdReplaced(tq, item).internal = <<>>
              /\ ThirdReplaced(tq, item).input # <<>>
              /\ Head(ThirdReplaced(tq, item).input) = item
          BY <1>1, <1>2, <1>5, <2>7, <4>3, ReplacedHeads
        <5>2. QED
          BY <4>1, <5>1, InputHeadGoesOut
      <4>5. release_p(item) /\ ~press_p(item)
        BY <3>2, <4>1, <4>3 DEF release_p, press_p
      <4>6. Remembers(item)
        <5>1. /\ forkActive'[item.key] = NoKey
              /\ \A key \in Keys : key # item.key => forkActive'[key] = forkActive[key]
          BY <1>3, <2>2, <4>1, <4>3
        <5>2. QED
          BY <2>2, <4>1, <4>3, <4>5, <5>1 DEF Remembers, Agrees
      <4>7. QED
        BY <4>4, <4>6 DEF Decides
    <3>8. CASE PassUnforkable(e)
      <4>1. /\ release_p(e) => forkActive[e.key] = NoKey
            /\ forkActive' = forkActive /\ tq' = PassedThrough(tq)
        BY <2>2, <3>8 DEF PassUnforkable
      <4>2. Remembers(e)
        BY <2>2, <3>1, <3>2, <4>1 DEF Remembers, Agrees
      <4>3. QED
        BY <3>3, <4>1, <4>2 DEF Decides
    <3>9. QED
      BY <2>7, <3>4, <3>5, <3>6, <3>7, <3>8 DEF apply_event_to_normal
  <2>8. ASSUME state # "normal", do_confirm_non_fork,
               forkActive' = forkActive \/ forkActive' = [forkActive EXCEPT ![suspect] = suspect]
        PROVE  \E first : Decides(first)
    <3> DEFINE first == Head(tq.internal)
    <3>1. first \in FreshEvents
      BY <1>1, <1>2, <2>8, HeadTailProperties DEF QueuesHolding
    <3>2. /\ first \in Events /\ first.code = first.key /\ first.key \in Keys
          /\ press_p(first) /\ first.key = suspect /\ forkActive[suspect] = NoKey
      BY <1>2, <2>8, <3>1, FreshEventHasKey DEF FreshEvents
    <3>3. tq'.output = Append(tq.output, first)
      BY <1>1, <1>2, <2>8, MiddleHeadGoesOut DEF do_confirm_non_fork
    <3> HIDE DEF first
    <3>4. ~release_p(first)
      BY <3>2 DEF press_p, release_p
    <3>5. /\ forkActive'[first.key] \in {NoKey, first.key}
          /\ \A key \in Keys : key # first.key => forkActive'[key] = forkActive[key]
      BY <1>3, <2>8, <3>2
    <3>6. Remembers(first)
      BY <3>2, <3>4, <3>5 DEF Remembers, Agrees
    <3>7. QED
      BY <3>3, <3>6 DEF Decides
  <2>9. CASE state # "normal" /\ (apply_event_to_suspect(e) \/ apply_event_to_verify_state(e))
    <3>1. CASE SuspectReleased(e) \/ SuspectRepeats(e)
      BY <2>8, <2>9, <3>1 DEF SuspectReleased, SuspectRepeats
    <3>2. CASE SuspectRepeatsUnhandled(e)
      BY <3>2 DEF SuspectRepeatsUnhandled
    <3>3. CASE \/ OtherReleased(e) \/ StartVerifying(e)
               \/ VerificatorReleased(e) \/ OtherWhileVerifying(e)
      <4>1. tq' = MovedToSecond(tq) /\ forkActive' = forkActive
        BY <3>3 DEF OtherReleased, StartVerifying, VerificatorReleased, OtherWhileVerifying
      <4>2. QED
        BY <2>3, <4>1
    <3>4. QED
      BY <2>9, <3>1, <3>2, <3>3 DEF apply_event_to_suspect, apply_event_to_verify_state
  <2>10. QED
    BY <1>5, <2>5, <2>6, <2>7, <2>9 DEF transition_by_key
<1>6. QED
  BY <1>4, <1>5 DEF Iterate, e

\* What a round does to the suspicion and to the entries of forkActive.
LEMMA IterateForks ==
    ASSUME IInv, ForksInv, NEW c \in Callers, Iterate(c)
    PROVE  ForksInv'
<1> DEFINE e == Head(tq.input)
           Entries == \A key \in Keys :
               forkActive'[key] \in {forkActive[key], NoKey, key, config.fork_keycode[key]}
<1>1. forkActive \in [Keys -> Keycodes]
  BY DEF IInv, AutomatonInv, DecisionTypes
<1>2. config' = config
  BY DEF Iterate
<1>3. ASSUME NEW q, activate_fork_rewind(q) PROVE Entries /\ state' = "normal"
  BY <1>1, <1>3 DEF activate_fork_rewind, rewind_machine
<1>4. CASE (TimeDecides \/ Forcing(c)) /\ activate_fork_rewind(tq)
  <2>1. Entries /\ state' = "normal"
    BY <1>3, <1>4
  <2>2. QED
    BY <1>2, <2>1 DEF ForksInv, key_forked, forkable_p
<1>5. CASE tq.input # <<>> /\ transition_by_key(e)
  <2>1. /\ Entries
        /\ \/ state' = "normal"
           \/ state # "normal" /\ suspect' = suspect
           \/ suspect' = e.code /\ forkable_p(e.code)
    <3>1. CASE ForkedKeyRepeats(e) \/ DecidedByEventTime(e)
      BY <1>3, <3>1 DEF ForkedKeyRepeats, DecidedByEventTime
    <3>2. CASE StartSuspecting(e)
      BY <3>2 DEF StartSuspecting, might_fork
    <3>3. CASE SelfForkedRepeats(e) \/ PassUnforkable(e)
      BY <3>3 DEF SelfForkedRepeats, PassUnforkable, decisionVars
    <3>4. CASE StartSelfForked(e)
      BY <1>1, <3>4 DEF StartSelfForked, decisionVars
    <3>5. CASE ReleaseForked(e)
      BY <1>1, <3>5 DEF ReleaseForked, decisionVars
    <3>6. CASE SuspectReleased(e) \/ SuspectRepeats(e)
      BY <1>1, <3>6 DEF SuspectReleased, SuspectRepeats, do_confirm_non_fork, rewind_machine
    <3>7. CASE /\ state # "normal"
               /\ \/ OtherReleased(e) \/ SuspectRepeatsUnhandled(e) \/ StartVerifying(e)
                  \/ VerificatorReleased(e) \/ OtherWhileVerifying(e)
      BY <3>7
         DEF OtherReleased, SuspectRepeatsUnhandled, StartVerifying, VerificatorReleased,
             OtherWhileVerifying, decisionVars
    <3>8. QED
      BY <1>5, <3>1, <3>2, <3>3, <3>4, <3>5, <3>6, <3>7
         DEF transition_by_key, apply_event_to_normal, apply_event_to_suspect,
             apply_event_to_verify_state
  <2>2. QED
    BY <1>2, <2>1 DEF ForksInv, key_forked, forkable_p
<1>6. QED
  BY <1>4, <1>5 DEF Iterate

LEMMA ForksInit == Init => ForksInv
BY DEF Init, ForksInv, key_forked

\* Only the automaton and a client's request touch what is forked.
LEMMA StepsOfForks ==
    ASSUME [Next]_vars
    PROVE  \/ configure \/ (\E c \in Callers : Iterate(c))
           \/ UNCHANGED <<config, forkActive, state, suspect>>
<1>1. ASSUME NEW c \in Callers, Arrives(c) \/ TheTime(c) \/ accept_confirmation(c)
      PROVE  UNCHANGED <<config, forkActive, state, suspect>>
  BY <1>1 DEF Arrives, TheTime, accept_event, accept_out_of_bound, accept_time,
              accept_confirmation, machineVars, decisionVars
<1>2. ASSUME NEW c \in Callers, Proceed(c)
      PROVE  Iterate(c) \/ UNCHANGED <<config, forkActive, state, suspect>>
  BY <1>2 DEF Proceed, LockAutomaton, UnlockAutomaton, pop_event_if_present, relay_event,
              relay_returns, FlushEnds, TimeMayPass, push_time_to_next, push_time,
              push_time_returns, Return, machineVars, decisionVars
<1>3. CASE Tick \/ Freeze \/ Thaw \/ ToggleMouseKeys \/ UNCHANGED vars
  BY <1>3 DEF Tick, Freeze, Thaw, ToggleMouseKeys, vars, machineVars, decisionVars
<1>4. QED
  BY <1>1, <1>2, <1>3 DEF Next

LEMMA ForksNext ==
    ASSUME NoForkRemoved, IInv, ForksInv, [Next]_vars
    PROVE  ForksInv'
<1>1. ASSUME NEW c \in Callers, Iterate(c) PROVE ForksInv'
  BY <1>1, IterateForks
<1>2. CASE configure
  <2>1. UNCHANGED <<forkActive, state, suspect>> /\ NoKey \notin ForkTargets
    BY <1>2 DEF configure, MayDisturb, NoForkRemoved, machineVars, decisionVars
  <2>2. \A key \in Keys : forkable_p(key) => forkable_p(key)'
    <3>1. config \in ConfigType
      BY DEF IInv, AutomatonInv
    <3>2. ASSUME NEW k \in Keys, NEW value \in ForkTargets, SetForkKeycode(k, value)
          PROVE  \A key \in Keys : forkable_p(key) => forkable_p(key)'
      BY <2>1, <3>1, <3>2 DEF SetForkKeycode, forkable_p, ConfigType
    <3>3. ASSUME config'.fork_keycode = config.fork_keycode
          PROVE  \A key \in Keys : forkable_p(key) => forkable_p(key)'
      BY <3>3 DEF forkable_p
    <3>4. QED
      BY <1>2, <3>1, <3>2, <3>3
         DEF configure, SetForkRepeatable, SetRepeatMax, SetConsiderForksForRepeat, ConfigType
  <2>3. state # "normal" => suspect \in Keys
    BY HeadTailProperties, FreshEventHasKey
       DEF IInv, AutomatonInv, SuspectHeadsMiddle, HoldingEvents, QueuesHolding
  <2>4. QED
    BY <2>1, <2>2, <2>3 DEF ForksInv, key_forked
<1>3. CASE UNCHANGED <<config, forkActive, state, suspect>>
  BY <1>3 DEF ForksInv, key_forked, forkable_p
<1>4. QED
  BY <1>1, <1>2, <1>3, StepsOfForks
-----------------------------------------------------------------------------
(***************************************************************************)
(* What was decided, in order, and the last event of each key in it.       *)
(***************************************************************************)

\* The largest member of a bounded set of numbers.
LEMMA MaxOf ==
    ASSUME NEW n \in Nat, NEW S, S \subseteq 1 .. n, S # {}
    PROVE  Max(S) \in S /\ \A i \in S : Max(S) >= i
<1> DEFINE T == {m \in Nat : \A i \in S : m >= i}
<1>1. n \in T
  OBVIOUS
<1>2. PICK least \in T : \A m \in T : least <= m
  <2>1. T \subseteq Nat /\ T # {}
    BY <1>1
  <2> HIDE DEF T
  <2>2. QED
    BY <2>1, LeastOf
<1>3. PICK j \in S : TRUE
  OBVIOUS
<1>4. least \in Nat /\ least >= j /\ \A i \in S : least >= i /\ i \in Nat
  BY <1>2
<1>5. least \in S
  <2> SUFFICES ASSUME least \notin S PROVE FALSE
    OBVIOUS
  <2>1. least - 1 \in Nat
    BY <1>3, <1>4
  <2>2. \A i \in S : i # least /\ least >= i /\ i \in Nat
    BY <1>4
  <2>3. \A i \in S : least - 1 >= i
    BY <1>4, <2>2
  <2>4. least <= least - 1
    BY <1>2, <2>1, <2>3
  <2>5. QED
    BY <1>4, <2>4
<1>6. QED
  BY <1>4, <1>5 DEF Max

\* The i-th event of s is the last of key.
LastOf(s, key, i) ==
    /\ i \in DOMAIN s /\ s[i].key = key
    /\ \A j \in DOMAIN s : j > i => s[j].key # key

\* An entry of active says how its key was last sent.
SentAs(s, active) ==
    \A key \in Keys :
        /\ \A i \in DOMAIN s : LastOf(s, key, i) => Agrees(s[i], active[key])
        /\ active[key] # NoKey => \E i \in DOMAIN s : LastOf(s, key, i)

\* Two events of a key with none of that key in between.
Successive(s, i, j) ==
    /\ i \in DOMAIN s /\ j \in DOMAIN s /\ i < j
    /\ s[i].key = s[j].key
    /\ \A k \in DOMAIN s : i < k /\ k < j => s[k].key # s[j].key

\* Events of a key that is down have the code of its press.
KeepsCode(s) ==
    \A i, j \in DOMAIN s :
        Successive(s, i, j) =>
            \/ release_p(s[i])
            \/ s[i].code = s[j].code
            \/ "repeat" \in Environment /\ press_p(s[j])

LEMMA PlacesOfAppended ==
    ASSUME NEW s \in Seq(Events), NEW e \in Events
    PROVE  /\ Len(s) \in Nat
           /\ DOMAIN s = 1 .. Len(s)
           /\ DOMAIN Append(s, e) = 1 .. Len(s) + 1
           /\ Append(s, e)[Len(s) + 1] = e
           /\ \A i \in 1 .. Len(s) : Append(s, e)[i] = s[i]
BY LenProperties, AppendProperties

LEMMA LastOfAppended ==
    ASSUME NEW s \in Seq(Events), NEW e \in Events
    PROVE  /\ LastOf(Append(s, e), e.key, Len(s) + 1)
           /\ \A i : LastOf(Append(s, e), e.key, i) => i = Len(s) + 1
           /\ \A key, i : key # e.key => (LastOf(Append(s, e), key, i) <=> LastOf(s, key, i))
<1> DEFINE t == Append(s, e)
           n == Len(s)
<1>1. /\ n \in Nat /\ DOMAIN s = 1 .. n /\ DOMAIN t = 1 .. n + 1
      /\ t[n + 1] = e /\ \A i \in 1 .. n : t[i] = s[i]
  BY PlacesOfAppended
<1> HIDE DEF t, n
<1>2. LastOf(t, e.key, n + 1)
  BY <1>1 DEF LastOf
<1>3. ASSUME NEW i, LastOf(t, e.key, i) PROVE i = n + 1
  <2>1. i \in 1 .. n + 1 /\ \A j \in 1 .. n + 1 : j > i => t[j].key # e.key
    BY <1>1, <1>3 DEF LastOf
  <2>2. ~(n + 1 > i)
    BY <1>1, <2>1
  <2>3. QED
    BY <1>1, <2>1, <2>2
<1>4. ASSUME NEW key, NEW i, key # e.key PROVE LastOf(t, key, i) <=> LastOf(s, key, i)
  <2>1. LastOf(t, key, i) => i \in 1 .. n
    BY <1>1, <1>4 DEF LastOf
  <2>2. i \in 1 .. n =>
            ((\A j \in 1 .. n + 1 : j > i => t[j].key # key)
               <=> (\A j \in 1 .. n : j > i => s[j].key # key))
    BY <1>1, <1>4
  <2>3. QED
    BY <1>1, <2>1, <2>2 DEF LastOf
<1>5. QED
  BY <1>2, <1>3, <1>4 DEF t, n

LEMMA AppendedSentAs ==
    ASSUME NEW s \in Seq(Events), NEW e \in Events, NEW active, NEW active2,
           SentAs(s, active), Agrees(e, active2[e.key]),
           \A key \in Keys : key # e.key => active2[key] = active[key]
    PROVE  SentAs(Append(s, e), active2)
<1> DEFINE t == Append(s, e)
           n == Len(s)
<1>1. /\ n \in Nat /\ DOMAIN s = 1 .. n /\ DOMAIN t = 1 .. n + 1
      /\ t[n + 1] = e /\ \A i \in 1 .. n : t[i] = s[i]
  BY PlacesOfAppended
<1>2. /\ LastOf(t, e.key, n + 1)
      /\ \A i : LastOf(t, e.key, i) => i = n + 1
      /\ \A key, i : key # e.key => (LastOf(t, key, i) <=> LastOf(s, key, i))
  BY LastOfAppended
<1> HIDE DEF t, n
<1>3. ASSUME NEW key \in Keys, NEW i \in DOMAIN t, LastOf(t, key, i)
      PROVE  Agrees(t[i], active2[key])
  <2>1. CASE key = e.key
    BY <1>1, <1>2, <1>3, <2>1
  <2>2. CASE key # e.key
    <3>1. LastOf(s, key, i)
      BY <1>2, <1>3, <2>2
    <3>2. i \in DOMAIN s
      BY <3>1 DEF LastOf
    <3>3. t[i] = s[i] /\ active2[key] = active[key]
      BY <1>1, <2>2, <3>2
    <3>4. QED
      BY <3>1, <3>2, <3>3 DEF SentAs
  <2>3. QED
    BY <2>1, <2>2
<1>4. ASSUME NEW key \in Keys, active2[key] # NoKey
      PROVE  \E i \in DOMAIN t : LastOf(t, key, i)
  <2>1. CASE key = e.key
    BY <1>1, <1>2, <2>1
  <2>2. CASE key # e.key
    <3>1. PICK i \in DOMAIN s : LastOf(s, key, i)
      BY <1>4, <2>2 DEF SentAs
    <3>2. QED
      BY <1>1, <1>2, <2>2, <3>1
  <2>3. QED
    BY <2>1, <2>2
<1>5. QED
  BY <1>3, <1>4 DEF SentAs, t

LEMMA AppendedKeepsCode ==
    ASSUME NEW s \in Seq(Events), NEW e \in Events, NEW active \in [Keys -> Keycodes],
           SentAs(s, active), KeepsCode(s),
           release_p(e) => e.code = IF active[e.key] = NoKey THEN e.key ELSE active[e.key],
           \A i \in DOMAIN s :
               LastOf(s, e.key, i) /\ press_p(e) /\ press_p(s[i]) => "repeat" \in Environment
    PROVE  KeepsCode(Append(s, e))
<1> DEFINE t == Append(s, e)
           n == Len(s)
<1>1. /\ n \in Nat /\ DOMAIN s = 1 .. n /\ DOMAIN t = 1 .. n + 1
      /\ t[n + 1] = e /\ \A i \in 1 .. n : t[i] = s[i]
  BY PlacesOfAppended
<1>2. \A i \in 1 .. n : s[i] \in Events
  BY <1>1, ElementOfSeq
<1> HIDE DEF t, n
<1>3. ASSUME NEW i \in DOMAIN t, NEW j \in DOMAIN t, Successive(t, i, j)
      PROVE  \/ release_p(t[i]) \/ t[i].code = t[j].code
             \/ "repeat" \in Environment /\ press_p(t[j])
  <2>1. i \in 1 .. n /\ t[i] = s[i] /\ i < j
    BY <1>1, <1>3 DEF Successive
  <2>2. CASE j \in 1 .. n
    <3>1. Successive(s, i, j)
      BY <1>1, <1>3, <2>1, <2>2 DEF Successive
    <3>2. t[j] = s[j] /\ i \in DOMAIN s /\ j \in DOMAIN s
      BY <1>1, <2>1, <2>2
    <3>3. QED
      BY <2>1, <3>1, <3>2 DEF KeepsCode
  <2>3. CASE j = n + 1
    <3>1. s[i].key = e.key /\ \A k \in 1 .. n : k > i => s[k].key # e.key
      BY <1>1, <1>3, <2>1, <2>3 DEF Successive
    <3>2. LastOf(s, e.key, i) /\ i \in DOMAIN s
      BY <1>1, <2>1, <3>1 DEF LastOf
    <3>3. e.key \in Keys /\ e.kind \in Kinds /\ s[i].kind \in Kinds
      BY <1>2, <2>1, EventFields
    <3>4. Agrees(s[i], active[e.key])
      BY <3>2, <3>3 DEF SentAs
    <3>5. CASE release_p(e)
      BY <1>1, <2>1, <2>3, <3>1, <3>3, <3>4, <3>5 DEF Agrees, release_p, press_p, Kinds
    <3>6. CASE press_p(e)
      BY <1>1, <2>1, <2>3, <3>2, <3>3, <3>6 DEF release_p, press_p, Kinds
    <3>7. QED
      BY <3>3, <3>5, <3>6 DEF release_p, press_p, Kinds
  <2>4. QED
    BY <1>1, <2>2, <2>3
<1>4. QED
  BY <1>3 DEF KeepsCode, t

\* What was decided: Decided, with TopHand for InHand.
Sent == (delivered \o TopHand) \o tq.output

LEMMA SentIsSeq ==
    ASSUME IInv
    PROVE  /\ delivered \in Seq(Events) /\ TopHand \in Seq(Events)
           /\ tq \in QueuesOf(Events) /\ tq.output \in Seq(Events)
           /\ delivered \o TopHand \in Seq(Events)
           /\ Sent \in Seq(Events)
<1>1. /\ delivered \in Seq(Events) /\ TopHand \in Seq(Events)
      /\ tq \in QueuesOf(Events) /\ tq.output \in Seq(Events)
  BY DueTypes DEF IInv, EnvironmentInv, QueuesOf
<1>2. QED
  BY <1>1, ConcatProperties DEF Sent

\* Popping and relaying move an event within what was decided.
LEMMA MovesWithinSent ==
    ASSUME IInv, IInv', SingleThread, StackInv, HandInv, NEW c \in Callers,
           pop_event_if_present(c) \/ relay_event(c)
    PROVE  Sent' = Sent
<1>1. /\ delivered \in Seq(Events) /\ TopHand \in Seq(Events) /\ tq.output \in Seq(Events)
      /\ tq \in QueuesOf(Events)
  BY SentIsSeq
<1>2. CASE pop_event_if_present(c)
  <2> DEFINE first == Head(tq.output)
             rest == Tail(tq.output)
  <2>1. /\ tq' = Popped(tq) /\ tq.output # <<>>
        /\ hand' = [hand EXCEPT ![c] = <<first>>]
        /\ stack' = stack /\ stack # <<>> /\ Head(stack) = c /\ pc[c] = "flush"
        /\ delivered' = delivered
    BY <1>2 DEF pop_event_if_present, Running, outputVars
  <2>2. TopHand = <<>>
    BY <2>1 DEF TopHand, HandInv
  <2>3. TopHand' = <<first>>
    BY <2>1 DEF TopHand, IInv, ActivationInv
  <2>4. tq'.output = rest
    BY <1>1, <2>1 DEF Popped, QueuesOf
  <2>5. /\ first \in Events /\ rest \in Seq(Events) /\ <<first>> \in Seq(Events)
        /\ tq.output = <<first>> \o rest
    BY <1>1, <2>1, HeadTailProperties
  <2> HIDE DEF first, rest
  <2>6. (delivered \o <<first>>) \o rest = delivered \o (<<first>> \o rest)
    BY <1>1, <2>5, ConcatAssociative
  <2>7. delivered \o <<>> = delivered
    BY <1>1, ConcatEmptySeq
  <2>8. QED
    BY <2>1, <2>2, <2>3, <2>4, <2>5, <2>6, <2>7 DEF Sent
<1>3. CASE relay_event(c)
  <2>1. /\ stack' = stack /\ stack # <<>> /\ Head(stack) = c
        /\ hand' = [hand EXCEPT ![c] = <<>>] /\ tq' = tq
        /\ delivered' = delivered \o hand[c]
    BY <1>3 DEF relay_event, Running, machineVars
  <2>2. TopHand = hand[c] /\ TopHand' = <<>>
    BY <2>1 DEF TopHand, IInv, ActivationInv
  <2>3. delivered' \in Seq(Events)
    BY DEF IInv, EnvironmentInv
  <2>4. delivered' \o <<>> = delivered'
    BY <2>3, ConcatEmptySeq
  <2>5. QED
    BY <2>1, <2>2, <2>4 DEF Sent
<1>4. QED
  BY <1>2, <1>3

\* A round adds to what was sent what it adds to the output.
LEMMA RoundSends ==
    ASSUME IInv, NEW c \in Callers, Iterate(c)
    PROVE  /\ tq'.output = tq.output => Sent' = Sent
           /\ \A e \in Events :
                 tq'.output = Append(tq.output, e) => Sent' = Append(Sent, e)
<1>1. TopHand' = TopHand /\ delivered' = delivered
  BY DEF Iterate, callVars, outputVars, TopHand
<1>2. tq.output \in Seq(Events) /\ delivered \o TopHand \in Seq(Events)
  BY SentIsSeq
<1>3. ASSUME NEW e \in Events, tq'.output = Append(tq.output, e)
      PROVE  Sent' = Append(Sent, e)
  <2>1. ASSUME NEW s \in Seq(Events), NEW t \in Seq(Events)
        PROVE  s \o Append(t, e) = Append(s \o t, e)
    <3>1. s \o t \in Seq(Events) /\ <<e>> \in Seq(Events)
      BY ConcatProperties
    <3>2. (s \o t) \o <<e>> = s \o (t \o <<e>>)
      BY <3>1, ConcatAssociative
    <3>3. Append(s \o t, e) = (s \o t) \o <<e>> /\ Append(t, e) = t \o <<e>>
      BY <3>1, AppendIsConcat
    <3>4. QED
      BY <3>2, <3>3
  <2>2. (delivered \o TopHand) \o Append(tq.output, e)
            = Append((delivered \o TopHand) \o tq.output, e)
    BY <1>2, <2>1
  <2>3. QED
    BY <1>1, <1>3, <2>2 DEF Sent
<1>4. QED
  BY <1>1, <1>3 DEF Sent

\* Only a round of the automaton decides.
LEMMA OthersDecideNothing ==
    ASSUME IInv, IInv', SingleThread, StackInv, HandInv, [Next]_vars,
           \A c \in Callers : ~Iterate(c)
    PROVE  UNCHANGED <<Sent, forkActive>>
<1>1. tq \in QueuesOf(Events)
  BY SentIsSeq
<1>2. forkActive' = forkActive
  BY StepsOfForks DEF configure, machineVars
<1>3. ASSUME NEW c \in Callers, pop_event_if_present(c) \/ relay_event(c)
      PROVE  Sent' = Sent
  BY <1>3, MovesWithinSent
<1>4. ASSUME NEW c \in Callers, TakesEvent(c) PROVE Sent' = Sent
  <2>1. PICK key \in Typed, kind \in Kinds : accept_event(c, key, kind) /\ tq' # tq
    BY <1>4 DEF TakesEvent
  <2>2. CallStarts(c) /\ delivered' = delivered
    BY <2>1 DEF accept_event, Called, CallStarts, outputVars
  <2>3. HandsStill
    BY <2>1, <2>2 DEF HandsStill, accept_event, Called, Goto, IInv, ActivationInv
  <2>4. tq'.output = tq.output
    BY <1>1, <2>1 DEF accept_event, Pushed, QueuesOf
  <2>5. QED
    BY <2>2, <2>3, <2>4, TopHandStill DEF Sent
<1>5. ASSUME HandsStill, UNCHANGED <<tq, accepted, delivered>> PROVE Sent' = Sent
  BY <1>5, TopHandStill DEF Sent
<1>6. Sent' = Sent
  BY <1>3, <1>4, <1>5, StepsOfEvents
<1>7. QED
  BY <1>2, <1>6

LEMMA StepsOfSent ==
    ASSUME IInv, IInv', SingleThread, StackInv, HandInv, ForksInv, [Next]_vars
    PROVE  \/ \E e : Remembers(e) /\ Sent' = Append(Sent, e)
           \/ UNCHANGED <<Sent, forkActive>>
<1>1. ASSUME NEW c \in Callers, Iterate(c)
      PROVE  \/ \E e : Remembers(e) /\ Sent' = Append(Sent, e)
             \/ UNCHANGED <<Sent, forkActive>>
  <2>1. CASE tq'.output = tq.output /\ forkActive' = forkActive
    BY <1>1, <2>1, RoundSends
  <2>2. ASSUME NEW e, Decides(e) PROVE Remembers(e) /\ Sent' = Append(Sent, e)
    BY <1>1, <2>2, RoundSends DEF Decides, Remembers
  <2>3. QED
    BY <1>1, <2>1, <2>2, IterateDecides
<1>2. QED
  BY <1>1, OthersDecideNothing

LEMMA SentAsStep ==
    ASSUME IInv, IInv', SingleThread, StackInv, HandInv, ForksInv,
           SentAs(Sent, forkActive), [Next]_vars
    PROVE  SentAs(Sent, forkActive)'
<1>1. CASE UNCHANGED <<Sent, forkActive>>
  BY <1>1 DEF SentAs, LastOf
<1>2. ASSUME NEW e, Remembers(e), Sent' = Append(Sent, e)
      PROVE  SentAs(Sent, forkActive)'
  <2>1. Sent \in Seq(Events)
    BY SentIsSeq
  <2>2. SentAs(Append(Sent, e), forkActive')
    BY <1>2, <2>1, AppendedSentAs DEF Remembers
  <2>3. QED
    BY <1>2, <2>2
<1>3. QED
  BY <1>1, <1>2, StepsOfSent

\* ForkActiveIsTrue looks for the last event with Max.
LEMMA SentAsIsTrue ==
    ASSUME IInv, SingleThread, StackInv, HandInv, SentAs(Sent, forkActive)
    PROVE  ForkActiveIsTrue
<1>1. Decided = Sent /\ Sent \in Seq(Events)
  BY InHandIsTop, SentIsSeq DEF Decided, Sent
<1>2. DOMAIN Sent = 1 .. Len(Sent) /\ Len(Sent) \in Nat
  BY <1>1, LenProperties
<1>3. ASSUME NEW key \in Typed \cap Keys
      PROVE  LET sent == {i \in DOMAIN Sent : Sent[i].key = key}
                 last == Sent[Max(sent)]
             IN  /\ forkActive[key] # NoKey =>
                       sent # {} /\ press_p(last) /\ last.code = forkActive[key]
                 /\ sent # {} /\ press_p(last) /\ last.code # key =>
                       forkActive[key] = last.code /\ forkActive[key] # NoKey
  <2> DEFINE sent == {i \in DOMAIN Sent : Sent[i].key = key}
  <2>1. forkActive[key] # NoKey => sent # {}
    BY DEF SentAs, LastOf
  <2>2. ASSUME sent # {}
        PROVE  Agrees(Sent[Max(sent)], forkActive[key]) /\ Sent[Max(sent)].key = key
    <3>1. sent \subseteq 1 .. Len(Sent)
      BY <1>2
    <3>2. Max(sent) \in sent /\ \A i \in sent : Max(sent) >= i
      <4> HIDE DEF sent
      <4>1. QED
        BY <1>2, <2>2, <3>1, MaxOf
    <3>3. PICK m : m = Max(sent)
      OBVIOUS
    <3>4. m \in DOMAIN Sent /\ Sent[m].key = key /\ m \in Nat
      BY <1>2, <3>2, <3>3
    <3>5. \A j \in DOMAIN Sent : j > m => Sent[j].key # key
      <4>1. \A j \in DOMAIN Sent : Sent[j].key = key => m >= j
        BY <3>2, <3>3
      <4>2. QED
        BY <1>2, <3>4, <4>1
    <3>6. LastOf(Sent, key, m)
      BY <3>4, <3>5 DEF LastOf
    <3>7. QED
      BY <3>3, <3>4, <3>6 DEF SentAs
  <2> HIDE DEF sent
  <2>3. /\ forkActive[key] # NoKey =>
              sent # {} /\ press_p(Sent[Max(sent)]) /\ Sent[Max(sent)].code = forkActive[key]
        /\ sent # {} /\ press_p(Sent[Max(sent)]) /\ Sent[Max(sent)].code # key =>
              forkActive[key] = Sent[Max(sent)].code /\ forkActive[key] # NoKey
    BY <2>1, <2>2 DEF Agrees
  <2>4. QED
    BY <2>3 DEF sent
<1>4. QED
  BY <1>1, <1>3 DEF ForkActiveIsTrue

LEMMA NothingSentAtFirst ==
    ASSUME Init
    PROVE  DOMAIN Sent = {}
<1>1. delivered = <<>> /\ TopHand = <<>> /\ tq.output = <<>>
  BY DEF Init, TopHand, EmptyQueues
<1>2. <<>> \in Seq(Events) /\ <<>> \o <<>> = <<>>
  BY EmptySeq, ConcatEmptySeq
<1>3. Sent = <<>>
  BY <1>1, <1>2 DEF Sent
<1>4. QED
  BY <1>3

LEMMA SentAsInit ==
    ASSUME Init
    PROVE  SentAs(Sent, forkActive)
BY NothingSentAtFirst DEF SentAs, LastOf, Init

(***************************************************************************)
(* forkActive never lies: an entry is there only for a key whose last      *)
(* event sent is a press with that keycode, and a key last sent as a press *)
(* with another keycode has one -- over rewinds, confirmations, forks      *)
(* changed while keys are down, and calls inside calls.                    *)
(***************************************************************************)
THEOREM ForkActiveTellsTheTruth ==
    ASSUME SingleThread, NoForkRemoved
    PROVE  Spec => []ForkActiveIsTrue
<1> DEFINE Inv == ThreadInv /\ ForksInv /\ SentAs(Sent, forkActive)
<1>1. Init => Inv
  BY ThreadInit, ForksInit, SentAsInit
<1>2. Inv /\ [Next]_vars => Inv'
  <2> SUFFICES ASSUME Inv, [Next]_vars PROVE Inv'
    OBVIOUS
  <2>1. ThreadInv'
    BY ThreadNext
  <2>2. ForksInv' /\ SentAs(Sent, forkActive)'
    BY <2>1, ForksNext, SentAsStep DEF ThreadInv
  <2>3. QED
    BY <2>1, <2>2
<1>3. Inv => ForkActiveIsTrue
  BY SentAsIsTrue DEF ThreadInv
<1> HIDE DEF Inv
<1>4. QED
  BY <1>1, <1>2, <1>3, PTL DEF Spec
-----------------------------------------------------------------------------
(***************************************************************************)
(* A key keeps its code.  Presses of a key that does not repeat alternate  *)
(* with its releases, in what was accepted and so in what is sent.         *)
(***************************************************************************)
PressesInv ==
    "repeat" \notin Environment =>
        /\ \A key \in Keys, i \in DOMAIN accepted :
              LastOf(accepted, key, i) /\ press_p(accepted[i]) => key \in held
        /\ \A i, j \in DOMAIN accepted :
              Successive(accepted, i, j) => release_p(accepted[i]) \/ release_p(accepted[j])

LEMMA PressesInit == Init => PressesInv
BY EmptySeq DEF Init, PressesInv

LEMMA PressesNext ==
    ASSUME IInv, PressesInv, [Next]_vars
    PROVE  PressesInv'
<1> SUFFICES ASSUME "repeat" \notin Environment PROVE PressesInv'
  BY DEF PressesInv
<1>1. accepted \in Seq(Events)
  BY DEF IInv, EnvironmentInv
<1>2. ASSUME UNCHANGED accepted, \A key \in Keys : key \in held => key \in held'
      PROVE  PressesInv'
  BY <1>2 DEF PressesInv, LastOf, Successive
<1>3. ASSUME NEW c \in Callers, NEW key \in Typed, NEW kind \in Kinds,
             accept_event(c, key, kind)
      PROVE  PressesInv'
  <2> DEFINE event == [key |-> key, code |-> key, kind |-> kind, time |-> clock]
             n == Len(accepted)
  <2>1. /\ key \in Keys /\ Touched(key, kind)
        /\ IF kind = "press" /\ key_forked(key)
           THEN accepted' = accepted ELSE accepted' = Append(accepted, event)
    BY <1>3 DEF accept_event
  <2>2. /\ event \in Events /\ event.key = key
        /\ press_p(event) <=> kind = "press"
        /\ release_p(event) <=> kind = "release"
    BY <1>3, <2>1 DEF Events, Keycodes, IInv, EnvironmentInv, press_p, release_p
  <2>3. /\ kind = "press" => key \notin held /\ held' = held \cup {key}
        /\ kind = "release" => held' = held \ {key}
    BY <2>1 DEF Touched
  <2>4. CASE kind = "press" /\ key_forked(key)
    BY <1>2, <2>1, <2>3, <2>4
  <2>5. CASE ~(kind = "press" /\ key_forked(key))
    <3> HIDE DEF event, n
    <3>1. accepted' = Append(accepted, event)
      BY <2>1, <2>5
    <3>2. /\ n \in Nat /\ DOMAIN accepted = 1 .. n /\ DOMAIN accepted' = 1 .. n + 1
          /\ accepted'[n + 1] = event
          /\ \A i \in 1 .. n : accepted'[i] = accepted[i] /\ accepted[i] \in Events
      BY <1>1, <2>2, <3>1, PlacesOfAppended, ElementOfSeq DEF n
    <3>3. /\ \A i : LastOf(accepted', key, i) => i = n + 1
          /\ \A k, i : k # key => (LastOf(accepted', k, i) <=> LastOf(accepted, k, i))
      BY <1>1, <2>2, <3>1, LastOfAppended DEF n
    <3>4. ASSUME NEW k \in Keys, NEW i \in DOMAIN accepted', LastOf(accepted', k, i),
                 press_p(accepted'[i])
          PROVE  k \in held'
      <4>1. CASE k = key
        BY <2>2, <2>3, <3>2, <3>3, <3>4, <4>1
      <4>2. CASE k # key
        <5>1. LastOf(accepted, k, i)
          BY <3>3, <3>4, <4>2
        <5>2. i \in 1 .. n /\ press_p(accepted[i])
          BY <3>2, <3>4, <5>1 DEF LastOf
        <5>3. k \in held
          BY <3>2, <5>1, <5>2 DEF PressesInv
        <5>4. QED
          BY <1>3, <2>3, <4>2, <5>3 DEF Kinds
      <4>3. QED
        BY <4>1, <4>2
    <3>5. ASSUME NEW i \in DOMAIN accepted', NEW j \in DOMAIN accepted',
                 Successive(accepted', i, j)
          PROVE  release_p(accepted'[i]) \/ release_p(accepted'[j])
      <4>1. i \in 1 .. n /\ accepted'[i] = accepted[i] /\ i < j
        BY <3>2, <3>5 DEF Successive
      <4>2. CASE j \in 1 .. n
        <5>1. Successive(accepted, i, j)
          BY <3>2, <3>5, <4>1, <4>2 DEF Successive
        <5>2. QED
          BY <3>2, <4>1, <4>2, <5>1 DEF PressesInv
      <4>3. CASE j = n + 1
        <5>1. accepted[i].key = key /\ \A k \in 1 .. n : k > i => accepted[k].key # key
          BY <2>2, <3>2, <3>5, <4>1, <4>3 DEF Successive
        <5>2. LastOf(accepted, key, i) /\ i \in DOMAIN accepted
          BY <3>2, <4>1, <5>1 DEF LastOf
        <5>3. press_p(accepted[i]) => key \in held
          BY <2>1, <5>2 DEF PressesInv
        <5>4. press_p(accepted[i]) \/ release_p(accepted[i])
          BY <3>2, <4>1, EventFields DEF press_p, release_p, Kinds
        <5>5. QED
          BY <1>3, <2>2, <2>3, <3>2, <4>1, <4>3, <5>3, <5>4 DEF Kinds
      <4>4. QED
        BY <3>2, <4>2, <4>3
    <3>6. QED
      BY <3>4, <3>5 DEF PressesInv
  <2>6. QED
    BY <2>4, <2>5
<1>4. ASSUME NEW c \in Callers, NEW key \in Typed, NEW kind \in Kinds,
             accept_out_of_bound(c, key, kind)
      PROVE  PressesInv'
  <2>1. key \notin Keys /\ accepted' = accepted /\ Touched(key, kind)
    BY <1>4, OutOfBoundAssumption DEF accept_out_of_bound, Keycodes
  <2>2. \A k \in Keys : k \in held => k \in held'
    BY <2>1 DEF Touched
  <2>3. QED
    BY <1>2, <2>1, <2>2
<1>5. ASSUME NEW c \in Callers, TheTime(c) \/ accept_confirmation(c) \/ Proceed(c)
      PROVE  PressesInv'
  <2>1. UNCHANGED keyboardVars
    BY <1>5 DEF TheTime, accept_time, accept_confirmation, Proceed, LockAutomaton, Iterate,
                UnlockAutomaton, pop_event_if_present, relay_event, relay_returns, FlushEnds,
                TimeMayPass, push_time_to_next, push_time, push_time_returns, Return
  <2>2. QED
    BY <1>2, <2>1 DEF keyboardVars
<1>6. CASE configure \/ Tick \/ Freeze \/ Thaw \/ ToggleMouseKeys \/ UNCHANGED vars
  <2>1. UNCHANGED keyboardVars
    BY <1>6 DEF configure, Tick, Freeze, Thaw, ToggleMouseKeys, vars
  <2>2. QED
    BY <1>2, <2>1 DEF keyboardVars
<1>7. QED
  BY <1>3, <1>4, <1>5, <1>6 DEF Next, Arrives

\* What was decided comes before the rest of the queue.
LEMMA SentThenRest ==
    ASSUME NEW a \in Seq(Events), NEW b \in Seq(Events), NEW q \in QueuesOf(Events)
    PROVE  LET sent == (a \o b) \o q.output
               rest == q.internal \o q.input
           IN  /\ sent \in Seq(Events) /\ rest \in Seq(Events)
               /\ Originals(a) \o Originals(b \o Everything(q)) = Originals(sent \o rest)
<1> DEFINE sent == (a \o b) \o q.output
           rest == q.internal \o q.input
<1>1. q.output \in Seq(Events) /\ q.internal \in Seq(Events) /\ q.input \in Seq(Events)
  BY DEF QueuesOf
<1>2. /\ rest \in Seq(Events) /\ sent \in Seq(Events) /\ a \o b \in Seq(Events)
      /\ q.output \o rest \in Seq(Events) /\ b \o (q.output \o rest) \in Seq(Events)
  BY <1>1, ConcatProperties
<1>3. Everything(q) = q.output \o rest
  BY OutputComesFirst
<1>4. a \o (b \o Everything(q)) = sent \o rest
  <2>1. ASSUME NEW o \in Seq(Events), NEW r \in Seq(Events)
        PROVE  a \o (b \o (o \o r)) = ((a \o b) \o o) \o r
    <3>1. o \o r \in Seq(Events) /\ a \o b \in Seq(Events)
      BY <2>1, ConcatProperties
    <3>2. (a \o b) \o (o \o r) = a \o (b \o (o \o r))
      BY <3>1, ConcatAssociative
    <3>3. ((a \o b) \o o) \o r = (a \o b) \o (o \o r)
      BY <3>1, ConcatAssociative
    <3>4. QED
      BY <3>2, <3>3
  <2> HIDE DEF rest
  <2>2. a \o (b \o (q.output \o rest)) = ((a \o b) \o q.output) \o rest
    BY <1>1, <1>2, <2>1
  <2>3. QED
    BY <1>3, <2>2 DEF sent
<1>5. Originals(a) \o Originals(b \o Everything(q)) = Originals(sent \o rest)
  <2>1. Originals(a \o (b \o Everything(q))) = Originals(a) \o Originals(b \o Everything(q))
    BY <1>2, <1>3, OriginalsConcat
  <2>2. QED
    BY <1>4, <2>1
<1>6. QED
  BY <1>2, <1>5

\* What was decided begins what was accepted.
LEMMA SentBegins ==
    ASSUME NEW a \in Seq(Events), NEW b \in Seq(Events), NEW q \in QueuesOf(Events)
    PROVE  LET sent == (a \o b) \o q.output
               all == Originals(a) \o Originals(b \o Everything(q))
           IN  \A i \in DOMAIN sent : i \in DOMAIN all /\ all[i] = Original(sent[i])
<1> DEFINE sent == (a \o b) \o q.output
           rest == q.internal \o q.input
<1>1. /\ sent \in Seq(Events) /\ rest \in Seq(Events)
      /\ Originals(a) \o Originals(b \o Everything(q)) = Originals(sent \o rest)
  BY SentThenRest
<1> HIDE DEF sent, rest
<1>2. ASSUME NEW i \in DOMAIN sent
      PROVE  /\ i \in DOMAIN Originals(sent \o rest)
             /\ Originals(sent \o rest)[i] = Original(sent[i])
  <2>1. /\ sent \o rest \in Seq(Events) /\ Len(sent \o rest) = Len(sent) + Len(rest)
        /\ Len(sent) \in Nat /\ Len(rest) \in Nat /\ i \in 1 .. Len(sent)
    BY <1>1, ConcatProperties, LenProperties
  <2>2. i \in 1 .. Len(sent) + Len(rest) /\ i <= Len(sent)
    BY <2>1
  <2>3. (sent \o rest)[i] = sent[i]
    BY <1>1, <2>2, ConcatProperties
  <2>4. /\ Originals(sent \o rest) \in Seq(Events)
        /\ Len(Originals(sent \o rest)) = Len(sent) + Len(rest)
        /\ Originals(sent \o rest)[i] = Original((sent \o rest)[i])
    BY <2>1, <2>2, OriginalsOf
  <2>5. QED
    BY <2>2, <2>3, <2>4, LenProperties
<1>3. QED
  BY <1>1, <1>2 DEF sent

LEMMA KeepsCodeStep ==
    ASSUME IInv, IInv', SingleThread, StackInv, HandInv, ForksInv, NothingLost', PressesInv',
           SentAs(Sent, forkActive), KeepsCode(Sent), [Next]_vars
    PROVE  KeepsCode(Sent)'
<1>1. CASE UNCHANGED <<Sent, forkActive>>
  BY <1>1 DEF KeepsCode, Successive
<1>2. ASSUME NEW e, Remembers(e), Sent' = Append(Sent, e)
      PROVE  KeepsCode(Sent)'
  <2>1. Sent \in Seq(Events) /\ e \in Events /\ forkActive \in [Keys -> Keycodes]
    BY <1>2, SentIsSeq DEF Remembers, IInv, AutomatonInv, DecisionTypes
  <2>2. ASSUME NEW i \in DOMAIN Sent, LastOf(Sent, e.key, i), press_p(e), press_p(Sent[i]),
               "repeat" \notin Environment
        PROVE  FALSE
    <3>1. /\ delivered' \in Seq(Events) /\ TopHand' \in Seq(Events)
          /\ tq' \in QueuesOf(Events)
      BY TopOf, HoldingEventsAreQueues
         DEF IInv, AutomatonInv, ActivationInv, EnvironmentInv, TopHand
    <3>2. \A j \in DOMAIN Sent' : j \in DOMAIN accepted' /\ accepted'[j] = Original(Sent'[j])
      <4>1. Originals(delivered') \o Originals(TopHand' \o Everything(tq')) = accepted'
        BY DEF NothingLost, Due
      <4>2. Sent' = (delivered' \o TopHand') \o tq'.output
        BY DEF Sent
      <4>3. QED
        BY <3>1, <4>1, <4>2, SentBegins
    <3>3. PICK n : n = Len(Sent)
      OBVIOUS
    <3>4. /\ n \in Nat /\ DOMAIN Sent = 1 .. n /\ DOMAIN Sent' = 1 .. n + 1
          /\ Sent'[n + 1] = e /\ \A j \in 1 .. n : Sent'[j] = Sent[j]
      BY <1>2, <2>1, <3>3, PlacesOfAppended
    <3>5. \A j \in 1 .. n + 1 : Sent'[j] \in Events
      BY <2>1, <3>4, ElementOfSeq
    <3>6. \A j \in 1 .. n + 1 :
              /\ j \in DOMAIN accepted'
              /\ accepted'[j].key = Sent'[j].key /\ accepted'[j].kind = Sent'[j].kind
      BY <3>2, <3>4, <3>5 DEF Original, rewritten, Events
    <3>7. i \in 1 .. n /\ Sent[i].key = e.key /\ \A j \in 1 .. n : j > i => Sent[j].key # e.key
      BY <2>2, <3>4 DEF LastOf
    <3>8. /\ i \in DOMAIN accepted' /\ n + 1 \in DOMAIN accepted' /\ i < n + 1
          /\ accepted'[i].key = e.key /\ accepted'[n + 1].key = e.key
          /\ accepted'[i].kind = "press" /\ accepted'[n + 1].kind = "press"
      BY <2>2, <3>4, <3>6, <3>7 DEF press_p
    <3>9. ASSUME NEW k \in DOMAIN accepted', i < k, k < n + 1
          PROVE  accepted'[k].key # e.key
      <4>1. k \in Nat
        <5>1. accepted' \in Seq(Events)
          BY DEF IInv, EnvironmentInv
        <5>2. QED
          BY <5>1, LenProperties
      <4>2. k \in 1 .. n /\ k > i
        BY <3>4, <3>7, <3>9, <4>1
      <4>3. QED
        BY <3>4, <3>6, <3>7, <4>2
    <3>10. Successive(accepted', i, n + 1)
      BY <3>8, <3>9 DEF Successive
    <3>11. QED
      BY <2>2, <3>8, <3>10 DEF PressesInv, release_p
  <2>3. KeepsCode(Append(Sent, e))
    BY <1>2, <2>1, <2>2, AppendedKeepsCode DEF Remembers
  <2>4. QED
    BY <1>2, <2>3
<1>3. QED
  BY <1>1, <1>2, StepsOfSent

(***************************************************************************)
(* Events of a key that is down have one code: what ForkActiveIsTrue       *)
(* gives for the release, and, unless the keyboard repeats keys, for all.  *)
(***************************************************************************)
CodesInv ==
    /\ ThreadInv /\ ForksInv /\ PressesInv
    /\ SentAs(Sent, forkActive) /\ KeepsCode(Sent)

LEMMA CodesInit == Init => CodesInv
<1> SUFFICES ASSUME Init PROVE CodesInv
  OBVIOUS
<1>1. ThreadInv /\ ForksInv /\ PressesInv
  BY ThreadInit, ForksInit, PressesInit
<1>2. SentAs(Sent, forkActive)
  BY SentAsInit
<1>3. KeepsCode(Sent)
  BY NothingSentAtFirst DEF KeepsCode
<1>4. QED
  BY <1>1, <1>2, <1>3 DEF CodesInv

LEMMA CodesNext ==
    ASSUME SingleThread, NoForkRemoved, CodesInv, [Next]_vars
    PROVE  CodesInv'
<1>1. ThreadInv'
  BY ThreadNext DEF CodesInv
<1>2. ForksInv' /\ PressesInv' /\ SentAs(Sent, forkActive)'
  BY <1>1, ForksNext, PressesNext, SentAsStep DEF CodesInv, ThreadInv
<1>3. KeepsCode(Sent)'
  BY <1>1, <1>2, KeepsCodeStep DEF CodesInv, ThreadInv
<1>4. QED
  BY <1>1, <1>2, <1>3 DEF CodesInv

\* What was delivered begins what was decided.
LEMMA DeliveredKeepsCode ==
    ASSUME IInv, KeepsCode(Sent)
    PROVE  KeepsCode(delivered)
<1>1. /\ delivered \in Seq(Events) /\ TopHand \in Seq(Events) /\ tq.output \in Seq(Events)
      /\ delivered \o TopHand \in Seq(Events) /\ Sent \in Seq(Events)
  BY SentIsSeq
<1>2. PICK n, m : n = Len(delivered) /\ m = Len(Sent)
  OBVIOUS
<1>3. /\ n \in Nat /\ m \in Nat /\ n <= m
      /\ DOMAIN delivered = 1 .. n /\ DOMAIN Sent = 1 .. m
      /\ \A i \in 1 .. n : Sent[i] = delivered[i]
  <2>1. /\ Len(delivered \o TopHand) = n + Len(TopHand)
        /\ Len(TopHand) \in Nat /\ Len(tq.output) \in Nat /\ n \in Nat
        /\ \A i \in 1 .. n : (delivered \o TopHand)[i] = delivered[i]
    BY <1>1, <1>2, ConcatProperties, LenProperties
  <2>2. /\ m = (n + Len(TopHand)) + Len(tq.output)
        /\ \A i \in 1 .. n + Len(TopHand) : Sent[i] = (delivered \o TopHand)[i]
    BY <1>1, <1>2, <2>1, ConcatProperties DEF Sent
  <2>3. DOMAIN delivered = 1 .. n /\ DOMAIN Sent = 1 .. m
    BY <1>1, <1>2, LenProperties
  <2>4. n <= m /\ m \in Nat /\ \A i \in 1 .. n : i \in 1 .. n + Len(TopHand)
    <3>1. PICK t, o : t = Len(TopHand) /\ o = Len(tq.output)
      OBVIOUS
    <3>2. n \in Nat /\ t \in Nat /\ o \in Nat /\ m = (n + t) + o
      BY <2>1, <2>2, <3>1
    <3>3. n <= m /\ m \in Nat /\ \A i \in 1 .. n : i \in 1 .. n + t
      BY <3>2
    <3>4. QED
      BY <3>1, <3>3
  <2>5. ASSUME NEW i \in 1 .. n PROVE Sent[i] = delivered[i]
    BY <2>1, <2>2, <2>4
  <2>6. QED
    BY <2>1, <2>3, <2>4, <2>5
<1>4. ASSUME NEW i \in DOMAIN delivered, NEW j \in DOMAIN delivered,
             Successive(delivered, i, j)
      PROVE  /\ Successive(Sent, i, j) /\ i \in DOMAIN Sent /\ j \in DOMAIN Sent
             /\ Sent[i] = delivered[i] /\ Sent[j] = delivered[j]
  BY <1>3, <1>4 DEF Successive
<1>5. QED
  BY <1>4 DEF KeepsCode

(***************************************************************************)
(* The release of a key goes out with the code its press went out with,    *)
(* whatever the keyboard repeats and the client configures meanwhile.      *)
(***************************************************************************)
ReleasedAsPressed ==
    \A i, j \in DOMAIN delivered :
        Successive(delivered, i, j) /\ press_p(delivered[i]) /\ release_p(delivered[j]) =>
            delivered[j].code = delivered[i].code

THEOREM ReleasesMatchPresses ==
    ASSUME SingleThread, NoForkRemoved
    PROVE  Spec => []ReleasedAsPressed
<1>1. CodesInv => ReleasedAsPressed
  BY DeliveredKeepsCode
     DEF CodesInv, ThreadInv, ReleasedAsPressed, KeepsCode, press_p, release_p
<1>2. CodesInv /\ [Next]_vars => CodesInv'
  BY CodesNext
<1>3. QED
  BY CodesInit, <1>1, <1>2, PTL DEF Spec

(***************************************************************************)
(* A key keeps its code while it is down, on a keyboard that does not      *)
(* repeat keys by itself.  MouseKeys may come and go: it is with repeats   *)
(* that they make a key change its code.                                   *)
(***************************************************************************)
THEOREM KeysKeepTheirCode ==
    ASSUME SingleThread, NoForkRemoved, "repeat" \notin Environment
    PROVE  Spec => []SameCodeWhileHeld
<1>1. CodesInv => SameCodeWhileHeld
  <2> SUFFICES ASSUME CodesInv, NEW j \in DOMAIN delivered
               PROVE  LET before == {i \in 1 .. j - 1 : delivered[i].key = delivered[j].key}
                      IN  \/ before = {}
                          \/ delivered[Max(before)].kind = "release"
                          \/ delivered[Max(before)].code = delivered[j].code
    BY DEF SameCodeWhileHeld
  <2> DEFINE before == {i \in 1 .. j - 1 : delivered[i].key = delivered[j].key}
  <2>1. KeepsCode(delivered) /\ delivered \in Seq(Events)
    BY DeliveredKeepsCode DEF CodesInv, ThreadInv, IInv, EnvironmentInv
  <2>2. /\ DOMAIN delivered = 1 .. Len(delivered) /\ Len(delivered) \in Nat
        /\ j \in Nat /\ j >= 1 /\ j - 1 \in Nat
    BY <2>1, LenProperties
  <2>3. ASSUME before # {}
        PROVE  \/ delivered[Max(before)].kind = "release"
               \/ delivered[Max(before)].code = delivered[j].code
    <3>1. before \subseteq 1 .. j - 1
      OBVIOUS
    <3>2. Max(before) \in before /\ \A i \in before : Max(before) >= i
      <4> HIDE DEF before
      <4>1. QED
        BY <2>2, <2>3, <3>1, MaxOf
    <3>3. PICK i : i = Max(before)
      OBVIOUS
    <3>4. i \in DOMAIN delivered /\ i < j /\ delivered[i].key = delivered[j].key /\ i \in Nat
      BY <2>2, <3>2, <3>3
    <3>5. ASSUME NEW k \in DOMAIN delivered, i < k, k < j
          PROVE  delivered[k].key # delivered[j].key
      <4>1. k \in 1 .. j - 1 /\ ~(i >= k)
        BY <2>2, <3>4, <3>5
      <4>2. k \notin before
        BY <3>2, <3>3, <4>1
      <4>3. QED
        BY <4>1, <4>2
    <3>6. Successive(delivered, i, j)
      BY <3>4, <3>5 DEF Successive
    <3>7. QED
      BY <2>1, <3>3, <3>4, <3>6 DEF KeepsCode, release_p
  <2> HIDE DEF before
  <2>4. QED
    BY <2>3 DEF before
<1>2. CodesInv /\ [Next]_vars => CodesInv'
  BY CodesNext
<1>3. QED
  BY CodesInit, <1>1, <1>2, PTL DEF Spec
-----------------------------------------------------------------------------
(***************************************************************************)
(* How the code decides, of any events s that were accepted by the time:   *)
(* DecidedByTheEvents with quantifiers in the place of the least and the   *)
(* last, and with a fork also where the use of the key was CutShort.       *)
(***************************************************************************)

\* The release of the press i, if it came.
ReleaseOf(s, i) ==
    {r \in i + 1 .. Len(s) :
        /\ s[r].key = s[i].key
        /\ s[r].kind = "release"
        /\ \A k \in i + 1 .. r - 1 : s[k].key # s[i].key}

PressedBefore(s, i) ==
    {v \in i + 1 .. Len(s) : s[v].kind = "press" /\ \A r \in ReleaseOf(s, i) : v < r}

\* The press i is down alone, or with one of the presses, long enough by then.
RipeWith(s, i, presses, time) ==
    \/ s[i].time + VERIFICATION_INTERVAL <= time
    \/ \E v \in presses : s[v].time + OVERLAP_TOLERANCE <= time

Ripe(s, i, time) == RipeWith(s, i, PressedBefore(s, i), time)

LongEnough(s, i, time) ==
    /\ ReleaseOf(s, i) = {} => Ripe(s, i, time)
    /\ \A r \in ReleaseOf(s, i) : Ripe(s, i, s[r].time)

\* The last release before the press i is of the same key, a moment ago.
Quick(s, i, limit) ==
    \E r \in 1 .. i - 1 :
        /\ s[r].kind = "release"
        /\ \A k \in r + 1 .. i - 1 : s[k].kind # "release"
        /\ s[r].key = s[i].key
        /\ s[i].time <= s[r].time + limit

\* What comes later changes nothing about the press i.
Settled(s, i, time, limit) ==
    Quick(s, i, limit) \/ ReleaseOf(s, i) # {} \/ Ripe(s, i, time)

Mistaken(s, sent, i) ==
    \E p \in 1 .. i - 1, v \in PressedBefore(s, i) :
        /\ s[p].key = s[v].key
        /\ sent[p].code # sent[p].key
        /\ \E r \in ReleaseOf(s, p) : i < r /\ r < v

\* The i-th event was sent as it is to be, under the configuration conf.
Right(s, sent, i, time, conf) ==
    /\ Settled(s, i, time, conf.repeat_max)
    /\ sent[i].code =
           IF ~Quick(s, i, conf.repeat_max) /\ LongEnough(s, i, time)
           THEN conf.fork_keycode[sent[i].key] ELSE sent[i].key

AllRight(s, sent, time, conf) ==
    \A i \in DOMAIN sent :
        press_p(sent[i]) /\ conf.fork_keycode[sent[i].key] # NoKey =>
            Mistaken(s, sent, i) \/ Right(s, sent, i, time, conf)

(***************************************************************************)
(* The suspect is the first undecided event, after n decided ones, and     *)
(* heads m scanned ones.  The decision time is what its time and the       *)
(* presses scanned since make it, whoever of them is the verificator now.  *)
(***************************************************************************)
Scanned(s, n, m) == {v \in n + 2 .. n + m : s[v].kind = "press"}

Suspects(s, n, m, limit, decision) ==
    /\ ~Quick(s, n + 1, limit)
    /\ RipeWith(s, n + 1, Scanned(s, n, m), decision)
    /\ decision <= s[n + 1].time + VERIFICATION_INTERVAL
    /\ \A v \in Scanned(s, n, m) : decision <= s[v].time + OVERLAP_TOLERANCE

SuspicionInv ==
    /\ state # "normal" =>
          Suspects(accepted, Len(Sent), Len(tq.internal), config.repeat_max, mDecision_time)
    /\ state = "verify" => Scanned(accepted, Len(Sent), Len(tq.internal)) # {}

\* The last of the first n events of s that is a release is of key, at time.
LastRelease(s, n, key, time) ==
    IF \A k \in 1 .. n : s[k].kind # "release"
    THEN key = NoKey
    ELSE \E r \in 1 .. n :
            /\ s[r].kind = "release"
            /\ \A k \in r + 1 .. n : s[k].kind # "release"
            /\ key = s[r].key /\ time = s[r].time

\* Nothing is forced, and nothing but keys and freezes disturbs.
QuietInv ==
    /\ config = InitialConfig /\ ~mouseKeys
    /\ \A c \in Callers : call[c] # "confirmation"
    /\ InTimeOrder(accepted) /\ NoneAfter(accepted, clock)

VerdictInv ==
    /\ QuietInv
    /\ LastRelease(accepted, Len(Sent), last_released, last_released_time)
    /\ SuspicionInv
    /\ AllRight(accepted, Sent, clock, config)
-----------------------------------------------------------------------------
\* Between an event and a later one of its key there is the next of its key.
LEMMA NextOfKey ==
    ASSUME NEW s \in Seq(Events), NEW p \in 1 .. Len(s), NEW v \in 1 .. Len(s),
           p < v, s[p].key = s[v].key
    PROVE  \E r \in p + 1 .. v : Successive(s, p, r)
<1> DEFINE later == {r \in p + 1 .. v : s[r].key = s[p].key}
<1>1. Len(s) \in Nat /\ DOMAIN s = 1 .. Len(s)
  BY LenProperties
<1>2. later \subseteq Nat /\ v \in later
  BY <1>1
<1>3. PICK r \in later : \A k \in later : r <= k
  <2> HIDE DEF later
  <2>1. later # {}
    BY <1>2
  <2>2. QED
    BY <1>2, <2>1, LeastOf
<1>4. ASSUME NEW k \in DOMAIN s, p < k, k < r PROVE s[k].key # s[r].key
  <2>1. k \in p + 1 .. v /\ ~(r <= k)
    BY <1>1, <1>3, <1>4
  <2>2. QED
    BY <1>3, <2>1
<1>5. Successive(s, p, r)
  BY <1>1, <1>3, <1>4 DEF Successive
<1>6. QED
  BY <1>3, <1>5

LEMMA OneRelease ==
    ASSUME NEW s \in Seq(Events), NEW i \in 1 .. Len(s),
           NEW r \in ReleaseOf(s, i), NEW q \in ReleaseOf(s, i)
    PROVE  r = q
<1>1. /\ r \in Int /\ q \in Int /\ i < r /\ i < q
      /\ s[r].key = s[i].key /\ s[q].key = s[i].key
      /\ \A k \in i + 1 .. r - 1 : s[k].key # s[i].key
      /\ \A k \in i + 1 .. q - 1 : s[k].key # s[i].key
  BY LenProperties DEF ReleaseOf
<1>2. r \notin i + 1 .. q - 1 /\ q \notin i + 1 .. r - 1
  BY <1>1
<1>3. QED
  BY <1>1, <1>2, LenProperties

\* An event that comes later neither is a second release nor hides a press.
LEMMA ReleaseOfAppended ==
    ASSUME NEW s \in Seq(Events), NEW e \in Events, NEW i \in 1 .. Len(s)
    PROVE  /\ ReleaseOf(s, i) \subseteq ReleaseOf(Append(s, e), i)
           /\ ReleaseOf(Append(s, e), i) \subseteq ReleaseOf(s, i) \cup {Len(s) + 1}
           /\ ReleaseOf(s, i) # {} => ReleaseOf(Append(s, e), i) = ReleaseOf(s, i)
<1> DEFINE z == Append(s, e)
<1>1. PICK n : n = Len(s)
  OBVIOUS
<1>2. /\ n \in Nat /\ Len(z) = n + 1 /\ \A k \in 1 .. n : z[k] = s[k]
  BY <1>1, PlacesOfAppended, LenProperties, AppendProperties
<1> HIDE DEF z
<1>3. ASSUME NEW r \in ReleaseOf(s, i) PROVE r \in ReleaseOf(z, i)
  <2>1. /\ r \in i + 1 .. n /\ s[r].key = s[i].key /\ s[r].kind = "release"
        /\ \A k \in i + 1 .. r - 1 : s[k].key # s[i].key
    BY <1>1 DEF ReleaseOf
  <2>2. r \in i + 1 .. n + 1 /\ r \in 1 .. n /\ i \in 1 .. n
    BY <1>1, <1>2, <2>1
  <2>3. ASSUME NEW k \in i + 1 .. r - 1 PROVE z[k].key # z[i].key
    <3>1. k \in 1 .. n
      BY <1>2, <2>2, <2>3
    <3>2. QED
      BY <1>2, <2>1, <2>2, <3>1
  <2>4. QED
    BY <1>2, <2>1, <2>2, <2>3 DEF ReleaseOf
<1>4. ASSUME NEW r \in ReleaseOf(z, i) PROVE r \in ReleaseOf(s, i) \cup {n + 1}
  <2>1. /\ r \in i + 1 .. n + 1 /\ z[r].key = z[i].key /\ z[r].kind = "release"
        /\ \A k \in i + 1 .. r - 1 : z[k].key # z[i].key
    BY <1>2 DEF ReleaseOf
  <2>2. CASE r = n + 1
    BY <2>2
  <2>3. CASE r # n + 1
    <3>1. r \in i + 1 .. n /\ r \in 1 .. n /\ i \in 1 .. n
      BY <1>1, <1>2, <2>1, <2>3
    <3>2. ASSUME NEW k \in i + 1 .. r - 1 PROVE s[k].key # s[i].key
      <4>1. k \in 1 .. n
        BY <1>2, <3>1, <3>2
      <4>2. QED
        BY <1>2, <2>1, <3>1, <3>2, <4>1
    <3>3. QED
      BY <1>1, <1>2, <2>1, <3>1, <3>2 DEF ReleaseOf
  <2>4. QED
    BY <2>2, <2>3
<1>5. ASSUME NEW q \in ReleaseOf(s, i), NEW r \in ReleaseOf(z, i) PROVE r \in ReleaseOf(s, i)
  <2>1. q \in ReleaseOf(z, i) /\ i \in 1 .. Len(z) /\ z \in Seq(Events)
    BY <1>1, <1>2, <1>3, <1>5, AppendProperties DEF z
  <2>2. r = q
    BY <2>1, OneRelease
  <2>3. QED
    BY <2>2
<1>6. QED
  BY <1>1, <1>3, <1>4, <1>5 DEF z

LEMMA PressesOfAppended ==
    ASSUME NEW s \in Seq(Events), NEW e \in Events, NEW i \in 1 .. Len(s)
    PROVE  /\ PressedBefore(s, i) \subseteq PressedBefore(Append(s, e), i)
           /\ ReleaseOf(s, i) # {} => PressedBefore(Append(s, e), i) = PressedBefore(s, i)
<1> DEFINE z == Append(s, e)
<1>1. PICK n : n = Len(s)
  OBVIOUS
<1>2. /\ n \in Nat /\ Len(z) = n + 1 /\ \A k \in 1 .. n : z[k] = s[k]
  BY <1>1, PlacesOfAppended, LenProperties, AppendProperties
<1>3. /\ ReleaseOf(z, i) \subseteq ReleaseOf(s, i) \cup {n + 1}
      /\ ReleaseOf(s, i) # {} => ReleaseOf(z, i) = ReleaseOf(s, i)
  BY <1>1, ReleaseOfAppended
<1> HIDE DEF z
<1>4. ASSUME NEW v \in PressedBefore(s, i) PROVE v \in PressedBefore(z, i)
  <2>1. /\ v \in i + 1 .. n /\ s[v].kind = "press" /\ \A r \in ReleaseOf(s, i) : v < r
    BY <1>1 DEF PressedBefore
  <2>2. v \in 1 .. n /\ v < n + 1 /\ v \in i + 1 .. n + 1
    BY <1>1, <1>2, <2>1
  <2>3. QED
    BY <1>2, <1>3, <2>1, <2>2 DEF PressedBefore
<1>5. ASSUME ReleaseOf(s, i) # {}, NEW v \in PressedBefore(z, i) PROVE v \in PressedBefore(s, i)
  <2>1. /\ v \in i + 1 .. n + 1 /\ z[v].kind = "press" /\ \A r \in ReleaseOf(s, i) : v < r
    BY <1>2, <1>3, <1>5 DEF PressedBefore
  <2>2. PICK r \in ReleaseOf(s, i) : r \in i + 1 .. n
    BY <1>1, <1>5 DEF ReleaseOf
  <2>3. v \in i + 1 .. n /\ v \in 1 .. n
    BY <1>1, <1>2, <2>1, <2>2
  <2>4. QED
    BY <1>1, <1>2, <2>1, <2>3 DEF PressedBefore
<1>6. QED
  BY <1>4, <1>5 DEF z

\* An event of the present time comes: what is settled stays as it is.
LEMMA QuickOfAppended ==
    ASSUME NEW s \in Seq(Events), NEW e \in Events, NEW i \in 1 .. Len(s), NEW limit
    PROVE  Quick(Append(s, e), i, limit) <=> Quick(s, i, limit)
<1> DEFINE z == Append(s, e)
<1>1. PICK n : n = Len(s)
  OBVIOUS
<1>2. n \in Nat /\ \A k \in 1 .. n : z[k] = s[k]
  BY <1>1, PlacesOfAppended, LenProperties
<1> HIDE DEF z
<1>3. i \in 1 .. n /\ \A k \in 1 .. i - 1 : k \in 1 .. n
  BY <1>1, <1>2
<1>4. \A r \in 1 .. i - 1 : \A k \in r + 1 .. i - 1 : k \in 1 .. n
  BY <1>2, <1>3
<1>5. QED
  BY <1>2, <1>3, <1>4 DEF Quick, z

LEMMA RipeOfAppended ==
    ASSUME NEW s \in Seq(Events), NEW e \in Events, NEW i \in 1 .. Len(s), NEW time
    PROVE  /\ Ripe(s, i, time) => Ripe(Append(s, e), i, time)
           /\ ReleaseOf(s, i) # {} => (Ripe(Append(s, e), i, time) <=> Ripe(s, i, time))
<1> DEFINE z == Append(s, e)
<1>1. \A k \in 1 .. Len(s) : z[k] = s[k]
  BY PlacesOfAppended
<1>2. /\ PressedBefore(s, i) \subseteq PressedBefore(z, i)
      /\ ReleaseOf(s, i) # {} => PressedBefore(z, i) = PressedBefore(s, i)
  BY PressesOfAppended
<1>3. PressedBefore(s, i) \subseteq 1 .. Len(s)
  BY LenProperties DEF PressedBefore
<1> HIDE DEF z
<1>4. QED
  BY <1>1, <1>2, <1>3 DEF Ripe, RipeWith, z

LEMMA SettledOfAppended ==
    ASSUME NEW s \in Seq(Events), NEW e \in Events, NEW i \in 1 .. Len(s), NEW limit,
           Settled(s, i, e.time, limit)
    PROVE  /\ Settled(Append(s, e), i, e.time, limit)
           /\ ~Quick(s, i, limit) =>
                (LongEnough(Append(s, e), i, e.time) <=> LongEnough(s, i, e.time))
<1> DEFINE z == Append(s, e)
<1>1. Quick(z, i, limit) <=> Quick(s, i, limit)
  BY QuickOfAppended
<1>2. /\ ReleaseOf(z, i) \subseteq ReleaseOf(s, i) \cup {Len(s) + 1}
      /\ ReleaseOf(s, i) # {} => ReleaseOf(z, i) = ReleaseOf(s, i)
  BY ReleaseOfAppended
<1>3. \A time : /\ Ripe(s, i, time) => Ripe(z, i, time)
                /\ ReleaseOf(s, i) # {} => (Ripe(z, i, time) <=> Ripe(s, i, time))
  BY RipeOfAppended
<1>4. z[Len(s) + 1] = e /\ \A k \in 1 .. Len(s) : z[k] = s[k]
  BY PlacesOfAppended
<1>5. ReleaseOf(s, i) \subseteq 1 .. Len(s)
  BY LenProperties DEF ReleaseOf
<1> HIDE DEF z
<1>6. CASE ReleaseOf(s, i) # {}
  BY <1>2, <1>3, <1>4, <1>5, <1>6 DEF Settled, LongEnough, z
<1>7. CASE ReleaseOf(s, i) = {} /\ Ripe(s, i, e.time)
  <2>1. Ripe(z, i, e.time) /\ LongEnough(s, i, e.time)
    BY <1>3, <1>7 DEF LongEnough
  <2>2. LongEnough(z, i, e.time)
    BY <1>2, <1>4, <1>7, <2>1 DEF LongEnough
  <2>3. QED
    BY <2>1, <2>2 DEF Settled, z
<1>8. CASE ReleaseOf(s, i) = {} /\ ~Ripe(s, i, e.time)
  BY <1>1, <1>8 DEF Settled, z
<1>9. QED
  BY <1>6, <1>7, <1>8

LEMMA MistakenOfAppended ==
    ASSUME NEW s \in Seq(Events), NEW e \in Events, NEW i \in 1 .. Len(s), NEW sent,
           Mistaken(s, sent, i)
    PROVE  Mistaken(Append(s, e), sent, i)
<1> DEFINE z == Append(s, e)
<1>1. PICK p \in 1 .. i - 1, v \in PressedBefore(s, i) :
          /\ s[p].key = s[v].key /\ sent[p].code # sent[p].key
          /\ \E r \in ReleaseOf(s, p) : i < r /\ r < v
  BY DEF Mistaken
<1>2. p \in 1 .. Len(s) /\ v \in 1 .. Len(s)
  BY LenProperties DEF PressedBefore
<1>3. z[p] = s[p] /\ z[v] = s[v]
  BY <1>2, PlacesOfAppended
<1>4. v \in PressedBefore(z, i)
  BY PressesOfAppended
<1>5. ReleaseOf(s, p) \subseteq ReleaseOf(z, p)
  BY <1>2, ReleaseOfAppended
<1> HIDE DEF z
<1>6. QED
  BY <1>1, <1>3, <1>4, <1>5 DEF Mistaken, z

LEMMA AllRightOfAppended ==
    ASSUME NEW s \in Seq(Events), NEW e \in Events, NEW sent, NEW conf,
           DOMAIN sent \subseteq 1 .. Len(s), AllRight(s, sent, e.time, conf)
    PROVE  AllRight(Append(s, e), sent, e.time, conf)
<1>1. ASSUME NEW i \in 1 .. Len(s), Right(s, sent, i, e.time, conf)
      PROVE  Right(Append(s, e), sent, i, e.time, conf)
  <2>1. Quick(Append(s, e), i, conf.repeat_max) <=> Quick(s, i, conf.repeat_max)
    BY QuickOfAppended
  <2>2. QED
    BY <1>1, <2>1, SettledOfAppended DEF Right
<1>2. QED
  BY <1>1, MistakenOfAppended DEF AllRight

\* Time passes.
LEMMA AllRightLater ==
    ASSUME NEW s \in Seq(Events), NEW sent, NEW conf,
           NEW time \in Nat, NEW later \in Nat, time <= later,
           DOMAIN sent \subseteq 1 .. Len(s), AllRight(s, sent, time, conf)
    PROVE  AllRight(s, sent, later, conf)
<1>1. ASSUME NEW i \in 1 .. Len(s), Ripe(s, i, time) PROVE Ripe(s, i, later)
  <2>1. PressedBefore(s, i) \subseteq 1 .. Len(s) /\ \A k \in 1 .. Len(s) : s[k].time \in Nat
    BY LenProperties, ElementOfSeq, EventFields DEF PressedBefore, Times
  <2>2. QED
    BY <1>1, <2>1, LimitsAssumption DEF Ripe, RipeWith
<1>2. QED
  BY <1>1 DEF AllRight, Right, Settled, LongEnough
-----------------------------------------------------------------------------
(***************************************************************************)
(* The suspicion and the last release, as events come, are scanned and are *)
(* decided.                                                                *)
(***************************************************************************)
LEMMA SuspectsOfAppended ==
    ASSUME NEW s \in Seq(Events), NEW e \in Events, NEW n \in Nat, NEW m \in Nat,
           m >= 1, n + m <= Len(s), NEW limit, NEW decision
    PROVE  /\ Scanned(Append(s, e), n, m) = Scanned(s, n, m)
           /\ Suspects(s, n, m, limit, decision) => Suspects(Append(s, e), n, m, limit, decision)
<1> DEFINE z == Append(s, e)
<1>1. \A k \in 1 .. Len(s) : z[k] = s[k]
  BY PlacesOfAppended
<1>2. n + 1 \in 1 .. Len(s) /\ n + 2 .. n + m \subseteq 1 .. Len(s)
  BY LenProperties
<1>3. Quick(z, n + 1, limit) <=> Quick(s, n + 1, limit)
  BY <1>2, QuickOfAppended
<1> HIDE DEF z
<1>4. Scanned(z, n, m) = Scanned(s, n, m) /\ Scanned(s, n, m) \subseteq 1 .. Len(s)
  BY <1>1, <1>2 DEF Scanned
<1>5. QED
  BY <1>1, <1>2, <1>3, <1>4 DEF Suspects, RipeWith, z

LEMMA LastReleaseOfAppended ==
    ASSUME NEW s \in Seq(Events), NEW e \in Events, NEW n \in Nat, n <= Len(s),
           NEW key, NEW time, LastRelease(s, n, key, time)
    PROVE  LastRelease(Append(s, e), n, key, time)
<1> DEFINE z == Append(s, e)
<1>1. \A k \in 1 .. n : z[k] = s[k]
  BY PlacesOfAppended
<1>2. \A r \in 1 .. n : \A k \in r + 1 .. n : k \in 1 .. n
  OBVIOUS
<1> HIDE DEF z
<1>3. QED
  BY <1>1, <1>2 DEF LastRelease, z

LEMMA LastReleaseNext ==
    ASSUME NEW s, NEW n \in Nat, NEW key, NEW time, LastRelease(s, n, key, time)
    PROVE  /\ s[n + 1].kind # "release" => LastRelease(s, n + 1, key, time)
           /\ s[n + 1].kind = "release" =>
                 LastRelease(s, n + 1, s[n + 1].key, s[n + 1].time)
<1>1. ASSUME s[n + 1].kind # "release" PROVE LastRelease(s, n + 1, key, time)
  <2>1. \A k \in 1 .. n + 1 : k \in 1 .. n \/ k = n + 1
    OBVIOUS
  <2>2. CASE \A k \in 1 .. n : s[k].kind # "release"
    BY <1>1, <2>1, <2>2 DEF LastRelease
  <2>3. CASE ~ \A k \in 1 .. n : s[k].kind # "release"
    <3>1. PICK r \in 1 .. n : /\ s[r].kind = "release"
                              /\ \A k \in r + 1 .. n : s[k].kind # "release"
                              /\ key = s[r].key /\ time = s[r].time
      BY <2>3 DEF LastRelease
    <3>2. r \in 1 .. n + 1 /\ \A k \in r + 1 .. n + 1 : k \in r + 1 .. n \/ k = n + 1
      OBVIOUS
    <3>3. \A k \in r + 1 .. n + 1 : s[k].kind # "release"
      BY <1>1, <3>1, <3>2
    <3>4. QED
      BY <3>1, <3>2, <3>3 DEF LastRelease
  <2>4. QED
    BY <2>2, <2>3
<1>2. ASSUME s[n + 1].kind = "release"
      PROVE  LastRelease(s, n + 1, s[n + 1].key, s[n + 1].time)
  <2>1. n + 1 \in 1 .. n + 1 /\ (n + 1) + 1 .. n + 1 = {}
    OBVIOUS
  <2>2. QED
    BY <1>2, <2>1 DEF LastRelease
<1>3. QED
  BY <1>1, <1>2

\* What re_pressed_quickly asks.
LEMMA QuickIsLastRelease ==
    ASSUME NEW s \in Seq(Events), NEW n \in Nat, n + 1 \in 1 .. Len(s),
           NEW key, NEW time, NEW limit, LastRelease(s, n, key, time)
    PROVE  Quick(s, n + 1, limit) <=> key = s[n + 1].key /\ s[n + 1].time <= time + limit
<1>1. s[n + 1].key \in Keys /\ NoKey \notin Keys
  BY ElementOfSeq, EventFields, NoKeyAssumption
<1>2. 1 .. (n + 1) - 1 = 1 .. n /\ \A r : r + 1 .. (n + 1) - 1 = r + 1 .. n
  OBVIOUS
<1>3. CASE \A k \in 1 .. n : s[k].kind # "release"
  BY <1>1, <1>2, <1>3 DEF LastRelease, Quick
<1>4. CASE ~ \A k \in 1 .. n : s[k].kind # "release"
  <2>1. PICK r \in 1 .. n : /\ s[r].kind = "release"
                            /\ \A k \in r + 1 .. n : s[k].kind # "release"
                            /\ key = s[r].key /\ time = s[r].time
    BY <1>4 DEF LastRelease
  <2>2. ASSUME NEW q \in 1 .. n, s[q].kind = "release",
               \A k \in q + 1 .. n : s[k].kind # "release"
        PROVE  q = r
    <3>1. ~(q < r) /\ ~(r < q)
      BY <2>1, <2>2
    <3>2. QED
      BY <3>1
  <2>3. QED
    BY <1>2, <2>1, <2>2 DEF Quick
<1>5. QED
  BY <1>3, <1>4

LEMMA SuspicionStarts ==
    ASSUME NEW s \in Seq(Events), NEW n \in Nat, n + 1 \in 1 .. Len(s),
           NEW limit, ~Quick(s, n + 1, limit)
    PROVE  Suspects(s, n, 1, limit, s[n + 1].time + VERIFICATION_INTERVAL)
<1>1. Scanned(s, n, 1) = {}
  BY DEF Scanned
<1>2. s[n + 1].time + VERIFICATION_INTERVAL \in Nat
  BY ElementOfSeq, EventFields, LimitsAssumption DEF Times
<1>3. QED
  BY <1>1, <1>2 DEF Suspects, RipeWith

\* One more event was scanned, decision is what it makes the decision time.
LEMMA SuspicionGoesOn ==
    ASSUME NEW s \in Seq(Events), NEW n \in Nat, NEW m \in Nat, m >= 1,
           (n + m) + 1 \in 1 .. Len(s), NEW limit, NEW decision \in Nat,
           Suspects(s, n, m, limit, decision), InTimeOrder(s)
    PROVE  LET next == s[(n + m) + 1]
               together == next.time + OVERLAP_TOLERANCE
           IN  /\ next.kind = "release" =>
                     /\ Suspects(s, n, m + 1, limit, decision)
                     /\ Scanned(s, n, m + 1) = Scanned(s, n, m)
               /\ next.kind = "press" =>
                     /\ Suspects(s, n, m + 1, limit,
                                 IF together < decision THEN together ELSE decision)
                     /\ Scanned(s, n, m + 1) # {}
                     /\ Scanned(s, n, m) # {} => ~(together < decision)
<1> DEFINE x == (n + m) + 1
           next == s[x]
           together == next.time + OVERLAP_TOLERANCE
<1>1. /\ next \in Events /\ together \in Nat /\ next.kind \in {"press", "release"}
      /\ x \in Nat /\ x = n + (m + 1)
  BY ElementOfSeq, EventFields, LimitsAssumption DEF Times, Kinds
<1>2. \A k \in 1 .. Len(s) : s[k].time \in Nat
  BY ElementOfSeq, EventFields DEF Times
<1>3. Scanned(s, n, m) \subseteq 1 .. Len(s) /\ \A v \in Scanned(s, n, m) : v <= x
  BY LenProperties DEF Scanned
<1>4. /\ next.kind = "release" => Scanned(s, n, m + 1) = Scanned(s, n, m)
      /\ next.kind = "press" => Scanned(s, n, m + 1) = Scanned(s, n, m) \cup {x}
  <2>1. \A v : v \in n + 2 .. n + (m + 1) <=> v \in n + 2 .. n + m \/ v = x
    OBVIOUS
  <2> HIDE DEF x
  <2>2. QED
    BY <1>1, <2>1 DEF Scanned
<1>5. DOMAIN s = 1 .. Len(s)
  BY LenProperties
<1>6. \A v \in Scanned(s, n, m) : s[v].time <= next.time
  BY <1>3, <1>5 DEF InTimeOrder
<1> HIDE DEF x
<1>7. CASE next.kind = "release"
  BY <1>4, <1>7 DEF Suspects, x
<1>8. CASE next.kind = "press"
  <2> DEFINE later == IF together < decision THEN together ELSE decision
  <2>1. /\ Scanned(s, n, m + 1) = Scanned(s, n, m) \cup {x}
        /\ later \in Nat /\ later <= decision /\ later <= together
    BY <1>1, <1>4, <1>8
  <2>2. /\ ~Quick(s, n + 1, limit)
        /\ RipeWith(s, n + 1, Scanned(s, n, m), decision)
        /\ decision <= s[n + 1].time + VERIFICATION_INTERVAL
        /\ \A v \in Scanned(s, n, m) : decision <= s[v].time + OVERLAP_TOLERANCE
    BY DEF Suspects
  <2>3. n + 1 \in 1 .. Len(s) /\ s[n + 1].time + VERIFICATION_INTERVAL \in Nat
    BY <1>2, LenProperties, LimitsAssumption
  <2>4. later <= s[n + 1].time + VERIFICATION_INTERVAL
    BY <2>1, <2>2, <2>3
  <2>5. ASSUME NEW v \in Scanned(s, n, m + 1) PROVE later <= s[v].time + OVERLAP_TOLERANCE
    <3>1. CASE v = x
      BY <2>1, <3>1
    <3>2. CASE v \in Scanned(s, n, m)
      <4>1. s[v].time + OVERLAP_TOLERANCE \in Nat
        BY <1>2, <1>3, <3>2, LimitsAssumption
      <4>2. QED
        BY <2>1, <2>2, <3>2, <4>1
    <3>3. QED
      BY <2>1, <3>1, <3>2
  <2>6. RipeWith(s, n + 1, Scanned(s, n, m + 1), later)
    <3>1. CASE together < decision
      <4>1. x \in Scanned(s, n, m + 1) /\ s[x].time + OVERLAP_TOLERANCE <= later
        BY <1>1, <2>1, <3>1
      <4>2. QED
        BY <4>1 DEF RipeWith
    <3>2. CASE ~(together < decision)
      BY <2>1, <2>2, <3>2 DEF RipeWith
    <3>3. QED
      BY <3>1, <3>2
  <2>7. Scanned(s, n, m) # {} => ~(together < decision)
    <3>1. ASSUME NEW v \in Scanned(s, n, m) PROVE ~(together < decision)
      <4>1. s[v].time \in Nat /\ s[v].time <= next.time /\ next.time \in Nat
            /\ decision <= s[v].time + OVERLAP_TOLERANCE
        BY <1>1, <1>2, <1>3, <1>6, <2>2, <3>1, EventFields DEF Times
      <4>2. QED
        BY <4>1, LimitsAssumption
    <3>2. QED
      BY <3>1
  <2>8. QED
    BY <1>8, <2>1, <2>2, <2>4, <2>5, <2>6, <2>7 DEF Suspects, x
<1>9. QED
  BY <1>1, <1>7, <1>8 DEF x

\* None of the scanned events is of the suspect's key.
NoneScanned(s, n, m) == \A k \in n + 2 .. n + m : s[k].key # s[n + 1].key

LEMMA ReleaseIsBehind ==
    ASSUME NEW s \in Seq(Events), NEW n \in Nat, NEW m \in Nat, m >= 1,
           n + m <= Len(s), NoneScanned(s, n, m)
    PROVE  /\ \A r \in ReleaseOf(s, n + 1) : r \in (n + m) + 1 .. Len(s)
           /\ Scanned(s, n, m) \subseteq PressedBefore(s, n + 1)
<1>1. \A r \in ReleaseOf(s, n + 1) :
          r \in (n + 1) + 1 .. Len(s) /\ s[r].key = s[n + 1].key
  BY DEF ReleaseOf
<1>2. ASSUME NEW r \in ReleaseOf(s, n + 1) PROVE r \in (n + m) + 1 .. Len(s)
  <2>1. r \notin n + 2 .. n + m
    BY <1>1 DEF NoneScanned
  <2>2. QED
    BY <1>1, <2>1, LenProperties
<1>3. ASSUME NEW v \in Scanned(s, n, m) PROVE v \in PressedBefore(s, n + 1)
  <2>1. v \in n + 2 .. n + m /\ s[v].kind = "press"
    BY DEF Scanned
  <2>2. v \in (n + 1) + 1 .. Len(s) /\ \A r \in (n + m) + 1 .. Len(s) : v < r
    BY <2>1, LenProperties
  <2>3. QED
    BY <1>2, <2>1, <2>2 DEF PressedBefore
<1>4. QED
  BY <1>2, <1>3

\* The decision time has come, and the suspect is still down.
LEMMA SuspectForks ==
    ASSUME NEW s \in Seq(Events), NEW n \in Nat, NEW m \in Nat, m >= 1,
           n + m <= Len(s), NoneScanned(s, n, m),
           NEW limit, NEW decision \in Nat, Suspects(s, n, m, limit, decision),
           NEW time \in Nat, decision <= time, NEW later \in Nat, time <= later,
           \A r \in ReleaseOf(s, n + 1) : time <= s[r].time
    PROVE  /\ Settled(s, n + 1, later, limit)
           /\ ~Quick(s, n + 1, limit) /\ LongEnough(s, n + 1, later)
<1>1. \A k \in 1 .. Len(s) : s[k].time \in Nat
  BY ElementOfSeq, EventFields DEF Times
<1>2. n + 1 \in 1 .. Len(s)
  BY LenProperties
<1>3. Scanned(s, n, m) \subseteq 1 .. Len(s)
  BY LenProperties DEF Scanned
<1>4. Scanned(s, n, m) \subseteq PressedBefore(s, n + 1)
  BY ReleaseIsBehind
<1>5. ASSUME NEW t \in Nat, decision <= t PROVE Ripe(s, n + 1, t)
  BY <1>1, <1>2, <1>3, <1>4, <1>5, LimitsAssumption DEF Suspects, Ripe, RipeWith
<1>6. ReleaseOf(s, n + 1) \subseteq 1 .. Len(s)
  BY <1>2, LenProperties DEF ReleaseOf
<1>7. Ripe(s, n + 1, later)
  BY <1>5
<1>8. ASSUME NEW r \in ReleaseOf(s, n + 1) PROVE Ripe(s, n + 1, s[r].time)
  <2>1. s[r].time \in Nat /\ decision <= s[r].time
    BY <1>1, <1>6
  <2>2. QED
    BY <1>5, <2>1
<1>9. QED
  BY <1>7, <1>8 DEF Settled, LongEnough, Suspects

\* The suspect is released before.
LEMMA SuspectDoesNotFork ==
    ASSUME NEW s \in Seq(Events), NEW n \in Nat, NEW m \in Nat, m >= 1,
           (n + m) + 1 \in 1 .. Len(s), NoneScanned(s, n, m),
           NEW limit, NEW decision \in Nat, Suspects(s, n, m, limit, decision),
           s[(n + m) + 1].kind = "release", s[(n + m) + 1].key = s[n + 1].key,
           s[(n + m) + 1].time < decision, NEW later
    PROVE  Settled(s, n + 1, later, limit) /\ ~LongEnough(s, n + 1, later)
<1> DEFINE x == (n + m) + 1
<1>1. \A k \in 1 .. Len(s) : s[k].time \in Nat
  BY ElementOfSeq, EventFields DEF Times
<1>2. n + 1 \in 1 .. Len(s) /\ x \in (n + 1) + 1 .. Len(s) /\ x \in 1 .. Len(s)
  BY LenProperties
<1>3. x \in ReleaseOf(s, n + 1)
  <2>1. (n + 1) + 1 .. x - 1 = n + 2 .. n + m
    OBVIOUS
  <2>2. QED
    BY <1>2, <2>1 DEF ReleaseOf, NoneScanned
<1>4. ASSUME NEW v \in PressedBefore(s, n + 1) PROVE v \in Scanned(s, n, m)
  <2>1. v \in (n + 1) + 1 .. Len(s) /\ s[v].kind = "press" /\ v < x
    BY <1>3 DEF PressedBefore
  <2>2. v \in n + 2 .. n + m
    BY <2>1, LenProperties
  <2>3. QED
    BY <2>1, <2>2 DEF Scanned
<1>5. ~Ripe(s, n + 1, s[x].time)
  <2>1. s[n + 1].time + VERIFICATION_INTERVAL \in Nat /\ s[x].time \in Nat
    BY <1>1, <1>2, LimitsAssumption
  <2>2. ~(s[n + 1].time + VERIFICATION_INTERVAL <= s[x].time)
    BY <2>1 DEF Suspects
  <2>3. ASSUME NEW v \in PressedBefore(s, n + 1)
        PROVE  ~(s[v].time + OVERLAP_TOLERANCE <= s[x].time)
    <3>1. decision <= s[v].time + OVERLAP_TOLERANCE /\ v \in 1 .. Len(s)
      BY <1>2, <1>4, LenProperties DEF Suspects, PressedBefore
    <3>2. s[v].time \in Nat
      BY <1>1, <3>1
    <3>3. s[v].time + OVERLAP_TOLERANCE \in Nat
      BY <3>2, LimitsAssumption
    <3>4. QED
      BY <2>1, <3>1, <3>3
  <2>4. QED
    BY <2>2, <2>3 DEF Ripe, RipeWith
<1> HIDE DEF x
<1>6. QED
  BY <1>3, <1>5 DEF Settled, LongEnough

\* One more event is decided.
LEMMA AllRightOfDecided ==
    ASSUME NEW s, NEW sent \in Seq(Events), NEW e \in Events, NEW time, NEW conf,
           AllRight(s, sent, time, conf),
           press_p(e) /\ conf.fork_keycode[e.key] # NoKey =>
               \/ Mistaken(s, sent, Len(sent) + 1)
               \/ /\ Settled(s, Len(sent) + 1, time, conf.repeat_max)
                  /\ e.code = IF /\ ~Quick(s, Len(sent) + 1, conf.repeat_max)
                                 /\ LongEnough(s, Len(sent) + 1, time)
                              THEN conf.fork_keycode[e.key] ELSE e.key
    PROVE  AllRight(s, Append(sent, e), time, conf)
<1> DEFINE z == Append(sent, e)
<1>1. PICK n : n = Len(sent)
  OBVIOUS
<1>2. /\ n \in Nat /\ DOMAIN sent = 1 .. n /\ DOMAIN z = 1 .. n + 1
      /\ z[n + 1] = e /\ \A i \in 1 .. n : z[i] = sent[i]
  BY <1>1, PlacesOfAppended
<1> HIDE DEF z
<1>3. ASSUME NEW i \in 1 .. n + 1, Mistaken(s, sent, i) PROVE Mistaken(s, z, i)
  <2>1. \A p \in 1 .. i - 1 : p \in 1 .. n
    BY <1>2
  <2>2. QED
    BY <1>2, <1>3, <2>1 DEF Mistaken
<1>4. ASSUME NEW i \in 1 .. n, press_p(z[i]), conf.fork_keycode[z[i].key] # NoKey
      PROVE  Mistaken(s, z, i) \/ Right(s, z, i, time, conf)
  <2>1. z[i] = sent[i] /\ i \in DOMAIN sent /\ i \in 1 .. n + 1
    BY <1>2
  <2>2. Mistaken(s, sent, i) \/ Right(s, sent, i, time, conf)
    BY <1>4, <2>1 DEF AllRight
  <2>3. QED
    BY <1>3, <2>1, <2>2 DEF Right
<1>5. press_p(e) /\ conf.fork_keycode[e.key] # NoKey =>
          Mistaken(s, z, n + 1) \/ Right(s, z, n + 1, time, conf)
  <2>1. n + 1 \in 1 .. n + 1
    BY <1>2
  <2>2. QED
    BY <1>1, <1>2, <1>3, <2>1 DEF Right
<1>6. \A i \in 1 .. n + 1 : i \in 1 .. n \/ i = n + 1
  BY <1>2
<1>7. QED
  BY <1>2, <1>4, <1>5, <1>6 DEF AllRight, z
-----------------------------------------------------------------------------
(***************************************************************************)
(* Where the events that were decided, are scanned and are to be scanned   *)
(* stand among those that were accepted.                                   *)
(***************************************************************************)
Places(n, m) ==
    /\ n = Len(Sent) /\ m = Len(tq.internal) /\ n \in Nat /\ m \in Nat
    /\ accepted \in Seq(Events) /\ n + m <= Len(accepted)
    /\ \A i \in 1 .. n : accepted[i] = Original(Sent[i])
    /\ \A i \in 1 .. m : accepted[n + i] = tq.internal[i]
    /\ IF tq.input = <<>> THEN Len(accepted) = n + m
       ELSE /\ (n + m) + 1 \in 1 .. Len(accepted)
            /\ accepted[(n + m) + 1] = Head(tq.input)
    /\ (state = "normal" <=> m = 0)

LEMMA EventsArePlaced ==
    ASSUME IInv, NothingLost
    PROVE  \E n, m \in Nat : Places(n, m)
<1>1. /\ delivered \in Seq(Events) /\ TopHand \in Seq(Events) /\ tq \in QueuesOf(Events)
      /\ Sent \in Seq(Events) /\ accepted \in Seq(Events)
  BY SentIsSeq DEF IInv, EnvironmentInv
<1>2. tq.internal \in Seq(FreshEvents) /\ tq.input \in Seq(FreshEvents)
  BY DEF IInv, AutomatonInv, HoldingEvents, QueuesHolding
<1>3. tq.internal \in Seq(Events) /\ tq.input \in Seq(Events)
  BY <1>1 DEF QueuesOf
<1>4. accepted = Originals(Sent \o (tq.internal \o tq.input))
  BY <1>1, SentThenRest DEF NothingLost, Due, Sent
<1>5. \A e \in FreshEvents : Original(e) = e
  BY DEF FreshEvents, Original, rewritten, Events
<1>6. PICK n, m, k : n = Len(Sent) /\ m = Len(tq.internal) /\ k = Len(tq.input)
  OBVIOUS
<1>7. n \in Nat /\ m \in Nat /\ k \in Nat
  BY <1>1, <1>3, <1>6, LenProperties
<1> DEFINE rest == tq.internal \o tq.input
           all == Sent \o rest
<1>8. /\ rest \in Seq(Events) /\ Len(rest) = m + k
      /\ \A i \in 1 .. m + k : rest[i] = IF i <= m THEN tq.internal[i] ELSE tq.input[i - m]
  BY <1>3, <1>6, ConcatOfEvents
<1> HIDE DEF rest
<1>9. /\ all \in Seq(Events) /\ Len(all) = n + (m + k)
      /\ \A i \in 1 .. n + (m + k) : all[i] = IF i <= n THEN Sent[i] ELSE rest[i - n]
  <2>1. /\ Sent \o rest \in Seq(Events) /\ Len(Sent \o rest) = Len(Sent) + Len(rest)
        /\ \A i \in 1 .. Len(Sent) + Len(rest) :
               (Sent \o rest)[i] = IF i <= Len(Sent) THEN Sent[i] ELSE rest[i - Len(Sent)]
    BY <1>1, <1>8, ConcatOfEvents
  <2>2. QED
    BY <1>6, <1>8, <2>1
<1> HIDE DEF all
<1>10. /\ Len(accepted) = n + (m + k)
       /\ \A i \in 1 .. n + (m + k) : accepted[i] = Original(all[i])
  BY <1>4, <1>9, OriginalsOf DEF all, rest
<1>11. ASSUME NEW i \in 1 .. n PROVE accepted[i] = Original(Sent[i])
  <2>1. i \in 1 .. n + (m + k) /\ i <= n
    BY <1>7
  <2>2. QED
    BY <1>9, <1>10, <2>1
<1>12. ASSUME NEW i \in 1 .. m + k PROVE accepted[n + i] = Original(rest[i])
  <2>1. n + i \in 1 .. n + (m + k) /\ ~(n + i <= n) /\ (n + i) - n = i
    BY <1>7
  <2>2. QED
    BY <1>9, <1>10, <2>1
<1>13. ASSUME NEW i \in 1 .. m PROVE accepted[n + i] = tq.internal[i]
  <2>1. i \in 1 .. m + k /\ i <= m
    BY <1>7
  <2>2. tq.internal[i] \in FreshEvents
    BY <1>2, <1>6, ElementOfSeq
  <2>3. QED
    BY <1>5, <1>8, <1>12, <2>1, <2>2
<1>14. state = "normal" <=> m = 0
  <2>1. m = 0 <=> tq.internal = <<>>
    BY <1>3, <1>6, LenProperties, EmptySeq
  <2>2. QED
    BY <2>1 DEF IInv, AutomatonInv, SuspectHeadsMiddle
<1>15. CASE tq.input = <<>>
  <2>1. k = 0
    BY <1>6, <1>15
  <2>2. Len(accepted) = n + m
    BY <1>7, <1>10, <2>1
  <2>3. n + m <= Len(accepted)
    BY <1>7, <2>2
  <2>4. Places(n, m)
    BY <1>1, <1>6, <1>7, <1>11, <1>13, <1>14, <1>15, <2>2, <2>3 DEF Places
  <2>5. QED
    BY <1>7, <2>4
<1>16. CASE tq.input # <<>>
  <2>1. k >= 1 /\ tq.input[1] = Head(tq.input) /\ Head(tq.input) \in FreshEvents
    BY <1>2, <1>6, <1>16, LenProperties, HeadTailProperties, EmptySeq
  <2>2. /\ m + 1 \in 1 .. m + k /\ ~(m + 1 <= m) /\ (m + 1) - m = 1
        /\ n + (m + 1) = (n + m) + 1
        /\ n + m <= Len(accepted) /\ (n + m) + 1 \in 1 .. Len(accepted)
    BY <1>7, <1>10, <2>1
  <2>3. accepted[(n + m) + 1] = Head(tq.input)
    BY <1>5, <1>8, <1>12, <2>1, <2>2
  <2>4. Places(n, m)
    BY <1>1, <1>6, <1>7, <1>11, <1>13, <1>14, <1>16, <2>2, <2>3 DEF Places
  <2>5. QED
    BY <1>7, <2>4
<1>17. QED
  BY <1>15, <1>16

LEMMA PlacesOfSent ==
    ASSUME IInv, NEW n, NEW m, Places(n, m), NEW i \in 1 .. n
    PROVE  /\ Sent \in Seq(Events) /\ DOMAIN Sent = 1 .. n /\ Sent[i] \in Events
           /\ accepted[i].key = Sent[i].key
           /\ accepted[i].kind = Sent[i].kind
           /\ accepted[i].time = Sent[i].time
<1>1. Sent \in Seq(Events) /\ DOMAIN Sent = 1 .. n
  BY SentIsSeq, LenProperties DEF Places
<1>2. Sent[i] \in Events
  BY <1>1, ElementOfSeq DEF Places
<1>3. QED
  BY <1>1, <1>2 DEF Places, Original, rewritten, Events

\* Nothing else of the suspect's key was scanned: it did not come up, and keys
\* do not repeat.
LEMMA SuspectIsDown ==
    ASSUME IInv, PressesInv, "repeat" \notin Environment,
           NEW n, NEW m, Places(n, m), state # "normal"
    PROVE  /\ m >= 1 /\ n + 1 \in 1 .. Len(accepted)
           /\ accepted[n + 1] = Head(tq.internal)
           /\ accepted[n + 1].kind = "press" /\ accepted[n + 1].key = suspect
           /\ accepted[n + 1].time = suspect_time
           /\ NoneScanned(accepted, n, m)
<1>1. /\ n \in Nat /\ m \in Nat /\ m >= 1 /\ m = Len(tq.internal)
      /\ accepted \in Seq(Events) /\ n + m <= Len(accepted) /\ Len(accepted) \in Nat
  BY LenProperties DEF Places
<1>2. n + 1 \in 1 .. Len(accepted) /\ 1 \in 1 .. m
  BY <1>1
<1>3. tq.internal \in Seq(FreshEvents)
  BY DEF IInv, AutomatonInv, HoldingEvents, QueuesHolding
<1>4. /\ tq.internal # <<>> /\ press_p(Head(tq.internal)) /\ Head(tq.internal).code = suspect
      /\ Head(tq.internal).time = suspect_time
      /\ \A i \in DOMAIN tq.internal :
             ~(release_p(tq.internal[i]) /\ tq.internal[i].code = suspect)
  BY DEF IInv, AutomatonInv, SuspectHeadsMiddle
<1>5. Head(tq.internal) = tq.internal[1] /\ DOMAIN tq.internal = 1 .. m
  BY <1>1, <1>3, <1>4, LenProperties
<1>6. \A i \in 1 .. m : /\ accepted[n + i] = tq.internal[i]
                        /\ tq.internal[i].code = tq.internal[i].key
  BY <1>1, <1>3, ElementOfSeq DEF Places, FreshEvents
<1>7. /\ accepted[n + 1] = Head(tq.internal)
      /\ accepted[n + 1].kind = "press" /\ accepted[n + 1].key = suspect
      /\ accepted[n + 1].time = suspect_time
  BY <1>2, <1>4, <1>5, <1>6 DEF press_p
<1>8. ASSUME NEW k \in n + 2 .. n + m, accepted[k].key = accepted[n + 1].key
      PROVE  FALSE
  <2>1. k \in 1 .. Len(accepted) /\ n + 1 < k
    BY <1>1
  <2>2. PICK r \in (n + 1) + 1 .. k : Successive(accepted, n + 1, r)
    BY <1>1, <1>2, <1>8, <2>1, NextOfKey
  <2>3. accepted[r].kind = "release" /\ accepted[r].key = suspect
    BY <1>7, <2>2 DEF PressesInv, Successive, release_p
  <2>4. PICK i \in 1 .. m : n + i = r
    <3>1. r - n \in 1 .. m /\ n + (r - n) = r
      BY <1>1, <2>2
    <3>2. QED
      BY <3>1
  <2>5. QED
    BY <1>4, <1>5, <1>6, <2>3, <2>4 DEF release_p
<1>9. QED
  BY <1>1, <1>2, <1>7, <1>8 DEF NoneScanned

\* The key of a press that comes was last sent as a press, forkActive says: then
\* its release waits somewhere before.
LEMMA ReleaseWaits ==
    ASSUME IInv, PressesInv, SentAs(Sent, forkActive), "repeat" \notin Environment,
           NEW n, NEW m, Places(n, m), tq.input # <<>>,
           press_p(Head(tq.input)), forkActive[Head(tq.input).key] # NoKey
    PROVE  \E p \in 1 .. n :
              /\ accepted[p].key = Head(tq.input).key /\ Sent[p].key = Head(tq.input).key
              /\ Sent[p].code = forkActive[Head(tq.input).key]
              /\ \E r \in ReleaseOf(accepted, p) : n < r /\ r < (n + m) + 1
<1> DEFINE e == Head(tq.input)
           x == (n + m) + 1
<1>1. /\ n \in Nat /\ m \in Nat /\ accepted \in Seq(Events) /\ Len(accepted) \in Nat
      /\ x \in 1 .. Len(accepted) /\ accepted[x] = e /\ x \in Nat
  BY LenProperties DEF Places
<1>2. e \in Events /\ e.key \in Keys
  BY <1>1, ElementOfSeq, EventFields
<1> HIDE DEF e, x
<1>3. PICK p \in DOMAIN Sent :
          /\ LastOf(Sent, e.key, p) /\ Agrees(Sent[p], forkActive[e.key])
  BY <1>2 DEF SentAs, e
<1>4. /\ p \in 1 .. n /\ Sent[p].key = e.key
      /\ press_p(Sent[p]) /\ Sent[p].code = forkActive[e.key]
      /\ \A k \in 1 .. n : k > p => Sent[k].key # e.key
  <2>1. DOMAIN Sent = 1 .. n
    BY SentIsSeq, LenProperties DEF Places
  <2>2. QED
    BY <1>3, <2>1 DEF LastOf, Agrees, e
<1>5. \A k \in 1 .. n : accepted[k].key = Sent[k].key /\ accepted[k].kind = Sent[k].kind
  BY PlacesOfSent
<1>6. p \in 1 .. Len(accepted) /\ p < x /\ p \in Nat
  BY <1>1, <1>4 DEF x, Places
<1>7. PICK r \in p + 1 .. x : Successive(accepted, p, r)
  BY <1>1, <1>4, <1>5, <1>6, NextOfKey
<1>8. /\ r \in 1 .. Len(accepted) /\ accepted[r].kind = "release"
      /\ accepted[r].key = e.key /\ accepted[p].key = e.key
      /\ \A k \in DOMAIN accepted : p < k /\ k < r => accepted[k].key # e.key
  <2>1. r \in 1 .. Len(accepted)
    BY <1>1, <1>6, <1>7
  <2>2. QED
    BY <1>4, <1>5, <1>7, <2>1 DEF PressesInv, Successive, release_p, press_p
<1>9. r # x /\ r < x
  BY <1>1, <1>6, <1>7, <1>8 DEF press_p, e
<1>10. n < r
  <2>1. ~(r \in 1 .. n)
    BY <1>4, <1>5, <1>6, <1>7, <1>8
  <2>2. QED
    BY <1>1, <1>8, <2>1
<1>11. r \in ReleaseOf(accepted, p)
  <2>1. r \in p + 1 .. Len(accepted)
    BY <1>1, <1>6, <1>7, <1>8
  <2>2. ASSUME NEW k \in p + 1 .. r - 1 PROVE accepted[k].key # accepted[p].key
    <3>1. k \in 1 .. Len(accepted) /\ p < k /\ k < r
      BY <1>1, <1>6, <1>8, <2>2
    <3>2. QED
      BY <1>1, <1>8, <3>1, LenProperties
  <2>3. QED
    BY <1>8, <2>1, <2>2 DEF ReleaseOf
<1>12. QED
  BY <1>4, <1>8, <1>9, <1>10, <1>11 DEF e, x
-----------------------------------------------------------------------------
(***************************************************************************)
(* A round of the automaton decides the first undecided event, or scans    *)
(* one more.                                                               *)
(***************************************************************************)
LEMMA RoundIsQuiet ==
    ASSUME NEW c \in Callers, Iterate(c)
    PROVE  /\ UNCHANGED <<config, mouseKeys, call, accepted, clock>>
           /\ QuietInv => QuietInv'
BY DEF Iterate, callVars, keyboardVars, worldVars, QuietInv, InTimeOrder, NoneAfter

LEMMA RoundDecides ==
    ASSUME IInv, NEW n, NEW m, Places(n, m), VerdictInv, NEW c \in Callers, Iterate(c),
           NEW item \in Events, tq'.output = Append(tq.output, item), state' = "normal",
           item.key = accepted[n + 1].key, item.kind = accepted[n + 1].kind,
           IF release_p(item)
           THEN last_released' = item.key /\ last_released_time' = accepted[n + 1].time
           ELSE UNCHANGED releaseVars,
           press_p(item) /\ config.fork_keycode[item.key] # NoKey =>
               \/ Mistaken(accepted, Sent, n + 1)
               \/ /\ Settled(accepted, n + 1, clock, config.repeat_max)
                  /\ item.code = IF /\ ~Quick(accepted, n + 1, config.repeat_max)
                                    /\ LongEnough(accepted, n + 1, clock)
                                 THEN config.fork_keycode[item.key] ELSE item.key
    PROVE  VerdictInv'
<1>1. UNCHANGED <<config, accepted, clock>> /\ QuietInv'
  BY RoundIsQuiet DEF VerdictInv
<1>2. Sent' = Append(Sent, item) /\ Sent \in Seq(Events) /\ n = Len(Sent) /\ n \in Nat
  BY RoundSends, SentIsSeq DEF Places
<1>3. Len(Sent') = n + 1
  BY <1>2, AppendProperties
<1>4. AllRight(accepted, Sent', clock, config)
  BY <1>2, AllRightOfDecided DEF VerdictInv
<1>5. LastRelease(accepted, n + 1, last_released', last_released_time')
  <2>1. LastRelease(accepted, n, last_released, last_released_time)
    BY <1>2 DEF VerdictInv
  <2>2. /\ accepted[n + 1].kind # "release" =>
               LastRelease(accepted, n + 1, last_released, last_released_time)
        /\ accepted[n + 1].kind = "release" =>
               LastRelease(accepted, n + 1, accepted[n + 1].key, accepted[n + 1].time)
    BY <1>2, <2>1, LastReleaseNext
  <2>3. CASE release_p(item)
    BY <2>2, <2>3 DEF release_p
  <2>4. CASE ~release_p(item)
    BY <2>2, <2>4 DEF release_p, releaseVars
  <2>5. QED
    BY <2>3, <2>4
<1>6. SuspicionInv'
  BY DEF SuspicionInv
<1>7. QED
  BY <1>1, <1>3, <1>4, <1>5, <1>6 DEF VerdictInv

LEMMA RoundScans ==
    ASSUME IInv, NEW n, NEW m, Places(n, m), VerdictInv, NEW c \in Callers, Iterate(c),
           tq'.output = tq.output, UNCHANGED releaseVars,
           state' # "normal" =>
               Suspects(accepted, n, Len(tq'.internal), config.repeat_max, mDecision_time'),
           state' = "verify" => Scanned(accepted, n, Len(tq'.internal)) # {}
    PROVE  VerdictInv'
<1>1. UNCHANGED <<config, accepted, clock>> /\ QuietInv'
  BY RoundIsQuiet DEF VerdictInv
<1>2. Sent' = Sent /\ n = Len(Sent)
  BY RoundSends DEF Places
<1>3. QED
  BY <1>1, <1>2 DEF VerdictInv, SuspicionInv, releaseVars

\* The suspect becomes its fork, by its time or by mistake.
LEMMA SuspectIsForked ==
    ASSUME IInv, PressesInv, "repeat" \notin Environment, NEW n, NEW m, Places(n, m),
           VerdictInv, NEW c \in Callers, Iterate(c), state # "normal",
           NEW q \in HoldingEvents, q.internal # <<>>, Head(q.internal) = Head(tq.internal),
           q.output = tq.output, activate_fork_rewind(q),
           \/ Mistaken(accepted, Sent, n + 1)
           \/ /\ Settled(accepted, n + 1, clock, config.repeat_max)
              /\ ~Quick(accepted, n + 1, config.repeat_max)
              /\ LongEnough(accepted, n + 1, clock)
    PROVE  VerdictInv'
<1> DEFINE item == rewritten(Head(q.internal), config.fork_keycode[Head(q.internal).key])
<1>1. /\ item \in Events /\ item.key = Head(q.internal).key
      /\ item.kind = Head(q.internal).kind
      /\ item.code = config.fork_keycode[item.key]
      /\ tq'.output = Append(tq.output, item)
  BY ActivateSends
<1>2. accepted[n + 1] = Head(q.internal) /\ accepted[n + 1].kind = "press"
  BY SuspectIsDown
<1>3. state' = "normal" /\ UNCHANGED releaseVars
  BY DEF activate_fork_rewind, rewind_machine
<1> HIDE DEF item
<1>4. ~release_p(item)
  BY <1>1, <1>2 DEF release_p
<1>5. QED
  BY <1>1, <1>2, <1>3, <1>4, RoundDecides

\* The time of the decision is there: nobody released the suspect before.
LEMMA TimeForks ==
    ASSUME IInv, PressesInv, "repeat" \notin Environment, NEW n, NEW m, Places(n, m),
           VerdictInv, NEW c \in Callers, Iterate(c), state # "normal",
           activate_fork_rewind(tq), NEW time \in Nat, mDecision_time <= time, time <= clock,
           tq.input # <<>> => time <= Head(tq.input).time
    PROVE  VerdictInv'
<1>1. /\ m >= 1 /\ NoneScanned(accepted, n, m)
  BY SuspectIsDown
<1>2. /\ n \in Nat /\ m \in Nat /\ accepted \in Seq(Events) /\ n + m <= Len(accepted)
      /\ n = Len(Sent) /\ m = Len(tq.internal) /\ Len(accepted) \in Nat
  BY LenProperties DEF Places
<1>3. Suspects(accepted, n, m, config.repeat_max, mDecision_time)
  BY <1>2 DEF VerdictInv, SuspicionInv
<1>4. mDecision_time \in Nat /\ clock \in Nat
  BY DEF IInv, AutomatonInv, DecisionTypes, EnvironmentInv, Times
<1>5. ASSUME NEW r \in ReleaseOf(accepted, n + 1) PROVE time <= accepted[r].time
  <2>1. r \in (n + m) + 1 .. Len(accepted)
    BY <1>1, <1>2, ReleaseIsBehind
  <2>2. tq.input # <<>>
    <3>1. Len(accepted) # n + m
      BY <1>2, <2>1
    <3>2. QED
      BY <3>1 DEF Places
  <2>3. time <= accepted[(n + m) + 1].time
    BY <2>2 DEF Places
  <2>4. accepted[(n + m) + 1].time <= accepted[r].time
    <3>1. (n + m) + 1 \in DOMAIN accepted /\ r \in DOMAIN accepted /\ (n + m) + 1 <= r
      BY <1>2, <2>1, LenProperties
    <3>2. QED
      BY <3>1 DEF VerdictInv, QuietInv, InTimeOrder
  <2>5. /\ accepted[(n + m) + 1].time \in Nat /\ accepted[r].time \in Nat
    <3>1. (n + m) + 1 \in 1 .. Len(accepted) /\ r \in 1 .. Len(accepted)
      BY <1>2, <2>1
    <3>2. QED
      BY <1>2, <3>1, ElementOfSeq, EventFields DEF Times
  <2>6. QED
    BY <2>3, <2>4, <2>5
<1>6. /\ Settled(accepted, n + 1, clock, config.repeat_max)
      /\ ~Quick(accepted, n + 1, config.repeat_max) /\ LongEnough(accepted, n + 1, clock)
  BY <1>1, <1>2, <1>3, <1>4, <1>5, SuspectForks
<1>7. tq \in HoldingEvents /\ tq.internal # <<>>
  BY DEF IInv, AutomatonInv, SuspectHeadsMiddle
<1>8. QED
  BY <1>6, <1>7, SuspectIsForked

\* The suspect comes up before: it is what it is.
LEMMA SuspectIsConfirmed ==
    ASSUME IInv, PressesInv, "repeat" \notin Environment, NEW n, NEW m, Places(n, m),
           VerdictInv, NEW c \in Callers, Iterate(c), state # "normal", tq.input # <<>>,
           Head(tq.input).time < mDecision_time, SuspectReleased(Head(tq.input))
    PROVE  VerdictInv'
<1> DEFINE item == Head(tq.internal)
           e == Head(tq.input)
<1>1. /\ m >= 1 /\ NoneScanned(accepted, n, m) /\ accepted[n + 1] = item
      /\ accepted[n + 1].kind = "press" /\ accepted[n + 1].key = suspect
  BY SuspectIsDown
<1>2. /\ n \in Nat /\ m \in Nat /\ accepted \in Seq(Events)
      /\ (n + m) + 1 \in 1 .. Len(accepted) /\ accepted[(n + m) + 1] = e
      /\ n = Len(Sent) /\ m = Len(tq.internal)
  BY DEF Places
<1>3. /\ tq \in HoldingEvents /\ tq.internal # <<>> /\ tq \in QueuesOf(Events)
      /\ mDecision_time \in Nat
  BY HoldingEventsAreQueues
     DEF IInv, AutomatonInv, SuspectHeadsMiddle, DecisionTypes, Times
<1>4. item \in FreshEvents /\ e \in FreshEvents
  BY <1>3, HeadTailProperties DEF HoldingEvents, QueuesHolding
<1>5. item \in Events /\ item.code = item.key /\ e.code = e.key
  BY <1>4 DEF FreshEvents
<1>6. e.kind = "release" /\ e.key = suspect
  BY <1>5 DEF SuspectReleased, release_p
<1>7. /\ state' = "normal" /\ UNCHANGED releaseVars /\ tq'.output = Append(tq.output, item)
  BY <1>3, MiddleHeadGoesOut DEF SuspectReleased, do_confirm_non_fork, rewind_machine
<1> HIDE DEF item, e
<1>8. Suspects(accepted, n, m, config.repeat_max, mDecision_time)
  BY <1>2 DEF VerdictInv, SuspicionInv
<1>9. Settled(accepted, n + 1, clock, config.repeat_max) /\ ~LongEnough(accepted, n + 1, clock)
  <2>1. e.time < mDecision_time
    BY DEF e
  <2>2. QED
    BY <1>1, <1>2, <1>3, <1>6, <1>8, <2>1, SuspectDoesNotFork
<1>10. ~release_p(item)
  BY <1>1 DEF release_p
<1>11. QED
  BY <1>1, <1>5, <1>7, <1>9, <1>10, RoundDecides

\* The suspicion goes on over another key's event.
LEMMA SuspicionIsKept ==
    ASSUME IInv, PressesInv, "repeat" \notin Environment, NEW n, NEW m, Places(n, m),
           VerdictInv, NEW c \in Callers, Iterate(c), state # "normal", tq.input # <<>>,
           tq' = MovedToSecond(tq), UNCHANGED <<suspect, suspect_time, releaseVars>>,
           LET e == Head(tq.input)
               decision_time == verifier_decision_time(suspect, suspect_time, e.code, e.time)
           IN  \/ press_p(e) /\ mDecision_time' = IF decision_time < mDecision_time
                                                  THEN decision_time ELSE mDecision_time
               \/ /\ UNCHANGED mDecision_time
                  /\ release_p(e) \/ state = "verify"
                  /\ press_p(e) \/ state' # "verify" \/ state = "verify"
    PROVE  VerdictInv'
<1> DEFINE e == Head(tq.input)
           together == e.time + OVERLAP_TOLERANCE
           alone == suspect_time + VERIFICATION_INTERVAL
           limit == config.repeat_max
<1>1. /\ m >= 1 /\ n + 1 \in 1 .. Len(accepted) /\ accepted[n + 1].time = suspect_time
  BY SuspectIsDown
<1>2. /\ n \in Nat /\ m \in Nat /\ accepted \in Seq(Events)
      /\ (n + m) + 1 \in 1 .. Len(accepted) /\ accepted[(n + m) + 1] = e
      /\ n = Len(Sent) /\ m = Len(tq.internal)
  BY DEF Places
<1>3. /\ tq \in HoldingEvents /\ mDecision_time \in Nat /\ suspect_time \in Nat
  BY DEF IInv, AutomatonInv, DecisionTypes, Times
<1>4. tq'.output = tq.output /\ Len(tq'.internal) = m + 1
  <2>1. tq.internal \in Seq(FreshEvents) /\ e \in FreshEvents
    BY <1>3, HeadTailProperties DEF HoldingEvents, QueuesHolding
  <2>2. tq'.output = tq.output /\ tq'.internal = Append(tq.internal, e)
    BY <1>3, MovedToSecondReturns DEF HoldingEvents
  <2>3. QED
    BY <1>2, <2>1, <2>2, AppendProperties
<1>5. Suspects(accepted, n, m, limit, mDecision_time) /\ InTimeOrder(accepted)
  BY <1>2 DEF VerdictInv, SuspicionInv, QuietInv
<1>6. state = "verify" => Scanned(accepted, n, m) # {}
  BY <1>2 DEF VerdictInv, SuspicionInv
<1>7. e.kind \in {"press", "release"} /\ e.time \in Nat
  BY <1>2, ElementOfSeq, EventFields DEF Kinds, Times
<1>8. verifier_decision_time(suspect, suspect_time, e.code, e.time)
          = IF together < alone THEN together ELSE alone
  BY DEF verifier_decision_time, verification_interval_of, overlap_tolerance_of
<1> HIDE DEF e
<1>9. /\ e.kind = "release" =>
              /\ Suspects(accepted, n, m + 1, limit, mDecision_time)
              /\ Scanned(accepted, n, m + 1) = Scanned(accepted, n, m)
      /\ e.kind = "press" =>
              /\ Suspects(accepted, n, m + 1, limit,
                          IF together < mDecision_time THEN together ELSE mDecision_time)
              /\ Scanned(accepted, n, m + 1) # {}
              /\ Scanned(accepted, n, m) # {} => ~(together < mDecision_time)
  BY <1>1, <1>2, <1>3, <1>5, SuspicionGoesOn
<1>10. CASE e.kind = "release"
  <2>1. mDecision_time' = mDecision_time /\ (state' = "verify" => state = "verify")
    BY <1>10 DEF press_p, e
  <2>2. QED
    BY <1>4, <1>6, <1>9, <1>10, <2>1, RoundScans
<1>11. CASE e.kind = "press"
  <2>1. together \in Nat /\ alone \in Nat /\ mDecision_time <= alone
    BY <1>1, <1>3, <1>5, <1>7, LimitsAssumption DEF Suspects
  <2>2. mDecision_time' = IF together < mDecision_time THEN together ELSE mDecision_time
    <3>1. CASE mDecision_time' = mDecision_time /\ state = "verify"
      BY <1>6, <1>9, <1>11, <3>1
    <3>2. CASE mDecision_time' =
                   IF (IF together < alone THEN together ELSE alone) < mDecision_time
                   THEN (IF together < alone THEN together ELSE alone) ELSE mDecision_time
      BY <1>3, <2>1, <3>2
    <3>3. QED
      BY <1>8, <1>11, <3>1, <3>2 DEF release_p, e
  <2>3. QED
    BY <1>4, <1>9, <1>11, <2>2, RoundScans
<1>12. QED
  BY <1>7, <1>10, <1>11
-----------------------------------------------------------------------------
\* A press of a key that forkActive knows comes while a key is suspected, and if
\* the key was sent as a fork, it is mistaken for a repeat of it.
LEMMA KnownKeyIsMistaken ==
    ASSUME IInv, PressesInv, SentAs(Sent, forkActive), "repeat" \notin Environment,
           NEW n, NEW m, Places(n, m), tq.input # <<>>,
           press_p(Head(tq.input)), forkActive[Head(tq.input).key] # NoKey
    PROVE  /\ state # "normal"
           /\ forkActive[Head(tq.input).key] # Head(tq.input).key =>
                 Mistaken(accepted, Sent, n + 1)
<1> DEFINE e == Head(tq.input)
           v == (n + m) + 1
<1>1. /\ n \in Nat /\ m \in Nat /\ accepted \in Seq(Events) /\ n + m <= Len(accepted)
      /\ v \in 1 .. Len(accepted) /\ accepted[v] = e /\ (state = "normal" <=> m = 0)
      /\ Len(accepted) \in Nat
  BY LenProperties DEF Places
<1>2. PICK p \in 1 .. n :
          /\ accepted[p].key = e.key /\ Sent[p].key = e.key
          /\ Sent[p].code = forkActive[e.key]
          /\ \E r \in ReleaseOf(accepted, p) : n < r /\ r < v
  BY ReleaseWaits
<1>3. PICK r \in ReleaseOf(accepted, p) : n < r /\ r < v
  BY <1>2
<1>4. r \in Int /\ accepted[r].kind = "release"
  BY DEF ReleaseOf
<1>5. state # "normal"
  BY <1>1, <1>3, <1>4
<1>6. ASSUME forkActive[e.key] # e.key PROVE Mistaken(accepted, Sent, n + 1)
  <2>1. /\ m >= 1 /\ accepted[n + 1].kind = "press" /\ NoneScanned(accepted, n, m)
    BY <1>5, SuspectIsDown
  <2>2. n + 1 < r
    BY <1>1, <1>3, <1>4, <2>1
  <2>3. v \in PressedBefore(accepted, n + 1)
    <3>1. v \in (n + 1) + 1 .. Len(accepted) /\ accepted[v].kind = "press"
      BY <1>1, <2>1 DEF press_p
    <3>2. ASSUME NEW s \in ReleaseOf(accepted, n + 1) PROVE v < s
      <4>1. s \in v .. Len(accepted)
        BY <1>1, <2>1, ReleaseIsBehind
      <4>2. accepted[s].kind = "release"
        BY DEF ReleaseOf
      <4>3. QED
        BY <1>1, <3>1, <4>1, <4>2
    <3>3. QED
      BY <3>1, <3>2 DEF PressedBefore
  <2>4. p \in 1 .. (n + 1) - 1
    BY <1>1
  <2> HIDE DEF e, v
  <2>5. /\ accepted[p].key = accepted[v].key /\ Sent[p].code # Sent[p].key
    BY <1>1, <1>2, <1>6
  <2>6. QED
    BY <1>3, <2>2, <2>3, <2>4, <2>5 DEF Mistaken
<1>7. QED
  BY <1>5, <1>6 DEF e

\* It forks the suspect.
LEMMA MistakeForksSuspect ==
    ASSUME IInv, PressesInv, SentAs(Sent, forkActive), "repeat" \notin Environment,
           NEW n, NEW m, Places(n, m), VerdictInv, NEW c \in Callers, Iterate(c),
           tq.input # <<>>, ForkedKeyRepeats(Head(tq.input))
    PROVE  VerdictInv'
<1> DEFINE e == Head(tq.input)
           q == MovedToSecond(tq)
<1>1. /\ tq \in HoldingEvents /\ tq \in QueuesOf(Events)
  BY HoldingEventsAreQueues DEF IInv, AutomatonInv
<1>2. e \in FreshEvents
  BY <1>1, HeadTailProperties DEF HoldingEvents, QueuesHolding
<1>3. e \in Events /\ e.code = e.key
  BY <1>2 DEF FreshEvents
<1>4. /\ press_p(e) /\ forkActive[e.key] # NoKey /\ forkActive[e.key] # e.key
      /\ activate_fork_rewind(q)
  BY <1>3 DEF ForkedKeyRepeats, RepeatOfForked, key_forked
<1>5. q \in HoldingEvents /\ q.output = tq.output /\ q.internal = Append(tq.internal, e)
  BY <1>1, MovedToSecondReturns DEF HoldingEvents
<1> HIDE DEF q
<1>6. state # "normal" /\ Mistaken(accepted, Sent, n + 1)
  BY <1>4, KnownKeyIsMistaken
<1>7. tq.internal # <<>> /\ tq.internal \in Seq(Events)
  BY <1>1, <1>6 DEF IInv, AutomatonInv, SuspectHeadsMiddle, QueuesOf
<1> HIDE DEF e
<1>8. q.internal # <<>> /\ Head(q.internal) = Head(tq.internal)
  <2>1. Append(tq.internal, e) # <<>> /\ Head(Append(tq.internal, e)) = Head(tq.internal)
    BY <1>3, <1>7
  <2>2. QED
    BY <1>5, <2>1
<1>9. QED
  BY <1>4, <1>5, <1>6, <1>8, SuspectIsForked

\* Nothing is suspected: a press may be, the rest is decided at once.
LEMMA NormalRound ==
    ASSUME IInv, PressesInv, SentAs(Sent, forkActive), "repeat" \notin Environment,
           InitialConfig.consider_forks_for_repeat, NEW n, NEW m, Places(n, m), VerdictInv,
           NEW c \in Callers, Iterate(c), tq.input # <<>>, state = "normal",
           apply_event_to_normal(Head(tq.input))
    PROVE  VerdictInv'
<1> DEFINE e == Head(tq.input)
           limit == config.repeat_max
<1>1. /\ tq \in HoldingEvents /\ tq \in QueuesOf(Events) /\ tq.internal = <<>>
      /\ forkActive \in [Keys -> Keycodes] /\ last_released_time \in Nat
      /\ config \in ConfigType
  BY HoldingEventsAreQueues
     DEF IInv, AutomatonInv, SuspectHeadsMiddle, DecisionTypes, Times
<1>2. e \in FreshEvents
  BY <1>1, HeadTailProperties DEF HoldingEvents, QueuesHolding
<1>3. /\ e \in Events /\ e.code = e.key /\ e.key \in Keys /\ e.time \in Nat
      /\ press_p(e) <=> ~release_p(e)
  BY <1>2, EventFields DEF FreshEvents, press_p, release_p, Kinds, Times
<1>4. /\ n \in Nat /\ n = Len(Sent) /\ accepted \in Seq(Events)
      /\ n + 1 \in 1 .. Len(accepted) /\ accepted[n + 1] = e
  <2>1. n \in Nat /\ m = 0 /\ (n + m) + 1 = n + 1
    BY DEF Places
  <2>2. QED
    BY <2>1 DEF Places
<1>5. Quick(accepted, n + 1, limit) <=>
          last_released = e.key /\ e.time <= last_released_time + limit
  <2>1. LastRelease(accepted, n, last_released, last_released_time)
    BY <1>4 DEF VerdictInv
  <2>2. QED
    BY <1>4, <2>1, QuickIsLastRelease
<1>6. re_pressed_quickly(e) <=> Quick(accepted, n + 1, limit)
  <2>1. limit \in Nat
    BY <1>1 DEF ConfigType
  <2>2. QED
    BY <1>1, <1>3, <1>5, <2>1 DEF re_pressed_quickly
<1>7. tq' = PassedThrough(tq) => tq'.output = Append(tq.output, e)
  BY <1>1, InputHeadGoesOut
<1>8. /\ MovedToSecond(tq).output = tq.output
      /\ MovedToSecond(tq).internal = Append(tq.internal, e)
  BY <1>1, MovedToSecondReturns DEF HoldingEvents
<1>9. config = InitialConfig /\ ~mouseKeys
  BY DEF VerdictInv, QuietInv
<1> HIDE DEF e
<1>10. CASE StartSuspecting(e)
  <2>1. /\ ~Quick(accepted, n + 1, limit) /\ state' = "suspect"
        /\ mDecision_time' = e.time + VERIFICATION_INTERVAL
        /\ tq' = MovedToSecond(tq) /\ UNCHANGED releaseVars
    BY <1>6, <1>10 DEF StartSuspecting, verification_interval_of
  <2>2. Len(tq'.internal) = 1
    <3>1. Len(Append(<<>>, e)) = 1
      BY <1>3
    <3>2. QED
      BY <1>1, <1>8, <2>1, <3>1
  <2>3. Suspects(accepted, n, 1, limit, mDecision_time')
    BY <1>4, <2>1, SuspicionStarts
  <2>4. QED
    BY <1>8, <2>1, <2>2, <2>3, RoundScans
<1>11. CASE SelfForkedRepeats(e)
  <2>1. press_p(e) /\ forkActive[e.key] # NoKey
    BY <1>3, <1>11, NoKeyAssumption DEF SelfForkedRepeats, might_fork
  <2>2. QED
    BY <2>1, KnownKeyIsMistaken DEF e
<1>12. CASE StartSelfForked(e)
  <2>1. /\ press_p(e) /\ Quick(accepted, n + 1, limit) /\ tq' = PassedThrough(tq)
        /\ state' = "normal" /\ UNCHANGED releaseVars
    BY <1>6, <1>12 DEF StartSelfForked, might_fork, decisionVars
  <2>2. Settled(accepted, n + 1, clock, limit)
    BY <2>1 DEF Settled
  <2>3. QED
    BY <1>3, <1>4, <1>7, <2>1, <2>2, RoundDecides
<1>13. CASE ReleaseForked(e)
  <2> DEFINE item == rewritten(e, forkActive[e.code])
  <2>1. /\ release_p(e) /\ tq' = PassedThrough(ThirdReplaced(tq, item))
        /\ last_released' = e.key /\ last_released_time' = e.time /\ state' = "normal"
    BY <1>3, <1>9, <1>13
       DEF ReleaseForked, released_as, record_last_release_event, decisionVars
  <2>2. /\ item \in Events /\ item.key = e.key /\ item.kind = e.kind
    BY <1>1, <1>3, RewrittenIsEvent DEF rewritten, Events
  <2> HIDE DEF item
  <2>3. tq'.output = Append(tq.output, item)
    <3>1. /\ ThirdReplaced(tq, item) \in QueuesOf(Events)
          /\ ThirdReplaced(tq, item).output = tq.output
          /\ ThirdReplaced(tq, item).internal = <<>>
          /\ ThirdReplaced(tq, item).input # <<>>
          /\ Head(ThirdReplaced(tq, item).input) = item
      BY <1>1, <2>2, ReplacedHeads
    <3>2. QED
      BY <2>1, <3>1, InputHeadGoesOut
  <2>4. release_p(item) /\ ~press_p(item)
    BY <1>3, <2>1, <2>2 DEF release_p, press_p
  <2>5. QED
    BY <1>4, <2>1, <2>2, <2>3, <2>4, RoundDecides
<1>14. CASE PassUnforkable(e)
  <2>1. /\ tq' = PassedThrough(tq) /\ state' = "normal" /\ ~might_fork(e)
        /\ IF release_p(e) THEN last_released' = e.key /\ last_released_time' = e.time
                           ELSE UNCHANGED releaseVars
    BY <1>3, <1>14 DEF PassUnforkable, record_last_release_event, decisionVars
  <2>2. ~(press_p(e) /\ config.fork_keycode[e.key] # NoKey)
    BY <1>3, <1>9, <2>1 DEF might_fork, forkable_p
  <2>3. QED
    BY <1>3, <1>4, <1>7, <2>1, <2>2, RoundDecides
<1>15. QED
  BY <1>10, <1>11, <1>12, <1>13, <1>14 DEF apply_event_to_normal, e

\* A suspect waits for its time: it comes up, or other keys go down and up.
LEMMA SuspicionRound ==
    ASSUME IInv, PressesInv, "repeat" \notin Environment, NEW n, NEW m, Places(n, m),
           VerdictInv, NEW c \in Callers, Iterate(c), tq.input # <<>>,
           Head(tq.input).time < mDecision_time,
           \/ state = "suspect" /\ apply_event_to_suspect(Head(tq.input))
           \/ state = "verify" /\ apply_event_to_verify_state(Head(tq.input))
    PROVE  VerdictInv'
<1> DEFINE e == Head(tq.input)
           v == (n + m) + 1
<1>1. state # "normal"
  OBVIOUS
<1>2. /\ n \in Nat /\ m \in Nat /\ accepted \in Seq(Events) /\ n + m <= Len(accepted)
      /\ v \in 1 .. Len(accepted) /\ accepted[v] = e /\ Len(accepted) \in Nat
  BY LenProperties DEF Places
<1>3. /\ m >= 1 /\ n + 1 \in 1 .. Len(accepted)
      /\ accepted[n + 1].kind = "press" /\ accepted[n + 1].key = suspect
      /\ NoneScanned(accepted, n, m)
  BY <1>1, SuspectIsDown
<1>4. e \in FreshEvents
  BY HeadTailProperties DEF IInv, AutomatonInv, HoldingEvents, QueuesHolding
<1>5. /\ e \in Events /\ e.code = e.key /\ (press_p(e) <=> ~release_p(e))
  BY <1>4, EventFields DEF FreshEvents, press_p, release_p, Kinds
<1> HIDE DEF e
<1>6. ~(press_p(e) /\ e.code = suspect)
  <2> SUFFICES ASSUME press_p(e), e.key = suspect PROVE FALSE
    BY <1>5
  <2>1. n + 1 < v
    BY <1>2, <1>3
  <2>2. PICK r \in (n + 1) + 1 .. v : Successive(accepted, n + 1, r)
    BY <1>2, <1>3, <2>1, NextOfKey
  <2>3. accepted[r].kind = "release" /\ accepted[r].key = accepted[n + 1].key
    BY <1>3, <2>2 DEF PressesInv, Successive, release_p
  <2>4. r # v
    BY <1>2, <2>3 DEF press_p
  <2>5. r \in n + 2 .. n + m
    BY <1>2, <2>2, <2>4
  <2>6. QED
    BY <1>3, <2>3, <2>5 DEF NoneScanned
<1>7. CASE SuspectReleased(e)
  BY <1>1, <1>7, SuspectIsConfirmed DEF e
<1>8. CASE SuspectRepeats(e) \/ SuspectRepeatsUnhandled(e)
  BY <1>6, <1>8 DEF SuspectRepeats, SuspectRepeatsUnhandled
<1>9. ASSUME tq' = MovedToSecond(tq), UNCHANGED <<suspect, suspect_time, releaseVars>>,
             LET decision_time ==
                     verifier_decision_time(suspect, suspect_time, e.code, e.time)
             IN
             \/ press_p(e) /\ mDecision_time' = IF decision_time < mDecision_time
                                                THEN decision_time ELSE mDecision_time
             \/ /\ UNCHANGED mDecision_time
                /\ release_p(e) \/ state = "verify"
                /\ press_p(e) \/ state' # "verify" \/ state = "verify"
      PROVE  VerdictInv'
  BY <1>1, <1>9, SuspicionIsKept DEF e
<1>10. CASE OtherReleased(e) /\ state = "suspect"
  BY <1>9, <1>10 DEF OtherReleased, decisionVars
<1>11. CASE StartVerifying(e)
  BY <1>9, <1>11 DEF StartVerifying
<1>12. CASE VerificatorReleased(e) /\ state = "verify"
  BY <1>9, <1>12 DEF VerificatorReleased
<1>13. CASE OtherWhileVerifying(e) /\ state = "verify"
  BY <1>5, <1>9, <1>13 DEF OtherWhileVerifying, decisionVars
<1>14. QED
  BY <1>7, <1>8, <1>10, <1>11, <1>12, <1>13
     DEF apply_event_to_suspect, apply_event_to_verify_state, e

LEMMA VerdictOfRound ==
    ASSUME IInv, NothingLost, PressesInv, SentAs(Sent, forkActive), mCurrent_time <= clock,
           "repeat" \notin Environment, InitialConfig.consider_forks_for_repeat,
           VerdictInv, NEW c \in Callers, Iterate(c)
    PROVE  VerdictInv'
<1> DEFINE e == Head(tq.input)
<1>1. PICK n, m \in Nat : Places(n, m)
  BY EventsArePlaced
<1>2. mDecision_time \in Nat /\ mCurrent_time \in Nat /\ clock \in Nat
  BY DEF IInv, AutomatonInv, ActivationInv, DecisionTypes, EnvironmentInv, Times
<1>3. CASE tq.input = <<>> /\ (TimeDecides \/ Forcing(c)) /\ activate_fork_rewind(tq)
  <2>1. ~Forcing(c)
    BY DEF Forcing, VerdictInv, QuietInv
  <2>2. state # "normal" /\ mDecision_time <= mCurrent_time
    BY <1>2, <1>3, <2>1 DEF TimeDecides
  <2>3. QED
    BY <1>1, <1>2, <1>3, <2>2, TimeForks
<1>4. CASE tq.input # <<>> /\ transition_by_key(e)
  <2>1. CASE ForkedKeyRepeats(e)
    BY <1>1, <1>4, <2>1, MistakeForksSuspect
  <2>2. CASE DecidedByEventTime(e)
    <3>1. state # "normal" /\ e.time >= mDecision_time /\ activate_fork_rewind(tq)
      BY <2>2 DEF DecidedByEventTime
    <3>2. e.time \in Nat /\ e.time <= clock
      <4>1. /\ accepted \in Seq(Events) /\ (n + m) + 1 \in 1 .. Len(accepted)
            /\ accepted[(n + m) + 1] = e
        BY <1>1, <1>4 DEF Places
      <4>2. (n + m) + 1 \in DOMAIN accepted
        BY <4>1, LenProperties
      <4>3. QED
        BY <4>1, <4>2, ElementOfSeq, EventFields DEF VerdictInv, QuietInv, NoneAfter, Times
    <3>3. mDecision_time <= e.time
      BY <1>2, <3>1, <3>2
    <3>4. QED
      BY <1>1, <3>1, <3>2, <3>3, TimeForks
  <2>3. CASE state = "normal" /\ apply_event_to_normal(e)
    BY <1>1, <1>4, <2>3, NormalRound
  <2>4. CASE /\ e.time < mDecision_time
             /\ \/ state = "suspect" /\ apply_event_to_suspect(e)
                \/ state = "verify" /\ apply_event_to_verify_state(e)
    BY <1>1, <1>4, <2>4, SuspicionRound
  <2>5. QED
    BY <1>4, <2>1, <2>2, <2>3, <2>4 DEF transition_by_key
<1>5. QED
  BY <1>3, <1>4 DEF Iterate
-----------------------------------------------------------------------------
(***************************************************************************)
(* Every other step leaves the verdicts as they are: an event that comes   *)
(* is the last one, and the clock runs on.                                 *)
(***************************************************************************)
OnlyFreezes == Environment \subseteq {"freeze", "time zero"}

\* What neither a call nor the environment changes.
Undisturbed ==
    /\ UNCHANGED <<config, decisionVars, releaseVars, mouseKeys>>
    /\ tq'.internal = tq.internal
    /\ clock' >= clock
    /\ \A c \in Callers : call'[c] = "confirmation" => call[c] = "confirmation"

LEMMA OthersAreUndisturbed ==
    ASSUME IInv, OnlyFreezes, [Next]_vars, \A c \in Callers : ~Iterate(c)
    PROVE  Undisturbed
<1> USE DEF machineVars, callVars, worldVars
<1>0. tq \in QueuesOf(Events) /\ call \in [Callers -> Calls] /\ clock \in Nat
  BY HoldingEventsAreQueues
     DEF IInv, AutomatonInv, ActivationInv, EnvironmentInv, Times
<1>1. ASSUME NEW c \in Callers, Arrives(c) PROVE Undisturbed
  <2>1. \A item : Pushed(tq, item).internal = tq.internal
    BY <1>0 DEF Pushed, QueuesOf
  <2>2. PICK key \in Typed, kind \in Kinds :
            accept_event(c, key, kind) \/ accept_out_of_bound(c, key, kind)
    BY <1>1 DEF Arrives
  <2>3. CASE accept_event(c, key, kind)
    BY <1>0, <2>1, <2>3 DEF accept_event, Called, Undisturbed
  <2>4. CASE accept_out_of_bound(c, key, kind)
    BY <1>0, <2>4 DEF accept_out_of_bound, Undisturbed
  <2>5. QED
    BY <2>2, <2>3, <2>4
<1>2. ASSUME NEW c \in Callers, TheTime(c) PROVE Undisturbed
  BY <1>0, <1>2 DEF TheTime, accept_time, Called, Undisturbed
<1>3. ASSUME NEW c \in Callers, accept_confirmation(c) PROVE Undisturbed
  BY <1>3 DEF accept_confirmation, OnlyFreezes
<1>4. ASSUME NEW c \in Callers, pop_event_if_present(c) PROVE Undisturbed
  BY <1>0, <1>4 DEF pop_event_if_present, Popped, QueuesOf, Undisturbed
<1>5. ASSUME NEW c \in Callers, Return(c) PROVE Undisturbed
  BY <1>0, <1>5 DEF Return, Returned, Undisturbed
<1>6. ASSUME NEW c \in Callers,
             \/ LockAutomaton(c) \/ UnlockAutomaton(c) \/ relay_event(c) \/ relay_returns(c)
             \/ FlushEnds(c) \/ TimeMayPass(c)
             \/ push_time_to_next(c) \/ push_time(c) \/ push_time_returns(c)
      PROVE  Undisturbed
  BY <1>0, <1>6 DEF LockAutomaton, UnlockAutomaton, relay_event, relay_returns, FlushEnds,
     TimeMayPass, push_time_to_next, push_time, push_time_returns, Undisturbed
<1>7. CASE configure \/ Tick \/ Freeze \/ Thaw \/ ToggleMouseKeys
  <2>1. ~configure /\ ~ToggleMouseKeys
    BY DEF configure, ToggleMouseKeys, MayDisturb, OnlyFreezes
  <2>2. QED
    BY <1>0, <1>7, <2>1 DEF Tick, Freeze, Thaw, Undisturbed
<1>8. CASE UNCHANGED vars
  BY <1>0, <1>8 DEF vars, Undisturbed
<1>9. QED
  BY <1>1, <1>2, <1>3, <1>4, <1>5, <1>6, <1>7, <1>8 DEF Next, Proceed

LEMMA VerdictsStay ==
    ASSUME IInv, IInv', SingleThread, StackInv, HandInv, NothingLost, OnlyFreezes,
           VerdictInv, [Next]_vars, \A c \in Callers : ~Iterate(c)
    PROVE  VerdictInv'
<1>1. Undisturbed /\ Sent' = Sent
  BY OthersAreUndisturbed, OthersDecideNothing
<1>2. PICK n, m \in Nat : Places(n, m)
  BY EventsArePlaced
<1>3. /\ accepted \in Seq(Events) /\ n = Len(Sent) /\ m = Len(tq.internal)
      /\ n + m <= Len(accepted) /\ (state # "normal" => m >= 1) /\ Len(accepted) \in Nat
  BY <1>2, LenProperties DEF Places
<1>4. Len(tq'.internal) = m /\ Len(Sent') = n
  BY <1>1, <1>3 DEF Undisturbed
<1>5. clock \in Nat /\ clock' \in Nat /\ clock <= clock'
  BY <1>1 DEF IInv, EnvironmentInv, Times, Undisturbed
<1>6. \A i \in DOMAIN accepted : accepted[i].time \in Nat
  BY <1>3, LenProperties, ElementOfSeq, EventFields DEF Times
<1>7. DOMAIN Sent \subseteq 1 .. Len(accepted)
  BY <1>3, SentIsSeq, LenProperties
<1>8. /\ config' = config /\ config = InitialConfig /\ ~mouseKeys'
      /\ \A c \in Callers : call'[c] # "confirmation"
      /\ InTimeOrder(accepted) /\ NoneAfter(accepted, clock)
      /\ LastRelease(accepted, n, last_released, last_released_time)
      /\ UNCHANGED <<last_released, last_released_time, mDecision_time, state>>
      /\ AllRight(accepted, Sent, clock, config)
  BY <1>1, <1>3 DEF VerdictInv, QuietInv, Undisturbed, decisionVars, releaseVars
<1>9. /\ state # "normal" =>
             Suspects(accepted, n, m, config.repeat_max, mDecision_time)
      /\ state = "verify" => Scanned(accepted, n, m) # {}
  BY <1>3 DEF VerdictInv, SuspicionInv
<1>10. CASE UNCHANGED accepted
  <2>1. AllRight(accepted, Sent, clock', config)
    BY <1>3, <1>5, <1>7, <1>8, AllRightLater
  <2>2. NoneAfter(accepted, clock')
    <3>1. ASSUME NEW i \in DOMAIN accepted PROVE accepted[i].time <= clock'
      BY <1>5, <1>6, <1>8 DEF NoneAfter
    <3>2. QED
      BY <3>1 DEF NoneAfter
  <2>3. QuietInv'
    BY <1>8, <1>10, <2>2 DEF QuietInv
  <2>4. SuspicionInv'
    BY <1>1, <1>4, <1>8, <1>9, <1>10 DEF SuspicionInv
  <2>5. QED
    BY <1>1, <1>4, <1>8, <1>10, <2>1, <2>3, <2>4 DEF VerdictInv
<1>11. ASSUME NEW e \in Events, Enters(e) PROVE VerdictInv'
  <2>1. e.time = clock /\ clock' = clock /\ accepted' = Append(accepted, e)
    BY <1>11 DEF Enters
  <2>2. AllRight(accepted', Sent, clock', config)
    BY <1>3, <1>7, <1>8, <2>1, AllRightOfAppended
  <2>3. InTimeOrder(accepted') /\ NoneAfter(accepted', clock')
    <3>1. NoneBefore(0, accepted) /\ 0 <= e.time
      BY <1>5, <1>6, <2>1 DEF NoneBefore
    <3>2. QED
      BY <1>3, <1>8, <2>1, <3>1, OrderOfAppended DEF Times
  <2>4. QuietInv'
    BY <1>8, <2>3 DEF QuietInv
  <2>5. LastRelease(accepted', n, last_released, last_released_time)
    BY <1>2, <1>3, <1>8, <2>1, LastReleaseOfAppended
  <2>6. state # "normal" =>
            /\ Suspects(accepted', n, m, config.repeat_max, mDecision_time)
            /\ Scanned(accepted', n, m) = Scanned(accepted, n, m)
    BY <1>2, <1>3, <1>9, <2>1, SuspectsOfAppended
  <2>7. SuspicionInv'
    BY <1>1, <1>4, <1>8, <1>9, <2>6 DEF SuspicionInv
  <2>8. QED
    BY <1>1, <1>4, <1>8, <2>2, <2>4, <2>5, <2>7 DEF VerdictInv
<1>12. QED
  BY <1>10, <1>11, DueSteps DEF Leaves

LEMMA VerdictInit == Init => VerdictInv
<1> SUFFICES ASSUME Init PROVE VerdictInv
  OBVIOUS
<1>1. accepted = <<>> /\ DOMAIN accepted = {}
  BY DEF Init
<1>2. DOMAIN Sent = {} /\ Sent \in Seq(Events)
  BY NothingSentAtFirst, InitEstablishes, SentIsSeq
<1>3. Len(Sent) = 0
  BY <1>2, LenProperties
<1>4. LastRelease(accepted, 0, last_released, last_released_time)
  BY DEF Init, LastRelease
<1>5. QuietInv
  BY <1>1 DEF Init, QuietInv, InTimeOrder, NoneAfter
<1>6. AllRight(accepted, Sent, clock, config) /\ SuspicionInv
  BY <1>2 DEF Init, AllRight, SuspicionInv
<1>7. QED
  BY <1>3, <1>4, <1>5, <1>6 DEF VerdictInv

(***************************************************************************)
(* The invariant.                                                          *)
(***************************************************************************)
EventsDecideInv == CodesInv /\ TimesInv /\ PushInv /\ VerdictInv

LEMMA EventsDecideNext ==
    ASSUME SingleThread, OnlyFreezes, InitialConfig.consider_forks_for_repeat,
           EventsDecideInv, [Next]_vars
    PROVE  EventsDecideInv'
<1>1. NoForkRemoved /\ "repeat" \notin Environment
  BY DEF OnlyFreezes, NoForkRemoved
<1>2. CodesInv'
  BY <1>1, CodesNext DEF EventsDecideInv
<1>3. /\ IInv /\ IInv' /\ StackInv /\ HandInv /\ NothingLost /\ PressesInv
      /\ SentAs(Sent, forkActive)
  BY <1>2 DEF EventsDecideInv, CodesInv, ThreadInv
<1>4. TimesInv' /\ PushInv'
  BY <1>3, TimesStep DEF EventsDecideInv
<1>5. VerdictInv'
  <2>1. CASE \A c \in Callers : ~Iterate(c)
    BY <1>3, <2>1, VerdictsStay DEF EventsDecideInv
  <2>2. ASSUME NEW c \in Callers, Iterate(c) PROVE VerdictInv'
    <3>1. mCurrent_time <= clock
      BY DEF EventsDecideInv, TimesInv
    <3>2. QED
      BY <1>1, <1>3, <2>2, <3>1, VerdictOfRound DEF EventsDecideInv
  <2>3. QED
    BY <2>1, <2>2
<1>6. QED
  BY <1>2, <1>4, <1>5 DEF EventsDecideInv
-----------------------------------------------------------------------------
(***************************************************************************)
(* With the least and the last again.                                      *)
(***************************************************************************)
LEMMA MinOf ==
    ASSUME NEW S, S \subseteq Nat, S # {}
    PROVE  Min(S) \in S /\ \A k \in S : Min(S) <= k
<1>1. \E least \in S : \A k \in S : least <= k
  BY LeastOf
<1>2. QED
  BY <1>1 DEF Min

\* The press i is down until its release, or it still is.
LEMMA DownUntilIs ==
    ASSUME accepted \in Seq(Events), NEW i \in 1 .. Len(accepted)
    PROVE  /\ ReleaseOf(accepted, i) = {} => DownUntil(i) = clock
           /\ \A r \in ReleaseOf(accepted, i) :
                 r \in 1 .. Len(accepted) /\ DownUntil(i) = accepted[r].time
<1> DEFINE releases == ReleaseOf(accepted, i)
<1>1. Len(accepted) \in Nat
  BY LenProperties
<1>2. IndexOfRelease(i) = releases
  BY DEF IndexOfRelease, ReleaseOf
<1>3. releases \subseteq 1 .. Len(accepted)
  BY <1>1 DEF ReleaseOf
<1>4. \A r, q \in releases : r = q
  BY OneRelease
<1> HIDE DEF releases
<1>5. ASSUME NEW r \in releases
      PROVE  r \in 1 .. Len(accepted) /\ DownUntil(i) = accepted[r].time
  <2>1. releases \subseteq Nat /\ releases # {}
    BY <1>3, <1>5
  <2>2. PICK least : least = Min(releases)
    OBVIOUS
  <2>3. least \in releases
    BY <2>1, <2>2, MinOf
  <2>4. least = r
    BY <1>4, <1>5, <2>3
  <2>5. QED
    BY <1>2, <1>3, <1>5, <2>1, <2>2, <2>4 DEF DownUntil
<1>6. releases = {} => DownUntil(i) = clock
  BY <1>2 DEF DownUntil
<1>7. QED
  BY <1>5, <1>6 DEF releases

\* Until when the press i is down is a time that is over.
LEMMA DownUntilIsTime ==
    ASSUME accepted \in Seq(Events), NoneAfter(accepted, clock), clock \in Nat,
           NEW i \in 1 .. Len(accepted)
    PROVE  DownUntil(i) \in Nat /\ DownUntil(i) <= clock
<1>1. \A k \in 1 .. Len(accepted) : accepted[k].time \in Nat /\ accepted[k].time <= clock
  BY LenProperties, ElementOfSeq, EventFields DEF Times, NoneAfter
<1>2. CASE ReleaseOf(accepted, i) = {}
  BY <1>2, DownUntilIs
<1>3. CASE ReleaseOf(accepted, i) # {}
  BY <1>1, <1>3, DownUntilIs
<1>4. QED
  BY <1>2, <1>3

\* The code forks the press i exactly when it is down long enough alone or after
\* another press; it does not look how long the other key is down.
LEMMA LongEnoughIsOverlap ==
    ASSUME accepted \in Seq(Events), NEW i \in 1 .. Len(accepted)
    PROVE  LongEnough(accepted, i, clock) <=>
               \/ accepted[i].time + VERIFICATION_INTERVAL <= DownUntil(i)
               \/ \E v \in PressedMeanwhile(i) :
                     accepted[v].time + OVERLAP_TOLERANCE <= DownUntil(i)
<1>1. PressedMeanwhile(i) = PressedBefore(accepted, i)
  BY DEF PressedMeanwhile, PressedBefore, IndexOfRelease, ReleaseOf
<1>2. LongEnough(accepted, i, clock) <=> Ripe(accepted, i, DownUntil(i))
  <2>1. CASE ReleaseOf(accepted, i) = {}
    BY <2>1, DownUntilIs DEF LongEnough
  <2>2. CASE ReleaseOf(accepted, i) # {}
    <3>1. \A r \in ReleaseOf(accepted, i) : DownUntil(i) = accepted[r].time
      BY DownUntilIs
    <3>2. QED
      BY <2>2, <3>1 DEF LongEnough
  <2>3. QED
    BY <2>1, <2>2
<1>3. QED
  BY <1>1, <1>2 DEF Ripe, RipeWith

\* So it forks every key that is used, and others only when the use is cut short.
LEMMA LongEnoughIsUse ==
    ASSUME accepted \in Seq(Events), NoneAfter(accepted, clock), clock \in Nat,
           NEW i \in 1 .. Len(accepted)
    PROVE  /\ UsedAsModifier(i) => LongEnough(accepted, i, clock)
           /\ LongEnough(accepted, i, clock) => UsedAsModifier(i) \/ CutShort(i)
<1>1. ASSUME UsedAsModifier(i) PROVE LongEnough(accepted, i, clock)
  BY <1>1, LongEnoughIsOverlap DEF UsedAsModifier, Overlaps
<1>2. ASSUME LongEnough(accepted, i, clock), ~UsedAsModifier(i) PROVE CutShort(i)
  <2>1. PICK v \in PressedMeanwhile(i) :
            accepted[v].time + OVERLAP_TOLERANCE <= DownUntil(i)
    BY <1>2, LongEnoughIsOverlap DEF UsedAsModifier
  <2>2. v \in 1 .. Len(accepted)
    BY LenProperties DEF PressedMeanwhile
  <2>3. accepted[v].time \in Nat
    BY <2>2, ElementOfSeq, EventFields DEF Times
  <2>4. accepted[v].time + OVERLAP_TOLERANCE <= clock
    BY <2>1, <2>3, DownUntilIsTime, LimitsAssumption
  <2>5. ~Overlaps(i, v, DownUntil(v))
    BY <1>2 DEF UsedAsModifier
  <2>6. QED
    BY <2>1, <2>4, <2>5 DEF CutShort, Overlaps
<1>3. QED
  BY <1>1, <1>2

LEMMA RepressedIsQuick ==
    ASSUME NEW i \in Nat \ {0}
    PROVE  RepressedQuickly(i) <=> Quick(accepted, i, config.repeat_max)
<1> DEFINE releases == {r \in 1 .. i - 1 : accepted[r].kind = "release"}
<1>1. CASE releases = {}
  BY <1>1 DEF RepressedQuickly, Quick
<1>2. CASE releases # {}
  <2>1. PICK last : last = Max(releases)
    OBVIOUS
  <2>2. last \in releases /\ \A r \in releases : last >= r
    <3>1. releases \subseteq 1 .. i - 1 /\ i - 1 \in Nat
      OBVIOUS
    <3> HIDE DEF releases
    <3>2. QED
      BY <1>2, <2>1, <3>1, MaxOf
  <2>3. /\ last \in 1 .. i - 1 /\ accepted[last].kind = "release"
        /\ \A k \in last + 1 .. i - 1 : accepted[k].kind # "release"
    <3>1. ASSUME NEW k \in last + 1 .. i - 1 PROVE accepted[k].kind # "release"
      <4>1. k \in 1 .. i - 1 /\ ~(last >= k)
        BY <2>2
      <4>2. QED
        BY <2>2, <4>1
    <3>2. QED
      BY <2>2, <3>1
  <2>4. RepressedQuickly(i) <=>
            /\ accepted[last].key = accepted[i].key
            /\ accepted[i].time <= accepted[last].time + config.repeat_max
    BY <1>2, <2>1 DEF RepressedQuickly
  <2>5. ASSUME NEW r \in 1 .. i - 1, accepted[r].kind = "release",
               \A k \in r + 1 .. i - 1 : accepted[k].kind # "release"
        PROVE  r = last
    <3>1. last >= r
      BY <2>2, <2>5
    <3>2. ~(last \in r + 1 .. i - 1)
      BY <2>3, <2>5
    <3>3. QED
      BY <2>3, <3>1, <3>2
  <2> HIDE DEF releases
  <2>6. QED
    BY <2>3, <2>4, <2>5 DEF Quick
<1>3. QED
  BY <1>1, <1>2

LEMMA VerdictsAreDecisions ==
    ASSUME EventsDecideInv, SingleThread
    PROVE  DecidedByTheEvents
<1>1. /\ IInv /\ StackInv /\ HandInv /\ NothingLost
      /\ NoneAfter(accepted, clock) /\ AllRight(accepted, Sent, clock, config)
  BY DEF EventsDecideInv, CodesInv, ThreadInv, VerdictInv, QuietInv
<1>2. Decided = Sent
  BY <1>1, InHandIsTop DEF Decided, Sent
<1>3. PICK n, m \in Nat : Places(n, m)
  BY <1>1, EventsArePlaced
<1>4. /\ accepted \in Seq(Events) /\ DOMAIN Sent = 1 .. n /\ Len(accepted) \in Nat
      /\ n <= Len(accepted) /\ clock \in Nat
  BY <1>1, <1>3, SentIsSeq, LenProperties DEF Places, IInv, EnvironmentInv, Times
<1>5. ASSUME NEW i \in DOMAIN Sent, press_p(Sent[i]), forkable_p(Sent[i].key),
             ~MistakenForRepeat(i)
      PROVE  IF RepressedQuickly(i) THEN Sent[i].code = Sent[i].key
             ELSE IF UsedAsModifier(i) THEN Sent[i].code = config.fork_keycode[Sent[i].key]
             ELSE Sent[i].code # Sent[i].key => CutShort(i)
  <2>1. i \in 1 .. Len(accepted) /\ i \in Nat \ {0}
    BY <1>4
  <2>2. ~Mistaken(accepted, Sent, i)
    BY <1>2, <1>5
       DEF MistakenForRepeat, Mistaken, PressedMeanwhile, PressedBefore, IndexOfRelease, ReleaseOf
  <2>3. Right(accepted, Sent, i, clock, config)
    BY <1>1, <1>5, <2>2 DEF AllRight, forkable_p
  <2>4. /\ UsedAsModifier(i) => LongEnough(accepted, i, clock)
        /\ LongEnough(accepted, i, clock) => UsedAsModifier(i) \/ CutShort(i)
    BY <1>1, <1>4, <2>1, LongEnoughIsUse
  <2>5. RepressedQuickly(i) <=> Quick(accepted, i, config.repeat_max)
    BY <2>1, RepressedIsQuick
  <2>6. QED
    BY <2>3, <2>4, <2>5 DEF Right
<1>6. QED
  BY <1>2, <1>5 DEF DecidedByTheEvents

(***************************************************************************)
(* Whether a key is a fork does not depend on when the machine was told    *)
(* the time, on when and how long the output was frozen, on calls nested   *)
(* in calls, nor on what was in the queue before: every decided press of a *)
(* forkable key that the events say was used as a modifier is forked, and  *)
(* no other, but for the two mistakes, CutShort and that of machine.h:797. *)
(* Nothing is forced (accept_confirmation), keys do not repeat by          *)
(* themselves, MouseKeys are off and nothing is reconfigured; forks count  *)
(* for the .- trick, as they do by default.                                *)
(***************************************************************************)
THEOREM EventsDecide ==
    ASSUME SingleThread, OnlyFreezes, InitialConfig.consider_forks_for_repeat
    PROVE  Spec => []DecidedByTheEvents
<1>1. Init => EventsDecideInv
  <2> SUFFICES ASSUME Init PROVE EventsDecideInv
    OBVIOUS
  <2>1. CodesInv /\ VerdictInv
    BY CodesInit, VerdictInit
  <2>2. TimesInv /\ PushInv
    BY NothingDueAtFirst DEF Init, TimesInv, PushInv, InTimeOrder, NoneAfter, NoneBefore
  <2>3. QED
    BY <2>1, <2>2 DEF EventsDecideInv
<1>2. EventsDecideInv /\ [Next]_vars => EventsDecideInv'
  BY EventsDecideNext
<1>3. EventsDecideInv => DecidedByTheEvents
  BY VerdictsAreDecisions
<1>4. QED
  BY <1>1, <1>2, <1>3, PTL DEF Spec
=============================================================================
