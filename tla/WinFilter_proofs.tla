--------------------------- MODULE WinFilter_proofs ---------------------------
(***************************************************************************)
(* The Windows filter: it is the forking machine, called by one callback   *)
(* at a time, and its timer runs exactly while a key is undecided.         *)
(***************************************************************************)
EXTENDS WinFilter, ForkingCalls_proofs

\* Every step of the filter is one of the machine.
LEMMA WinStepsAreMachineSteps == [WinNext]_winVars => [Next]_vars
<1> SUFFICES ASSUME [WinNext]_winVars PROVE [Next]_vars
  OBVIOUS
<1>1. ASSUME NEW c \in Callers, KbFilter_ServiceCallback(c) PROVE Next
  BY <1>1 DEF KbFilter_ServiceCallback, Next, Arrives
<1>2. ASSUME NEW c \in Callers, KbFilter_EvtWdfTimer(c) PROVE Next
  BY <1>2 DEF KbFilter_EvtWdfTimer, Next, TheTime, GivenTimes
<1>3. ASSUME NEW c \in Callers, CallbackProceeds(c) PROVE Next
  BY <1>3 DEF CallbackProceeds, CallbackReturns, Next, Proceed
<1>4. CASE ClockTicks
  BY <1>4 DEF ClockTicks, Next
<1>5. CASE UNCHANGED winVars
  BY <1>5 DEF winVars
<1>6. QED
  BY <1>1, <1>2, <1>3, <1>4, <1>5 DEF WinNext

(***************************************************************************)
(* The filter is the machine in one of its environments: what is proved of *)
(* every behaviour of the machine holds in the filter.                     *)
(***************************************************************************)
THEOREM FilterRunsTheMachine == WinSpec => Spec
BY WinStepsAreMachineSteps, PTL DEF WinSpec, WinInit, Spec

\* A step after which no callback runs returns from the last one, or touches
\* neither the timer nor the stack.
LEMMA LastCallbackReturns ==
    ASSUME IInv, SingleThread, [WinNext]_winVars, stack' = <<>>
    PROVE  (\E c \in Callers : CallbackReturns(c)) \/ UNCHANGED <<timer, stack>>
<1>1. stack \in Seq(Callers)
  BY DEF IInv, ActivationInv
<1>2. ASSUME NEW c \in Callers, NEW kind \in Calls, Called(c, kind) PROVE FALSE
  <2>1. ASSUME NEW s \in Seq(Callers) PROVE <<c>> \o s # <<>>
    <3>1. Len(<<c>> \o s) = 1 + Len(s) /\ Len(s) \in Nat
      BY LenProperties
    <3>2. QED
      BY <3>1
  <2>2. QED
    BY <1>1, <1>2, <2>1 DEF Called
<1>3. ASSUME NEW c \in Callers, KbFilter_ServiceCallback(c) \/ KbFilter_EvtWdfTimer(c)
      PROVE  FALSE
  BY <1>2, <1>3
     DEF KbFilter_ServiceCallback, KbFilter_EvtWdfTimer, accept_event, accept_time, Calls
<1>4. ASSUME NEW c \in Callers, CallbackProceeds(c), ~CallbackReturns(c)
      PROVE  UNCHANGED <<timer, stack>>
  BY <1>4
     DEF CallbackProceeds, LockAutomaton, Iterate, UnlockAutomaton, pop_event_if_present,
         relay_event, relay_returns, FlushEnds, TimeMayPass, push_time_to_next, push_time,
         push_time_returns, callVars
<1>5. CASE ClockTicks \/ UNCHANGED winVars
  BY <1>5 DEF ClockTicks, Tick, winVars, vars, callVars
<1>6. QED
  BY <1>3, <1>4, <1>5 DEF WinNext

LEMMA TimerInType ==
    ASSUME NEW milliseconds \in Int
    PROVE  TimerIn(milliseconds) \in Nat
<1>1. milliseconds % DueTimeWidth \in Nat
  BY DueTimeAssumption, SMTT(30)
<1>2. QED
  BY <1>1 DEF TimerIn

(***************************************************************************)
(* The invariant.  That the timer is on for a suspect needs that the time  *)
(* of a decision is never 0, which the filter takes for none.              *)
(***************************************************************************)
WinInv == ThreadInv /\ LateInv /\ TimerRunsForSuspect

LEMMA WinInit_WinInv == WinInit => WinInv
<1> SUFFICES ASSUME WinInit PROVE WinInv
  OBVIOUS
<1>1. ThreadInv
  BY ThreadInit DEF WinInit
<1>2. LateInv
  <2>1. Init
    BY DEF WinInit
  <2>2. QED
    BY <2>1, LateInit
<1>3. TimerRunsForSuspect
  BY DEF WinInit, Init, TimerRunsForSuspect
<1>4. QED
  BY <1>1, <1>2, <1>3 DEF WinInv

\* Returning sets the timer by the decision time.
LEMMA CallbackReturnSetsTimer ==
    ASSUME IInv, LateInv, NEW c \in Callers, CallbackReturns(c)
    PROVE  timer' # 0 <=> state' # "normal"
<1>1. state' = state /\ clock \in Nat /\ clock >= 1
  BY DueTimes DEF CallbackReturns, Return, machineVars, decisionVars, LateInv
<1>2. CASE state = "normal"
  BY <1>1, <1>2
     DEF CallbackReturns, next_decision_time, EventTimer, TimeTimer, WdfTimerStop
<1>3. CASE state # "normal"
  <2>1. /\ next_decision_time = mDecision_time
        /\ mDecision_time \in Nat /\ mDecision_time # 0
    BY <1>3 DEF next_decision_time, LateInv, IInv, AutomatonInv, DecisionTypes, Times
  <2>2. PICK milliseconds \in Int : timer' = clock + TimerIn(milliseconds)
    <3>1. mDecision_time - clock \in Int /\ mDecision_time \in Int
      BY <1>1, <2>1
    <3>2. QED
      BY <2>1, <3>1 DEF CallbackReturns, EventTimer, TimeTimer, startTimer
  <2>3. TimerIn(milliseconds) \in Nat
    BY TimerInType
  <2>4. QED
    BY <1>1, <1>3, <2>2, <2>3
<1>4. QED
  BY <1>2, <1>3

\* A callback changes nothing for the timer until it returns.
LEMMA WinNext_WinInv ==
    ASSUME SingleThread, WinInv, [WinNext]_winVars
    PROVE  WinInv'
<1>1. [Next]_vars
  BY WinStepsAreMachineSteps
<1>2. /\ ThreadInv /\ ThreadInv' /\ LateInv
      /\ IInv /\ IInv' /\ StackInv /\ HandInv
  BY <1>1, ThreadNext DEF WinInv, ThreadInv
<1>3. LateInv'
  BY <1>1, <1>2, LateStays
<1>4. TimerRunsForSuspect'
  <2>1. SUFFICES ASSUME stack' = <<>> PROVE timer' # 0 <=> state' # "normal"
    BY DEF TimerRunsForSuspect
  <2>2. ASSUME NEW c \in Callers, CallbackReturns(c)
        PROVE  timer' # 0 <=> state' # "normal"
    BY <1>2, <2>2, CallbackReturnSetsTimer
  <2>3. ASSUME UNCHANGED <<timer, stack>> PROVE timer' # 0 <=> state' # "normal"
    <3>1. UNCHANGED decisionVars
      BY <1>1, <1>2, <2>1, <2>3, StepsOfDecisions DEF Iterate, Running
    <3>2. QED
      BY <2>1, <2>3, <3>1 DEF WinInv, TimerRunsForSuspect, decisionVars
  <2>4. QED
    BY <1>2, <2>1, <2>2, <2>3, LastCallbackReturns
<1>5. QED
  BY <1>2, <1>3, <1>4 DEF WinInv

(***************************************************************************)
(* Between callbacks the timer runs exactly when a key is undecided: no    *)
(* order of key events and expiries stops it under a suspect or leaves it  *)
(* running for none, whatever number of milliseconds a due time holds.     *)
(***************************************************************************)
THEOREM TimerForSuspect ==
    ASSUME SingleThread
    PROVE  WinSpec => []TimerRunsForSuspect
<1>1. WinInv /\ [WinNext]_winVars => WinInv'
  BY WinNext_WinInv
<1>2. WinInv => TimerRunsForSuspect
  BY DEF WinInv
<1> HIDE DEF WinInv, TimerRunsForSuspect
<1>3. QED
  BY WinInit_WinInv, <1>1, <1>2, PTL DEF WinSpec
=============================================================================
