-------------------------- MODULE XorgPlugin_proofs --------------------------
(***************************************************************************)
(* The X server plugin: it is the forking machine, and through all its     *)
(* handlers the server knows when the machine must be called again.        *)
(***************************************************************************)
EXTENDS XorgPlugin, ForkingCalls_proofs

\* Every step of the plugin is one of the machine.
LEMMA XorgStepsAreMachineSteps == [XorgNext]_xorgVars => [Next]_vars
<1> SUFFICES ASSUME [XorgNext]_xorgVars PROVE [Next]_vars
  OBVIOUS
<1>1. ASSUME NEW c \in Callers, ForkProcessEvent(c) PROVE Next
  BY <1>1 DEF ForkProcessEvent, Next, Arrives
<1>2. ASSUME NEW c \in Callers, step_in_time(c) \/ fork_thaw_notify(c) PROVE Next
  BY <1>2 DEF step_in_time, fork_thaw_notify, Next, TheTime, GivenTimes
<1>3. ASSUME NEW c \in Callers, mouse_call_back(c) PROVE Next
  BY <1>3 DEF mouse_call_back, Next
<1>4. ASSUME NEW c \in Callers, HandlerProceeds(c) PROVE Next
  BY <1>4
     DEF HandlerProceeds, MachineGoesOn, NextTakesEvent, NextTakesTime, HandlerReturns,
         Next, Proceed
<1>5. CASE NextThaws \/ ((Tick \/ Freeze) /\ UNCHANGED pluginVars)
  BY <1>5 DEF NextThaws, Next
<1>6. CASE UNCHANGED xorgVars
  BY <1>6 DEF xorgVars
<1>7. QED
  BY <1>1, <1>2, <1>3, <1>4, <1>5, <1>6 DEF XorgNext

(***************************************************************************)
(* The plugin is the machine in one of its environments: what is proved of *)
(* every behaviour of the machine holds in the plugin.                     *)
(***************************************************************************)
THEOREM PluginRunsTheMachine == XorgSpec => Spec
BY XorgStepsAreMachineSteps, PTL DEF XorgSpec, XorgInit, Spec

(***************************************************************************)
(* The invariant: a thaw that the machine was not told of is still to be   *)
(* notified, and unless somebody is going to set the time, it is set.      *)
(***************************************************************************)
PluginInv ==
    /\ thawed => thaw_due
    /\ WakesInTime(wakeup_time)

XorgInv == ThreadInv /\ LateInv /\ LockIsHeld /\ PluginInv

LEMMA XorgInit_XorgInv == XorgInit => XorgInv
<1> SUFFICES ASSUME XorgInit PROVE XorgInv
  OBVIOUS
<1>1. Init
  BY DEF XorgInit
<1>2. ThreadInv /\ LateInv /\ LockIsHeld
  BY <1>1, ThreadInit, LateInit, RestInit DEF RestInv
<1>3. PluginInv
  BY <1>1 DEF Init, PluginInv, WakesInTime
<1>4. QED
  BY <1>2, <1>3 DEF XorgInv

\* The time is set when a handler returns, and only then.
LEMMA HandlersSetTheTime ==
    ASSUME IInv, [XorgNext]_xorgVars, ~ \E c \in Callers : HandlerReturns(c)
    PROVE  /\ wakeup_time' = wakeup_time
           /\ \A c \in Callers : pc'[c] = "idle" => pc[c] = "idle"
<1>1. pc \in [Callers -> Labels]
  BY DEF IInv, ActivationInv
<1> DEFINE NobodyReturns == \A d \in Callers : pc'[d] = "idle" => pc[d] = "idle"
<1>2. ASSUME NEW c \in Callers, NEW label \in Labels \ {"idle"}, Goto(c, label)
      PROVE  NobodyReturns
  BY <1>1, <1>2 DEF Goto
<1>3. ASSUME NEW c \in Callers,
             ForkProcessEvent(c) \/ step_in_time(c) \/ fork_thaw_notify(c) \/ mouse_call_back(c)
      PROVE  wakeup_time' = wakeup_time /\ NobodyReturns
  <2>1. Goto(c, "enter") \/ Goto(c, "decide")
    BY <1>3
       DEF ForkProcessEvent, step_in_time, fork_thaw_notify, mouse_call_back, accept_event,
           accept_time, accept_confirmation
  <2>2. QED
    BY <1>2, <1>3, <2>1
       DEF ForkProcessEvent, step_in_time, fork_thaw_notify, mouse_call_back, pluginVars,
           Labels
<1>4. ASSUME NEW c \in Callers, MachineGoesOn(c) \/ NextTakesEvent(c) \/ NextTakesTime(c)
      PROVE  wakeup_time' = wakeup_time /\ NobodyReturns
  <2>1. (\E label \in Labels \ {"idle"} : Goto(c, label)) \/ pc' = pc
    <3>1. Proceed(c)
      BY <1>4 DEF MachineGoesOn, NextTakesEvent, NextTakesTime, Proceed
    <3>2. CallMoves(c) \/ CallEnds(c)
      BY <3>1, ProceedIsCall
    <3>3. pc[c] # "decide"
      BY <1>4
         DEF MachineGoesOn, NextTakesEvent, NextTakesTime, LockAutomaton, Iterate,
             UnlockAutomaton, pop_event_if_present, relay_event, relay_returns, FlushEnds,
             TimeMayPass, push_time_to_next, push_time, push_time_returns
    <3>4. QED
      BY <3>2, <3>3 DEF CallMoves, CallEnds, Moves
  <2>2. QED
    BY <1>2, <1>4, <2>1 DEF MachineGoesOn, NextTakesEvent, NextTakesTime, pluginVars
<1>5. CASE NextThaws \/ ((Tick \/ Freeze) /\ UNCHANGED pluginVars) \/ UNCHANGED xorgVars
  BY <1>5
     DEF NextThaws, Thaw, Tick, Freeze, xorgVars, vars, pluginVars, callVars
<1>6. QED
  BY <1>3, <1>4, <1>5 DEF XorgNext, HandlerProceeds

\* It is set to the time of the decision, when the keyboard is not frozen.
LEMMA HandlerSetsDecisionTime ==
    ASSUME PrevHasNotifyThaw, IInv, LateInv, NEW c \in Callers, HandlerReturns(c),
           call[c] # "confirmation", ~frozen
    PROVE  state = "normal" \/ wakeup_time' = mDecision_time
<1>1. wakeup_time' = first_non_zero(next_decision_time, next_wakeup_time)
  BY DEF HandlerReturns, Upwards, set_wakeup_time
<1>2. state # "normal" => next_decision_time = mDecision_time /\ mDecision_time # 0
  BY DEF next_decision_time, LateInv, IInv, AutomatonInv, DecisionTypes, Times
<1>3. QED
  BY <1>1, <1>2 DEF first_non_zero

LEMMA WakesInTimeStays ==
    ASSUME PrevHasNotifyThaw, XorgInv, [XorgNext]_xorgVars
    PROVE  WakesInTime(wakeup_time)'
<1>1. [Next]_vars /\ IInv /\ LateInv /\ LockIsHeld /\ WakesInTime(wakeup_time)
  BY XorgStepsAreMachineSteps DEF XorgInv, PluginInv, ThreadInv
<1>2. pc \in [Callers -> Labels]
  BY <1>1 DEF IInv, ActivationInv
<1>3. ASSUME NEW c \in Callers, HandlerReturns(c), NEW d \in Callers, Answers(d)
      PROVE  d = c
  BY <1>2, <1>3 DEF HandlerReturns, Return, Returned, Goto, Answers
<1>4. ASSUME NEW d \in Callers, Answers(d), ~frozen
      PROVE  state = "normal" \/ wakeup_time' = mDecision_time
  <2>1. HandlerReturns(d)
    BY <1>1, <1>3, <1>4, HandlersSetTheTime DEF Answers
  <2>2. QED
    BY <1>1, <1>4, <2>1, HandlerSetsDecisionTime DEF Answers
<1>5. ASSUME \A d \in Callers : ~Answers(d) PROVE wakeup_time' = wakeup_time
  <2>1. ASSUME NEW c \in Callers, HandlerReturns(c) PROVE wakeup_time' = wakeup_time
    <3>1. pc[c] = "decide" /\ pc'[c] = "idle"
      BY <1>2, <2>1 DEF HandlerReturns, Return, Returned, Goto
    <3>2. call[c] = "confirmation"
      BY <1>5, <3>1 DEF Answers
    <3>3. QED
      BY <2>1, <3>2 DEF HandlerReturns
  <2>2. QED
    BY <1>1, <2>1, HandlersSetTheTime
<1>6. QED
  BY <1>1, <1>4, <1>5, WakesStay DEF WakesInTime

\* The plugin knows of every thaw that the machine was not told of.
LEMMA ThawIsDue ==
    ASSUME thawed => thaw_due, [XorgNext]_xorgVars
    PROVE  thawed' => thaw_due'
<1>1. ASSUME NEW c \in Callers,
             ForkProcessEvent(c) \/ step_in_time(c) \/ fork_thaw_notify(c) \/ mouse_call_back(c)
      PROVE  ~thawed'
  BY <1>1
     DEF ForkProcessEvent, step_in_time, fork_thaw_notify, mouse_call_back, accept_event,
         accept_time, accept_confirmation, Called
<1>2. ASSUME NEW c \in Callers, HandlerProceeds(c) PROVE UNCHANGED <<thawed, thaw_due>>
  <2>1. CASE NextTakesEvent(c) \/ NextTakesTime(c) \/ HandlerReturns(c)
    BY <2>1
       DEF NextTakesEvent, NextTakesTime, HandlerReturns, relay_event, push_time, Return,
           worldVars
  <2>2. CASE MachineGoesOn(c)
    BY <2>2
       DEF MachineGoesOn, LockAutomaton, Iterate, UnlockAutomaton, pop_event_if_present,
           relay_returns, FlushEnds, TimeMayPass, push_time_to_next, push_time_returns,
           worldVars, pluginVars
  <2>3. QED
    BY <1>2, <2>1, <2>2 DEF HandlerProceeds
<1>3. CASE NextThaws
  BY <1>3 DEF NextThaws
<1>4. CASE ((Tick \/ Freeze) /\ UNCHANGED pluginVars) \/ UNCHANGED xorgVars
  BY <1>4 DEF Tick, Freeze, xorgVars, vars, worldVars, pluginVars
<1>5. QED
  BY <1>1, <1>2, <1>3, <1>4 DEF XorgNext

LEMMA XorgNext_XorgInv ==
    ASSUME SingleThread, PrevHasNotifyThaw, XorgInv, [XorgNext]_xorgVars
    PROVE  XorgInv'
<1>1. [Next]_vars
  BY XorgStepsAreMachineSteps
<1>2. ThreadInv'
  BY <1>1, ThreadNext DEF XorgInv
<1>3. LateInv'
  BY <1>1, <1>2, LateStays DEF XorgInv, ThreadInv
<1>4. LockIsHeld'
  BY <1>1, LockStays DEF XorgInv, ThreadInv
<1>5. PluginInv'
  BY WakesInTimeStays, ThawIsDue DEF XorgInv, PluginInv
<1>6. QED
  BY <1>2, <1>3, <1>4, <1>5 DEF XorgInv

LEMMA XorgInvMeansWakes ==
    ASSUME XorgInv, stack = <<>>, ~frozen, ~thaw_due, state # "normal"
    PROVE  wakeup_time # 0 /\ wakeup_time <= mDecision_time
<1>1. \A c \in Callers : pc[c] = "idle"
  BY DEF XorgInv, ThreadInv, StackInv
<1>2. mLock = Nobody
  BY <1>1 DEF XorgInv, LockIsHeld, ThreadInv, IInv, ActivationInv
<1>3. Calm
  BY <1>1, <1>2 DEF XorgInv, PluginInv, Calm, Unlocked
<1>4. wakeup_time = mDecision_time
  BY <1>1, <1>3 DEF XorgInv, PluginInv, WakesInTime, WillAnswer
<1>5. mDecision_time \in Nat /\ mDecision_time >= 1
  BY DEF XorgInv, LateInv, ThreadInv, IInv, AutomatonInv, DecisionTypes, Times
<1>6. QED
  BY <1>4, <1>5

(***************************************************************************)
(* The server, back in its loop with the keyboard thawed and notified,     *)
(* will call no later than the undecided key needs -- whatever the next    *)
(* plugin asks for, and through the handler that does not set the time.    *)
(* (fork_thaw_notify sets it only where the plugin before takes thaws,     *)
(* hence the hypothesis.)                                                  *)
(***************************************************************************)
THEOREM ServerWakesForTheMachine ==
    ASSUME SingleThread, PrevHasNotifyThaw
    PROVE  XorgSpec => []WakesForTheMachine
<1>1. XorgInv /\ [XorgNext]_xorgVars => XorgInv'
  BY XorgNext_XorgInv
<1>2. XorgInv => WakesForTheMachine
  BY XorgInvMeansWakes DEF WakesForTheMachine
<1> HIDE DEF XorgInv, WakesForTheMachine
<1>3. QED
  BY XorgInit_XorgInv, <1>1, <1>2, PTL DEF XorgSpec
=============================================================================
