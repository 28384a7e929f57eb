----------------------- MODULE ForkingMachine_proofs -----------------------
(***************************************************************************)
(* Type correctness of the forking machine, and that its decision state    *)
(* describes its middle queue, for every set of keys, limits, bounds,      *)
(* callers (nested or parallel) and environment.                           *)
(***************************************************************************)
EXTENDS ForkingProperties, QueueOperators_proofs

(***************************************************************************)
(* The inductive invariant.  SuspectHeadsMiddle alone is not inductive:    *)
(* that a decided event has a code forkActive can be indexed with needs    *)
(* that what waits undecided was not rewritten yet.                        *)
(***************************************************************************)
FreshEvents == {e \in Events : e.code = e.key}

HoldingEvents == QueuesHolding(Events, FreshEvents)

DecisionTypes ==
    /\ state \in States
    /\ suspect \in Keycodes /\ suspect_time \in Times
    /\ verificator_keycode \in Keycodes /\ verificator_time \in Times
    /\ mDecision_time \in Times
    /\ last_released \in Keycodes /\ last_released_time \in Times
    /\ forkActive \in [Keys -> Keycodes]

\* What the automaton works on.
AutomatonInv ==
    /\ config \in ConfigType
    /\ DecisionTypes
    /\ tq \in HoldingEvents
    /\ SuspectHeadsMiddle

\* The activations, the environment and the histories.
ActivationInv ==
    /\ mCurrent_time \in Times
    /\ mLock \in Callers \cup {Nobody}
    /\ pc \in [Callers -> Labels]
    /\ call \in [Callers -> Calls]
    /\ hand \in [Callers -> Seq(Events)]
    /\ now \in [Callers -> Times]
    /\ stack \in Seq(Callers)
    /\ \A c \in Callers : pc[c] = "relay" => hand[c] # <<>>

EnvironmentInv ==
    /\ clock \in Times
    /\ held \subseteq Keys \cup OutOfBound
    /\ repeating \in Keycodes \cup OutOfBound
    /\ mouseKeys \in BOOLEAN /\ frozen \in BOOLEAN /\ thawed \in BOOLEAN
    /\ disturbances \in Nat
    /\ wakeup \in Times
    /\ accepted \in Seq(Events) /\ delivered \in Seq(Events)
    /\ downstream_time \in Times

IInv == AutomatonInv /\ ActivationInv /\ EnvironmentInv
-----------------------------------------------------------------------------
LEMMA FreshEventsAreEvents == FreshEvents \subseteq Events
BY DEF FreshEvents

\* The fields of an event.
LEMMA EventFields ==
    ASSUME NEW e \in Events
    PROVE  /\ e.key \in Keys /\ e.code \in Keycodes
           /\ e.kind \in Kinds /\ e.time \in Times
BY DEF Events

\* An undecided event still has the code of its key.
LEMMA FreshEventHasKey ==
    ASSUME NEW e \in FreshEvents
    PROVE  e \in Events /\ e.code \in Keys
BY DEF FreshEvents, Events

\* Rewriting gives an event.
LEMMA RewrittenIsEvent ==
    ASSUME NEW e \in Events, NEW code \in Keycodes
    PROVE  rewritten(e, code) \in Events
BY DEF Events, rewritten

\* Everything that waits may be seen as a queue of events.
LEMMA HoldingEventsAreQueues == HoldingEvents \subseteq QueuesOf(Events)
BY SeqMonotonic, FreshEventsAreEvents DEF HoldingEvents, QueuesHolding, QueuesOf

LEMMA InvImpliesTypeOK == IInv => TypeOK
BY HoldingEventsAreQueues
   DEF IInv, AutomatonInv, ActivationInv, EnvironmentInv, DecisionTypes, TypeOK

LEMMA InvImpliesSuspectHeadsMiddle == IInv => SuspectHeadsMiddle
BY DEF IInv, AutomatonInv
-----------------------------------------------------------------------------
(***************************************************************************)
(* The automaton.                                                          *)
(***************************************************************************)

\* Whatever leaves the machine in state normal with an empty middle queue.
LEMMA NormalIsFine ==
    ASSUME AutomatonInv, config' = config, DecisionTypes', state' = "normal",
           tq' \in HoldingEvents, tq'.internal = <<>>
    PROVE  AutomatonInv'
BY DEF AutomatonInv, SuspectHeadsMiddle

\* rewind_machine leaves state normal and types alone.
LEMMA RewindTypes ==
    ASSUME DecisionTypes, rewind_machine, UNCHANGED releaseVars,
           forkActive' \in [Keys -> Keycodes]
    PROVE  DecisionTypes' /\ state' = "normal"
BY DEF DecisionTypes, rewind_machine, releaseVars, Keycodes, States, Times

\* A fork of the head of the middle queue, the one that transition_by_time,
\* transition_by_force and two branches of transition_by_key end in.
LEMMA ActivatePreserves ==
    ASSUME AutomatonInv, config' = config, NEW q \in HoldingEvents,
           q.internal # <<>>, activate_fork_rewind(q)
    PROVE  AutomatonInv'
<1> DEFINE event == Head(q.internal)
           target == config.fork_keycode[event.code]
<1>1. event \in FreshEvents
  BY HeadTailProperties DEF HoldingEvents, QueuesHolding
<1>2. event \in Events /\ event.code \in Keys /\ target \in Keycodes
  BY <1>1, FreshEventHasKey DEF AutomatonInv, ConfigType
<1>3. rewritten(event, target) \in Events
  BY <1>2, RewrittenIsEvent
<1>4. tq' \in HoldingEvents /\ tq'.internal = <<>>
  BY <1>3, HeadDecided, FreshEventsAreEvents DEF activate_fork_rewind, HoldingEvents
<1>5. forkActive' \in [Keys -> Keycodes]
  BY <1>2 DEF activate_fork_rewind, AutomatonInv, DecisionTypes
<1>6. DecisionTypes' /\ state' = "normal"
  BY <1>5, RewindTypes DEF activate_fork_rewind, AutomatonInv
<1>7. QED
  BY <1>4, <1>6, NormalIsFine

\* The head of the input was scanned: it is the last of the middle queue.
LEMMA ScanAppends ==
    ASSUME AutomatonInv, tq.input # <<>>, tq' = MovedToSecond(tq)
    PROVE  /\ Head(tq.input) \in FreshEvents
           /\ tq' \in HoldingEvents
           /\ tq'.internal # <<>>
           /\ Len(tq.internal) \in Nat
           /\ DOMAIN tq.internal = 1 .. Len(tq.internal)
           /\ DOMAIN tq'.internal = 1 .. Len(tq.internal) + 1
           /\ \A i \in 1 .. Len(tq.internal) : tq'.internal[i] = tq.internal[i]
           /\ tq'.internal[Len(tq.internal) + 1] = Head(tq.input)
           /\ Head(tq'.internal) =
                  IF tq.internal = <<>> THEN Head(tq.input) ELSE Head(tq.internal)
<1>1. tq \in QueuesHolding(Events, FreshEvents)
  BY DEF AutomatonInv, HoldingEvents
<1>2. /\ tq' = [output   |-> tq.output,
                internal |-> Append(tq.internal, Head(tq.input)),
                input    |-> Tail(tq.input)]
      /\ tq' \in HoldingEvents
      /\ Head(tq.input) \in FreshEvents
  BY <1>1, MovedToSecondReturns DEF HoldingEvents
<1>3. tq.internal \in Seq(FreshEvents)
  BY <1>1 DEF QueuesHolding
<1>4. tq'.internal = Append(tq.internal, Head(tq.input))
  BY <1>2
<1>5. QED
  BY <1>2, <1>3, <1>4, AppendProperties, LenProperties, HeadTailAppend

\* Whatever scans an event and leaves the suspect undecided.
LEMMA StillUndecided ==
    ASSUME AutomatonInv, config' = config, DecisionTypes',
           tq.input # <<>>, tq' = MovedToSecond(tq),
           state # "normal", state' # "normal",
           ~(release_p(Head(tq.input)) /\ Head(tq.input).code = suspect),
           UNCHANGED <<suspect, suspect_time, forkActive>>,
           mDecision_time' <= mDecision_time,
           state' = "verify" =>
               /\ mDecision_time' <= verificator_time' + OVERLAP_TOLERANCE
               /\ \E i \in DOMAIN tq'.internal :
                      /\ press_p(tq'.internal[i])
                      /\ tq'.internal[i].code = verificator_keycode'
                      /\ tq'.internal[i].time = verificator_time'
    PROVE  AutomatonInv'
<1>1. /\ tq' \in HoldingEvents
      /\ tq'.internal # <<>>
      /\ tq.internal # <<>>
      /\ Head(tq'.internal) = Head(tq.internal)
  BY ScanAppends DEF AutomatonInv, SuspectHeadsMiddle
<1>2. /\ press_p(Head(tq'.internal))
      /\ Head(tq'.internal).code = suspect'
      /\ Head(tq'.internal).time = suspect_time'
      /\ forkActive'[suspect'] = NoKey
  BY <1>1 DEF AutomatonInv, SuspectHeadsMiddle
<1>3. mDecision_time' <= suspect_time' + VERIFICATION_INTERVAL
  BY LimitsAssumption DEF AutomatonInv, SuspectHeadsMiddle, DecisionTypes, Times
<1>4. ASSUME NEW i \in DOMAIN tq'.internal
      PROVE  ~(release_p(tq'.internal[i]) /\ tq'.internal[i].code = suspect')
  <2>1. CASE i \in 1 .. Len(tq.internal)
    BY <2>1, ScanAppends DEF AutomatonInv, SuspectHeadsMiddle
  <2>2. CASE i = Len(tq.internal) + 1
    BY <2>2, ScanAppends
  <2>3. QED
    BY <2>1, <2>2, ScanAppends
<1>5. SuspectHeadsMiddle'
  BY <1>1, <1>2, <1>3, <1>4 DEF SuspectHeadsMiddle
<1>6. QED
  BY <1>1, <1>5 DEF AutomatonInv

\* The time of the decision of a pair of keys, as compiled.
LEMMA DecisionTimeBounds ==
    ASSUME NEW a, NEW s \in Times, NEW b, NEW v \in Times
    PROVE  /\ verifier_decision_time(a, s, b, v) \in Times
           /\ verifier_decision_time(a, s, b, v) <= s + VERIFICATION_INTERVAL
           /\ verifier_decision_time(a, s, b, v) <= v + OVERLAP_TOLERANCE
BY LimitsAssumption
   DEF verifier_decision_time, verification_interval_of, overlap_tolerance_of, Times
-----------------------------------------------------------------------------
(***************************************************************************)
(* The handlers of transition_by_key keep the automaton's invariant.       *)
(***************************************************************************)
LEMMA NormalPreserves ==
    ASSUME AutomatonInv, config' = config, tq.input # <<>>, state = "normal",
           ~RepeatOfForked(Head(tq.input)), apply_event_to_normal(Head(tq.input))
    PROVE  AutomatonInv'
<1> DEFINE e == Head(tq.input)
<1>1. tq \in QueuesHolding(Events, FreshEvents) /\ tq.internal = <<>>
  BY DEF AutomatonInv, HoldingEvents, SuspectHeadsMiddle
<1>2. e \in FreshEvents
  BY <1>1, HeadTailProperties DEF QueuesHolding
<1>3. e \in Events /\ e.code \in Keys /\ e.time \in Times
  BY <1>2, FreshEventHasKey, EventFields
<1>4. PassedThrough(tq) \in HoldingEvents /\ PassedThrough(tq).internal = <<>>
  BY <1>1, HeadPassesAsIs, FreshEventsAreEvents DEF PassedThrough, HoldingEvents
<1> HIDE DEF e
<1>5. CASE StartSuspecting(e)
  <2>1. forkActive[e.code] = NoKey
    BY <1>5, <1>3 DEF StartSuspecting, might_fork, RepeatOfForked, key_forked, e
  <2>2. DecisionTypes'
    BY <1>3, <1>5, LimitsAssumption
       DEF StartSuspecting, AutomatonInv, DecisionTypes, States, Keycodes, Times,
           releaseVars, verification_interval_of
  <2>3. /\ tq' \in HoldingEvents /\ tq'.internal # <<>>
        /\ Head(tq'.internal) = e
        /\ DOMAIN tq'.internal = 1 .. 1 /\ tq'.internal[1] = e
    <3>1. tq' = MovedToSecond(tq) /\ Len(tq.internal) = 0
      BY <1>1, <1>5 DEF StartSuspecting
    <3>2. QED
      BY <1>1, <3>1, ScanAppends DEF e
  <2>4. SuspectHeadsMiddle'
    BY <1>3, <1>5, <2>1, <2>3, LimitsAssumption
       DEF StartSuspecting, SuspectHeadsMiddle, might_fork, press_p, release_p,
           verification_interval_of, Times
  <2>5. QED
    BY <2>2, <2>3, <2>4 DEF AutomatonInv
<1>6. CASE SelfForkedRepeats(e) \/ PassUnforkable(e)
  BY <1>1, <1>3, <1>4, <1>6, NormalIsFine
     DEF SelfForkedRepeats, PassUnforkable, AutomatonInv, DecisionTypes, decisionVars,
         releaseVars, record_last_release_event, Keycodes
<1>7. CASE StartSelfForked(e)
  BY <1>1, <1>3, <1>4, <1>7, NormalIsFine
     DEF StartSelfForked, AutomatonInv, DecisionTypes, decisionVars, releaseVars, Keycodes
<1>8. CASE ReleaseForked(e)
  <2>1. rewritten(e, released_as(e.code)) \in Events
    BY <1>3, RewrittenIsEvent DEF released_as, AutomatonInv, DecisionTypes
  <2>2. tq' \in HoldingEvents /\ tq'.internal = <<>>
    BY <1>1, <1>8, <2>1, HeadPasses, FreshEventsAreEvents
       DEF ReleaseForked, PassedThrough, HoldingEvents
  <2>3. DecisionTypes'
    BY <1>3, <1>8
       DEF ReleaseForked, AutomatonInv, DecisionTypes, decisionVars,
           record_last_release_event, Keycodes, Times
  <2>4. QED
    BY <1>8, <2>2, <2>3, NormalIsFine DEF ReleaseForked, decisionVars
<1>9. QED
  BY <1>5, <1>6, <1>7, <1>8 DEF apply_event_to_normal, e

\* The suspect is decided not to be a fork.
LEMMA ConfirmNonForkPreserves ==
    ASSUME AutomatonInv, config' = config, state # "normal",
           do_confirm_non_fork, UNCHANGED releaseVars,
           forkActive' \in [Keys -> Keycodes]
    PROVE  AutomatonInv'
<1>1. tq \in QueuesHolding(Events, FreshEvents) /\ tq.internal # <<>>
  BY DEF AutomatonInv, HoldingEvents, SuspectHeadsMiddle
<1>2. tq' \in HoldingEvents /\ tq'.internal = <<>>
  BY <1>1, HeadDecidedAsIs, FreshEventsAreEvents DEF do_confirm_non_fork, HoldingEvents
<1>3. DecisionTypes' /\ state' = "normal"
  BY RewindTypes DEF do_confirm_non_fork, AutomatonInv
<1>4. QED
  BY <1>2, <1>3, NormalIsFine

LEMMA SuspectPreserves ==
    ASSUME AutomatonInv, config' = config, tq.input # <<>>, state = "suspect",
           apply_event_to_suspect(Head(tq.input))
    PROVE  AutomatonInv'
<1> DEFINE e == Head(tq.input)
<1>1. e \in FreshEvents /\ e \in Events
  BY HeadTailProperties, FreshEventHasKey DEF AutomatonInv, HoldingEvents, QueuesHolding
<1>2. e.code \in Keys /\ e.time \in Times /\ e.kind \in Kinds
  BY <1>1, FreshEventHasKey, EventFields
<1>3. state # "normal" /\ DecisionTypes
  BY DEF AutomatonInv
<1> HIDE DEF e
<1>4. CASE SuspectReleased(e)
  BY <1>3, <1>4, ConfirmNonForkPreserves DEF SuspectReleased, DecisionTypes
<1>5. CASE OtherReleased(e)
  BY <1>3, <1>5, StillUndecided
     DEF OtherReleased, DecisionTypes, decisionVars, releaseVars, Times, e
<1>6. CASE SuspectRepeats(e)
  BY <1>2, <1>3, <1>6, ConfirmNonForkPreserves
     DEF SuspectRepeats, DecisionTypes, Keycodes
<1>7. CASE SuspectRepeatsUnhandled(e)
  BY <1>7
     DEF SuspectRepeatsUnhandled, AutomatonInv, DecisionTypes, SuspectHeadsMiddle,
         decisionVars, releaseVars
<1>8. CASE StartVerifying(e)
  <2> DEFINE decision_time ==
                 verifier_decision_time(suspect, suspect_time, e.code, e.time)
  <2>1. /\ decision_time \in Times
        /\ decision_time <= e.time + OVERLAP_TOLERANCE
    BY <1>2, <1>3, DecisionTimeBounds DEF DecisionTypes
  <2>2. /\ mDecision_time' = IF decision_time < mDecision_time
                             THEN decision_time ELSE mDecision_time
        /\ state' = "verify"
        /\ verificator_keycode' = e.code /\ verificator_time' = e.time
        /\ tq' = MovedToSecond(tq)
        /\ UNCHANGED <<suspect, suspect_time, releaseVars, forkActive>>
    BY <1>8 DEF StartVerifying
  <2> HIDE DEF decision_time
  <2>3. /\ mDecision_time' \in Times
        /\ mDecision_time' <= mDecision_time
        /\ mDecision_time' <= verificator_time' + OVERLAP_TOLERANCE
    BY <1>2, <1>3, <2>1, <2>2, LimitsAssumption DEF DecisionTypes, Times
  <2>4. DecisionTypes'
    BY <1>2, <1>3, <2>2, <2>3 DEF DecisionTypes, States, Keycodes, releaseVars
  <2>5. \E i \in DOMAIN tq'.internal :
            /\ press_p(tq'.internal[i])
            /\ tq'.internal[i].code = verificator_keycode'
            /\ tq'.internal[i].time = verificator_time'
    BY <1>8, <2>2, ScanAppends DEF StartVerifying, e
  <2>6. ~(release_p(e) /\ e.code = suspect)
    BY <1>8 DEF StartVerifying
  <2>7. QED
    BY <1>3, <2>2, <2>3, <2>4, <2>5, <2>6, StillUndecided DEF e
<1>9. QED
  BY <1>4, <1>5, <1>6, <1>7, <1>8 DEF apply_event_to_suspect, e

LEMMA VerifyPreserves ==
    ASSUME AutomatonInv, config' = config, tq.input # <<>>, state = "verify",
           apply_event_to_verify_state(Head(tq.input))
    PROVE  AutomatonInv'
<1> DEFINE e == Head(tq.input)
<1>1. state # "normal" /\ DecisionTypes
  BY DEF AutomatonInv
<1>2. CASE SuspectReleased(e)
  BY <1>1, <1>2, ConfirmNonForkPreserves DEF SuspectReleased, DecisionTypes
<1>3. CASE VerificatorReleased(e)
  BY <1>1, <1>3, StillUndecided
     DEF VerificatorReleased, DecisionTypes, States, Keycodes, releaseVars, Times
<1>4. CASE OtherWhileVerifying(e)
  <2>1. \E i \in DOMAIN tq'.internal :
            /\ press_p(tq'.internal[i])
            /\ tq'.internal[i].code = verificator_keycode
            /\ tq'.internal[i].time = verificator_time
    <3>1. PICK i \in DOMAIN tq.internal :
              /\ press_p(tq.internal[i])
              /\ tq.internal[i].code = verificator_keycode
              /\ tq.internal[i].time = verificator_time
      BY DEF AutomatonInv, SuspectHeadsMiddle
    <3>2. i \in DOMAIN tq'.internal /\ tq'.internal[i] = tq.internal[i]
      BY <1>4, <3>1, ScanAppends DEF OtherWhileVerifying
    <3>3. QED
      BY <3>1, <3>2
  <2>2. mDecision_time <= verificator_time + OVERLAP_TOLERANCE
    BY DEF AutomatonInv, SuspectHeadsMiddle
  <2>3. QED
    BY <1>1, <1>4, <2>1, <2>2, StillUndecided
       DEF OtherWhileVerifying, DecisionTypes, decisionVars, releaseVars, Times
<1>5. QED
  BY <1>2, <1>3, <1>4 DEF apply_event_to_verify_state

LEMMA TransitionByKeyPreserves ==
    ASSUME AutomatonInv, config' = config, tq.input # <<>>,
           transition_by_key(Head(tq.input))
    PROVE  AutomatonInv'
<1> DEFINE e == Head(tq.input)
<1>1. CASE ForkedKeyRepeats(e)
  <2>1. tq \in QueuesHolding(Events, FreshEvents) /\ tq.internal \in Seq(FreshEvents)
    BY DEF AutomatonInv, HoldingEvents, QueuesHolding
  <2>2. /\ MovedToSecond(tq) \in HoldingEvents
        /\ MovedToSecond(tq).internal = Append(tq.internal, e)
        /\ e \in FreshEvents
    BY <2>1, MovedToSecondReturns DEF HoldingEvents
  <2>3. MovedToSecond(tq).internal # <<>>
    BY <2>1, <2>2, AppendProperties
  <2>4. QED
    BY <1>1, <2>2, <2>3, ActivatePreserves DEF ForkedKeyRepeats
<1>2. CASE DecidedByEventTime(e)
  BY <1>2, ActivatePreserves DEF DecidedByEventTime, AutomatonInv, SuspectHeadsMiddle
<1>3. CASE ~RepeatOfForked(e) /\ state = "normal" /\ apply_event_to_normal(e)
  BY <1>3, NormalPreserves
<1>4. CASE state = "suspect" /\ apply_event_to_suspect(e)
  BY <1>4, SuspectPreserves
<1>5. CASE state = "verify" /\ apply_event_to_verify_state(e)
  BY <1>5, VerifyPreserves
<1>6. QED
  BY <1>1, <1>2, <1>3, <1>4, <1>5 DEF transition_by_key
-----------------------------------------------------------------------------
(***************************************************************************)
(* The activations and the environment.                                    *)
(***************************************************************************)

\* What the automaton works on is left alone.
LEMMA AutomatonUnchanged ==
    ASSUME AutomatonInv,
           UNCHANGED <<config, decisionVars, releaseVars, forkActive, tq>>
    PROVE  AutomatonInv'
BY DEF AutomatonInv, DecisionTypes, SuspectHeadsMiddle, decisionVars, releaseVars

\* Only the output and the input were changed.
LEMMA MiddleUnchanged ==
    ASSUME AutomatonInv, UNCHANGED <<config, decisionVars, releaseVars, forkActive>>,
           tq' \in HoldingEvents, tq'.internal = tq.internal
    PROVE  AutomatonInv'
BY DEF AutomatonInv, DecisionTypes, SuspectHeadsMiddle, decisionVars, releaseVars

\* A label other than "relay" is always a legal place to go to.
LEMMA GotoPreserves ==
    ASSUME NEW c \in Callers, NEW label \in Labels,
           pc \in [Callers -> Labels], hand \in [Callers -> Seq(Events)],
           \A d \in Callers : pc[d] = "relay" => hand[d] # <<>>,
           Goto(c, label),
           \/ label # "relay" /\ hand' = hand
           \/ \E events \in Seq(Events) :
                  /\ hand' = [hand EXCEPT ![c] = events]
                  /\ label = "relay" => events # <<>>
    PROVE  /\ pc' \in [Callers -> Labels]
           /\ hand' \in [Callers -> Seq(Events)]
           /\ \A d \in Callers : pc'[d] = "relay" => hand'[d] # <<>>
BY DEF Goto

\* The caller is put on the stack; the call is one of the three.
LEMMA CalledPreserves ==
    ASSUME ActivationInv, NEW c \in Callers, NEW kind \in Calls, Called(c, kind)
    PROVE  /\ call' \in [Callers -> Calls]
           /\ stack' \in Seq(Callers)
           /\ thawed' = FALSE
<1>1. <<c>> \o stack \in Seq(Callers)
  BY ConcatProperties DEF ActivationInv
<1>2. QED
  BY <1>1 DEF ActivationInv, Called

\* The caller that returns is the top of the stack.
LEMMA ReturnedPreserves ==
    ASSUME ActivationInv, NEW c \in Callers, Running(c), Returned(c)
    PROVE  /\ call' \in [Callers -> Calls]
           /\ stack' \in Seq(Callers)
<1>1. SingleThread => Tail(stack) \in Seq(Callers)
  BY HeadTailProperties DEF ActivationInv, Running
<1>2. QED
  BY <1>1 DEF ActivationInv, Returned, Calls

LEMMA AcceptEventPreserves ==
    ASSUME IInv, NEW c \in Callers, NEW key \in Typed, NEW kind \in Kinds,
           accept_event(c, key, kind)
    PROVE  IInv'
<1> DEFINE event == [key |-> key, code |-> key, kind |-> kind, time |-> clock]
<1>1. event \in Events /\ event \in FreshEvents
  BY DEF accept_event, IInv, EnvironmentInv, Events, FreshEvents, Keycodes
<1>2. AutomatonInv'
  <2>1. tq \in HoldingEvents
    BY DEF IInv, AutomatonInv
  <2>2. Pushed(tq, event) \in HoldingEvents /\ Pushed(tq, event).internal = tq.internal
    <3>1. Append(tq.input, event) \in Seq(FreshEvents)
      BY <1>1, <2>1, AppendProperties DEF HoldingEvents, QueuesHolding
    <3>2. QED
      BY <2>1, <3>1 DEF Pushed, HoldingEvents, QueuesHolding
  <2> HIDE DEF event
  <2>3. CASE tq' = tq
    BY <2>3, AutomatonUnchanged DEF IInv, accept_event
  <2>4. CASE tq' = Pushed(tq, event)
    BY <2>2, <2>4, MiddleUnchanged DEF IInv, accept_event
  <2>5. QED
    BY <2>3, <2>4 DEF accept_event, event
<1>3. ActivationInv'
  BY GotoPreserves, CalledPreserves
     DEF IInv, ActivationInv, accept_event, Labels, Calls, Times
<1>4. EnvironmentInv'
  <2>1. accepted' \in Seq(Events)
    BY <1>1, AppendProperties DEF accept_event, IInv, EnvironmentInv
  <2>2. held' \subseteq Keys \cup OutOfBound /\ repeating' \in Keycodes \cup OutOfBound
    BY DEF accept_event, Touched, IInv, EnvironmentInv, Keycodes
  <2>3. QED
    BY <2>1, <2>2, CalledPreserves
       DEF accept_event, IInv, EnvironmentInv, outputVars, Calls
<1>5. QED
  BY <1>2, <1>3, <1>4 DEF IInv

LEMMA AcceptOutOfBoundPreserves ==
    ASSUME IInv, NEW c \in Callers, NEW key \in Typed, NEW kind \in Kinds,
           accept_out_of_bound(c, key, kind)
    PROVE  IInv'
<1>1. AutomatonInv'
  BY AutomatonUnchanged DEF IInv, accept_out_of_bound
<1>2. ActivationInv'
  BY DEF IInv, ActivationInv, accept_out_of_bound, callVars, Times
<1>3. EnvironmentInv'
  BY DEF IInv, EnvironmentInv, accept_out_of_bound, Touched, outputVars, worldVars,
         Keycodes, Times
<1>4. QED
  BY <1>1, <1>2, <1>3 DEF IInv

LEMMA AcceptTimePreserves ==
    ASSUME IInv, NEW c \in Callers, TheTime(c)
    PROVE  IInv'
<1>1. PICK time \in GivenTimes : accept_time(c, time)
  BY DEF TheTime
<1>2. time \in Times
  <2>1. time = clock \/ time = 0
    BY DEF GivenTimes
  <2>2. QED
    BY <2>1 DEF IInv, EnvironmentInv, Times
<1>3. AutomatonInv'
  BY <1>1, AutomatonUnchanged DEF IInv, accept_time
<1>4. ActivationInv'
  BY <1>1, <1>2, GotoPreserves, CalledPreserves
     DEF IInv, ActivationInv, accept_time, Labels, Calls
<1>5. EnvironmentInv'
  BY <1>1, CalledPreserves
     DEF IInv, EnvironmentInv, accept_time, keyboardVars, outputVars, Calls
<1>6. QED
  BY <1>3, <1>4, <1>5 DEF IInv

LEMMA AcceptConfirmationPreserves ==
    ASSUME IInv, NEW c \in Callers, accept_confirmation(c)
    PROVE  IInv'
<1>1. AutomatonInv'
  BY AutomatonUnchanged DEF IInv, accept_confirmation, machineVars
<1>2. ActivationInv'
  <2>1. call' \in [Callers -> Calls] /\ stack' \in Seq(Callers)
    BY CalledPreserves DEF IInv, accept_confirmation, Calls
  <2>2. mCurrent_time' = mCurrent_time /\ mLock' = mLock /\ now' = now
    BY DEF accept_confirmation, machineVars
  <2>3. QED
    BY <2>1, <2>2, GotoPreserves DEF IInv, ActivationInv, accept_confirmation, Labels
<1>3. EnvironmentInv'
  BY CalledPreserves
     DEF IInv, EnvironmentInv, accept_confirmation, keyboardVars, outputVars, Calls
<1>4. QED
  BY <1>1, <1>2, <1>3 DEF IInv

LEMMA LockAutomatonPreserves ==
    ASSUME IInv, NEW c \in Callers, LockAutomaton(c)
    PROVE  IInv'
<1>1. AutomatonInv'
  BY AutomatonUnchanged DEF IInv, LockAutomaton, machineVars
<1>2. ActivationInv'
  BY GotoPreserves DEF IInv, ActivationInv, LockAutomaton, machineVars, Labels
<1>3. EnvironmentInv'
  BY DEF IInv, EnvironmentInv, LockAutomaton, keyboardVars, outputVars, worldVars
<1>4. QED
  BY <1>1, <1>2, <1>3 DEF IInv

LEMMA IteratePreserves ==
    ASSUME IInv, NEW c \in Callers, Iterate(c)
    PROVE  IInv'
<1>1. AutomatonInv'
  <2>1. CASE tq.input # <<>> /\ transition_by_key(Head(tq.input))
    BY <2>1, TransitionByKeyPreserves DEF IInv, Iterate
  <2>2. CASE (TimeDecides \/ Forcing(c)) /\ activate_fork_rewind(tq)
    BY <2>2, ActivatePreserves
       DEF IInv, Iterate, TimeDecides, Forcing, AutomatonInv, SuspectHeadsMiddle
  <2>3. QED
    BY <2>1, <2>2 DEF Iterate
<1>2. ActivationInv'
  BY DEF IInv, ActivationInv, Iterate, callVars
<1>3. EnvironmentInv'
  BY DEF IInv, EnvironmentInv, Iterate, keyboardVars, outputVars, worldVars
<1>4. QED
  BY <1>1, <1>2, <1>3 DEF IInv

LEMMA UnlockAutomatonPreserves ==
    ASSUME IInv, NEW c \in Callers, UnlockAutomaton(c)
    PROVE  IInv'
<1>1. AutomatonInv'
  BY AutomatonUnchanged DEF IInv, UnlockAutomaton, machineVars
<1>2. ActivationInv'
  BY GotoPreserves DEF IInv, ActivationInv, UnlockAutomaton, machineVars, Labels
<1>3. EnvironmentInv'
  BY DEF IInv, EnvironmentInv, UnlockAutomaton, keyboardVars, outputVars, worldVars
<1>4. QED
  BY <1>1, <1>2, <1>3 DEF IInv

LEMMA PopPreserves ==
    ASSUME IInv, NEW c \in Callers, pop_event_if_present(c)
    PROVE  IInv'
<1>1. tq \in HoldingEvents /\ tq.output \in Seq(Events) /\ tq.output # <<>>
  BY DEF IInv, AutomatonInv, HoldingEvents, QueuesHolding, pop_event_if_present
<1>2. Head(tq.output) \in Events /\ Tail(tq.output) \in Seq(Events)
  BY <1>1, HeadTailProperties
<1>3. Popped(tq) \in HoldingEvents /\ Popped(tq).internal = tq.internal
  BY <1>1, <1>2 DEF Popped, HoldingEvents, QueuesHolding
<1>4. AutomatonInv'
  BY <1>3, MiddleUnchanged DEF IInv, pop_event_if_present
<1>5. <<Head(tq.output)>> \in Seq(Events) /\ <<Head(tq.output)>> # <<>>
  BY <1>2
<1>6. ActivationInv'
  BY <1>5, GotoPreserves DEF IInv, ActivationInv, pop_event_if_present, Labels
<1>7. EnvironmentInv'
  BY DEF IInv, EnvironmentInv, pop_event_if_present, keyboardVars, outputVars, worldVars
<1>8. QED
  BY <1>4, <1>6, <1>7 DEF IInv

LEMMA RelayEventPreserves ==
    ASSUME IInv, NEW c \in Callers, relay_event(c)
    PROVE  IInv'
<1>1. hand[c] \in Seq(Events) /\ hand[c] # <<>>
  BY DEF IInv, ActivationInv, relay_event
<1>2. Head(hand[c]) \in Events
  BY <1>1, HeadTailProperties
<1>3. Head(hand[c]).time \in Times
  BY <1>2, EventFields
<1>4. AutomatonInv'
  BY AutomatonUnchanged DEF IInv, relay_event, machineVars
<1>5. ActivationInv'
  <2>1. <<>> \in Seq(Events)
    BY EmptySeq
  <2>2. QED
    BY <2>1, GotoPreserves DEF IInv, ActivationInv, relay_event, machineVars, Labels
<1>6. EnvironmentInv'
  <2>1. delivered' \in Seq(Events)
    BY <1>1, ConcatProperties DEF IInv, EnvironmentInv, relay_event
  <2>2. QED
    BY <1>3, <2>1 DEF IInv, EnvironmentInv, relay_event, keyboardVars, worldVars
<1>7. QED
  BY <1>4, <1>5, <1>6 DEF IInv

\* Steps of an activation that only go to another label.
LEMMA StepPreserves ==
    ASSUME IInv, NEW c \in Callers, NEW label \in Labels \ {"relay"}, Goto(c, label),
           UNCHANGED <<config, machineVars, mLock, call, hand, now, stack, keyboardVars,
                       outputVars, worldVars, wakeup>>
    PROVE  IInv'
<1>1. AutomatonInv'
  BY AutomatonUnchanged DEF IInv, machineVars
<1>2. ActivationInv'
  BY GotoPreserves DEF IInv, ActivationInv, machineVars
<1>3. EnvironmentInv'
  BY DEF IInv, EnvironmentInv, keyboardVars, outputVars, worldVars
<1>4. QED
  BY <1>1, <1>2, <1>3 DEF IInv

LEMMA PushTimeToNextPreserves ==
    ASSUME IInv, NEW c \in Callers, push_time_to_next(c)
    PROVE  IInv'
<1>1. TimeToPush \in Times
  <2>1. Everything(tq) \in Seq(Events)
    BY SeqMonotonic, FreshEventsAreEvents, ConcatProperties
       DEF IInv, AutomatonInv, HoldingEvents, QueuesHolding, Everything
  <2>2. Everything(tq) # <<>> => Head(Everything(tq)) \in Events
    BY <2>1, HeadTailProperties
  <2>3. QED
    BY <2>2, EventFields DEF TimeToPush, IInv, ActivationInv
<1>2. AutomatonInv'
  BY AutomatonUnchanged DEF IInv, push_time_to_next
<1>3. ActivationInv'
  BY <1>1, GotoPreserves DEF IInv, ActivationInv, push_time_to_next, Labels, Times
<1>4. EnvironmentInv'
  BY DEF IInv, EnvironmentInv, push_time_to_next, keyboardVars, outputVars, worldVars
<1>5. QED
  BY <1>2, <1>3, <1>4 DEF IInv

LEMMA PushTimePreserves ==
    ASSUME IInv, NEW c \in Callers, push_time(c)
    PROVE  IInv'
<1>1. AutomatonInv'
  BY AutomatonUnchanged DEF IInv, push_time, machineVars
<1>2. ActivationInv'
  BY GotoPreserves DEF IInv, ActivationInv, push_time, machineVars, Labels, Times
<1>3. EnvironmentInv'
  BY DEF IInv, ActivationInv, EnvironmentInv, push_time, keyboardVars, worldVars
<1>4. QED
  BY <1>1, <1>2, <1>3 DEF IInv

LEMMA ReturnPreserves ==
    ASSUME IInv, NEW c \in Callers, Return(c)
    PROVE  IInv'
<1>1. AutomatonInv'
  BY AutomatonUnchanged DEF IInv, Return, machineVars
<1>2. ActivationInv'
  <2>1. call' \in [Callers -> Calls] /\ stack' \in Seq(Callers)
    BY ReturnedPreserves DEF IInv, Return
  <2>2. QED
    BY <2>1, GotoPreserves
       DEF IInv, ActivationInv, Return, Returned, machineVars, Labels
<1>3. EnvironmentInv'
  BY DEF IInv, AutomatonInv, DecisionTypes, EnvironmentInv, Return, next_decision_time,
         keyboardVars, outputVars, worldVars, Times
<1>4. QED
  BY <1>1, <1>2, <1>3 DEF IInv

LEMMA ConfigurePreserves ==
    ASSUME IInv, configure
    PROVE  IInv'
<1>1. config' \in ConfigType
  BY ForkTargetsAssumption, RepeatLimitsAssumption
     DEF IInv, AutomatonInv, configure, ConfigType, SetForkKeycode, SetForkRepeatable,
         SetRepeatMax, SetConsiderForksForRepeat
<1>2. AutomatonInv'
  BY <1>1 DEF IInv, AutomatonInv, DecisionTypes, SuspectHeadsMiddle, configure,
              machineVars, decisionVars, releaseVars
<1>3. ActivationInv'
  BY DEF IInv, ActivationInv, configure, machineVars, callVars
<1>4. EnvironmentInv'
  BY DEF IInv, EnvironmentInv, configure, MayDisturb, keyboardVars, outputVars
<1>5. QED
  BY <1>2, <1>3, <1>4 DEF IInv

\* Whatever the environment does leaves the machine alone.
LEMMA EnvironmentPreserves ==
    ASSUME IInv, Tick \/ Freeze \/ Thaw \/ ToggleMouseKeys
    PROVE  IInv'
<1>1. AutomatonInv'
  BY AutomatonUnchanged DEF IInv, Tick, Freeze, Thaw, ToggleMouseKeys, machineVars
<1>2. ActivationInv'
  BY DEF IInv, ActivationInv, Tick, Freeze, Thaw, ToggleMouseKeys, machineVars, callVars
<1>3. EnvironmentInv'
  <2>1. clock' \in Times /\ disturbances' \in Nat
    BY DEF IInv, EnvironmentInv, Tick, Freeze, Thaw, ToggleMouseKeys, MayDisturb, Times
  <2>2. mouseKeys' \in BOOLEAN /\ frozen' \in BOOLEAN /\ thawed' \in BOOLEAN
    BY Zenon DEF IInv, EnvironmentInv, Tick, Freeze, Thaw, ToggleMouseKeys
  <2>3. UNCHANGED <<keyboardVars, outputVars, wakeup>>
    BY DEF Tick, Freeze, Thaw, ToggleMouseKeys
  <2>4. QED
    BY <2>1, <2>2, <2>3 DEF IInv, EnvironmentInv, keyboardVars, outputVars
<1>4. QED
  BY <1>1, <1>2, <1>3 DEF IInv
-----------------------------------------------------------------------------
LEMMA InitEstablishes == Init => IInv
<1> SUFFICES ASSUME Init PROVE IInv
  OBVIOUS
<1>1. AutomatonInv
  BY EmptySeq, InitialConfigAssumption
     DEF Init, AutomatonInv, DecisionTypes, SuspectHeadsMiddle, HoldingEvents,
         QueuesHolding, EmptyQueues, States, Keycodes, Times
<1>2. ActivationInv
  BY EmptySeq DEF Init, ActivationInv, Labels, Calls, Times
<1>3. EnvironmentInv
  BY EmptySeq DEF Init, EnvironmentInv, Keycodes, Times
<1>4. QED
  BY <1>1, <1>2, <1>3 DEF IInv

LEMMA ProceedPreserves ==
    ASSUME IInv, NEW c \in Callers, Proceed(c)
    PROVE  IInv'
<1>1. CASE LockAutomaton(c) \/ Iterate(c) \/ UnlockAutomaton(c)
  BY <1>1, LockAutomatonPreserves, IteratePreserves, UnlockAutomatonPreserves
<1>2. CASE pop_event_if_present(c) \/ relay_event(c)
  BY <1>2, PopPreserves, RelayEventPreserves
<1>3. CASE relay_returns(c)
  BY <1>3, StepPreserves DEF relay_returns, Labels
<1>4. CASE FlushEnds(c)
  BY <1>4, StepPreserves DEF FlushEnds, Labels
<1>5. CASE TimeMayPass(c)
  BY <1>5, StepPreserves DEF TimeMayPass, Labels
<1>6. CASE push_time_to_next(c) \/ push_time(c)
  BY <1>6, PushTimeToNextPreserves, PushTimePreserves
<1>7. CASE push_time_returns(c)
  BY <1>7, StepPreserves DEF push_time_returns, Labels
<1>8. CASE Return(c)
  BY <1>8, ReturnPreserves
<1>9. QED
  BY <1>1, <1>2, <1>3, <1>4, <1>5, <1>6, <1>7, <1>8 DEF Proceed

LEMMA NextPreserves == IInv /\ [Next]_vars => IInv'
<1> SUFFICES ASSUME IInv, [Next]_vars PROVE IInv'
  OBVIOUS
<1>1. ASSUME NEW c \in Callers, Arrives(c) PROVE IInv'
  BY <1>1, AcceptEventPreserves, AcceptOutOfBoundPreserves DEF Arrives
<1>2. ASSUME NEW c \in Callers, TheTime(c) \/ accept_confirmation(c) \/ Proceed(c)
      PROVE  IInv'
  BY <1>2, AcceptTimePreserves, AcceptConfirmationPreserves, ProceedPreserves
<1>3. CASE configure
  BY <1>3, ConfigurePreserves
<1>4. CASE Tick \/ Freeze \/ Thaw \/ ToggleMouseKeys
  BY <1>4, EnvironmentPreserves
<1>5. CASE UNCHANGED vars
  <2>1. AutomatonInv'
    BY <1>5, AutomatonUnchanged DEF IInv, vars, machineVars
  <2>2. ActivationInv'
    BY <1>5 DEF IInv, ActivationInv, vars, machineVars, callVars
  <2>3. EnvironmentInv'
    BY <1>5 DEF IInv, EnvironmentInv, vars, keyboardVars, outputVars, worldVars
  <2>4. QED
    BY <2>1, <2>2, <2>3 DEF IInv
<1>6. QED
  BY <1>1, <1>2, <1>3, <1>4, <1>5 DEF Next

\* The inductive invariant holds throughout, whatever the environment does.
THEOREM Invariance == Spec => []IInv
BY InitEstablishes, NextPreserves, PTL DEF Spec

(***************************************************************************)
(* Every variable of the machine and its callers keeps its type: no step   *)
(* takes the head of an empty queue, looks up a keycode that is no key in  *)
(* forkActive or fork_keycode, or computes a negative time.                *)
(***************************************************************************)
THEOREM TypeCorrect == Spec => []TypeOK
BY Invariance, InvImpliesTypeOK, PTL

(***************************************************************************)
(* The decision state always describes the middle queue, so the "Bug"      *)
(* branches of transition_by_force and activate_fork_rewind are dead.      *)
(***************************************************************************)
THEOREM DecisionStateAgrees == Spec => []SuspectHeadsMiddle
BY Invariance, InvImpliesSuspectHeadsMiddle, PTL
=============================================================================
