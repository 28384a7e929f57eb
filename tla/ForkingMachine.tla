--------------------------- MODULE ForkingMachine ---------------------------
(***************************************************************************)
(* The class forkingMachine of src/src/machine.h with the calls that reach *)
(* it.  A key that has a fork is held back until it is known whether it    *)
(* was typed or used as a modifier; everything behind it waits too.        *)
(*                                                                         *)
(* A caller is an activation of accept_event, accept_time or               *)
(* accept_confirmation.  With SingleThread (the X server) the callers form *)
(* a stack: relay_event and push_time call the next plugin with the lock   *)
(* released, and from there the machine may be called again.  Without it   *)
(* the callers are threads.                                                *)
(*                                                                         *)
(* Sections under one lock that call nothing outside are one step;         *)
(* run_automaton, whose loop asks the environment whether the output is    *)
(* frozen, is a step per iteration and holds the lock in between.          *)
(***************************************************************************)
EXTENDS ForkConfiguration, QueueOperators

CONSTANTS
    Callers,         \* activations there may be at a time
    Nobody,          \* the lock is free
    SingleThread,    \* the callers nest instead of running in parallel
    OutOfBound,      \* keys above MAX_KEYCODE
    InitialConfig,
    Typed,           \* the keys that are pressed (bound)
    ForkTargets,     \* values configure_key gives to a fork (bound)
    RepeatLimits,    \* values configure_global gives to repeat_max (bound)
    Environment,     \* which of the optional behaviours below happen
    MaxEvents,       \* bound: events accepted into the queue
    LastEventTime,   \* bound: no key is touched later
    MaxTime,         \* bound: the clock stops
    MaxDisturbances  \* bound: freezes, mode and configuration changes

ASSUME CallersAssumption == Nobody \notin Callers
ASSUME OutOfBoundAssumption == OutOfBound \cap Keycodes = {}
ASSUME TypedAssumption == Typed \subseteq Keys \cup OutOfBound
ASSUME InitialConfigAssumption == InitialConfig \in ConfigType
ASSUME ForkTargetsAssumption == ForkTargets \subseteq Keycodes
ASSUME RepeatLimitsAssumption == RepeatLimits \subseteq Nat
ASSUME EnvironmentAssumption ==
    /\ SingleThread \in BOOLEAN
    /\ Environment \subseteq
         {"freeze", "repeat", "confirm", "configure", "mousekeys", "time zero"}
ASSUME BoundsAssumption ==
    /\ MaxEvents \in Nat /\ LastEventTime \in Nat
    /\ MaxTime \in Nat /\ MaxDisturbances \in Nat

VARIABLES
    \* forkingMachine, under mLock
    state, suspect, suspect_time, verificator_keycode, verificator_time,
    last_released, last_released_time, mDecision_time, mCurrent_time,
    tq, forkActive, mLock,
    \* the activations
    pc, call, hand, now, stack,
    \* the environment: the keyboard, the clock, the plugin downstream
    clock, held, repeating, mouseKeys, frozen, thawed, disturbances, wakeup,
    \* histories
    accepted, delivered, downstream_time

decisionVars == <<state, suspect, suspect_time, verificator_keycode,
                  verificator_time, mDecision_time>>
releaseVars  == <<last_released, last_released_time>>
machineVars  == <<decisionVars, releaseVars, mCurrent_time, tq, forkActive>>
callVars     == <<pc, call, hand, now, stack>>
keyboardVars == <<held, repeating, accepted>>
outputVars   == <<delivered, downstream_time>>
worldVars    == <<clock, mouseKeys, frozen, thawed, disturbances>>
vars         == <<config, machineVars, mLock, callVars, keyboardVars, outputVars,
                  worldVars, wakeup>>

NO_TIME == 0
Times == Nat
Kinds == {"press", "release"}
States == {"normal", "suspect", "verify"}
Labels == {"idle", "enter", "automaton", "flush", "relay", "relaying",
           "flushed", "push_time", "pushing", "pushed", "decide"}
Calls == {"none", "event", "time", "confirmation"}

\* key is the key that was touched, code what the event says (detail_of).
Events == [key : Keys, code : Keycodes, kind : Kinds, time : Times]

press_p(e) == e.kind = "press"
release_p(e) == e.kind = "release"
rewritten(e, code) == [e EXCEPT !.code = code]
-----------------------------------------------------------------------------
(***************************************************************************)
(* The automaton.  These are the handlers that transition_by_key,          *)
(* transition_by_time and transition_by_force end in; they say what        *)
(* becomes of machineVars but for mCurrent_time.                           *)
(***************************************************************************)

\* Sent downstream as another keycode.  Self-forked (y = code) does not count.
key_forked(code) == forkActive[code] \notin {code, NoKey}

\* The event of key was scanned and is decided: through the middle, to output.
PassedThrough(q) == MovedToFirst(MovedToSecond(q))

\* The variables that rewind_machine sets; the queue is MiddleRewound.
rewind_machine ==
    /\ state' = "normal"
    /\ suspect' = NoKey
    /\ mDecision_time' = 0
    /\ verificator_keycode' = NoKey
    /\ UNCHANGED <<suspect_time, verificator_time>>

do_confirm_non_fork ==
    /\ tq' = MiddleRewound(MovedToFirst(tq))
    /\ rewind_machine

\* q.internal is not empty: the head of it is forked, whatever it is.
activate_fork_rewind(q) ==
    LET event == Head(q.internal)
        target == config.fork_keycode[event.code]
    IN  /\ forkActive' = [forkActive EXCEPT ![event.code] = target]
        /\ tq' = MiddleRewound(MovedToFirst(
                     MiddleReplaced(q, rewritten(event, target))))
        /\ rewind_machine
        /\ UNCHANGED releaseVars

record_last_release_event(e) ==
    /\ last_released' = e.code
    /\ last_released_time' = e.time

(***************************************************************************)
(* apply_event_to_normal                                                   *)
(***************************************************************************)
might_fork(e) == forkable_p(e.code) /\ press_p(e) /\ ~mouseKeys

\* The .- trick: released and re-pressed so quickly that it is to repeat.
re_pressed_quickly(e) ==
    /\ last_released = e.code
    /\ ~(e.time > last_released_time + config.repeat_max)

StartSuspecting(e) ==
    /\ might_fork(e) /\ ~re_pressed_quickly(e) /\ forkActive[e.code] # e.code
    /\ state' = "suspect"
    /\ suspect' = e.code
    /\ suspect_time' = e.time
    /\ mDecision_time' = e.time + verification_interval_of(e.code, NoKey)
    /\ tq' = MovedToSecond(tq)
    /\ UNCHANGED <<verificator_keycode, verificator_time, releaseVars, forkActive>>

SelfForkedRepeats(e) ==
    /\ might_fork(e) /\ ~re_pressed_quickly(e) /\ forkActive[e.code] = e.code
    /\ tq' = PassedThrough(tq)
    /\ UNCHANGED <<decisionVars, releaseVars, forkActive>>

StartSelfForked(e) ==
    /\ might_fork(e) /\ re_pressed_quickly(e)
    /\ forkActive' = [forkActive EXCEPT ![e.code] = e.code]
    /\ tq' = PassedThrough(tq)
    /\ UNCHANGED <<decisionVars, releaseVars>>

\* Mutant of released_as: the fork configured now, not the one sent.
released_as_configured(key) == config.fork_keycode[key]

\* The keycode the release of a (self-)forked key is rewritten to.
released_as(key) == forkActive[key]

\* Mutant of ReleaseForked: the entry stays.
ReleaseForkedKept(e) ==
    /\ release_p(e) /\ forkActive[e.code] # NoKey
    /\ record_last_release_event(e)
    /\ tq' = PassedThrough(ThirdReplaced(tq, rewritten(e, released_as(e.code))))
    /\ UNCHANGED <<decisionVars, forkActive>>

ReleaseForked(e) ==
    /\ release_p(e) /\ forkActive[e.code] # NoKey
    /\ IF config.consider_forks_for_repeat
       THEN record_last_release_event(e)
       ELSE last_released' = NoKey /\ last_released_time' = 0
    /\ tq' = PassedThrough(ThirdReplaced(tq, rewritten(e, released_as(e.code))))
    /\ forkActive' = [forkActive EXCEPT ![e.code] = NoKey]
    /\ UNCHANGED decisionVars

PassUnforkable(e) ==
    /\ ~might_fork(e) /\ ~(release_p(e) /\ forkActive[e.code] # NoKey)
    /\ IF release_p(e) THEN record_last_release_event(e) ELSE UNCHANGED releaseVars
    /\ tq' = PassedThrough(tq)
    /\ UNCHANGED <<decisionVars, forkActive>>

apply_event_to_normal(e) ==
    \/ StartSuspecting(e)
    \/ SelfForkedRepeats(e)
    \/ StartSelfForked(e)
    \/ ReleaseForked(e)
    \/ PassUnforkable(e)

(***************************************************************************)
(* apply_event_to_suspect                                                  *)
(***************************************************************************)
SuspectReleased(e) ==
    /\ release_p(e) /\ e.code = suspect
    /\ do_confirm_non_fork
    /\ UNCHANGED <<releaseVars, forkActive>>

\* Mutant of OtherReleased: does not ask whose release it is.
AnyReleased(e) ==
    /\ release_p(e)
    /\ tq' = MovedToSecond(tq)
    /\ UNCHANGED <<decisionVars, releaseVars, forkActive>>

OtherReleased(e) ==
    /\ release_p(e) /\ e.code # suspect
    /\ tq' = MovedToSecond(tq)
    /\ UNCHANGED <<decisionVars, releaseVars, forkActive>>

SuspectRepeats(e) ==
    /\ press_p(e) /\ e.code = suspect /\ config.fork_repeatable[suspect]
    /\ forkActive' = [forkActive EXCEPT ![suspect] = suspect]
    /\ do_confirm_non_fork
    /\ UNCHANGED releaseVars

\* "this keycode is repeating, but we still don't know what to do": it stays
\* where it is, and the loop finds it there again.
SuspectRepeatsUnhandled(e) ==
    /\ press_p(e) /\ e.code = suspect /\ ~config.fork_repeatable[suspect]
    /\ UNCHANGED <<decisionVars, releaseVars, forkActive, tq>>

StartVerifying(e) ==
    /\ press_p(e) /\ e.code # suspect
    /\ state' = "verify"
    /\ verificator_keycode' = e.code
    /\ verificator_time' = e.time
    /\ LET decision_time == verifier_decision_time(suspect, suspect_time, e.code, e.time)
       IN  mDecision_time' = IF decision_time < mDecision_time
                             THEN decision_time ELSE mDecision_time
    /\ tq' = MovedToSecond(tq)
    /\ UNCHANGED <<suspect, suspect_time, releaseVars, forkActive>>

apply_event_to_suspect(e) ==
    \/ SuspectReleased(e)
    \/ OtherReleased(e)
    \/ SuspectRepeats(e)
    \/ SuspectRepeatsUnhandled(e)
    \/ StartVerifying(e)

(***************************************************************************)
(* apply_event_to_verify_state                                             *)
(***************************************************************************)
VerificatorReleased(e) ==
    /\ release_p(e) /\ e.code = verificator_keycode /\ e.code # suspect
    /\ state' = "suspect"
    /\ verificator_keycode' = NoKey
    /\ tq' = MovedToSecond(tq)
    /\ UNCHANGED <<suspect, suspect_time, verificator_time, mDecision_time,
                   releaseVars, forkActive>>

OtherWhileVerifying(e) ==
    /\ ~(release_p(e) /\ e.code \in {suspect, verificator_keycode})
    /\ tq' = MovedToSecond(tq)
    /\ UNCHANGED <<decisionVars, releaseVars, forkActive>>

apply_event_to_verify_state(e) ==
    \/ SuspectReleased(e)
    \/ VerificatorReleased(e)
    \/ OtherWhileVerifying(e)

(***************************************************************************)
(* transition_by_key, on the head of the input.  An event is a press or a  *)
(* release in every environment, so the `bizzare' one cannot come.         *)
(***************************************************************************)
RepeatOfForked(e) == key_forked(e.code) /\ press_p(e)

ForkedKeyRepeats(e) ==
    /\ RepeatOfForked(e)
    /\ activate_fork_rewind(MovedToSecond(tq))

DecidedByEventTime(e) ==
    /\ ~RepeatOfForked(e) /\ state # "normal" /\ e.time >= mDecision_time
    /\ activate_fork_rewind(tq)

transition_by_key(e) ==
    \/ ForkedKeyRepeats(e)
    \/ DecidedByEventTime(e)
    \/ /\ ~RepeatOfForked(e)
       /\ \/ state = "normal" /\ apply_event_to_normal(e)
          \/ /\ state # "normal" /\ e.time < mDecision_time
             /\ \/ state = "suspect" /\ apply_event_to_suspect(e)
                \/ state = "verify" /\ apply_event_to_verify_state(e)
-----------------------------------------------------------------------------
(***************************************************************************)
(* The activations.                                                        *)
(***************************************************************************)
Outcalls == {"relaying", "pushed"}   \* inside the next plugin, unlocked

Running(c) == IF SingleThread THEN stack # <<>> /\ Head(stack) = c ELSE TRUE

\* The environment acts, and may call in, while no caller holds the thread.
EnvironmentTurn ==
    IF SingleThread /\ stack # <<>> THEN pc[Head(stack)] \in Outcalls ELSE TRUE

Locked(c) == mLock = c
Unlocked  == mLock = Nobody

\* Mutant of output_frozen: never asked.
output_never_frozen == FALSE

\* The environment's answer: the next plugin is frozen.
output_frozen == frozen

Goto(c, label) == pc' = [pc EXCEPT ![c] = label]

Called(c, kind) ==
    /\ pc[c] = "idle"
    /\ EnvironmentTurn
    /\ call' = [call EXCEPT ![c] = kind]
    /\ stack' = IF SingleThread THEN <<c>> \o stack ELSE stack
    /\ thawed' = FALSE

Returned(c) ==
    /\ Goto(c, "idle")
    /\ call' = [call EXCEPT ![c] = "none"]
    /\ stack' = IF SingleThread THEN Tail(stack) ELSE stack

(***************************************************************************)
(* accept_event: what the keyboard sends, at the present time.             *)
(***************************************************************************)
Touched(key, kind) ==
    /\ clock <= LastEventTime
    /\ Len(accepted) < MaxEvents
    /\ \/ /\ kind = "press"
          /\ key \notin held
          /\ held' = held \cup {key}
          /\ repeating' = key
       \/ /\ kind = "press"
          /\ key = repeating /\ "repeat" \in Environment
          /\ UNCHANGED <<held, repeating>>
       \/ /\ kind = "release"
          /\ key \in held
          /\ held' = held \ {key}
          /\ repeating' = IF key = repeating THEN NoKey ELSE repeating

\* The press of a key that is forked is an auto-repeat: dropped.
accept_event(c, key, kind) ==
    LET event == [key |-> key, code |-> key, kind |-> kind, time |-> clock]
    IN  /\ key \in Keys
        /\ Called(c, "event") /\ Unlocked
        /\ Touched(key, kind)
        /\ mCurrent_time' = 0
        /\ IF kind = "press" /\ key_forked(key)
           THEN UNCHANGED <<tq, accepted>>
           ELSE /\ tq' = Pushed(tq, event)
                /\ accepted' = Append(accepted, event)
        /\ Goto(c, "enter")
        /\ UNCHANGED <<config, decisionVars, releaseVars, forkActive, mLock, hand, now,
                       outputVars, clock, mouseKeys, frozen, disturbances, wakeup>>

\* "out-of-bound event": not queued, the automaton does not run, 0 is returned.
accept_out_of_bound(c, key, kind) ==
    /\ key \in OutOfBound
    /\ pc[c] = "idle" /\ EnvironmentTurn /\ Unlocked
    /\ Touched(key, kind)
    /\ mCurrent_time' = 0
    /\ wakeup' = 0
    /\ UNCHANGED <<config, decisionVars, releaseVars, forkActive, tq, mLock, callVars,
                   accepted, outputVars, worldVars>>

(***************************************************************************)
(* accept_time: when the time is earlier than the one it knows, it asks    *)
(* next_decision_time() without giving up the lock.                        *)
(***************************************************************************)
accept_time(c, time) ==
    /\ Called(c, "time") /\ Unlocked
    /\ IF mCurrent_time > time
       THEN mLock' = c /\ Goto(c, "decide") /\ UNCHANGED mCurrent_time
       ELSE mCurrent_time' = time /\ Goto(c, "enter") /\ UNCHANGED mLock
    /\ UNCHANGED <<config, decisionVars, releaseVars, forkActive, tq, hand, now,
                   keyboardVars, outputVars, clock, mouseKeys, frozen, disturbances, wakeup>>

accept_confirmation(c) ==
    /\ "confirm" \in Environment
    /\ Called(c, "confirmation")
    /\ Goto(c, "enter")
    /\ UNCHANGED <<config, machineVars, mLock, hand, now, keyboardVars, outputVars,
                   clock, mouseKeys, frozen, disturbances, wakeup>>

(***************************************************************************)
(* run_automaton                                                           *)
(***************************************************************************)
LockAutomaton(c) ==
    /\ pc[c] = "enter" /\ Running(c)
    /\ Unlocked
    /\ mLock' = c
    /\ Goto(c, "automaton")
    /\ UNCHANGED <<config, machineVars, call, hand, now, stack, keyboardVars, outputVars,
                   worldVars, wakeup>>

TimeDecides == state # "normal" /\ mCurrent_time # 0 /\ mCurrent_time >= mDecision_time

\* force_also; "it might activate multiple forks!"
Forcing(c) == call[c] = "confirmation" /\ state # "normal"

Iterate(c) ==
    /\ pc[c] = "automaton" /\ Running(c) /\ Locked(c)
    /\ ~output_frozen
    /\ \/ tq.input # <<>> /\ transition_by_key(Head(tq.input))
       \/ tq.input = <<>> /\ (TimeDecides \/ Forcing(c)) /\ activate_fork_rewind(tq)
    /\ UNCHANGED <<config, mCurrent_time, mLock, callVars, keyboardVars, outputVars,
                   worldVars, wakeup>>

UnlockAutomaton(c) ==
    /\ pc[c] = "automaton" /\ Running(c) /\ Locked(c)
    /\ output_frozen \/ (tq.input = <<>> /\ ~TimeDecides /\ ~Forcing(c))
    /\ mLock' = Nobody
    /\ Goto(c, "flush")
    /\ UNCHANGED <<config, machineVars, call, hand, now, stack, keyboardVars, outputVars,
                   worldVars, wakeup>>

(***************************************************************************)
(* flush_to_next, push_time_to_next, next_decision_time                    *)
(***************************************************************************)
pop_event_if_present(c) ==
    /\ pc[c] = "flush" /\ Running(c)
    /\ ~output_frozen /\ tq.output # <<>>
    /\ Unlocked
    /\ hand' = [hand EXCEPT ![c] = <<Head(tq.output)>>]
    /\ tq' = Popped(tq)
    /\ Goto(c, "relay")
    /\ UNCHANGED <<config, decisionVars, releaseVars, mCurrent_time, forkActive, mLock,
                   call, now, stack, keyboardVars, outputVars, worldVars, wakeup>>

relay_event(c) ==
    /\ pc[c] = "relay" /\ Running(c)
    /\ delivered' = delivered \o hand[c]
    /\ downstream_time' = Head(hand[c]).time
    /\ hand' = [hand EXCEPT ![c] = <<>>]
    /\ Goto(c, "relaying")
    /\ UNCHANGED <<config, machineVars, mLock, call, now, stack, keyboardVars,
                   worldVars, wakeup>>

relay_returns(c) ==
    /\ pc[c] = "relaying" /\ Running(c)
    /\ Goto(c, "flush")
    /\ UNCHANGED <<config, machineVars, mLock, call, hand, now, stack, keyboardVars,
                   outputVars, worldVars, wakeup>>

\* The output froze, or no event is left.
FlushEnds(c) ==
    /\ pc[c] = "flush" /\ Running(c)
    /\ output_frozen \/ (tq.output = <<>> /\ Unlocked)
    /\ Goto(c, "flushed")
    /\ UNCHANGED <<config, machineVars, mLock, call, hand, now, stack, keyboardVars,
                   outputVars, worldVars, wakeup>>

\* flush_to_next asks output_frozen() once more before it pushes the time.
TimeMayPass(c) ==
    /\ pc[c] = "flushed" /\ Running(c)
    /\ Goto(c, IF output_frozen THEN "decide" ELSE "push_time")
    /\ UNCHANGED <<config, machineVars, mLock, call, hand, now, stack, keyboardVars,
                   outputVars, worldVars, wakeup>>

\* Mutant of TimeToPush: whatever is held back.
TimeToPushAnyway == mCurrent_time

\* Not beyond the time of an event that is still held back.
TimeToPush ==
    IF Everything(tq) = <<>> THEN mCurrent_time ELSE Head(Everything(tq)).time

push_time_to_next(c) ==
    /\ pc[c] = "push_time" /\ Running(c)
    /\ Unlocked
    /\ now' = [now EXCEPT ![c] = TimeToPush]
    /\ mCurrent_time' = IF Everything(tq) = <<>> THEN mCurrent_time ELSE 0
    /\ Goto(c, IF now'[c] = 0 THEN "decide" ELSE "pushing")
    /\ UNCHANGED <<config, decisionVars, releaseVars, tq, forkActive, mLock, call, hand,
                   stack, keyboardVars, outputVars, worldVars, wakeup>>

push_time(c) ==
    /\ pc[c] = "pushing" /\ Running(c)
    /\ downstream_time' = now[c]
    /\ now' = [now EXCEPT ![c] = 0]
    /\ Goto(c, "pushed")
    /\ UNCHANGED <<config, machineVars, mLock, call, hand, stack, keyboardVars, delivered,
                   worldVars, wakeup>>

push_time_returns(c) ==
    /\ pc[c] = "pushed" /\ Running(c)
    /\ Goto(c, "decide")
    /\ UNCHANGED <<config, machineVars, mLock, call, hand, now, stack, keyboardVars,
                   outputVars, worldVars, wakeup>>

\* Mutant of next_decision_time: forgets that a suspect alone waits too.
decision_time_of_verify == IF state = "verify" THEN mDecision_time ELSE 0

\* accept_event and accept_time return it; accept_confirmation returns nothing.
next_decision_time == IF state = "normal" THEN 0 ELSE mDecision_time

Return(c) ==
    /\ pc[c] = "decide" /\ Running(c)
    /\ call[c] # "confirmation" => Unlocked
    /\ wakeup' = IF call[c] = "confirmation" THEN wakeup ELSE next_decision_time
    /\ Returned(c)
    /\ UNCHANGED <<config, machineVars, mLock, hand, now, keyboardVars, outputVars,
                   worldVars>>
-----------------------------------------------------------------------------
(***************************************************************************)
(* configure_key and configure_global, from a client request: one section  *)
(* under the lock.                                                         *)
(***************************************************************************)
MayDisturb(kind) ==
    /\ kind \in Environment
    /\ EnvironmentTurn
    /\ disturbances < MaxDisturbances
    /\ disturbances' = disturbances + 1

configure ==
    /\ MayDisturb("configure")
    /\ Unlocked
    /\ \/ \E key \in Typed \cap Keys :
             \/ \E value \in ForkTargets : SetForkKeycode(key, value)
             \/ \E value \in BOOLEAN : SetForkRepeatable(key, value)
       \/ \E value \in RepeatLimits : SetRepeatMax(value)
       \/ \E value \in BOOLEAN : SetConsiderForksForRepeat(value)
    /\ UNCHANGED <<machineVars, mLock, callVars, keyboardVars, outputVars, clock,
                   mouseKeys, frozen, thawed, wakeup>>

(***************************************************************************)
(* The environment: time passes, the next plugin freezes and thaws (after  *)
(* which it calls back, see `thawed'), the user toggles MouseKeys, in      *)
(* which ignore_event() exempts every press from forking.                  *)
(***************************************************************************)
Tick ==
    /\ EnvironmentTurn
    /\ clock < MaxTime
    /\ clock' = clock + 1
    /\ UNCHANGED <<config, machineVars, mLock, callVars, keyboardVars, outputVars,
                   mouseKeys, frozen, thawed, disturbances, wakeup>>

Freeze ==
    /\ MayDisturb("freeze")
    /\ ~frozen
    /\ frozen' = TRUE
    /\ UNCHANGED <<config, machineVars, mLock, callVars, keyboardVars, outputVars,
                   clock, mouseKeys, thawed, wakeup>>

Thaw ==
    /\ EnvironmentTurn
    /\ frozen
    /\ frozen' = FALSE
    /\ thawed' = TRUE
    /\ UNCHANGED <<config, machineVars, mLock, callVars, keyboardVars, outputVars,
                   clock, mouseKeys, disturbances, wakeup>>

ToggleMouseKeys ==
    /\ MayDisturb("mousekeys")
    /\ mouseKeys' = ~mouseKeys
    /\ UNCHANGED <<config, machineVars, mLock, callVars, keyboardVars, outputVars,
                   clock, frozen, thawed, wakeup>>
-----------------------------------------------------------------------------
Init ==
    /\ config = InitialConfig
    /\ state = "normal" /\ suspect = NoKey /\ suspect_time = 0
    /\ verificator_keycode = NoKey /\ verificator_time = 0
    /\ last_released = NoKey /\ last_released_time = 0
    /\ mDecision_time = 0 /\ mCurrent_time = 0
    /\ tq = EmptyQueues
    /\ forkActive = [k \in Keys |-> NoKey]
    /\ mLock = Nobody
    /\ pc = [c \in Callers |-> "idle"]
    /\ call = [c \in Callers |-> "none"]
    /\ hand = [c \in Callers |-> <<>>]
    /\ now = [c \in Callers |-> 0]
    /\ stack = <<>>
    /\ clock = 1
    /\ held = {} /\ repeating = NoKey
    /\ mouseKeys = FALSE
    /\ frozen = FALSE /\ thawed = FALSE
    /\ disturbances = 0
    /\ wakeup = 0
    /\ accepted = <<>> /\ delivered = <<>> /\ downstream_time = 0

\* "sometimes now is 0": a caller may give no time (machine.h:1303).
GivenTimes == {clock} \cup (IF "time zero" \in Environment THEN {0} ELSE {})

TheTime(c) == \E time \in GivenTimes : accept_time(c, time)

Arrives(c) ==
    \E key \in Typed, kind \in Kinds :
        accept_event(c, key, kind) \/ accept_out_of_bound(c, key, kind)

\* What a caller does of itself once it was called.
Proceed(c) ==
    \/ LockAutomaton(c) \/ Iterate(c) \/ UnlockAutomaton(c)
    \/ pop_event_if_present(c) \/ relay_event(c) \/ relay_returns(c)
    \/ FlushEnds(c) \/ TimeMayPass(c)
    \/ push_time_to_next(c) \/ push_time(c) \/ push_time_returns(c)
    \/ Return(c)

Next ==
    \/ \E c \in Callers :
          Arrives(c) \/ TheTime(c) \/ accept_confirmation(c) \/ Proceed(c)
    \/ configure \/ Tick \/ Freeze \/ Thaw \/ ToggleMouseKeys

Spec == Init /\ [][Next]_vars

(***************************************************************************)
(* A caller that was called goes on; the clock runs; whoever froze the     *)
(* output thaws it; and the machine is called with the time when the time  *)
(* it asked for has come, or when the output was thawed.  Calls to the     *)
(* machine only fit in between other calls, hence SF.                      *)
(***************************************************************************)
TimeIsDue(c) ==
    /\ thawed \/ (wakeup # 0 /\ clock >= wakeup)
    /\ accept_time(c, clock)

FairSpec ==
    /\ Spec
    /\ \A c \in Callers : WF_vars(Proceed(c))
    /\ SF_vars(Tick)
    /\ SF_vars(Thaw)
    /\ SF_vars(\E c \in Callers : TimeIsDue(c))
=============================================================================
