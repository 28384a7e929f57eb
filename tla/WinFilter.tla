----------------------------- MODULE WinFilter -----------------------------
(***************************************************************************)
(* The Windows keyboard filter around forkingMachine                       *)
(* (src/windows/sys/kbfiltr.cpp): the class driver's service callback, one *)
(* timer, and a clock read in milliseconds.  The output never freezes and  *)
(* takes no time, and the mouse does not confirm anything, so Freeze, Thaw *)
(* and accept_confirmation have no part here.                              *)
(*                                                                         *)
(* The callbacks are taken one after the other, each within a tick of the  *)
(* clock: they run at DISPATCH_LEVEL.  The clock starts anew every hour,   *)
(* and the Pause key (E1) is above MAX_KEYCODE; neither happens here.      *)
(***************************************************************************)
EXTENDS ForkingProperties

CONSTANT DueTimeWidth  \* 2^32 / 10000: the milliseconds that a DueTime holds

ASSUME DueTimeAssumption == DueTimeWidth \in Nat \ {0}

VARIABLE timer  \* timerHandle: the time at which it expires, 0 when stopped

winVars == <<vars, timer>>

WinInit == Init /\ timer = 0

\* A relative time is the negative of the milliseconds, computed in a long: what
\* does not fit wraps to a positive number, an absolute time long past.
TimerIn(milliseconds) ==
    LET wrapped == milliseconds % DueTimeWidth
    IN  IF 2 * wrapped < DueTimeWidth THEN wrapped ELSE 0

startTimer(milliseconds) == timer' = clock + TimerIn(milliseconds)

WdfTimerStop == timer' = 0

\* KbFilter_ServiceCallback calls accept_event for each packet it is given.
KbFilter_ServiceCallback(c) ==
    /\ \E key \in Typed, kind \in Kinds : accept_event(c, key, kind)
    /\ UNCHANGED timer

KbFilter_EvtWdfTimer(c) ==
    /\ timer # 0 /\ clock >= timer
    /\ accept_time(c, clock)
    /\ timer' = 0

\* Mutant of EventTimer: the timer that is not needed is left running.
EventTimerNotStopped(timeout) ==
    IF timeout = 0 THEN UNCHANGED timer ELSE startTimer(timeout - clock)

\* After accept_event: the time that is left.
EventTimer(timeout) ==
    IF timeout = 0 THEN WdfTimerStop ELSE startTimer(timeout - clock)

\* Mutant of TimeTimer: the timer is one-shot, and is not started again.
TimeTimerOnce(timeout) == UNCHANGED timer

\* After accept_time: the decision time itself.
TimeTimer(timeout) ==
    IF timeout = 0 THEN WdfTimerStop ELSE startTimer(timeout)

CallbackReturns(c) ==
    /\ Return(c)
    /\ IF call[c] = "event" THEN EventTimer(next_decision_time)
                            ELSE TimeTimer(next_decision_time)

CallbackProceeds(c) ==
    \/ CallbackReturns(c)
    \/ /\ \/ LockAutomaton(c) \/ Iterate(c) \/ UnlockAutomaton(c)
          \/ pop_event_if_present(c) \/ relay_event(c) \/ relay_returns(c)
          \/ FlushEnds(c) \/ TimeMayPass(c)
          \/ push_time_to_next(c) \/ push_time(c) \/ push_time_returns(c)
       /\ UNCHANGED timer

ClockTicks == stack = <<>> /\ Tick /\ UNCHANGED timer

WinNext ==
    \/ \E c \in Callers :
          KbFilter_ServiceCallback(c) \/ KbFilter_EvtWdfTimer(c) \/ CallbackProceeds(c)
    \/ ClockTicks

WinSpec == WinInit /\ [][WinNext]_winVars

(***************************************************************************)
(* A callback that was called goes on, the clock runs, and the system runs *)
(* the callback of a timer that expired (SF: in between others).           *)
(***************************************************************************)
WinFairSpec ==
    /\ WinSpec
    /\ \A c \in Callers : WF_winVars(CallbackProceeds(c))
    /\ SF_winVars(ClockTicks)
    /\ SF_winVars(\E c \in Callers : KbFilter_EvtWdfTimer(c))
-----------------------------------------------------------------------------
(***************************************************************************)
(* Between callbacks the timer runs exactly when a key is undecided: no    *)
(* order of key events and expiries stops it under a suspect or leaves it  *)
(* running for none.                                                       *)
(***************************************************************************)
TimerRunsForSuspect == stack = <<>> => (timer # 0 <=> state # "normal")

(***************************************************************************)
(* "negative: relative to now" (kbfiltr.cpp:1211), and mDecision_time is   *)
(* "Time .. when the suspected event forks": the timer is set to           *)
(* expire by then.                                                         *)
(***************************************************************************)
TimerInTime == stack = <<>> /\ state # "normal" => timer <= mDecision_time
=============================================================================
