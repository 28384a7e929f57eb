----------------------------- MODULE XorgPlugin -----------------------------
(***************************************************************************)
(* The X server plugin around forkingMachine (src/xorg/fork-plugin.cpp):   *)
(* the handlers the server and the neighbours in the chain of plugins      *)
(* call, and the time at which the plugin asks to be called again.         *)
(*                                                                         *)
(* Every step is a step of ForkingMachine with what it does to the         *)
(* plugin's own variables.  An activation in `notifying' runs              *)
(* fork_thaw_notify, one of the others the handler its `call' tells.       *)
(***************************************************************************)
EXTENDS ForkingProperties

CONSTANTS
    PrevHasNotifyThaw,  \* PluginClass(plugin->prev)->NotifyThaw is not null
    NextDelays          \* how far ahead the next plugin asks for time (bound)

ASSUME PluginAssumption ==
    PrevHasNotifyThaw \in BOOLEAN /\ NextDelays \subseteq Nat \ {0}

VARIABLES
    wakeup_time,       \* plugin->wakeup_time, 0 for none
    next_wakeup_time,  \* plugin->next->wakeup_time
    thaw_due,          \* the next plugin thawed and will call NotifyThaw
    notifying          \* activations of fork_thaw_notify

pluginVars == <<wakeup_time, next_wakeup_time, thaw_due, notifying>>
xorgVars   == <<vars, pluginVars>>

XorgInit ==
    /\ Init
    /\ wakeup_time = 0 /\ next_wakeup_time = 0
    /\ thaw_due = FALSE /\ notifying = {}

(***************************************************************************)
(* The handlers are entered.                                               *)
(***************************************************************************)
ForkProcessEvent(c) ==
    /\ \E key \in Typed, kind \in Kinds : accept_event(c, key, kind)
    /\ UNCHANGED pluginVars

\* The plugin before this one lets time through whenever it likes.
step_in_time(c) == accept_time(c, clock) /\ UNCHANGED pluginVars

\* The server does when the time that the plugin asked for has come.
ServerWakes(c) == wakeup_time # 0 /\ clock >= wakeup_time /\ step_in_time(c)

fork_thaw_notify(c) ==
    /\ thaw_due
    /\ accept_time(c, clock)
    /\ thaw_due' = FALSE
    /\ notifying' = notifying \cup {c}
    /\ UNCHANGED <<wakeup_time, next_wakeup_time>>

mouse_call_back(c) == accept_confirmation(c) /\ UNCHANGED pluginVars

(***************************************************************************)
(* They return.  Nothing outside is called between the machine's           *)
(* next_decision_time and set_wakeup_time, so both are one step.           *)
(***************************************************************************)
\* Mutants of first_non_zero: the other one first; the machine's only.
second_non_zero(a, b) == IF b = 0 THEN a ELSE b
machine_time_only(a, b) == a

first_non_zero(a, b) == IF a = 0 THEN b ELSE a

set_wakeup_time ==
    wakeup_time' = first_non_zero(next_decision_time, next_wakeup_time)

\* "thaw the previous!": only then is the time set.
Upwards == ~frozen /\ PrevHasNotifyThaw

HandlerReturns(c) ==
    /\ Return(c)
    /\ IF call[c] = "confirmation" \/ (c \in notifying /\ ~Upwards)
       THEN UNCHANGED wakeup_time
       ELSE set_wakeup_time
    /\ notifying' = notifying \ {c}
    /\ UNCHANGED <<next_wakeup_time, thaw_due>>

(***************************************************************************)
(* The next plugin.  An event may make it wait; the time it waits for      *)
(* makes it go on, and perhaps wait for a later one.                       *)
(***************************************************************************)
LaterTimes == {0} \cup {clock + d : d \in {d \in NextDelays : clock + d <= MaxTime}}

NextTakesEvent(c) ==
    /\ relay_event(c)
    /\ next_wakeup_time' \in LaterTimes
    /\ UNCHANGED <<wakeup_time, thaw_due, notifying>>

NextTakesTime(c) ==
    /\ push_time(c)
    /\ IF next_wakeup_time # 0 /\ now[c] >= next_wakeup_time
       THEN next_wakeup_time' \in LaterTimes
       ELSE UNCHANGED next_wakeup_time
    /\ UNCHANGED <<wakeup_time, thaw_due, notifying>>

NextThaws ==
    /\ Thaw
    /\ thaw_due' = TRUE
    /\ UNCHANGED <<wakeup_time, next_wakeup_time, notifying>>

MachineGoesOn(c) ==
    /\ \/ LockAutomaton(c) \/ Iterate(c) \/ UnlockAutomaton(c)
       \/ pop_event_if_present(c) \/ relay_returns(c) \/ FlushEnds(c)
       \/ TimeMayPass(c) \/ push_time_to_next(c) \/ push_time_returns(c)
    /\ UNCHANGED pluginVars

HandlerProceeds(c) ==
    MachineGoesOn(c) \/ NextTakesEvent(c) \/ NextTakesTime(c) \/ HandlerReturns(c)

XorgNext ==
    \/ \E c \in Callers :
          \/ ForkProcessEvent(c) \/ step_in_time(c) \/ fork_thaw_notify(c)
          \/ mouse_call_back(c) \/ HandlerProceeds(c)
    \/ NextThaws
    \/ (Tick \/ Freeze) /\ UNCHANGED pluginVars

XorgSpec == XorgInit /\ [][XorgNext]_xorgVars

(***************************************************************************)
(* The server is one thread that goes on with what it runs; its clock      *)
(* runs; whoever froze the keyboard thaws it, and the thaw is notified;    *)
(* the server's loop looks at wakeup_time.  That calls fit only between    *)
(* other calls makes these strong.  Nothing makes the user, the mouse or   *)
(* the plugin before this one do anything.                                 *)
(***************************************************************************)
XorgFairSpec ==
    /\ XorgSpec
    /\ \A c \in Callers : WF_xorgVars(HandlerProceeds(c))
    /\ SF_xorgVars(Tick /\ UNCHANGED pluginVars)
    /\ SF_xorgVars(NextThaws)
    /\ SF_xorgVars(\E c \in Callers : ServerWakes(c))
    /\ SF_xorgVars(\E c \in Callers : fork_thaw_notify(c))
-----------------------------------------------------------------------------
(***************************************************************************)
(* When the server is back in its loop with the keyboard thawed and        *)
(* notified, it will call no later than the undecided key needs: the       *)
(* plugin has taken over the machine's answer through every handler, the   *)
(* one that does not set the time (mouse_call_back) included.              *)
(***************************************************************************)
WakesForTheMachine ==
    stack = <<>> /\ ~frozen /\ ~thaw_due /\ state # "normal" =>
        wakeup_time # 0 /\ wakeup_time <= mDecision_time

(***************************************************************************)
(* "if machine waits, it cannot pass to the next-plugin!"                  *)
(* (fork-plugin.cpp:213): the next plugin's wish is overruled while the    *)
(* machine waits, but not forgotten -- the time that the next plugin asks  *)
(* for reaches it in the end, or an event past it does.                    *)
(***************************************************************************)
NextGetsItsTime ==
    \A t \in 1 .. MaxTime :
        (next_wakeup_time = t) ~> (downstream_time >= t \/ next_wakeup_time # t)
=============================================================================
