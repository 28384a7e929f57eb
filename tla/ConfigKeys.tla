----------------------------- MODULE ConfigKeys -----------------------------
(***************************************************************************)
(* The hot keys of the X plugin (src/xorg/fork-plugin.cpp:80-203): while   *)
(* Pause is down, or for one event after a Pause that was only touched,    *)
(* keys configure forks.  What decides that are four static variables, one *)
(* set for all keyboards and all time.  Events go through the filter one   *)
(* at a time, in the server's thread.                                      *)
(***************************************************************************)
EXTENDS Integers, SequencesExt, FiniteSetsExt

CONSTANTS
    Keyboards,              \* devices with an instance of the plugin
    Keys,                   \* keys that default: of the switch is for
    PAUSE,                  \* keycodes::PAUSE
    DebugKeys,              \* keycodes::key_k and key_l
    NoKey,                  \* 0: no key to fork, no fork
    MINIMUM_DURATION_MSEC,  \* a Pause shorter than that is not believed
    MaxTyped,               \* bound: events typed
    MaxTime                 \* bound: the clock stops

ASSUME KeysAssumption ==
    /\ PAUSE \notin Keys \cup DebugKeys
    /\ Keys \cap DebugKeys = {}
    /\ NoKey \notin Keys \cup DebugKeys \cup {PAUSE}
ASSUME TimesAssumption ==
    MINIMUM_DURATION_MSEC \in Nat \ {0} /\ MaxTyped \in Nat /\ MaxTime \in Nat

VARIABLES
    config_mode, latch, last_press_time, key_to_fork,
    fork_keycode,  \* of each keyboard's machine
    held,          \* keys that are down on each keyboard
    clock,
    typed,         \* history: the events that came
    passed         \* history: those given to the machine

modeVars == <<config_mode, latch, last_press_time>>
vars == <<modeVars, key_to_fork, fork_keycode, held, clock, typed, passed>>

Buttons == Keys \cup DebugKeys \cup {PAUSE}
Events  == [keyboard : Keyboards, key : Buttons, kind : {"press", "release"}, time : Nat]

press_p(e)   == e.kind = "press"
release_p(e) == e.kind = "release"

TypeOK ==
    /\ config_mode \in BOOLEAN /\ latch \in BOOLEAN
    /\ last_press_time \in Nat
    /\ key_to_fork \in Keys \cup {NoKey}
    /\ fork_keycode \in [Keyboards -> [Keys -> Keys \cup {NoKey}]]
    /\ held \in [Keyboards -> SUBSET Buttons]
    /\ clock \in Nat
    /\ typed \in Seq(Events) /\ passed \in Seq(Events)

\* The server has run longer than a short Pause lasts: time - 0 is long.
Init ==
    /\ config_mode = FALSE /\ latch = FALSE /\ last_press_time = 0
    /\ key_to_fork = NoKey
    /\ fork_keycode = [kbd \in Keyboards |-> [key \in Keys |-> NoKey]]
    /\ held = [kbd \in Keyboards |-> {}]
    /\ clock = MINIMUM_DURATION_MSEC
    /\ typed = <<>> /\ passed = <<>>
-----------------------------------------------------------------------------
\* Mutant of RememberFrom: what was remembered is not asked for.
RememberAlways(e) ==
    /\ key_to_fork' = e.key
    /\ UNCHANGED fork_keycode

\* "so press BREAK FROM TO": the first key is remembered, ...
RememberFrom(e) ==
    /\ key_to_fork = NoKey
    /\ key_to_fork' = e.key
    /\ UNCHANGED fork_keycode

\* ... the second one, perhaps much later and on another keyboard, is its fork.
AssignTo(e) ==
    /\ key_to_fork # NoKey
    /\ fork_keycode' = [fork_keycode EXCEPT ![e.keyboard][key_to_fork] = e.key]
    /\ key_to_fork' = NoKey

\* Mutant of handle_config_key: the cases of k and l fall through to default.
handle_config_key_falls(e) ==
    \/ press_p(e) /\ (RememberFrom(e) \/ AssignTo(e))
    \/ release_p(e) /\ UNCHANGED <<key_to_fork, fork_keycode>>

\* Releases do nothing; Pause dumps and k and l set the debug level.
handle_config_key(e) ==
    \/ press_p(e) /\ e.key \in Keys /\ (RememberFrom(e) \/ AssignTo(e))
    \/ ~(press_p(e) /\ e.key \in Keys) /\ UNCHANGED <<key_to_fork, fork_keycode>>

pass(e) == passed' = Append(passed, e)
keep(e) == UNCHANGED passed

PausePressed(e)  == e.key = PAUSE /\ press_p(e)
PauseReleased(e) == e.key = PAUSE /\ release_p(e)

\* Mutant of tolerated: one too many.
tolerated_at_limit(e) == e.time - last_press_time <= MINIMUM_DURATION_MSEC

\* "the key seems buggy, tolerating"
tolerated(e) == e.time - last_press_time < MINIMUM_DURATION_MSEC

Latch(e) ==
    /\ config_mode /\ PauseReleased(e) /\ tolerated(e)
    /\ latch' = TRUE
    /\ keep(e)
    /\ UNCHANGED <<config_mode, last_press_time, key_to_fork, fork_keycode>>

LeaveConfigMode(e) ==
    /\ config_mode /\ PauseReleased(e) /\ ~tolerated(e)
    /\ config_mode' = FALSE
    /\ last_press_time' = 0
    /\ pass(e)
    /\ UNCHANGED <<latch, key_to_fork, fork_keycode>>

\* Mutant of Configure: the latch is not undone.
ConfigureLatched(e) ==
    /\ config_mode /\ e.key # PAUSE
    /\ handle_config_key(e)
    /\ UNCHANGED <<config_mode, latch>>
    /\ last_press_time' = 0
    /\ pass(e)

\* The key is typed all the same.
Configure(e) ==
    /\ config_mode /\ e.key # PAUSE
    /\ handle_config_key(e)
    /\ config_mode' = ~latch
    /\ latch' = FALSE
    /\ last_press_time' = 0
    /\ pass(e)

\* In config mode Pause is first a command (a dump), which ends a latch; then,
\* in either mode, it begins config mode.
EnterConfigMode(e) ==
    /\ PausePressed(e)
    /\ config_mode' = TRUE
    /\ latch' = IF config_mode THEN FALSE ELSE latch
    /\ last_press_time' = e.time
    /\ keep(e)
    /\ UNCHANGED <<key_to_fork, fork_keycode>>

PassOn(e) ==
    /\ ~config_mode /\ ~PausePressed(e)
    /\ last_press_time' = 0
    /\ pass(e)
    /\ UNCHANGED <<config_mode, latch, key_to_fork, fork_keycode>>

filter_config_key_maybe(e) ==
    \/ Latch(e) \/ LeaveConfigMode(e) \/ Configure(e) \/ EnterConfigMode(e) \/ PassOn(e)

\* A press of a key that is down is an auto-repeat.
Type(kbd, key, kind) ==
    LET e == [keyboard |-> kbd, key |-> key, kind |-> kind, time |-> clock]
    IN  /\ Len(typed) < MaxTyped
        /\ kind = "release" => key \in held[kbd]
        /\ held' = [held EXCEPT ![kbd] =
                       IF kind = "press" THEN @ \cup {key} ELSE @ \ {key}]
        /\ typed' = Append(typed, e)
        /\ filter_config_key_maybe(e)
        /\ UNCHANGED clock

Tick ==
    /\ clock < MaxTime
    /\ clock' = clock + 1
    /\ UNCHANGED <<modeVars, key_to_fork, fork_keycode, held, typed, passed>>

Next ==
    \/ \E kbd \in Keyboards, key \in Buttons, kind \in {"press", "release"} :
          Type(kbd, key, kind)
    \/ Tick

Spec == Init /\ [][Next]_vars
-----------------------------------------------------------------------------
(***************************************************************************)
(* Config mode said from the events alone.                                 *)
(***************************************************************************)
\* The release of a Pause that was pressed just before, on any keyboard, with
\* nothing in between.
TouchedOnly(i) ==
    /\ i > 1
    /\ PauseReleased(typed[i]) /\ PausePressed(typed[i - 1])
    /\ typed[i].time < typed[i - 1].time + MINIMUM_DURATION_MSEC

\* A Pause was pressed before the event i and is not released on its keyboard.
PauseDownBefore(i) ==
    \E p \in 1 .. i - 1 :
        /\ PausePressed(typed[p])
        /\ \A r \in p + 1 .. i - 1 :
              ~(PauseReleased(typed[r]) /\ typed[r].keyboard = typed[p].keyboard)

Configuring(i) == PauseDownBefore(i) \/ TouchedOnly(i - 1)

\* The members of P among 1 .. n, in order.
InOrder(P, n) ==
    LET first[i \in 0 .. n] ==
            IF i = 0 THEN <<>>
            ELSE IF i \in P THEN Append(first[i - 1], i) ELSE first[i - 1]
    IN  first[n]

\* The places in `typed' of the keys that were pressed to configure.
ConfigurePlaces ==
    {i \in DOMAIN typed : press_p(typed[i]) /\ typed[i].key \in Keys /\ Configuring(i)}

ConfiguredBy == InOrder(ConfigurePlaces, Len(typed))

\* The places of the events that are not about config mode alone.
OtherPlaces == {i \in DOMAIN typed : ~PausePressed(typed[i]) /\ ~TouchedOnly(i)}

\* The pairs FROM TO among these keys, numbered; the n-th ends with the key 2n.
Assigned(keys, kbd, from) ==
    {n \in 1 .. Len(keys) \div 2 :
        typed[keys[2 * n - 1]].key = from /\ typed[keys[2 * n]].keyboard = kbd}

(***************************************************************************)
(* "config_mode = false; // While the Pause key is down."                  *)
(* (fork-plugin.cpp:155): the mode is on while Pause is down, and for the  *)
(* one event after a Pause that was only touched, and at no other time.    *)
(***************************************************************************)
ConfigModeMeansPause == config_mode <=> Configuring(Len(typed) + 1)

(***************************************************************************)
(* "so press BREAK FROM TO to have FROM fork to TO" (fork-plugin.cpp:135): *)
(* the forks are those of the keys pressed in config mode, taken in pairs, *)
(* however the pairs are spread over presses of Pause, latched or held,    *)
(* and whatever else is typed meanwhile.                                   *)
(***************************************************************************)
ForksAsTyped ==
    \A kbd \in Keyboards, from \in Keys :
        LET keys == ConfiguredBy
            pairs == Assigned(keys, kbd, from)
        IN  fork_keycode[kbd][from] =
                IF pairs = {} THEN NoKey ELSE typed[keys[2 * Max(pairs)]].key

(***************************************************************************)
(* The machine is given, in order, every event but the presses of Pause    *)
(* and the releases that belong to a Pause only touched: the keys that     *)
(* configure are typed too, and Pause does not stay pressed downstream.    *)
(***************************************************************************)
OnlyPauseIsKept ==
    LET others == InOrder(OtherPlaces, Len(typed))
    IN  passed = [n \in DOMAIN others |-> typed[others[n]]]
=============================================================================
