-------------------------- MODULE ForkConfiguration --------------------------
(***************************************************************************)
(* ForkConfiguration (src/src/fork_configuration.h) as the builds compile  *)
(* it: VERIFICATION_MATRIX is defined nowhere, so the two time limits are  *)
(* the same for every pair of keys, and the per-key parameters are         *)
(* fork_keycode and fork_repeatable.                                       *)
(***************************************************************************)
EXTENDS Naturals

CONSTANTS
    Keys,                   \* keycodes below MAX_KEYCODE
    NoKey,                  \* KEYCODE_UNUSED
    VERIFICATION_INTERVAL,  \* 200 ms: held alone so long, a key forks
    OVERLAP_TOLERANCE       \* 100 ms: held together with another key so long

ASSUME NoKeyAssumption == NoKey \notin Keys
ASSUME LimitsAssumption ==
    VERIFICATION_INTERVAL \in Nat /\ OVERLAP_TOLERANCE \in Nat

VARIABLE config

Keycodes == Keys \cup {NoKey}

ConfigType ==
    [fork_keycode              : [Keys -> Keycodes],
     fork_repeatable           : [Keys -> BOOLEAN],
     repeat_max                : Nat,
     consider_forks_for_repeat : BOOLEAN]

\* The interval a key may be down alone; the verificator is not looked at.
verification_interval_of(code, verificator) == VERIFICATION_INTERVAL

overlap_tolerance_of(code, verificator) == OVERLAP_TOLERANCE

\* Mutants of verifier_decision_time: the later of the two; a wrong sign.
verifier_decision_time_late(suspect, suspect_time, verificator, verificator_time) ==
    LET oneKey == suspect_time + verification_interval_of(suspect, verificator)
        together == verificator_time + overlap_tolerance_of(suspect, verificator)
    IN  IF together > oneKey THEN together ELSE oneKey
verifier_decision_time_before(suspect, suspect_time, verificator, verificator_time) ==
    suspect_time - verification_interval_of(suspect, verificator)

\* When the verificator will trigger the fork of the suspect.
verifier_decision_time(suspect, suspect_time, verificator, verificator_time) ==
    LET oneKey == suspect_time + verification_interval_of(suspect, verificator)
        decision_point_time ==
            verificator_time + overlap_tolerance_of(suspect, verificator)
    IN  IF decision_point_time < oneKey THEN decision_point_time ELSE oneKey

forkable_p(key) == config.fork_keycode[key] # NoKey
-----------------------------------------------------------------------------
\* The setters of forkingMachine::configure_key and configure_global that the
\* machine's decisions read (the others set log sizes and debug levels).
SetForkKeycode(key, value) ==
    config' = [config EXCEPT !.fork_keycode[key] = value]

SetForkRepeatable(key, value) ==
    config' = [config EXCEPT !.fork_repeatable[key] = value]

SetRepeatMax(value) == config' = [config EXCEPT !.repeat_max = value]

SetConsiderForksForRepeat(value) ==
    config' = [config EXCEPT !.consider_forks_for_repeat = value]
=============================================================================
