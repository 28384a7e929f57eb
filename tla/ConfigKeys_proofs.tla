-------------------------- MODULE ConfigKeys_proofs --------------------------
(***************************************************************************)
(* The hot keys: the types, and for one keyboard that the four static      *)
(* variables say of the typed events what they are meant to.               *)
(***************************************************************************)
EXTENDS ConfigKeys, SequenceTheorems, WellFoundedInduction, TLAPS

LEMMA TypeInit == Init => TypeOK
<1> SUFFICES ASSUME Init PROVE TypeOK
  OBVIOUS
<1>1. config_mode \in BOOLEAN /\ latch \in BOOLEAN
  BY Zenon DEF Init
<1>2. last_press_time \in Nat /\ clock \in Nat /\ key_to_fork \in Keys \cup {NoKey}
  BY TimesAssumption DEF Init
<1>3. /\ fork_keycode \in [Keyboards -> [Keys -> Keys \cup {NoKey}]]
      /\ held \in [Keyboards -> SUBSET Buttons]
  BY DEF Init
<1>4. typed \in Seq(Events) /\ passed \in Seq(Events)
  BY EmptySeq DEF Init
<1>5. QED
  BY <1>1, <1>2, <1>3, <1>4 DEF TypeOK

\* Whatever the filter does with an event, types are kept.
LEMMA FilterTypes ==
    ASSUME TypeOK, NEW e \in Events, filter_config_key_maybe(e)
    PROVE  /\ config_mode' \in BOOLEAN /\ latch' \in BOOLEAN
           /\ last_press_time' \in Nat
           /\ key_to_fork' \in Keys \cup {NoKey}
           /\ fork_keycode' \in [Keyboards -> [Keys -> Keys \cup {NoKey}]]
           /\ passed' \in Seq(Events)
<1>1. e.keyboard \in Keyboards /\ e.time \in Nat
  BY DEF Events
<1>2. /\ Append(passed, e) \in Seq(Events)
      /\ passed \in Seq(Events) /\ last_press_time \in Nat
  BY AppendProperties DEF TypeOK
<1>3. CASE Latch(e) \/ LeaveConfigMode(e) \/ EnterConfigMode(e) \/ PassOn(e)
  <2>1. /\ config_mode' \in BOOLEAN /\ latch' \in BOOLEAN
        /\ UNCHANGED <<key_to_fork, fork_keycode>>
    BY <1>3, Zenon DEF Latch, LeaveConfigMode, EnterConfigMode, PassOn, TypeOK
  <2>2. last_press_time' \in {last_press_time, 0, e.time}
    BY <1>3, Zenon DEF Latch, LeaveConfigMode, EnterConfigMode, PassOn
  <2>3. passed' \in {passed, Append(passed, e)}
    BY <1>3, Zenon DEF Latch, LeaveConfigMode, EnterConfigMode, PassOn, pass, keep
  <2>4. last_press_time' \in Nat /\ passed' \in Seq(Events)
    BY <1>1, <1>2, <2>2, <2>3
  <2>5. QED
    BY <2>1, <2>4 DEF TypeOK
<1>4. CASE Configure(e)
  <2>1. config_mode' \in BOOLEAN /\ latch' \in BOOLEAN
    BY <1>4, Zenon DEF Configure, TypeOK
  <2>2. last_press_time' = 0 /\ passed' = Append(passed, e)
    BY <1>4, Zenon DEF Configure, pass
  <2>3. /\ key_to_fork' \in Keys \cup {NoKey}
        /\ fork_keycode' \in [Keyboards -> [Keys -> Keys \cup {NoKey}]]
    <3>1. CASE e.key \in Keys /\ RememberFrom(e)
      BY <3>1 DEF RememberFrom, TypeOK
    <3>2. CASE e.key \in Keys /\ AssignTo(e)
      BY <1>1, <3>2 DEF AssignTo, TypeOK
    <3>3. CASE UNCHANGED <<key_to_fork, fork_keycode>>
      BY <3>3 DEF TypeOK
    <3>4. QED
      BY <1>4, <3>1, <3>2, <3>3 DEF Configure, handle_config_key
  <2>4. QED
    BY <1>2, <2>1, <2>2, <2>3
<1>5. QED
  BY <1>3, <1>4 DEF filter_config_key_maybe

\* The event that is typed.
LEMMA TypedEvent ==
    ASSUME TypeOK, NEW kbd \in Keyboards, NEW key \in Buttons,
           NEW kind \in {"press", "release"}
    PROVE  [keyboard |-> kbd, key |-> key, kind |-> kind, time |-> clock] \in Events
BY DEF TypeOK, Events

LEMMA TypeNext ==
    ASSUME TypeOK, [Next]_vars
    PROVE  TypeOK'
<1>1. ASSUME NEW kbd \in Keyboards, NEW key \in Buttons,
             NEW kind \in {"press", "release"}, Type(kbd, key, kind)
      PROVE  TypeOK'
  <2> DEFINE e == [keyboard |-> kbd, key |-> key, kind |-> kind, time |-> clock]
  <2>1. e \in Events
    BY TypedEvent
  <2>2. /\ held' = [held EXCEPT ![kbd] = IF kind = "press" THEN @ \cup {key} ELSE @ \ {key}]
        /\ typed' = Append(typed, e)
        /\ filter_config_key_maybe(e)
        /\ clock' = clock
    BY <1>1 DEF Type
  <2> HIDE DEF e
  <2>3. held' \in [Keyboards -> SUBSET Buttons]
    BY <2>2 DEF TypeOK
  <2>4. typed' \in Seq(Events)
    BY <2>1, <2>2, AppendProperties DEF TypeOK
  <2>5. QED
    BY <2>1, <2>2, <2>3, <2>4, FilterTypes DEF TypeOK
<1>2. CASE Tick
  BY <1>2 DEF Tick, modeVars, TypeOK
<1>3. CASE UNCHANGED vars
  BY <1>3 DEF vars, modeVars, TypeOK
<1>4. QED
  BY <1>1, <1>2, <1>3 DEF Next

(***************************************************************************)
(* The static variables keep their types: a fork is only ever given to a   *)
(* key that default: of the switch remembered.                             *)
(***************************************************************************)
THEOREM TypeCorrect == Spec => []TypeOK
BY TypeInit, TypeNext, PTL DEF Spec
-----------------------------------------------------------------------------
(***************************************************************************)
(* One keyboard.  The variables are one set for all keyboards, so with two *)
(* the release of one Pause ends the mode while the other is down.         *)
(***************************************************************************)
OneKeyboard == \A k, l \in Keyboards : k = l

PauseHeld == \E kbd \in Keyboards : PAUSE \in held[kbd]

(***************************************************************************)
(* The mode is on while Pause is held and after a Pause only touched, in   *)
(* which case it is latched; while Pause is held, the time of its last     *)
(* press is known when nothing came since, and is 0 otherwise.             *)
(***************************************************************************)
ModeInv ==
    /\ clock >= MINIMUM_DURATION_MSEC
    /\ PauseHeld <=> PauseDownBefore(Len(typed) + 1)
    /\ config_mode <=> PauseHeld \/ TouchedOnly(Len(typed))
    /\ latch <=> TouchedOnly(Len(typed))
    /\ TouchedOnly(Len(typed)) => ~PauseHeld
    /\ PauseHeld => IF PausePressed(typed[Len(typed)])
                    THEN last_press_time = typed[Len(typed)].time
                    ELSE last_press_time = 0

LEMMA ModeInit == Init => ModeInv
<1> SUFFICES ASSUME Init PROVE ModeInv
  OBVIOUS
<1>1. Len(typed) = 0 /\ ~PauseHeld
  BY DEF Init, PauseHeld
<1>2. ~PauseDownBefore(Len(typed) + 1) /\ ~TouchedOnly(Len(typed))
  BY <1>1 DEF PauseDownBefore, TouchedOnly
<1>3. QED
  BY <1>1, <1>2, TimesAssumption DEF Init, ModeInv

\* What one more event does to the definitions that look at the events.
LEMMA OneMoreTyped ==
    ASSUME OneKeyboard, NEW s \in Seq(Events), NEW e \in Events, typed = s,
           typed' = Append(s, e)
    PROVE  /\ Len(typed') = Len(s) + 1 /\ Len(s) \in Nat
           /\ typed'[Len(s) + 1] = e
           /\ \A i \in 1 .. Len(s) : typed'[i] = typed[i]
           /\ \A i \in 1 .. Len(s) : TouchedOnly(i)' <=> TouchedOnly(i)
           /\ \A i \in 1 .. Len(s) + 1 : PauseDownBefore(i)' <=> PauseDownBefore(i)
           /\ TouchedOnly(Len(s) + 1)' <=>
                  /\ Len(s) > 0 /\ PauseReleased(e) /\ PausePressed(typed[Len(s)])
                  /\ e.time < typed[Len(s)].time + MINIMUM_DURATION_MSEC
           /\ PauseDownBefore(Len(s) + 2)' <=>
                  PausePressed(e) \/ (PauseDownBefore(Len(s) + 1) /\ ~PauseReleased(e))
<1>1. /\ Len(typed') = Len(s) + 1 /\ Len(s) \in Nat
      /\ typed'[Len(s) + 1] = e
      /\ \A i \in 1 .. Len(s) : typed'[i] = typed[i]
  BY AppendProperties, LenProperties
<1>2. \A i \in 1 .. Len(s) : TouchedOnly(i)' <=> TouchedOnly(i)
  BY <1>1 DEF TouchedOnly
<1>3. ASSUME NEW i \in 1 .. Len(s) + 1 PROVE PauseDownBefore(i)' <=> PauseDownBefore(i)
  <2>1. \A p \in 1 .. i - 1 : typed'[p] = typed[p]
    BY <1>1
  <2>2. \A p \in 1 .. i - 1 : \A r \in p + 1 .. i - 1 : typed'[r] = typed[r]
    BY <1>1
  <2>3. QED
    BY <2>1, <2>2 DEF PauseDownBefore
<1>4. TouchedOnly(Len(s) + 1)' <=>
          /\ Len(s) > 0 /\ PauseReleased(e) /\ PausePressed(typed[Len(s)])
          /\ e.time < typed[Len(s)].time + MINIMUM_DURATION_MSEC
  <2>1. Len(s) + 1 > 1 <=> Len(s) > 0
    BY <1>1
  <2>2. Len(s) > 0 => (Len(s) + 1) - 1 = Len(s) /\ typed'[Len(s)] = typed[Len(s)]
    BY <1>1
  <2>3. QED
    BY <1>1, <2>1, <2>2 DEF TouchedOnly
<1>5. PauseDownBefore(Len(s) + 2)' <=>
          PausePressed(e) \/ (PauseDownBefore(Len(s) + 1) /\ ~PauseReleased(e))
  <2>1. (Len(s) + 2) - 1 = Len(s) + 1 /\ (Len(s) + 1) - 1 = Len(s)
    BY <1>1
  <2>2. ASSUME PausePressed(e) PROVE PauseDownBefore(Len(s) + 2)'
    <3>1. Len(s) + 1 \in 1 .. Len(s) + 1 /\ (Len(s) + 1) + 1 .. Len(s) + 1 = {}
      BY <1>1
    <3>2. QED
      BY <1>1, <2>1, <2>2, <3>1 DEF PauseDownBefore
  <2>3. ASSUME PauseDownBefore(Len(s) + 1), ~PauseReleased(e)
        PROVE  PauseDownBefore(Len(s) + 2)'
    <3>1. PICK p \in 1 .. Len(s) :
              /\ PausePressed(typed[p])
              /\ \A r \in p + 1 .. Len(s) :
                    ~(PauseReleased(typed[r]) /\ typed[r].keyboard = typed[p].keyboard)
      BY <2>1, <2>3 DEF PauseDownBefore
    <3>2. p \in 1 .. Len(s) + 1 /\ PausePressed(typed'[p])
      BY <1>1, <3>1
    <3>3. ASSUME NEW r \in p + 1 .. Len(s) + 1
          PROVE  ~(PauseReleased(typed'[r]) /\ typed'[r].keyboard = typed'[p].keyboard)
      <4>1. CASE r = Len(s) + 1
        BY <1>1, <2>3, <4>1
      <4>2. CASE r # Len(s) + 1
        <5>1. r \in p + 1 .. Len(s) /\ r \in 1 .. Len(s)
          BY <1>1, <4>2
        <5>2. QED
          BY <1>1, <3>1, <5>1
      <4>3. QED
        BY <4>1, <4>2
    <3>4. QED
      BY <2>1, <3>2, <3>3 DEF PauseDownBefore
  <2>4. ASSUME PauseDownBefore(Len(s) + 2)', ~PausePressed(e)
        PROVE  PauseDownBefore(Len(s) + 1) /\ ~PauseReleased(e)
    <3>1. PICK p \in 1 .. Len(s) + 1 :
              /\ PausePressed(typed'[p])
              /\ \A r \in p + 1 .. Len(s) + 1 :
                    ~(PauseReleased(typed'[r]) /\ typed'[r].keyboard = typed'[p].keyboard)
      BY <2>1, <2>4 DEF PauseDownBefore
    <3>2. p \in 1 .. Len(s) /\ typed'[p] = typed[p]
      BY <1>1, <2>4, <3>1
    <3>3. Len(s) + 1 \in p + 1 .. Len(s) + 1
      BY <1>1, <3>2
    <3>4. typed[p] \in Events
      BY <3>2, ElementOfSeq
    <3>5. e.keyboard = typed[p].keyboard
      BY <3>4 DEF OneKeyboard, Events
    <3>6. ~PauseReleased(e)
      BY <1>1, <3>1, <3>2, <3>3, <3>5
    <3>7. \A r \in p + 1 .. Len(s) : r \in p + 1 .. Len(s) + 1 /\ typed'[r] = typed[r]
      BY <1>1, <3>2
    <3>8. QED
      BY <2>1, <3>1, <3>2, <3>6, <3>7 DEF PauseDownBefore
  <2>5. ASSUME PausePressed(e) PROVE ~PauseReleased(e)
    BY <2>5 DEF PausePressed, PauseReleased, press_p, release_p
  <2>6. QED
    BY <2>2, <2>3, <2>4
<1>6. QED
  BY <1>1, <1>2, <1>3, <1>4, <1>5

\* What the filter does to the mode, by what the event is.
LEMMA ModeOfEvent ==
    ASSUME NEW e, filter_config_key_maybe(e), config_mode \in BOOLEAN, latch \in BOOLEAN
    PROVE  /\ PausePressed(e) =>
                  /\ config_mode' /\ (latch' <=> latch /\ ~config_mode)
                  /\ last_press_time' = e.time
           /\ PauseReleased(e) /\ config_mode /\ tolerated(e) =>
                  /\ config_mode' /\ latch'
                  /\ last_press_time' = last_press_time
           /\ PauseReleased(e) /\ config_mode /\ ~tolerated(e) =>
                  ~config_mode' /\ (latch' <=> latch)
           /\ ~PausePressed(e) /\ ~PauseReleased(e) =>
                  /\ config_mode' <=> config_mode /\ ~latch
                  /\ latch' <=> latch /\ ~config_mode
                  /\ last_press_time' = 0
<1>1. ~(PausePressed(e) /\ PauseReleased(e))
  BY DEF PausePressed, PauseReleased, press_p, release_p
<1>2. e.key # PAUSE => ~PausePressed(e) /\ ~PauseReleased(e)
  BY DEF PausePressed, PauseReleased
<1>3. CASE Latch(e)
  BY <1>1, <1>3, Zenon DEF Latch
<1>4. CASE LeaveConfigMode(e)
  BY <1>1, <1>4, Zenon DEF LeaveConfigMode
<1>5. CASE Configure(e)
  BY <1>2, <1>5, Zenon DEF Configure
<1>6. CASE EnterConfigMode(e)
  <2>1. config_mode' = TRUE /\ last_press_time' = e.time /\ PausePressed(e)
    BY <1>6, Zenon DEF EnterConfigMode
  <2>2. latch' = IF config_mode THEN FALSE ELSE latch
    BY <1>6, Zenon DEF EnterConfigMode
  <2>3. latch' <=> latch /\ ~config_mode
    BY <2>2, Zenon
  <2>4. QED
    BY <1>1, <2>1, <2>3, Zenon
<1>7. CASE PassOn(e)
  BY <1>7, Zenon DEF PassOn
<1>8. QED
  BY <1>3, <1>4, <1>5, <1>6, <1>7, Zenon DEF filter_config_key_maybe

\* The event that is typed, and whether it is believed to be a touched Pause.
LEMMA ModeStep ==
    ASSUME OneKeyboard, TypeOK, ModeInv, NEW kbd \in Keyboards, NEW key \in Buttons,
           NEW kind \in {"press", "release"}, Type(kbd, key, kind)
    PROVE  ModeInv'
<1> DEFINE e == [keyboard |-> kbd, key |-> key, kind |-> kind, time |-> clock]
<1>0. PICK s \in Seq(Events), n \in Nat : s = typed /\ n = Len(typed)
  BY LenProperties DEF TypeOK
<1>1. /\ e \in Events /\ e.time = clock /\ e.time \in Nat
      /\ clock' = clock /\ clock >= MINIMUM_DURATION_MSEC
      /\ typed \in Seq(Events) /\ typed' = Append(s, e)
      /\ filter_config_key_maybe(e)
  BY <1>0, TypedEvent DEF TypeOK, ModeInv, Type
<1>3. /\ PauseHeld' <=> PausePressed(e) \/ (PauseHeld /\ ~PauseReleased(e))
      /\ PauseReleased(e) => PauseHeld
  <2>1. /\ \A k \in Keyboards : k = kbd
        /\ held \in [Keyboards -> SUBSET Buttons]
        /\ held' = [held EXCEPT ![kbd] = IF kind = "press" THEN @ \cup {key} ELSE @ \ {key}]
        /\ kind = "release" => key \in held[kbd]
    BY DEF OneKeyboard, TypeOK, Type
  <2>2. /\ PausePressed(e) <=> key = PAUSE /\ kind = "press"
        /\ PauseReleased(e) <=> key = PAUSE /\ kind = "release"
    BY DEF PausePressed, PauseReleased, press_p, release_p
  <2>3. PauseHeld <=> PAUSE \in held[kbd]
    BY <2>1 DEF PauseHeld
  <2>4. PauseHeld' <=> PAUSE \in held'[kbd]
    BY <2>1 DEF PauseHeld
  <2>5. held'[kbd] = IF kind = "press" THEN held[kbd] \cup {key} ELSE held[kbd] \ {key}
    BY <2>1
  <2> HIDE DEF e
  <2>6. QED
    BY <2>1, <2>2, <2>3, <2>4, <2>5
<1>4. ~(PausePressed(e) /\ PauseReleased(e))
  BY DEF PausePressed, PauseReleased, press_p, release_p
<1> HIDE DEF e
<1>2. /\ Len(typed') = n + 1 /\ typed'[n + 1] = e
      /\ TouchedOnly(n + 1)' <=>
             /\ n > 0 /\ PauseReleased(e) /\ PausePressed(typed[n])
             /\ e.time < typed[n].time + MINIMUM_DURATION_MSEC
      /\ PauseDownBefore(n + 2)' <=>
             PausePressed(e) \/ (PauseDownBefore(n + 1) /\ ~PauseReleased(e))
  <2>1. n = Len(s)
    BY <1>0
  <2>2. QED
    BY <1>0, <1>1, <2>1, OneMoreTyped
<1>m. /\ PauseHeld <=> PauseDownBefore(n + 1)
      /\ config_mode <=> PauseHeld \/ TouchedOnly(n)
      /\ latch <=> TouchedOnly(n)
      /\ TouchedOnly(n) => ~PauseHeld
      /\ PauseHeld => IF PausePressed(typed[n])
                      THEN last_press_time = typed[n].time
                      ELSE last_press_time = 0
  BY <1>0, Zenon DEF ModeInv
<1>5. PauseHeld' <=> PauseDownBefore(n + 2)'
  BY <1>2, <1>3, <1>m, Zenon
<1>6. ASSUME PauseReleased(e) PROVE tolerated(e) <=> TouchedOnly(n + 1)'
  <2>1. PauseHeld /\ PauseDownBefore(n + 1)
    BY <1>3, <1>6, <1>m, Zenon
  <2>2. n > 0
    BY <1>0, <2>1 DEF PauseDownBefore
  <2>3. typed[n].time \in Nat
    <3>1. n \in 1 .. Len(typed)
      BY <1>0, <2>2
    <3>2. typed[n] \in Events
      BY <1>1, <3>1, ElementOfSeq
    <3>3. QED
      BY <3>2 DEF Events
  <2>4. CASE PausePressed(typed[n])
    <3>1. last_press_time = typed[n].time
      BY <2>1, <2>4, <1>m, Zenon
    <3>2. TouchedOnly(n + 1)' <=> e.time < typed[n].time + MINIMUM_DURATION_MSEC
      BY <1>2, <1>6, <2>2, <2>4, Zenon
    <3>3. QED
      BY <1>1, <2>3, <3>1, <3>2, TimesAssumption DEF tolerated
  <2>5. CASE ~PausePressed(typed[n])
    <3>1. last_press_time = 0
      BY <2>1, <2>5, <1>m, Zenon
    <3>2. ~TouchedOnly(n + 1)'
      BY <1>2, <2>5, Zenon
    <3>3. QED
      BY <1>1, <3>1, <3>2, TimesAssumption DEF tolerated
  <2>6. QED
    BY <2>4, <2>5
<1>7. TouchedOnly(n + 1)' => PauseReleased(e)
  BY <1>2, Zenon
<1>8. config_mode \in BOOLEAN /\ latch \in BOOLEAN
  BY Zenon DEF TypeOK
<1>9. /\ config_mode' <=> PauseHeld' \/ TouchedOnly(n + 1)'
      /\ latch' <=> TouchedOnly(n + 1)'
      /\ TouchedOnly(n + 1)' => ~PauseHeld'
      /\ PauseHeld' => IF PausePressed(e)
                       THEN last_press_time' = e.time
                       ELSE last_press_time' = 0
  <2>1. CASE PausePressed(e)
    <3>1. config_mode' /\ (latch' <=> latch /\ ~config_mode) /\ last_press_time' = e.time
      BY <1>1, <1>8, <2>1, ModeOfEvent, Zenon
    <3>2. PauseHeld' /\ ~TouchedOnly(n + 1)'
      BY <1>3, <1>4, <1>7, <2>1, Zenon
    <3>3. QED
      BY <1>m, <2>1, <3>1, <3>2, Zenon
  <2>2. CASE PauseReleased(e)
    <3>1. PauseHeld /\ config_mode /\ ~latch
      BY <1>3, <1>m, <2>2, Zenon
    <3>2. ~PauseHeld'
      BY <1>3, <1>4, <2>2, Zenon
    <3>3. CASE tolerated(e)
      <4>1. config_mode' /\ latch'
        BY <1>1, <1>8, <2>2, <3>1, <3>3, ModeOfEvent, Zenon
      <4>2. QED
        BY <1>6, <2>2, <3>2, <3>3, <4>1, Zenon
    <3>4. CASE ~tolerated(e)
      <4>1. ~config_mode' /\ (latch' <=> latch)
        BY <1>1, <1>8, <2>2, <3>1, <3>4, ModeOfEvent, Zenon
      <4>2. QED
        BY <1>6, <2>2, <3>1, <3>2, <3>4, <4>1, Zenon
    <3>5. QED
      BY <3>3, <3>4
  <2>3. CASE ~PausePressed(e) /\ ~PauseReleased(e)
    <3>1. /\ config_mode' <=> config_mode /\ ~latch
          /\ latch' <=> latch /\ ~config_mode
          /\ last_press_time' = 0
      BY <1>1, <1>8, <2>3, ModeOfEvent, Zenon
    <3>2. (PauseHeld' <=> PauseHeld) /\ ~TouchedOnly(n + 1)'
      BY <1>3, <1>7, <2>3, Zenon
    <3>3. QED
      BY <1>m, <2>3, <3>1, <3>2, Zenon
  <2>4. QED
    BY <2>1, <2>2, <2>3
<1>10. Len(typed') + 1 = n + 2
  BY <1>2
<1>11. PauseHeld' <=> PauseDownBefore(Len(typed) + 1)'
  BY <1>5, <1>10, Zenon
<1>12. TouchedOnly(Len(typed))' <=> TouchedOnly(n + 1)'
  BY <1>2, Zenon
<1>13. clock' >= MINIMUM_DURATION_MSEC
  BY <1>1
<1>14. typed'[Len(typed')] = e
  BY <1>2
<1>15. QED
  BY <1>9, <1>11, <1>12, <1>13, <1>14 DEF ModeInv

LEMMA ModeNext ==
    ASSUME OneKeyboard, TypeOK, ModeInv, [Next]_vars
    PROVE  ModeInv'
<1>1. CASE Tick
  <2>1. /\ clock' >= MINIMUM_DURATION_MSEC
        /\ UNCHANGED <<config_mode, latch, last_press_time, held, typed>>
    BY <1>1, TimesAssumption DEF Tick, modeVars, TypeOK, ModeInv
  <2>2. QED
    BY <2>1 DEF ModeInv, PauseHeld, PauseDownBefore, TouchedOnly
<1>2. CASE UNCHANGED vars
  BY <1>2 DEF vars, modeVars, ModeInv, PauseHeld, PauseDownBefore, TouchedOnly
<1>3. QED
  BY <1>1, <1>2, ModeStep DEF Next

LEMMA ModeAlways == ASSUME OneKeyboard PROVE Spec => [](TypeOK /\ ModeInv)
<1>1. Init => TypeOK /\ ModeInv
  BY TypeInit, ModeInit
<1>2. TypeOK /\ ModeInv /\ [Next]_vars => (TypeOK /\ ModeInv)'
  BY TypeNext, ModeNext
<1>3. QED
  BY <1>1, <1>2, PTL DEF Spec

(***************************************************************************)
(* With one keyboard the mode is on while Pause is down and for the one    *)
(* event after a Pause only touched: config_mode and latch, four branches  *)
(* of filter_config_key_maybe apart, never disagree with the events.       *)
(***************************************************************************)
THEOREM ModeFollowsPause == ASSUME OneKeyboard PROVE Spec => []ConfigModeMeansPause
<1>1. ASSUME TypeOK, ModeInv PROVE ConfigModeMeansPause
  <2>1. Len(typed) \in Nat /\ (Len(typed) + 1) - 1 = Len(typed)
    BY <1>1, LenProperties DEF TypeOK
  <2>2. QED
    BY <1>1, <2>1 DEF ModeInv, ConfigModeMeansPause, Configuring
<1>2. QED
  BY <1>1, ModeAlways, PTL
-----------------------------------------------------------------------------
(***************************************************************************)
(* The members of a set in order: what InOrder(P, n) gives, for every n.   *)
(***************************************************************************)
LEMMA LeastOf ==
    ASSUME NEW T, T \subseteq Nat, T # {}
    PROVE  \E least \in T : \A n \in T : least <= n
<1> DEFINE R == {pair \in Nat \X Nat : pair[1] < pair[2]}
<1>1. IsWellFoundedOn(R, Nat)
  BY NatLessThanWellFounded DEF OpToRel
<1> HIDE DEF R
<1>2. PICK least \in T : \A n \in T : ~(<<n, least>> \in R)
  BY <1>1, WFMin
<1>3. ASSUME NEW n \in T PROVE least <= n
  <2>1. n \in Nat /\ least \in Nat
    OBVIOUS
  <2>2. n < least => <<n, least>> \in R
    BY <2>1 DEF R
  <2>3. QED
    BY <1>2, <2>1, <2>2
<1>4. QED
  BY <1>3

\* The largest member of a bounded set of numbers.
LEMMA MaxOf ==
    ASSUME NEW n \in Nat, NEW S, S \subseteq 1 .. n, S # {}
    PROVE  Max(S) \in S /\ \A i \in S : Max(S) >= i
<1> DEFINE T == {m \in Nat : \A i \in S : m >= i}
<1>1. n \in T
  OBVIOUS
<1>2. PICK least \in T : \A m \in T : least <= m
  BY <1>1, LeastOf
<1>3. PICK j \in S : TRUE
  OBVIOUS
<1>4. least \in Nat /\ least >= j /\ \A i \in S : least >= i /\ i \in Nat
  BY <1>2
<1>5. least \in S
  <2> SUFFICES ASSUME least \notin S PROVE FALSE
    OBVIOUS
  <2>1. least - 1 \in Nat
    BY <1>3, <1>4
  <2>2. \A i \in S : i # least /\ least >= i /\ i \in Nat
    BY <1>4
  <2>3. \A i \in S : least - 1 >= i
    BY <1>4, <2>2
  <2>4. least <= least - 1
    BY <1>2, <2>1, <2>3
  <2>5. QED
    BY <1>4, <2>4
<1>6. QED
  BY <1>4, <1>5 DEF Max

IsPick(f, n, P) ==
    f = [i \in 0 .. n |-> IF i = 0 THEN <<>>
                          ELSE IF i \in P THEN Append(f[i - 1], i) ELSE f[i - 1]]

\* What a pick is, place by place.
LEMMA PickAt ==
    ASSUME NEW n \in Nat, NEW P, NEW f, IsPick(f, n, P)
    PROVE  /\ f[0] = <<>>
           /\ \A i \in 1 .. n : f[i] = IF i \in P THEN Append(f[i - 1], i) ELSE f[i - 1]
<1>1. f[0] = <<>>
  <2>1. 0 \in 0 .. n
    OBVIOUS
  <2>2. QED
    BY <2>1 DEF IsPick
<1>2. ASSUME NEW i \in 1 .. n
      PROVE  f[i] = IF i \in P THEN Append(f[i - 1], i) ELSE f[i - 1]
  <2>1. i \in 0 .. n /\ i # 0
    OBVIOUS
  <2>2. QED
    BY <2>1 DEF IsPick
<1>3. QED
  BY <1>1, <1>2

LEMMA PickExists ==
    ASSUME NEW n \in Nat, NEW P
    PROVE  \E f : IsPick(f, n, P)
<1> DEFINE Wrong == {m \in Nat : ~\E f : IsPick(f, m, P)}
<1> SUFFICES ASSUME Wrong # {} PROVE FALSE
  OBVIOUS
<1>1. PICK m \in Wrong : \A k \in Wrong : m <= k
  BY LeastOf
<1>2. m # 0
  <2> DEFINE f == [i \in 0 .. 0 |-> <<>>]
  <2>1. IsPick(f, 0, P)
    BY DEF IsPick
  <2>2. QED
    BY <2>1
<1>3. m - 1 \in Nat /\ m - 1 \notin Wrong
  BY <1>1, <1>2
<1>4. PICK f : IsPick(f, m - 1, P)
  BY <1>3
<1> DEFINE g == [i \in 0 .. m |->
                    IF i <= m - 1 THEN f[i]
                    ELSE IF m \in P THEN Append(f[m - 1], m) ELSE f[m - 1]]
           h == [i \in 0 .. m |-> IF i = 0 THEN <<>>
                                  ELSE IF i \in P THEN Append(g[i - 1], i) ELSE g[i - 1]]
<1>5. ASSUME NEW i \in 0 .. m PROVE g[i] = h[i]
  <2>1. CASE i = 0
    BY <1>3, <1>4, <2>1, PickAt
  <2>2. CASE i \in 1 .. m - 1
    <3>1. g[i] = f[i] /\ g[i - 1] = f[i - 1]
      BY <1>3, <2>2
    <3>2. h[i] = IF i \in P THEN Append(g[i - 1], i) ELSE g[i - 1]
      BY <1>3, <2>2
    <3>3. f[i] = IF i \in P THEN Append(f[i - 1], i) ELSE f[i - 1]
      BY <1>3, <1>4, <2>2, PickAt
    <3>4. QED
      BY <3>1, <3>2, <3>3
  <2>3. CASE i = m
    <3>1. g[m] = IF m \in P THEN Append(f[m - 1], m) ELSE f[m - 1]
      BY <1>3
    <3>2. g[m - 1] = f[m - 1]
      BY <1>3
    <3>3. h[m] = IF m \in P THEN Append(g[m - 1], m) ELSE g[m - 1]
      BY <1>2, <1>3
    <3>4. QED
      BY <2>3, <3>1, <3>2, <3>3
  <2>4. QED
    BY <1>2, <1>3, <2>1, <2>2, <2>3
<1>6. g = h
  BY <1>5
<1>7. IsPick(g, m, P)
  BY <1>6 DEF IsPick
<1>8. QED
  BY <1>1, <1>7

\* Two picks agree as far as their sets do.
LEMMA PicksAgree ==
    ASSUME NEW n \in Nat, NEW m \in Nat, n <= m, NEW P, NEW Q,
           \A i \in 1 .. n : i \in P <=> i \in Q,
           NEW f, IsPick(f, n, P), NEW g, IsPick(g, m, Q)
    PROVE  \A i \in 0 .. n : f[i] = g[i]
<1> DEFINE Wrong == {i \in 0 .. n : f[i] # g[i]}
<1> SUFFICES ASSUME Wrong # {} PROVE FALSE
  OBVIOUS
<1>1. PICK k \in Wrong : \A i \in Wrong : k <= i
  <2>1. Wrong \subseteq Nat
    OBVIOUS
  <2> HIDE DEF Wrong
  <2>2. QED
    BY <2>1, LeastOf
<1>2. f[0] = g[0]
  BY PickAt
<1>3. k \in 1 .. n /\ k \in 1 .. m /\ k - 1 \in 0 .. n /\ k - 1 \notin Wrong
  BY <1>1, <1>2
<1>4. f[k - 1] = g[k - 1]
  BY <1>3
<1>5. f[k] = IF k \in P THEN Append(f[k - 1], k) ELSE f[k - 1]
  BY <1>3, PickAt
<1>6. g[k] = IF k \in Q THEN Append(g[k - 1], k) ELSE g[k - 1]
  BY <1>3, PickAt
<1>7. QED
  BY <1>1, <1>3, <1>4, <1>5, <1>6

LEMMA InOrderPicks ==
    ASSUME NEW n \in Nat, NEW P
    PROVE  \E f : IsPick(f, n, P) /\ InOrder(P, n) = f[n]
<1> DEFINE Rec(f) == [i \in 0 .. n |->
                        IF i = 0 THEN <<>>
                        ELSE IF i \in P THEN Append(f[i - 1], i) ELSE f[i - 1]]
           F == CHOOSE f : f = Rec(f)
<1>1. \E f : f = Rec(f)
  <2>1. PICK f : IsPick(f, n, P)
    BY PickExists
  <2>2. f = Rec(f)
    BY <2>1 DEF IsPick
  <2>3. QED
    BY <2>2
<1>2. F = Rec(F)
  <2> HIDE DEF Rec
  <2>1. QED
    BY <1>1
<1>3. InOrder(P, n) = F[n]
  BY DEF InOrder
<1>4. IsPick(F, n, P)
  BY <1>2 DEF IsPick
<1>5. QED
  BY <1>3, <1>4

LEMMA InOrderNone == ASSUME NEW P PROVE InOrder(P, 0) = <<>>
<1>1. 0 \in Nat
  OBVIOUS
<1>2. QED
  BY <1>1, InOrderPicks, PickAt

\* One more number.
LEMMA InOrderMore ==
    ASSUME NEW n \in Nat, NEW P, NEW Q, \A i \in 1 .. n : i \in P <=> i \in Q
    PROVE  InOrder(Q, n + 1) =
               IF n + 1 \in Q THEN Append(InOrder(P, n), n + 1) ELSE InOrder(P, n)
<1>1. PICK f : IsPick(f, n, P) /\ InOrder(P, n) = f[n]
  BY InOrderPicks
<1>2. PICK g : IsPick(g, n + 1, Q) /\ InOrder(Q, n + 1) = g[n + 1]
  <2>1. n + 1 \in Nat
    OBVIOUS
  <2>2. QED
    BY <2>1, InOrderPicks
<1>3. f[n] = g[n]
  <2>1. n + 1 \in Nat /\ n <= n + 1 /\ n \in 0 .. n
    OBVIOUS
  <2>2. \A i \in 0 .. n : f[i] = g[i]
    BY <1>1, <1>2, <2>1, PicksAgree
  <2>3. QED
    BY <2>1, <2>2
<1>4. g[n + 1] = IF n + 1 \in Q THEN Append(g[n], n + 1) ELSE g[n]
  <2>1. n + 1 \in 1 .. n + 1 /\ (n + 1) - 1 = n /\ n + 1 \in Nat
    OBVIOUS
  <2>2. QED
    BY <1>2, <2>1, PickAt
<1>5. QED
  BY <1>1, <1>2, <1>3, <1>4

LEMMA InOrderSeq ==
    ASSUME NEW n \in Nat, NEW P
    PROVE  InOrder(P, n) \in Seq(1 .. n)
<1>1. PICK f : IsPick(f, n, P) /\ InOrder(P, n) = f[n]
  BY InOrderPicks
<1> DEFINE Wrong == {i \in 0 .. n : f[i] \notin Seq(1 .. n)}
<1> SUFFICES ASSUME Wrong # {} PROVE FALSE
  BY <1>1
<1>2. PICK k \in Wrong : \A i \in Wrong : k <= i
  <2>1. Wrong \subseteq Nat
    OBVIOUS
  <2> HIDE DEF Wrong
  <2>2. QED
    BY <2>1, LeastOf
<1>3. f[0] = <<>> /\ <<>> \in Seq(1 .. n)
  BY <1>1, PickAt
<1>4. k \in 1 .. n /\ k - 1 \in 0 .. n /\ k - 1 \notin Wrong
  <2>1. k \in 0 .. n /\ k # 0
    BY <1>3
  <2>2. k - 1 \in 0 .. n /\ ~(k <= k - 1)
    BY <2>1
  <2>3. QED
    BY <1>2, <2>1, <2>2
<1>5. f[k] = IF k \in P THEN Append(f[k - 1], k) ELSE f[k - 1]
  BY <1>1, <1>4, PickAt
<1>6. f[k - 1] \in Seq(1 .. n) /\ Append(f[k - 1], k) \in Seq(1 .. n)
  BY <1>4, AppendProperties
<1>7. QED
  BY <1>2, <1>5, <1>6
-----------------------------------------------------------------------------
(***************************************************************************)
(* What one more event does to the places that are passed on and to those  *)
(* that configure.                                                         *)
(***************************************************************************)
LEMMA OneMorePlace ==
    ASSUME OneKeyboard, NEW s \in Seq(Events), NEW e \in Events, NEW n, typed = s,
           n = Len(s), typed' = Append(s, e)
    PROVE  /\ \A i \in 1 .. n : i \in OtherPlaces' <=> i \in OtherPlaces
           /\ \A i \in 1 .. n : i \in ConfigurePlaces' <=> i \in ConfigurePlaces
           /\ n + 1 \in OtherPlaces' <=> ~PausePressed(e) /\ ~TouchedOnly(n + 1)'
           /\ n + 1 \in ConfigurePlaces' <=>
                  press_p(e) /\ e.key \in Keys /\ Configuring(n + 1)
<1>1. /\ n \in Nat /\ DOMAIN typed = 1 .. n /\ DOMAIN typed' = 1 .. n + 1
      /\ typed'[n + 1] = e
      /\ \A i \in 1 .. n : typed'[i] = typed[i]
  BY AppendProperties, LenProperties
<1>2. /\ \A i \in 1 .. n : TouchedOnly(i)' <=> TouchedOnly(i)
      /\ \A i \in 1 .. n + 1 : PauseDownBefore(i)' <=> PauseDownBefore(i)
  BY OneMoreTyped
<1>3. ASSUME NEW i \in 1 .. n + 1 PROVE Configuring(i)' <=> Configuring(i)
  <2>1. TouchedOnly(i - 1)' <=> TouchedOnly(i - 1)
    <3>1. CASE i = 1
      BY <3>1 DEF TouchedOnly
    <3>2. CASE i # 1
      <4>1. i - 1 \in 1 .. n
        BY <1>1, <3>2
      <4>2. QED
        BY <1>2, <4>1
    <3>3. QED
      BY <3>1, <3>2
  <2>2. PauseDownBefore(i)' <=> PauseDownBefore(i)
    BY <1>2
  <2>3. QED
    BY <2>1, <2>2, Zenon DEF Configuring
<1>4. ASSUME NEW i \in 1 .. n
      PROVE  /\ i \in OtherPlaces' <=> i \in OtherPlaces
             /\ i \in ConfigurePlaces' <=> i \in ConfigurePlaces
  <2>1. i \in DOMAIN typed /\ i \in DOMAIN typed' /\ i \in 1 .. n + 1
    BY <1>1
  <2>2. /\ typed'[i] = typed[i] /\ (TouchedOnly(i)' <=> TouchedOnly(i))
        /\ Configuring(i)' <=> Configuring(i)
    BY <1>1, <1>2, <1>3, <2>1
  <2>3. i \in OtherPlaces' <=> i \in OtherPlaces
    BY <2>1, <2>2 DEF OtherPlaces
  <2>4. i \in ConfigurePlaces' <=> i \in ConfigurePlaces
    BY <2>1, <2>2 DEF ConfigurePlaces
  <2>5. QED
    BY <2>3, <2>4
<1>5. n + 1 \in DOMAIN typed' /\ n + 1 \in 1 .. n + 1
  BY <1>1
<1>6. n + 1 \in OtherPlaces' <=> ~PausePressed(e) /\ ~TouchedOnly(n + 1)'
  BY <1>1, <1>5 DEF OtherPlaces
<1>7. n + 1 \in ConfigurePlaces' <=>
          press_p(e) /\ e.key \in Keys /\ Configuring(n + 1)
  <2>1. Configuring(n + 1)' <=> Configuring(n + 1)
    BY <1>3, <1>5
  <2>2. n + 1 \in ConfigurePlaces' <=>
            press_p(e) /\ e.key \in Keys /\ Configuring(n + 1)'
    BY <1>1, <1>5 DEF ConfigurePlaces
  <2>3. QED
    BY <2>1, <2>2, Zenon
<1>8. QED
  BY <1>4, <1>6, <1>7

\* An event is kept when it is a press of Pause or sets the latch.
LEMMA KeptForPause ==
    ASSUME NEW e, filter_config_key_maybe(e),
           config_mode \in BOOLEAN, latch \in BOOLEAN, latch => config_mode
    PROVE  \/ passed' = passed /\ (PausePressed(e) \/ latch')
           \/ /\ passed' = Append(passed, e) /\ ~PausePressed(e)
              /\ ~(config_mode' /\ latch')
<1>1. CASE Latch(e)
  BY <1>1, Zenon DEF Latch, keep
<1>2. CASE LeaveConfigMode(e)
  <2>1. ~config_mode' /\ passed' = Append(passed, e) /\ PauseReleased(e)
    BY <1>2, Zenon DEF LeaveConfigMode, pass
  <2>2. ~PausePressed(e)
    BY <2>1 DEF PausePressed, PauseReleased, press_p, release_p
  <2>3. QED
    BY <2>1, <2>2, Zenon
<1>3. CASE Configure(e)
  <2>1. ~latch' /\ passed' = Append(passed, e) /\ e.key # PAUSE
    BY <1>3, Zenon DEF Configure, pass
  <2>2. ~PausePressed(e)
    BY <2>1, Zenon DEF PausePressed
  <2>3. QED
    BY <2>1, <2>2, Zenon
<1>4. CASE EnterConfigMode(e)
  BY <1>4, Zenon DEF EnterConfigMode, keep
<1>5. CASE PassOn(e)
  <2>1. ~config_mode /\ ~PausePressed(e) /\ passed' = Append(passed, e)
    BY <1>5, Zenon DEF PassOn, pass
  <2>2. latch' <=> latch
    BY <1>5, Zenon DEF PassOn
  <2>3. QED
    BY <2>1, <2>2, Zenon
<1>6. QED
  BY <1>1, <1>2, <1>3, <1>4, <1>5, Zenon DEF filter_config_key_maybe

LEMMA PassedInit == Init => OnlyPauseIsKept
<1> SUFFICES ASSUME Init PROVE OnlyPauseIsKept
  OBVIOUS
<1>1. Len(typed) = 0 /\ passed = <<>>
  BY DEF Init
<1>2. InOrder(OtherPlaces, Len(typed)) = <<>>
  BY <1>1, InOrderNone
<1>3. QED
  BY <1>1, <1>2 DEF OnlyPauseIsKept

LEMMA PassedStep ==
    ASSUME OneKeyboard, TypeOK, ModeInv, TypeOK', ModeInv', OnlyPauseIsKept,
           NEW kbd \in Keyboards, NEW key \in Buttons,
           NEW kind \in {"press", "release"}, Type(kbd, key, kind)
    PROVE  OnlyPauseIsKept'
<1> DEFINE e == [keyboard |-> kbd, key |-> key, kind |-> kind, time |-> clock]
<1>1. PICK s \in Seq(Events), n \in Nat, d \in Events :
          /\ s = typed /\ n = Len(s) /\ d = e
          /\ typed' = Append(s, d) /\ filter_config_key_maybe(d)
  BY TypedEvent, LenProperties DEF TypeOK, Type
<1> HIDE DEF e
<1>2. /\ \A i \in 1 .. n : i \in OtherPlaces <=> i \in OtherPlaces'
      /\ n + 1 \in OtherPlaces' <=> ~PausePressed(d) /\ ~TouchedOnly(n + 1)'
  BY <1>1, OneMorePlace
<1>3. Len(typed') = n + 1 /\ typed'[n + 1] = d /\ \A i \in 1 .. n : typed'[i] = s[i]
  BY <1>1, AppendProperties
<1>4. passed' = IF n + 1 \in OtherPlaces' THEN Append(passed, d) ELSE passed
  <2>1. /\ latch <=> TouchedOnly(n)
        /\ config_mode <=> PauseHeld \/ TouchedOnly(n)
    BY <1>1, Zenon DEF ModeInv
  <2>2. latch' <=> TouchedOnly(Len(typed))'
    BY Zenon DEF ModeInv
  <2>3. config_mode' <=> PauseHeld' \/ TouchedOnly(Len(typed))'
    BY Zenon DEF ModeInv
  <2>4. TouchedOnly(Len(typed))' <=> TouchedOnly(n + 1)'
    BY <1>3, Zenon
  <2>5. config_mode \in BOOLEAN /\ latch \in BOOLEAN
    BY Zenon DEF TypeOK
  <2>6. \/ passed' = passed /\ (PausePressed(d) \/ latch')
        \/ passed' = Append(passed, d) /\ ~PausePressed(d) /\ ~(config_mode' /\ latch')
    <3>1. latch => config_mode
      BY <2>1, Zenon
    <3>2. QED
      BY <1>1, <2>5, <3>1, KeptForPause, Zenon
  <2>7. CASE passed' = passed /\ (PausePressed(d) \/ latch')
    <3>1. n + 1 \notin OtherPlaces'
      BY <1>2, <2>2, <2>4, <2>7, Zenon
    <3>2. QED
      BY <2>7, <3>1
  <2>8. CASE passed' = Append(passed, d) /\ ~PausePressed(d) /\ ~(config_mode' /\ latch')
    <3>1. n + 1 \in OtherPlaces'
      BY <1>2, <2>2, <2>3, <2>4, <2>8, Zenon
    <3>2. QED
      BY <2>8, <3>1
  <2>9. QED
    BY <2>6, <2>7, <2>8
<1>5. PICK o, o2 : /\ o = InOrder(OtherPlaces, n) /\ o \in Seq(1 .. n)
                   /\ o2 = InOrder(OtherPlaces', n + 1)
                   /\ o2 = IF n + 1 \in OtherPlaces' THEN Append(o, n + 1) ELSE o
  <2>1. InOrder(OtherPlaces, n) \in Seq(1 .. n)
    BY <1>1, InOrderSeq
  <2>2. InOrder(OtherPlaces', n + 1) =
            IF n + 1 \in OtherPlaces' THEN Append(InOrder(OtherPlaces, n), n + 1)
            ELSE InOrder(OtherPlaces, n)
    BY <1>1, <1>2, InOrderMore
  <2>3. QED
    BY <2>1, <2>2
<1>6. passed = [i \in DOMAIN o |-> s[o[i]]]
  BY <1>1, <1>5 DEF OnlyPauseIsKept
<1>7. passed' = [i \in DOMAIN o2 |-> typed'[o2[i]]]
  <2>1. \A i \in DOMAIN o : o[i] \in 1 .. n
    BY <1>5
  <2>2. passed = [i \in DOMAIN o |-> typed'[o[i]]]
    BY <1>3, <1>6, <2>1
  <2>3. CASE n + 1 \in OtherPlaces'
    <3>1. passed \in Seq(Events) /\ Append(o, n + 1) = o2 /\ passed' = Append(passed, d)
      BY <1>4, <1>5, <2>3 DEF TypeOK
    <3>2. DOMAIN o = 1 .. Len(o) /\ DOMAIN o2 = 1 .. Len(o) + 1 /\ Len(o) \in Nat
      BY <1>1, <1>5, <3>1
    <3>3. /\ \A i \in 1 .. Len(o) : o2[i] = o[i]
          /\ o2[Len(o) + 1] = n + 1
      <4>1. o \in Seq(Nat) /\ n + 1 \in Nat
        BY <1>5
      <4>2. /\ \A i \in 1 .. Len(o) : Append(o, n + 1)[i] = o[i]
            /\ Append(o, n + 1)[Len(o) + 1] = n + 1
        BY <4>1, AppendProperties
      <4>3. QED
        BY <3>1, <4>2
    <3>4. Len(passed) = Len(o)
      BY <2>2, <3>1, <3>2, LenProperties
    <3>5. /\ DOMAIN passed' = 1 .. Len(o) + 1
          /\ \A i \in 1 .. Len(o) : passed'[i] = passed[i]
          /\ passed'[Len(o) + 1] = d
      BY <1>1, <3>1, <3>4, AppendProperties
    <3>6. passed' = [i \in 1 .. Len(o) + 1 |-> passed'[i]]
      <4>1. passed' \in Seq(Events)
        BY DEF TypeOK
      <4>2. QED
        BY <3>5, <4>1, LenProperties
    <3>7. \A i \in 1 .. Len(o) + 1 : passed'[i] = typed'[o2[i]]
      BY <1>3, <2>2, <3>2, <3>3, <3>5
    <3>8. QED
      BY <3>2, <3>6, <3>7
  <2>4. CASE n + 1 \notin OtherPlaces'
    BY <1>4, <1>5, <2>2, <2>4
  <2>5. QED
    BY <2>3, <2>4
<1>8. QED
  BY <1>3, <1>5, <1>7 DEF OnlyPauseIsKept

(***************************************************************************)
(* With one keyboard the machine is given every event but the presses of   *)
(* Pause and the releases of a Pause only touched.                         *)
(***************************************************************************)
THEOREM OnlyPauseStaysBehind == ASSUME OneKeyboard PROVE Spec => []OnlyPauseIsKept
<1>1. /\ TypeOK /\ ModeInv /\ (TypeOK /\ ModeInv)' /\ OnlyPauseIsKept /\ [Next]_vars
      => OnlyPauseIsKept'
  <2> SUFFICES ASSUME TypeOK, ModeInv, TypeOK', ModeInv', OnlyPauseIsKept, [Next]_vars
               PROVE  OnlyPauseIsKept'
    OBVIOUS
  <2>1. ASSUME UNCHANGED <<typed, passed>> PROVE OnlyPauseIsKept'
    BY <2>1 DEF OnlyPauseIsKept, OtherPlaces, TouchedOnly
  <2>2. QED
    BY <2>1, PassedStep DEF Next, Tick, vars
<1>2. QED
  BY <1>1, PassedInit, ModeAlways, PTL DEF Spec
-----------------------------------------------------------------------------
(***************************************************************************)
(* The fork that keys pressed in pairs give, and what one more key does.   *)
(***************************************************************************)
PairsOf(s, keys, kbd, from) ==
    {n \in 1 .. Len(keys) \div 2 :
        s[keys[2 * n - 1]].key = from /\ s[keys[2 * n]].keyboard = kbd}

ForkOf(s, keys, kbd, from) ==
    LET pairs == PairsOf(s, keys, kbd, from)
    IN  IF pairs = {} THEN NoKey ELSE s[keys[2 * Max(pairs)]].key

\* A pair's keys are among the keys.
LEMMA InPair ==
    ASSUME NEW len \in Nat, NEW j \in 1 .. len \div 2
    PROVE  2 * j - 1 \in 1 .. len /\ 2 * j \in 1 .. len /\ len \div 2 \in Nat
BY SMTT(30)

\* The keys of places in s, with at most one more, and no pair more.
SamePairs(s, s2, n, keys, keys2) ==
    /\ n \in Nat /\ keys \in Seq(1 .. n)
    /\ Len(keys2) \div 2 = Len(keys) \div 2
    /\ \A i \in 1 .. Len(keys) : keys2[i] = keys[i]
    /\ \A i \in 1 .. n : s2[i] = s[i]

\* The last key waits for its fork, and the next one comes.
OnePairMore(s, s2, n, keys, keys2) ==
    /\ n \in Nat /\ keys \in Seq(1 .. n)
    /\ Len(keys) % 2 = 1 /\ keys2 = Append(keys, n + 1)
    /\ \A i \in 1 .. n : s2[i] = s[i]

LEMMA ForkOfSame ==
    ASSUME NEW s, NEW s2, NEW n, NEW keys, NEW keys2, SamePairs(s, s2, n, keys, keys2),
           NEW kbd, NEW from
    PROVE  ForkOf(s2, keys2, kbd, from) = ForkOf(s, keys, kbd, from)
<1> USE DEF SamePairs
<1>1. Len(keys) \in Nat /\ \A i \in 1 .. Len(keys) : keys[i] \in 1 .. n
  BY ElementOfSeq, LenProperties
<1>2. ASSUME NEW i \in 1 .. Len(keys) PROVE s2[keys2[i]] = s[keys[i]]
  BY <1>1
<1>3. PairsOf(s2, keys2, kbd, from) = PairsOf(s, keys, kbd, from)
  <2>1. ASSUME NEW j \in 1 .. Len(keys) \div 2
        PROVE  /\ s2[keys2[2 * j - 1]] = s[keys[2 * j - 1]]
               /\ s2[keys2[2 * j]] = s[keys[2 * j]]
    BY <1>1, <1>2, InPair
  <2>2. QED
    BY <2>1 DEF PairsOf
<1> DEFINE pairs == PairsOf(s, keys, kbd, from)
<1>4. ASSUME pairs # {} PROVE s2[keys2[2 * Max(pairs)]] = s[keys[2 * Max(pairs)]]
  <2>1. pairs \subseteq 1 .. Len(keys) \div 2
    BY DEF PairsOf
  <2>2. Len(keys) \div 2 \in Nat
    BY <1>1, SMTT(30)
  <2> HIDE DEF pairs
  <2>3. Max(pairs) \in 1 .. Len(keys) \div 2
    BY <1>4, <2>1, <2>2, MaxOf
  <2>4. QED
    BY <1>1, <1>2, <2>3, InPair
<1>5. QED
  BY <1>3, <1>4 DEF ForkOf

LEMMA ForkOfPair ==
    ASSUME NEW s, NEW s2, NEW n, NEW keys, NEW keys2, OnePairMore(s, s2, n, keys, keys2),
           NEW kbd, NEW from
    PROVE  ForkOf(s2, keys2, kbd, from) =
               IF s2[n + 1].keyboard = kbd /\ s[keys[Len(keys)]].key = from
               THEN s2[n + 1].key
               ELSE ForkOf(s, keys, kbd, from)
<1> USE DEF OnePairMore
<1>1. Len(keys) \in Nat /\ \A i \in 1 .. Len(keys) : keys[i] \in 1 .. n
  BY ElementOfSeq, LenProperties
<1> DEFINE m == Len(keys) \div 2
<1>2. m \in Nat /\ Len(keys) = 2 * m + 1
  BY <1>1, SMTT(30)
<1> HIDE DEF m
<1>3. /\ Len(keys2) = 2 * m + 2
      /\ keys2[2 * m + 2] = n + 1
      /\ \A i \in 1 .. 2 * m + 1 : keys2[i] = keys[i]
  <2>1. keys \in Seq(Nat) /\ n + 1 \in Nat
    OBVIOUS
  <2>2. /\ Len(keys2) = Len(keys) + 1
        /\ keys2[Len(keys) + 1] = n + 1
        /\ \A i \in 1 .. Len(keys) : keys2[i] = keys[i]
    BY <2>1, AppendProperties
  <2>3. Len(keys) + 1 = 2 * m + 2
    BY <1>2
  <2>4. QED
    BY <1>2, <2>2, <2>3
<1>4. ASSUME NEW i \in 1 .. 2 * m + 1 PROVE s2[keys2[i]] = s[keys[i]]
  BY <1>1, <1>2, <1>3
<1>5. Len(keys2) \div 2 = m + 1
  BY <1>2, <1>3, SMTT(30)
<1> DEFINE pairs  == PairsOf(s, keys, kbd, from)
           pairs2 == PairsOf(s2, keys2, kbd, from)
           added  == s2[n + 1].keyboard = kbd /\ s[keys[Len(keys)]].key = from
<1>6. pairs \subseteq 1 .. m /\ pairs2 \subseteq 1 .. m + 1
  BY <1>5 DEF PairsOf, m
<1>7. ASSUME NEW j \in 1 .. m PROVE j \in pairs2 <=> j \in pairs
  <2>1. /\ 2 * j - 1 \in 1 .. 2 * m + 1 /\ 2 * j \in 1 .. 2 * m + 1
        /\ j \in 1 .. m + 1
    BY <1>2
  <2>2. /\ s2[keys2[2 * j - 1]] = s[keys[2 * j - 1]]
        /\ s2[keys2[2 * j]] = s[keys[2 * j]]
    BY <1>4, <2>1
  <2>3. j \in pairs2 <=> /\ s2[keys2[2 * j - 1]].key = from
                         /\ s2[keys2[2 * j]].keyboard = kbd
    BY <1>5, <2>1 DEF PairsOf
  <2>4. j \in pairs <=> /\ s[keys[2 * j - 1]].key = from
                        /\ s[keys[2 * j]].keyboard = kbd
    BY DEF PairsOf, m
  <2>5. QED
    BY <2>2, <2>3, <2>4
<1>8. m + 1 \in pairs2 <=> added
  <2>1. /\ 2 * (m + 1) - 1 = 2 * m + 1 /\ 2 * (m + 1) = 2 * m + 2
        /\ m + 1 \in 1 .. m + 1 /\ 2 * m + 1 \in 1 .. 2 * m + 1
    BY <1>2
  <2>2. m + 1 \in pairs2 <=> /\ s2[keys2[2 * (m + 1) - 1]].key = from
                             /\ s2[keys2[2 * (m + 1)]].keyboard = kbd
    BY <1>5, <2>1 DEF PairsOf
  <2>3. /\ s2[keys2[2 * (m + 1) - 1]] = s[keys[Len(keys)]]
        /\ s2[keys2[2 * (m + 1)]] = s2[n + 1]
    BY <1>2, <1>3, <1>4, <2>1
  <2>4. QED
    BY <2>2, <2>3
<1>a. ForkOf(s2, keys2, kbd, from) =
          IF pairs2 = {} THEN NoKey ELSE s2[keys2[2 * Max(pairs2)]].key
  BY DEF ForkOf
<1>b. ForkOf(s, keys, kbd, from) = IF pairs = {} THEN NoKey ELSE s[keys[2 * Max(pairs)]].key
  BY DEF ForkOf
<1> HIDE DEF pairs, pairs2
<1>9. CASE added
  <2>1. m + 1 \in pairs2 /\ m + 1 \in Nat
    BY <1>2, <1>8, <1>9
  <2>2. Max(pairs2) \in pairs2 /\ Max(pairs2) >= m + 1
    BY <1>6, <2>1, MaxOf
  <2>3. Max(pairs2) = m + 1 /\ 2 * Max(pairs2) = 2 * m + 2
    <3>1. Max(pairs2) \in 1 .. m + 1
      BY <1>6, <2>2
    <3>2. \A i \in 1 .. m + 1 : i >= m + 1 => i = m + 1 /\ 2 * i = 2 * m + 2
      BY <1>2
    <3>3. QED
      BY <2>2, <3>1, <3>2
  <2>4. QED
    BY <1>3, <1>9, <1>a, <2>1, <2>3
<1>10. CASE ~added
  <2>1. pairs2 = pairs
    <3>1. \A j \in 1 .. m + 1 : j \in 1 .. m \/ j = m + 1
      BY <1>2
    <3>2. \A j \in 1 .. m + 1 : j \in pairs2 => j \in pairs
      BY <1>7, <1>8, <1>10, <3>1
    <3>3. QED
      BY <1>6, <1>7, <3>2
  <2>2. CASE pairs = {}
    BY <1>10, <1>a, <1>b, <2>1, <2>2
  <2>3. CASE pairs # {}
    <3>1. Max(pairs) \in 1 .. m
      BY <1>2, <1>6, <2>3, MaxOf
    <3>2. 2 * Max(pairs) \in 1 .. 2 * m + 1
      BY <1>2, <3>1
    <3>3. s2[keys2[2 * Max(pairs)]] = s[keys[2 * Max(pairs)]]
      BY <1>4, <3>2
    <3>4. QED
      BY <1>10, <1>a, <1>b, <2>1, <2>3, <3>3
  <2>4. QED
    BY <2>2, <2>3
<1>11. QED
  BY <1>9, <1>10
-----------------------------------------------------------------------------
(***************************************************************************)
(* The key that waits for its fork is the last one pressed to configure,   *)
(* when their number is odd.                                               *)
(***************************************************************************)
PairsInv ==
    /\ Len(ConfiguredBy) % 2 = 0 => key_to_fork = NoKey
    /\ Len(ConfiguredBy) % 2 = 1 =>
          /\ key_to_fork \in Keys
          /\ key_to_fork = typed[ConfiguredBy[Len(ConfiguredBy)]].key
    /\ \A kbd \in Keyboards, from \in Keys :
          fork_keycode[kbd][from] = ForkOf(typed, ConfiguredBy, kbd, from)

LEMMA PairsSayForks == PairsInv => ForksAsTyped
BY DEF PairsInv, ForksAsTyped, ForkOf, PairsOf, Assigned

LEMMA PairsInit == Init => PairsInv
<1> SUFFICES ASSUME Init PROVE PairsInv
  OBVIOUS
<1>1. typed = <<>> /\ Len(typed) = 0 /\ key_to_fork = NoKey
  BY DEF Init
<1>2. ConfiguredBy = <<>>
  BY <1>1, InOrderNone DEF ConfiguredBy
<1>3. Len(ConfiguredBy) = 0 /\ 0 % 2 = 0 /\ 0 \div 2 = 0
  <2>1. Len(<<>>) = 0
    OBVIOUS
  <2>2. 0 % 2 = 0 /\ 0 \div 2 = 0
    BY SMTT(30)
  <2>3. QED
    BY <1>2, <2>1, <2>2
<1>4. ASSUME NEW kbd \in Keyboards, NEW from \in Keys
      PROVE  fork_keycode[kbd][from] = ForkOf(typed, ConfiguredBy, kbd, from)
  <2>1. PairsOf(typed, ConfiguredBy, kbd, from) = {}
    BY <1>3 DEF PairsOf
  <2>2. QED
    BY <2>1 DEF ForkOf, Init
<1>5. QED
  BY <1>1, <1>3, <1>4 DEF PairsInv

\* Forks change by a key of the switch's default: in config mode, and not else.
LEMMA ForksOfEvent ==
    ASSUME NEW e, filter_config_key_maybe(e), config_mode \in BOOLEAN
    PROVE  /\ config_mode /\ press_p(e) /\ e.key \in Keys => RememberFrom(e) \/ AssignTo(e)
           /\ ~(config_mode /\ press_p(e) /\ e.key \in Keys) =>
                  key_to_fork' = key_to_fork /\ fork_keycode' = fork_keycode
<1>1. e.key \in Keys => e.key # PAUSE
  BY KeysAssumption
<1>2. CASE Latch(e)
  BY <1>1, <1>2, Zenon DEF Latch, PauseReleased
<1>3. CASE LeaveConfigMode(e)
  BY <1>1, <1>3, Zenon DEF LeaveConfigMode, PauseReleased
<1>4. CASE Configure(e)
  BY <1>4, Zenon DEF Configure, handle_config_key
<1>5. CASE EnterConfigMode(e)
  BY <1>1, <1>5, Zenon DEF EnterConfigMode, PausePressed
<1>6. CASE PassOn(e)
  BY <1>6, Zenon DEF PassOn
<1>7. QED
  BY <1>2, <1>3, <1>4, <1>5, <1>6, Zenon DEF filter_config_key_maybe

LEMMA PairsStep ==
    ASSUME OneKeyboard, TypeOK, ModeInv, PairsInv,
           NEW kbd \in Keyboards, NEW key \in Buttons,
           NEW kind \in {"press", "release"}, Type(kbd, key, kind)
    PROVE  PairsInv'
<1> DEFINE e == [keyboard |-> kbd, key |-> key, kind |-> kind, time |-> clock]
<1>1. PICK s \in Seq(Events), n \in Nat, d \in Events :
          /\ s = typed /\ n = Len(s) /\ d = e
          /\ typed' = Append(s, d) /\ filter_config_key_maybe(d)
  BY TypedEvent, LenProperties DEF TypeOK, Type
<1> HIDE DEF e
<1>2. PICK s2 : s2 = typed'
  OBVIOUS
<1>3. Len(s2) = n + 1 /\ s2[n + 1] = d /\ \A i \in 1 .. n : s2[i] = s[i]
  BY <1>1, <1>2, AppendProperties
<1>4. /\ \A i \in 1 .. n : i \in ConfigurePlaces <=> i \in ConfigurePlaces'
      /\ n + 1 \in ConfigurePlaces' <=>
             press_p(d) /\ d.key \in Keys /\ Configuring(n + 1)
  BY <1>1, OneMorePlace
<1>5. config_mode <=> Configuring(n + 1)
  <2>1. (n + 1) - 1 = n
    BY <1>1
  <2>2. (config_mode <=> PauseHeld \/ TouchedOnly(n)) /\ (PauseHeld <=> PauseDownBefore(n + 1))
    BY <1>1, Zenon DEF ModeInv
  <2>3. Configuring(n + 1) <=> PauseDownBefore(n + 1) \/ TouchedOnly(n)
    BY <2>1 DEF Configuring
  <2>4. QED
    BY <2>2, <2>3, Zenon
<1>6. PICK k, k2 : /\ k = ConfiguredBy /\ k2 = ConfiguredBy' /\ k \in Seq(1 .. n)
                   /\ k2 = IF n + 1 \in ConfigurePlaces' THEN Append(k, n + 1) ELSE k
  <2>1. InOrder(ConfigurePlaces, n) \in Seq(1 .. n)
    BY <1>1, InOrderSeq
  <2>2. InOrder(ConfigurePlaces', n + 1) =
            IF n + 1 \in ConfigurePlaces' THEN Append(InOrder(ConfigurePlaces, n), n + 1)
            ELSE InOrder(ConfigurePlaces, n)
    BY <1>1, <1>4, InOrderMore
  <2>3. ConfiguredBy = InOrder(ConfigurePlaces, n)
    BY <1>1 DEF ConfiguredBy
  <2>4. ConfiguredBy' = InOrder(ConfigurePlaces', n + 1)
    BY <1>2, <1>3 DEF ConfiguredBy
  <2>5. QED
    BY <2>1, <2>2, <2>3, <2>4
<1>7. /\ Len(k) % 2 = 0 => key_to_fork = NoKey
      /\ Len(k) % 2 = 1 => key_to_fork \in Keys /\ key_to_fork = s[k[Len(k)]].key
      /\ \A b \in Keyboards, from \in Keys : fork_keycode[b][from] = ForkOf(s, k, b, from)
  BY <1>1, <1>6 DEF PairsInv
<1>8. Len(k) \in Nat /\ (Len(k) % 2 = 0 \/ Len(k) % 2 = 1)
  <2>1. Len(k) \in Nat
    BY <1>6, LenProperties
  <2>2. QED
    BY <2>1, SMTT(30)
<1>9. config_mode \in BOOLEAN
  BY Zenon DEF TypeOK
<1>10. /\ Len(k2) % 2 = 0 => key_to_fork' = NoKey
       /\ Len(k2) % 2 = 1 => key_to_fork' \in Keys /\ key_to_fork' = s2[k2[Len(k2)]].key
       /\ \A b \in Keyboards, from \in Keys : fork_keycode'[b][from] = ForkOf(s2, k2, b, from)
  <2>1. CASE n + 1 \notin ConfigurePlaces'
    <3>1. ~(config_mode /\ press_p(d) /\ d.key \in Keys)
      BY <1>4, <1>5, <2>1, Zenon
    <3>2. filter_config_key_maybe(d)
      BY <1>1
    <3>3. key_to_fork' = key_to_fork /\ fork_keycode' = fork_keycode
      BY <1>9, <3>1, <3>2, ForksOfEvent, Zenon
    <3>4. k2 = k
      BY <1>6, <2>1
    <3>5. ASSUME NEW b \in Keyboards, NEW from \in Keys
          PROVE  fork_keycode'[b][from] = ForkOf(s2, k2, b, from)
      <4>1. ForkOf(s2, k, b, from) = ForkOf(s, k, b, from)
        <5>1. k \in Seq(1 .. n) /\ \A i \in 1 .. Len(k) : k[i] = k[i]
          BY <1>6
        <5>2. \A i \in 1 .. n : s2[i] = s[i]
          BY <1>3
        <5>3. SamePairs(s, s2, n, k, k)
          BY <5>1, <5>2 DEF SamePairs
        <5>4. QED
          BY <5>3, ForkOfSame
      <4>2. QED
        BY <1>7, <3>3, <3>4, <4>1
    <3>6. Len(k) % 2 = 1 => s2[k[Len(k)]] = s[k[Len(k)]]
      <4>1. Len(k) % 2 = 1 => Len(k) \in 1 .. Len(k)
        BY <1>8, SMTT(30)
      <4>2. Len(k) % 2 = 1 => k[Len(k)] \in 1 .. n
        BY <1>6, <4>1, ElementOfSeq
      <4>3. QED
        BY <1>3, <4>2
    <3>7. QED
      BY <1>7, <3>3, <3>4, <3>5, <3>6
  <2>2. CASE n + 1 \in ConfigurePlaces'
    <3>1. config_mode /\ press_p(d) /\ d.key \in Keys
      BY <1>4, <1>5, <2>2, Zenon
    <3>2. filter_config_key_maybe(d)
      BY <1>1
    <3>3. RememberFrom(d) \/ AssignTo(d)
      BY <1>9, <3>1, <3>2, ForksOfEvent, Zenon
    <3>4. k2 = Append(k, n + 1) /\ Len(k2) = Len(k) + 1 /\ k2[Len(k2)] = n + 1
          /\ \A i \in 1 .. Len(k) : k2[i] = k[i]
      <4>1. k \in Seq(Nat) /\ n + 1 \in Nat
        BY <1>6
      <4>2. k2 = Append(k, n + 1)
        BY <1>6, <2>2
      <4>3. /\ Len(Append(k, n + 1)) = Len(k) + 1
            /\ Append(k, n + 1)[Len(k) + 1] = n + 1
            /\ \A i \in 1 .. Len(k) : Append(k, n + 1)[i] = k[i]
        BY <4>1, AppendProperties
      <4>4. QED
        BY <4>2, <4>3
    <3>5. CASE Len(k) % 2 = 0
      <4>1. Len(k2) % 2 = 1 /\ Len(k2) \div 2 = Len(k) \div 2
        BY <1>8, <3>4, <3>5, SMTT(30)
      <4>2. key_to_fork = NoKey
        BY <1>7, <3>5
      <4>3. key_to_fork' = d.key /\ fork_keycode' = fork_keycode
        BY <3>3, <4>2 DEF RememberFrom, AssignTo
      <4>4. s2[k2[Len(k2)]] = d
        BY <1>3, <3>4
      <4>5. ASSUME NEW b \in Keyboards, NEW from \in Keys
            PROVE  fork_keycode'[b][from] = ForkOf(s2, k2, b, from)
        <5>1. ForkOf(s2, k2, b, from) = ForkOf(s, k, b, from)
          <6>1. k \in Seq(1 .. n) /\ \A i \in 1 .. Len(k) : k2[i] = k[i]
            BY <1>6, <3>4
          <6>2. \A i \in 1 .. n : s2[i] = s[i]
            BY <1>3
          <6>3. Len(k2) \div 2 = Len(k) \div 2
            BY <4>1
          <6>4. SamePairs(s, s2, n, k, k2)
            BY <6>1, <6>2, <6>3 DEF SamePairs
          <6>5. QED
            BY <6>4, ForkOfSame
        <5>2. QED
          BY <1>7, <4>3, <5>1
      <4>6. QED
        BY <3>1, <4>1, <4>3, <4>4, <4>5
    <3>6. CASE Len(k) % 2 = 1
      <4>1. Len(k2) % 2 = 0
        BY <1>8, <3>4, <3>6, SMTT(30)
      <4>2. /\ key_to_fork # NoKey /\ key_to_fork \in Keys
            /\ key_to_fork = s[k[Len(k)]].key
        BY <1>7, <3>6, KeysAssumption
      <4>3. /\ key_to_fork' = NoKey
            /\ fork_keycode' = [fork_keycode EXCEPT ![d.keyboard][key_to_fork] = d.key]
        BY <3>3, <4>2 DEF RememberFrom, AssignTo
      <4>4. ASSUME NEW b \in Keyboards, NEW from \in Keys
            PROVE  fork_keycode'[b][from] = ForkOf(s2, k2, b, from)
        <5>1. fork_keycode \in [Keyboards -> [Keys -> Keys \cup {NoKey}]]
          BY DEF TypeOK
        <5>2. fork_keycode'[b][from] =
                  IF b = d.keyboard /\ from = key_to_fork THEN d.key ELSE fork_keycode[b][from]
          BY <4>3, <5>1
        <5>3. ForkOf(s2, k2, b, from) =
                  IF s2[n + 1].keyboard = b /\ s[k[Len(k)]].key = from
                  THEN s2[n + 1].key
                  ELSE ForkOf(s, k, b, from)
          <6>1. k \in Seq(1 .. n) /\ k2 = Append(k, n + 1)
            BY <1>6, <3>4
          <6>2. \A i \in 1 .. n : s2[i] = s[i]
            BY <1>3
          <6>3. OnePairMore(s, s2, n, k, k2)
            BY <3>6, <6>1, <6>2 DEF OnePairMore
          <6>4. QED
            BY <6>3, ForkOfPair
        <5>4. QED
          BY <1>3, <1>7, <4>2, <5>2, <5>3
      <4>5. 1 # 0
        OBVIOUS
      <4>6. QED
        BY <4>1, <4>3, <4>4, <4>5
    <3>7. QED
      BY <1>8, <3>5, <3>6
  <2>3. QED
    BY <2>1, <2>2
<1>11. QED
  BY <1>2, <1>6, <1>10 DEF PairsInv

(***************************************************************************)
(* With one keyboard the forks are those of the keys pressed to configure, *)
(* taken in pairs, the last pair for a key counting.                       *)
(***************************************************************************)
THEOREM PairsBecomeForks == ASSUME OneKeyboard PROVE Spec => []ForksAsTyped
<1>1. TypeOK /\ ModeInv /\ PairsInv /\ [Next]_vars => PairsInv'
  <2> SUFFICES ASSUME TypeOK, ModeInv, PairsInv, [Next]_vars PROVE PairsInv'
    OBVIOUS
  <2>1. ASSUME UNCHANGED <<key_to_fork, fork_keycode, typed>> PROVE PairsInv'
    BY <2>1 DEF PairsInv, ConfiguredBy, ConfigurePlaces, Configuring, PauseDownBefore,
                TouchedOnly
  <2>2. QED
    BY <2>1, PairsStep DEF Next, Tick, vars
<1>2. QED
  BY <1>1, PairsInit, PairsSayForks, ModeAlways, PTL DEF Spec
=============================================================================
