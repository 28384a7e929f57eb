------------------------- MODULE ForkingProperties -------------------------
(***************************************************************************)
(* What forkingMachine promises.                                           *)
(***************************************************************************)
EXTENDS ForkingMachine, FiniteSetsExt, SequencesExt

(***************************************************************************)
(* Types.  A relayed event keeps key, kind and time; only its code may     *)
(* have been rewritten.                                                    *)
(***************************************************************************)
TypeOK ==
    /\ config \in ConfigType
    /\ state \in States
    /\ suspect \in Keycodes /\ suspect_time \in Times
    /\ verificator_keycode \in Keycodes /\ verificator_time \in Times
    /\ last_released \in Keycodes /\ last_released_time \in Times
    /\ mDecision_time \in Times /\ mCurrent_time \in Times
    /\ tq \in QueuesOf(Events)
    /\ forkActive \in [Keys -> Keycodes]
    /\ mLock \in Callers \cup {Nobody}
    /\ pc \in [Callers -> Labels]
    /\ call \in [Callers -> Calls]
    /\ hand \in [Callers -> Seq(Events)]
    /\ now \in [Callers -> Times]
    /\ stack \in Seq(Callers)
    /\ clock \in Times
    /\ held \subseteq Keys \cup OutOfBound
    /\ repeating \in Keycodes \cup OutOfBound
    /\ mouseKeys \in BOOLEAN /\ frozen \in BOOLEAN /\ thawed \in BOOLEAN
    /\ disturbances \in Nat
    /\ wakeup \in Times
    /\ accepted \in Seq(Events) /\ delivered \in Seq(Events)
    /\ downstream_time \in Times

(***************************************************************************)
(* The middle queue and the decision state describe the same key, whatever *)
(* path led here: nothing is undecided in state normal; otherwise the      *)
(* middle starts with the press of the suspect, its release is not behind  *)
(* it, and the decision is due no later than the interval, and the         *)
(* tolerance from the verificator's press on, allow.  transition_by_force  *)
(* and activate_fork_rewind log a "Bug" where this is not so.              *)
(***************************************************************************)
SuspectHeadsMiddle ==
    /\ state = "normal" <=> tq.internal = <<>>
    /\ state # "normal" =>
         /\ LET first == Head(tq.internal)
            IN  press_p(first) /\ first.code = suspect /\ first.time = suspect_time
         /\ forkActive[suspect] = NoKey
         /\ mDecision_time <= suspect_time + VERIFICATION_INTERVAL
         /\ \A i \in DOMAIN tq.internal :
                ~(release_p(tq.internal[i]) /\ tq.internal[i].code = suspect)
    /\ state = "verify" =>
         /\ mDecision_time <= verificator_time + OVERLAP_TOLERANCE
         /\ \E i \in DOMAIN tq.internal :
                /\ press_p(tq.internal[i])
                /\ tq.internal[i].code = verificator_keycode
                /\ tq.internal[i].time = verificator_time

-----------------------------------------------------------------------------
\* An event as it came in, before any rewriting.
Original(e) == rewritten(e, e.key)
Originals(s) == [i \in DOMAIN s |-> Original(s[i])]

\* Popped by a caller and not relayed yet, in the order of the stack.
InHand == FlattenSeq([i \in DOMAIN stack |-> hand[stack[i]]])

(***************************************************************************)
(* "We take over pevent and promise to deliver back" (machine.h:1244):     *)
(* what was accepted is downstream, in the hand of the caller or in the    *)
(* queue, once, and in the order it came -- through rewinds, freezes and   *)
(* calls made from inside relay_event.                                     *)
(***************************************************************************)
Conserved == Originals(delivered \o InHand \o Everything(tq)) = accepted

(***************************************************************************)
(* The machine keeps a key the same while it is down: a release, and an    *)
(* auto-repeated press, go out with the keycode that the press of the same *)
(* key went out with (forkActive's reason to be).                          *)
(***************************************************************************)
SameCodeWhileHeld ==
    \A j \in DOMAIN delivered :
        LET before == {i \in 1 .. j - 1 : delivered[i].key = delivered[j].key}
        IN  \/ before = {}
            \/ delivered[Max(before)].kind = "release"
            \/ delivered[Max(before)].code = delivered[j].code

Decided == delivered \o InHand \o tq.output

(***************************************************************************)
(* "forkActive(x) == y means we sent downstream Keycode Y instead of X"    *)
(* (machine.h:197): an entry is there only for a key whose last event sent *)
(* is a press with that keycode, and a key last sent as a press with       *)
(* another keycode has an entry -- whatever was configured in between.     *)
(***************************************************************************)
ForkActiveIsTrue ==
    \A key \in Typed \cap Keys :
        LET sent == {i \in DOMAIN Decided : Decided[i].key = key}
            last == Decided[Max(sent)]
        IN  /\ forkActive[key] # NoKey =>
                  sent # {} /\ press_p(last) /\ last.code = forkActive[key]
            /\ sent # {} /\ press_p(last) /\ last.code # key =>
                  forkActive[key] = last.code /\ forkActive[key] # NoKey

(***************************************************************************)
(* Between calls, with the output open and no thaw still to be announced,  *)
(* no event lies in the output or unlooked at, the time that was given is  *)
(* no reason to decide, and a caller that waits knows until when: the      *)
(* value last returned is the time of the decision.                        *)
(***************************************************************************)
AtRest ==
    (\A c \in Callers : pc[c] = "idle") /\ ~frozen /\ ~thawed =>
        /\ tq.output = <<>> /\ tq.input = <<>>
        /\ ~TimeDecides
        /\ state # "normal" => wakeup = mDecision_time

(***************************************************************************)
(* The next plugin never sees time go back, over events and pushed times   *)
(* together, although the machine holds events and passes time past them   *)
(* (push_time_to_next).                                                    *)
(***************************************************************************)
DownstreamTimeMonotone == [][downstream_time' >= downstream_time]_vars

(***************************************************************************)
(* hand_over_event_to_next_plugin asserts that the next plugin is not      *)
(* frozen (fork-plugin.cpp:73): no event and no time reach it then, even   *)
(* when it freezes while it is handed one.                                 *)
(***************************************************************************)
FrozenGetsNothing == [][frozen => UNCHANGED outputVars]_vars

(***************************************************************************)
(* "We take over pevent and promise to deliver back": each of them         *)
(* reaches the next plugin in the end.                                     *)
(***************************************************************************)
PromiseToDeliver ==
    \A n \in 1 .. MaxEvents : (Len(accepted) >= n) ~> (Len(delivered) >= n)
-----------------------------------------------------------------------------
(***************************************************************************)
(* When a key is a fork, said once and for all from the events alone.      *)
(***************************************************************************)
IndexOfRelease(i) ==
    {r \in i + 1 .. Len(accepted) :
        /\ accepted[r].key = accepted[i].key
        /\ accepted[r].kind = "release"
        /\ \A s \in i + 1 .. r - 1 : accepted[s].key # accepted[i].key}

PressedMeanwhile(i) ==
    {v \in i + 1 .. Len(accepted) :
        accepted[v].kind = "press" /\ \A r \in IndexOfRelease(i) : v < r}

DownUntil(i) ==
    IF IndexOfRelease(i) = {} THEN clock ELSE accepted[Min(IndexOfRelease(i))].time

\* From the press v to time t the keys i and v are down in parallel long enough.
Overlaps(i, v, t) ==
    LET enough == accepted[v].time + OVERLAP_TOLERANCE
    IN  enough <= DownUntil(i) /\ enough <= t

\* The press i is down alone for the interval, or with another key for the
\* tolerance ("for the verification key to be down in parallel for at least X
\* ms", machine.h:725).
UsedAsModifier(i) ==
    \/ accepted[i].time + VERIFICATION_INTERVAL <= DownUntil(i)
    \/ \E v \in PressedMeanwhile(i) : Overlaps(i, v, DownUntil(v))

\* The other key is released before the tolerance is over, and i only later.
\* The comment has no fork here; the code keeps the time of the decision and
\* forks, "maybe this is too weak" (machine.h:743-751).
CutShort(i) ==
    \E v \in PressedMeanwhile(i) :
        Overlaps(i, v, clock) /\ ~Overlaps(i, v, DownUntil(v))

\* The last release before the press i is one of the same key, a moment ago.
RepressedQuickly(i) ==
    LET releases == {r \in 1 .. i - 1 : accepted[r].kind = "release"}
    IN  /\ releases # {}
        /\ accepted[Max(releases)].key = accepted[i].key
        /\ accepted[i].time <= accepted[Max(releases)].time + config.repeat_max

\* A key that was sent forked before the press i is released and pressed again
\* while i is undecided: the release is behind i in the queue, so the machine
\* takes the second press for an auto-repeat of the forked key.
MistakenForRepeat(i) ==
    \E p \in 1 .. i - 1, v \in PressedMeanwhile(i) :
        /\ accepted[p].key = accepted[v].key
        /\ Decided[p].code # Decided[p].key
        /\ \E r \in IndexOfRelease(p) : i < r /\ r < v

(***************************************************************************)
(* Whether a key is a fork does not depend on when the machine was told    *)
(* the time, on when the output was frozen, or on what was in the queue    *)
(* before it: a press of a forkable key that was decided is forked exactly *)
(* when the events say that the key was UsedAsModifier (machine.h:706-726) *)
(* and not re-pressed at once.  There is nothing to force, repeat or       *)
(* reconfigure a key.  The code disagrees, and the property is silent, in  *)
(* two cases: it forks a key whose use was CutShort, and one that is       *)
(* MistakenForRepeat when it heads the middle queue (machine.h:797).       *)
(***************************************************************************)
DecidedByTheEvents ==
    \A i \in DOMAIN Decided :
        LET key  == Decided[i].key
            code == Decided[i].code
        IN  press_p(Decided[i]) /\ forkable_p(key) /\ ~MistakenForRepeat(i) =>
                IF RepressedQuickly(i) THEN code = key
                ELSE IF UsedAsModifier(i) THEN code = config.fork_keycode[key]
                ELSE code # key => CutShort(i)

(***************************************************************************)
(* "skipping this Press -- it's a forked modifier and AR!"                 *)
(* (machine.h:1286): the press that accept_event drops is an auto-repeat,  *)
(* so the press of a key that was up gets into the queue.                  *)
(***************************************************************************)
OnlyRepeatsDropped ==
    [][\A key \in Keys : key \in held' \ held => Len(accepted') > Len(accepted)]_vars
-----------------------------------------------------------------------------
(***************************************************************************)
(* accept_time logs a time that moved backwards ("sometimes now is 0",     *)
(* machine.h:1303) and returns the decision time: it comes back.           *)
(***************************************************************************)
AcceptTimeReturns == \A c \in Callers : (call[c] = "time") ~> (pc[c] = "idle")
=============================================================================
