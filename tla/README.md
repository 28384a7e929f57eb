# A TLA+ model of fork-plugin

fork-plugin makes a key two keys: *typed* it is itself, *held* or used together
with another key it is its **fork** (usually a modifier). To tell, the program
holds a key back until something decides it, and with it every event that came
after. All of that is one class, `forkingMachine` (`src/src/machine.h`), which
three hosts embed: an X server plugin, a libinput plugin and a Windows keyboard
filter. The project models the machine, what it is built from, and the hosts.

Read `src/src/machine.h:133-147` first: it has the drawing of the queue that
every module here talks about.

    relay <-- output | internal (suspect, undecided) | input (not looked at) <-- keyboard

## 1. Inventory

### Components

| component | source | state | operations | module |
|---|---|---|---|---|
| circular buffer | `src/src/circular.h` | `array_`, `head_`, `tail_`, `contents_size_` | `push_back`, `pop_front`, `clear`, `operator[]`, iterators | `CircularBuffer` |
| three-part queue | `src/src/triqueue.h` | a circular buffer, `end_output`, `end_internal` | `push`, `pop`, `move_to_first`, `move_to_second`, `rewind_middle`, the peeks | `TriQueue` |
| fork configuration | `src/src/fork_configuration.h` | `fork_keycode`, `fork_repeatable`, limits | the time limits, the setters | `ForkConfiguration` |
| forking machine | `src/src/machine.h` | decision state, queue, `forkActive`, last release, lock | `accept_event`, `accept_time`, `accept_confirmation`, `configure_*` | `ForkingMachine` |
| X plugin | `src/xorg/fork-plugin.cpp`, `xorg.h` | `wakeup_time`, the next plugin's wakeup time and frozen flag | ProcessEvent, ProcessTime, NotifyThaw, mouse callback | `XorgPlugin` |
| X hot keys | `src/xorg/fork-plugin.cpp:80-203` | `config_mode`, `latch`, `last_press_time`, `key_to_fork` (all static) | `handle_config_key`, `filter_config_key_maybe` | `ConfigKeys` |
| libinput plugin | `src/libinput` | none of its own | one call, `accept_event` | `ForkingMachine`, `Environment` without freezes and without `time zero` |
| Windows driver | `src/windows/sys/kbfiltr.cpp`, `win-environment.h` | the timer, the clock, the machine | service callback, timer callback | `WinFilter` |
| Windows registry | `src/windows/sys/kbfiltr.cpp` | stored forks and globals, the connection to the class driver | device start, save, restore, connect | `WinDriver` |
| raw device and tool | `src/windows/sys/rawpdo.cpp`, `src/windows/exe/kbftest.cpp` | one request at a time | SET_FORK | `WinDriver`, its requests |
| event log, tests, packaging | -- | -- | compiled to nothing, not the system | not modelled |

### How they interact

* The host calls `accept_event` (a key), `accept_time` (the clock, when the
  wakeup time the machine asked for has come, or the next plugin has thawed)
  and `accept_confirmation` (the mouse callback calls it for motion events: the
  key held while the mouse moves is a fork).
* Each of them locks `mLock`, changes the queue or the time, runs the automaton
  under the lock, **unlocks**, and hands the decided events and the time to the
  next plugin. The next plugin may freeze, thaw, and -- through an X action, a
  mouse event or NotifyThaw -- call back into the host and the machine before
  `relay_event` returns (`src/include/config.h:12-28` draws it).
* The machine asks the host one question, `output_frozen()`, in every round of
  its loops. Decisions are made only while the output is open.
* What a call returns is when the machine wants to be called with the time.
* A client request changes the configuration at any moment between calls.
* X: the server calls ProcessTime when `wakeup_time` has come; a thaw comes up
  the chain as NotifyThaw; the next plugin has a wakeup time of its own, which
  the machine overrules while it waits. Hot keys see events before the machine.
* Windows: the port driver's service callback brings events, one timer brings
  time. The tool's request travels through the raw child device to the
  keyboard's device, which changes the machine's forks and the registry.

### What is hard here

* **Rescanning.** Every decision puts what follows the decided key back to the
  input to be looked at again, so an event is processed many times and in
  different states; it must come out once, in order, with one fate.
* **Four descriptions of one suspicion.** `state`, `suspect`, `mDecision_time`
  and the middle queue are changed on seven ways out of a suspicion.
* **`forkActive` is written now and read much later**: the release of a key has
  to be rewritten to what its press was sent as, many events and possibly a
  configuration change later.
* **Re-entrance and freezing** between the pop of an event and its delivery.
* **Time arrives three ways** -- in events, from the clock, and in what is
  pushed downstream -- late, early and for events that wait.
* **Liveness rests on a returned number**: a suspicion ends by time only if the
  caller was told when to call -- in X by way of one number shared with the next
  plugin, in Windows by way of one timer that two callbacks set and stop.
* **Half-done requests.** The driver changes memory, opens a key, writes
  globals, writes forks; each may fail, and the system may stop in between.

What makes each component correct:

* buffer: the subscripts agree with the live objects; it is a FIFO;
* three queues: the two positions survive every pop, and cut one sequence;
* machine: nothing lost, duplicated, reordered; decisions depend on the events
  alone; releases match presses; time downstream is monotone; a frozen plugin
  gets nothing; whoever waits knows until when; everything is delivered;
* X plugin: the one `wakeup_time` serves both the machine and the next plugin,
  through nested handlers, freezes and thaws;
* hot keys: static variables, changed key by key, mean what was typed;
* Windows filter: one one-shot timer runs exactly while a key is undecided;
* Windows driver: what a request was told is stored is there after a restart,
  whatever call failed before; there is always somebody to report keys to.

Every place where one of these can go wrong is a line in `PROJECT.json`
under `hazards`, with the property that covers it, or a note that none does yet.

## 2. Modules

    BoundedFifo <--refines-- CircularBuffer <-- TriQueue --refines--> ThreeQueues
                                                                         |
    ForkConfiguration --+                                     QueueOperators
                        +--> ForkingMachine --> ForkingProperties --> MCForking
    QueueOperators -----+                              |
          |                                            |
          +--> QueueOperators_proofs ----------> ForkingMachine_proofs
                                                       |
                              +------- ForkingCalls_proofs --------+
                              |                                    |
                     XorgPlugin_proofs                     WinFilter_proofs

    TriQueue --> TriQueue_proofs       ConfigKeys --> ConfigKeys_proofs

    ForkingProperties --+--> XorgPlugin --> MCXorg
                        +--> WinFilter  --> MCWin
    ConfigKeys            WinDriver --> WinDriver_proofs

* **BoundedFifo** -- what a buffer promises: a sequence of at most `Capacity`.
* **CircularBuffer** -- the slots and the three indices, method by method. A
  slot without an object holds `Raw`, so that a read of it is visible.
  `Contents` is the refinement mapping to BoundedFifo.
* **QueueOperators** -- the three queues as a record and each method of the
  triqueue as an operator on it; **ThreeQueues** makes a specification of them,
  **TriQueue** (two positions in a CircularBuffer) implements it. The machine
  uses the operators, so TriQueue's refinement is what entitles it to them.
* **ForkConfiguration** -- as compiled: `VERIFICATION_MATRIX` is defined
  nowhere, so the limits are the same for all pairs of keys.
* **ForkingMachine** -- the machine, see below.
* **ForkingProperties** -- what it promises; **MCForking** -- small instances.
* **XorgPlugin** -- the handlers of the X plugin around the machine: each of its
  steps is a step of `ForkingMachine` with what the handler does besides. It
  adds `wakeup_time`, the next plugin's `next_wakeup_time`, `thaw_due` (the next
  plugin thawed, NotifyThaw is not called yet) and `notifying` (which
  activations run `fork_thaw_notify`; the machine calls both time). The next
  plugin is external: an event may make it ask for a time, the time it asked
  for makes it go on. **MCXorg** -- its instance.
* **ConfigKeys** -- the hot keys. `typed` and `passed` are histories; the
  properties define mode, forks and passed events from `typed` alone.
* **WinFilter** -- the two callbacks around the machine and the timer, with the
  width of a due time (`DueTimeWidth`): what does not fit in the `long` that the
  code computes in becomes an absolute time long past. **MCWin** -- its instance.
* **WinDriver** -- the device, the connection to the class driver, forks in
  memory and in the registry; a control request is a sequence of steps
  (`request.at`), each of which may fail, and `SystemRestarts` may come between
  any two. `promised` is a history: what each key's fork may be, from what the
  requester was answered.
* **QueueOperators_proofs**, **ForkingMachine_proofs**, **ForkingCalls_proofs**,
  **TriQueue_proofs**, **XorgPlugin_proofs**, **ConfigKeys_proofs**,
  **WinFilter_proofs**, **WinDriver_proofs** -- section 5.

### The machine in detail

Variables keep the names of the members: `state`, `suspect`, `suspect_time`,
`verificator_keycode`, `verificator_time`, `mDecision_time`, `mCurrent_time`,
`last_released*`, `forkActive`, `mLock`, `tq`. The rest is control and world.

An **activation** is a call in progress. It has a label `pc`, the kind of
`call`, the event it popped (`hand`) and the time it is about to push (`now`).
With `SingleThread` the activations form a `stack` and only the top one moves;
the environment, and a new call, may come while no activation runs or while the
top one is inside the next plugin (`Outcalls`). Without it they are threads.

| label | the activation is about to | code |
|---|---|---|
| `enter` | lock for `run_automaton` | 895-899 |
| `automaton` | do a round of the loop, holding the lock | 913-935 |
| `flush` | ask `output_frozen()` and pop one event | 990-1008, 959-982 |
| `relay` / `relaying` | hand it over / return from the next plugin | 954-958 |
| `flushed` | ask `output_frozen()` once more | 1009-1015 |
| `push_time` / `pushing` / `pushed` | compute the time, push it, return | 1017-1040 |
| `decide` | return `next_decision_time()` | 1042-1051 |

Atomicity: what runs under one hold of the lock and calls nothing outside is
one step. The automaton holds the lock but asks the host in each round, so a
round is a step. Handlers keep their names: one action for each outcome of
`apply_event_to_normal` (5), `apply_event_to_suspect` (5),
`apply_event_to_verify_state` (3), `transition_by_key`, plus
`activate_fork_rewind`, which time and force share.

Abstractions. An event is `[key, code, kind, time]`: `key` was touched, `code`
is what it says now (`rewrite_event`). Keycodes are model values. The clock
starts at 1 because 0 means "no time" in the code. The queue is unbounded in
the machine (100 in the code): that it fills is a listed hazard. Logging, dumps
and debug levels are left out. An event that is neither press nor release
cannot be made by any host, so the branch for it is left out.

## 3. Runs

| run | instance | shows |
|---|---|---|
| `triqueue` | 4 slots, 3 items | the positions stay ordered and inside; a slot holds an object iff a position maps to it; refinement of the three queues and of the FIFO |
| `reentrant` | 2 nested activations, 3 events, freeze, confirmation, MouseKeys | the decision state describes the middle queue; conservation and order, nothing forgotten at rest, time downstream monotone, a frozen plugin gets nothing |
| `decisions` | 4 events, freeze, interval 3, tolerance 2, a key above MAX_KEYCODE | every decision is the one the events alone call for, two named cases excepted |
| `reconfigured` | 4 events, auto-repeat, 2 configuration changes | `forkActive` is what was sent; releases and repeats match the press |
| `xorg` | 2 events, freeze and thaw, confirmation, a next plugin that waits | the server wakes the machine in time; the next plugin's time reaches it; every accepted event is delivered |
| `hot_keys` | 1 keyboard, Pause, 2 keys, a debug key, 7 events | mode, forks and passed events are what was typed |
| `windows` | 4 events, auto-repeat, due times that wrap | the timer runs exactly for a suspect; every accepted event is delivered |
| `registry` | 3 keys, room for 2 forks, 4 requests, any failure, restarts | acknowledged forks survive; reports have a receiver; requests are answered |
| `time_zero`, `repeat_stuck`, `dropped`, `late_timer` | -- | violations, section 4 |

`DecidedByTheEvents` is the deepest: its `UsedAsModifier` is a definition of the
program's purpose, in the words of `machine.h:706-726`, on the sequence of
accepted events, without queue or state; the run shows that no schedule
of time calls, freezes and thaws, and no rescanning changes a decision. Where
the code decides otherwise the property has a named exception, `CutShort` and
`MistakenForRepeat` (section 4); without either of them the run finds it violated. `ConfigKeys` is
checked in the same way, against definitions on the typed events.

**Bounds and why they are enough.** Interval 2 and tolerance 1, or 3 and 2, keep
`tolerance < interval` as in the code's defaults (200 and 100 ms) and leave an
instant before, at and after each limit. Four events are enough for
press-press-release-release in every order of two keys, for a repeat behind a
suspect, and for the shortest run of the re-press trick; a tolerance of 2 lets a
verificator be released before it is over, later or at once. The clock goes
beyond the last event, so that what is undecided then can be decided by time. One freeze
and its thaw may fall between any two steps where the environment acts. Keys:
`f` and `g` have forks (`g` is repeatable), `x` has none. Two activations make
one call inside another; `reentrant` also has the freeze in the inner one. The
ring has 4 slots: head and tail pass the end several times, at every fill.
Symmetry is used for the activations only, in a run without liveness.
`xorg` has one activation: re-entrance is `reentrant`'s question, and two events
with a freeze, a confirmation and a next plugin that waits 2, again and again,
already bring every order of the wishes. Seven
events are a Pause touched, FROM under the latch, another Pause touched, TO, and
one key more, which must not configure. In `windows` 4 events in time 4 leave a
second key undecided at a timer callback, and the clock runs on until the timer
set too late has expired; `DueTimeWidth = 9` makes some of these times wrap.
Three keys with room for two forks overflow the registry's list; four requests
overflow it and then set, unset or change a key again.

`CHECK_DEADLOCK FALSE` is said where the bounded clock stops and nobody types
(`hot_keys`, `windows`, `late_timer`), and in `time_zero`, which deadlocks.

**Fairness.** `FairSpec` (of `ForkingProperties`, in `time_zero` and
`repeat_stuck`): a caller that was called proceeds (WF: the code has
no waits but the lock). The clock ticks, whoever froze the output thaws it, and
the host calls `accept_time` when the returned time has come or the output has
thawed (SF: these can only happen between steps of other calls, so they are
enabled again and again but not continuously). Nothing is assumed
about keys or the mouse. `XorgFairSpec` replaces the abstract host: time is given only when
`wakeup_time`, which the plugin computed, has come (the server's loop), and
after a thaw only by NotifyThaw. `step_in_time` at other moments may happen, and
need not. `WinFairSpec` has the two callbacks proceed, the clock tick and the
system run the callback of an expired timer. `DriverFairSpec` has a handler that
was entered go on; nobody has to send a request, and the system need not stop.

**Threads.** No host runs the machine in threads under a real
lock: the X server and libinput call it from one thread, and the Windows build
replaces the mutex by an empty object (`machine.h:76-92`). `ForkingMachine` with
`SingleThread = FALSE` has them nevertheless; only the theorems of section 5
speak of it.

Each passing property has a mutant: a definition changed as a plausible bug
would, under which the same run finds the property violated.

## 4. Where the code and its words differ

Runs with `expect: violation`:

* `time_zero` -- `accept_time` with a time earlier than the machine knows
  returns `next_decision_time()` while holding the non-recursive `mLock` which
  that function locks: it never comes back (`machine.h:1302-1307`).
* `repeat_stuck` -- the auto-repeated press of a suspect that is not repeatable
  is neither moved nor consumed: `run_automaton` finds it again for ever, under
  the lock (`machine.h:658-664`).
* `dropped` -- the press of a key that is forked is dropped as an auto-repeat
  although its release waits in the queue behind an undecided key, so it is a
  new press (`machine.h:1283-1286`).
* `late_timer` -- after a timer callback the timer is given the decision time as
  if it were an interval; it expires later by the whole clock value
  (`kbfiltr.cpp:1250` and the comment at 1211).

Others, met on the way, that the passing properties step around, and say so.
In the machine:

* when the verificator is released, the decision time computed for it stays;
  the suspect forks although the keys were not down together for the tolerance
  (`machine.h:743-751`, where the comment at 725 asks for "the verification key
  to be down in parallel for at least X ms"): `CutShort` in `DecidedByTheEvents`;
* the press queued before its key became forked (as in `dropped`, but the press
  is already queued) makes the *other* key fork early (`machine.h:797`):
  `MistakenForRepeat` in `DecidedByTheEvents`;
* two threads may relay in another order than they popped (`machine.h:995`);
* a key whose fork is removed while it is suspected is sent as keycode 0 and not
  remembered (`machine.h:475`): `reconfigured` changes forks, never removes them;
* if MouseKeys ends while a forkable key is down that was passed through, its
  auto-repeat starts a suspicion, and the key goes out a second time as its
  fork: `SameCodeWhileHeld` is checked without MouseKeys;
* a confirmation during a freeze is lost (`machine.h:1319-1328`);
* a key above `MAX_KEYCODE` makes `accept_event` return 0 while a suspect waits
  (`machine.h:1276-1280`), and one of exactly `MAX_KEYCODE` is past the arrays;
* nobody checks for room before a push, and a push on a full buffer stores
  nothing and counts an item (`circular.h:383`, `396`).

In the X plugin:

* `wakeup_time` is set after a thaw only if the previous plugin has a NotifyThaw
  (`fork-plugin.cpp:312`). With `PrevHasNotifyThaw = FALSE` the run `xorg` fails
  in `WakesForTheMachine`: an undecided key waits for the next event;
* two keyboards share the hot keys' static variables: Pause released on one ends
  the mode though the other's is down (`fork-plugin.cpp:152-157`). With two
  keyboards TLC finds `ConfigModeMeansPause` violated: Pause on the first, Pause
  on the second, a key, the first Pause released. `hot_keys` has one;
* an auto-repeat of FROM is taken for TO: the key forks to itself. Keys typed
  to configure are also typed. Both are in the model, and in `ForksAsTyped` and
  `OnlyPauseIsKept` as the code has them;
* `stop` and `destroy_plugin` drop events that are queued.

In the Windows driver:

* the Pause key (E1) becomes code 541, above `MAX_KEYCODE`: it is lost, and the
  0 returned for it stops the timer under a suspect;
* the clock wraps every hour; a due time beyond 214 s overflows and the timer
  expires at once (the latter is modelled);
* callbacks of timer and port use the machine at once under an empty lock;
* `rewrite_event` leaves the E0 flag of the original key;
* more than 16 forks: the others are forgotten, with success. A device that
  starts without access to the registry erases it with the next request. Two
  keyboards overwrite each other's list. The statuses of saved globals are not
  looked at, and `fork_repeatable` is never saved;
* a refused connection leaves `UpperConnectData` set: a sharing violation for
  ever after (`kbfiltr.cpp:874`).

## 5. Proofs

`tlapm` proves these for all values of the constants: every set of keys, all
limits and capacities, any number of callers, events and requests, and any
environment.

| theorem | states | where | hypotheses |
|---|---|---|---|
| `TypeCorrect`, `DecisionStateAgrees`, `Invariance` | `TypeOK`, `SuspectHeadsMiddle`, the inductive `IInv` | `ForkingMachine_proofs` | none |
| `NothingReachesFrozen` | `FrozenGetsNothing` | `ForkingCalls_proofs` | one thread |
| `NothingLeftUndone` | `AtRest` | `ForkingCalls_proofs` | `Typed \subseteq Keys` |
| `EventsConserved` | `Conserved` | `ForkingCalls_proofs` | one thread |
| `TimeNeverGoesBack` | `DownstreamTimeMonotone` | `ForkingCalls_proofs` | one thread |
| `ForkActiveTellsTheTruth` | `ForkActiveIsTrue` | `ForkingCalls_proofs` | one thread, no fork removed |
| `ReleasesMatchPresses` | `ReleasedAsPressed` (defined there) | `ForkingCalls_proofs` | one thread, no fork removed |
| `KeysKeepTheirCode` | `SameCodeWhileHeld` | `ForkingCalls_proofs` | one thread, no fork removed, no auto-repeat |
| `EventsDecide` | `DecidedByTheEvents` | `ForkingCalls_proofs` | one thread, only freezes, `consider_forks_for_repeat` |
| `PluginRunsTheMachine`, `FilterRunsTheMachine` | `XorgSpec => Spec`, `WinSpec => Spec` | `XorgPlugin_proofs`, `WinFilter_proofs` | none |
| `ServerWakesForTheMachine` | `WakesForTheMachine` | `XorgPlugin_proofs` | one thread, `PrevHasNotifyThaw` |
| `TimerForSuspect` | `TimerRunsForSuspect` | `WinFilter_proofs` | one thread |
| `IteratorsStayInOrder`, `ObjectsStayLive` | `IteratorsInOrder`, `ObjectsAreLive` | `TriQueue_proofs` | none |
| `TriQueueImplementsThreeQueues`, `BufferImplementsFifo` | `ImplementsThreeQueues`, `ImplementsFifo` | `TriQueue_proofs` | none |
| `TypeCorrect` | `TypeOK` of the hot keys | `ConfigKeys_proofs` | none |
| `ModeFollowsPause`, `OnlyPauseStaysBehind`, `PairsBecomeForks` | `ConfigModeMeansPause`, `OnlyPauseIsKept`, `ForksAsTyped` | `ConfigKeys_proofs` | one keyboard |
| `DriverTypeCorrect`, `ForksSurvive`, `ReportsAreReceived` | `DriverTypeOK`, `AcknowledgedForksSurvive`, `ReportsHaveReceiver` | `WinDriver_proofs` | none |

### What they assume

The named ASSUMEs of the modules (`NoKey` is no key, limits are naturals,
tables are of their types, keys are finitely many in `WinDriver`), and:

* **One thread** (`SingleThread`). A call may be made while no other runs, or
  while the next plugin has been called and has not returned; to any depth. This
  is what the X server, libinput and the Windows build do (section 3,
  *Threads*). With threads these properties are false: two threads may pop in
  one order and relay in the other, and freeze between `output_frozen()` and
  `relay_event`.
* **`Typed \subseteq Keys`** for `AtRest`: no key above `MAX_KEYCODE`, for which
  `accept_event` returns 0, though a key may be undecided (section 4).
* **`PrevHasNotifyThaw`**: without it the property is false (section 4).
* **One keyboard**: with two, `ConfigModeMeansPause` is false (section 4).
* **No fork removed** (`NoForkRemoved`): forks may be given and changed. A key
  whose fork is removed while it is suspected is sent as keycode 0
  (`machine.h:475`), and TLC finds `ForkActiveIsTrue` violated when `reconfigured`
  removes forks.
* **No auto-repeat** for `SameCodeWhileHeld`: with repeats a key that was sent as
  itself may be suspected while it is down, when MouseKeys ends or it is given a
  fork (section 4). The code of a release depends on neither.
* **Only freezes** (`OnlyFreezes`) and **`consider_forks_for_repeat`** for
  `DecidedByTheEvents`: nothing is forced by `accept_confirmation`, keys do not
  repeat by themselves, MouseKeys stay off, the configuration stays as it is;
  the output may freeze and thaw and calls may give time 0. Each of the four
  has a say of its own in what is forked, so the events alone have not. The option is on by
  default (`fork_configuration.h:54`); without it a forked release is not
  remembered, and the last release among the events is not the machine's.

### The arguments

**The decision state** (`ForkingMachine_proofs`). `SuspectHeadsMiddle` is not
inductive by itself. What makes it so is that an event waiting in the middle or
the input has not been rewritten (`FreshEvents`): its code is a key, so
`fork_keycode` and `forkActive` are defined for it. That in turn needs that a
release which is rewritten in place (`ReleaseForked`) leaves the input in the
same step, which holds because the middle is empty in state normal -- a part of
`SuspectHeadsMiddle`. The third ingredient is that an activation at `relay` has
an event in hand. One lemma for each outcome of the automaton, through three
shapes -- `NormalIsFine` (the suspicion ends), `StillUndecided` (an event is
scanned), `ActivatePreserves` (a fork) -- then one for each step of an
activation. `QueueOperators_proofs` has what the queue operators return.

**Calls in calls** (`ForkingCalls_proofs`). A step is one of `CallStarts`,
`CallMoves`, `CallEnds`, `NoCall`: the machine seen as a program counter for each
caller. `OnlyTopMoves` -- whoever is not on top of the stack is inside the next
plugin or not in at all -- then says that between the question
`output_frozen()` and the delivery nobody else acts; with `FrozenCalls` it is
inductive and gives `FrozenGetsNothing`.

**At rest.** The states between calls are not enough: a call that left something
undone may be followed by one that is in progress. `CalmMeansDone` says it of
every state in which the output is open and nobody is on the way to the
automaton (`Calm`): the input is empty and time decides nothing, and the output
is empty or somebody still flushes it. `WakesInTime` adds that what was returned
last is right, or somebody in the machine will still answer. `LockIsHeld` says
who has the lock, which is needed to know that a round of the loop ends it.

**Conservation and time.** `Due` is what was accepted and not delivered: the
event in the hand of the activation on top, then the three queues, as they were
accepted. Every step either adds to its end (`Enters`), takes its head
(`Leaves`), or leaves it alone -- that the automaton does, whatever it rewrites,
moves and rewinds, is `IterateKeeps`. `HandInv` says only the top activation
holds an event, `StackInv` that the stack has every caller once. On `Due` rests
also `TimesInv`: it is in order of time, no event in it is before the time
downstream has seen nor after the time the machine was given, so that the time
pushed past it (`PushInv`) is not later than its head.

**What was sent, and forkActive.** `Sent` is what is decided: delivered, in the
hand on top, and in the output. `IterateDecides`: a round of the automaton
appends nothing to it, or one event `e` with `Remembers(e)`, which says how
`forkActive` follows `e`; no other step changes either. So `SentAs` -- for each
key `forkActive` is what its last event in `Sent` says -- is inductive, with
`ForksInv`: keys that are forked or suspected have a fork. A key's code then
changes only where one of its presses follows another, and without auto-repeat
presses and releases of a key alternate in what was accepted (`PressesInv`), of
which, by `EventsConserved`, `Sent` is the beginning.

**The events decide.** `VerdictInv` adds to this what the automaton knows of the
events it looked at. `Places(n, m)` says where they stand among those accepted:
`n` decided ones, `m` scanned ones of which the suspect is the first, then the
input. `LastRelease`: `last_released` is the last release among the first `n`.
`Suspects`: the decision time is the least of the interval from the suspect's
press and the tolerance from each press scanned since, whichever of these keys is
the verificator now or was one -- which is why it may stay when the verificator is
gone. `AllRight`: what was decided is what the events say,
by the rule that the code follows: a fork at the press of another key plus the
tolerance, whether or not that key is still down. `LongEnoughIsUse` compares the
rule with the property: it forks every key that is `UsedAsModifier`, and others
only if `CutShort`. For `AllRight` to be
inductive a decision must not be undone by what comes later, so a verdict has to
be `Settled`: the press was quick, its release came, or its time has passed; each
of the three stays so when an event is appended or the clock runs
(`SettledOfAppended`, `AllRightLater`). A decision by time is right because the
release of the suspect is not scanned yet and so is no earlier than the head of
the input (`SuspectForks`); a confirmation, because each press before the release
was scanned and has put the decision time no later than its tolerance
(`SuspectDoesNotFork`). `ReleaseWaits` shows that the early fork at
`machine.h:797` is always `MistakenForRepeat`: the key that seems to repeat was
last sent as a press, so its release waits behind the suspect; and that in state
normal this branch, and the one for a self-forked key, cannot be taken without
auto-repeat.

**The hosts.** Each step of a host's specification is a step of the machine or
leaves it alone, so `WinSpec` and `XorgSpec` inherit what is proved of `Spec`;
their own properties follow with the machine's invariants. `TimerRunsForSuspect`
needs `LateInv` -- every event that is due, and every pending decision, has a
time of at least 1, so 0 means no timer. `WakesForTheMachine` needs
`WakesInTime(wakeup_time)` in the place of `WakesInTime(wakeup)`, and that a thaw
of which the machine was not told is still `thaw_due`.

**The ring** (`TriQueue_proofs`). `RingInv`: the positions are in order, the tail
is where the size says (`TailFollows`), and objects are live. The contents are a
sequence read from the slots (`Stored`), and `SlotOf` is `index_to_subscript`
without its modulo; a push, a pop, a clear and a write are then facts about
sequences, and each step of the triqueue maps to the step of `ThreeQueues` with
the same name, or of `BoundedFifo`.

**The hot keys** (`ConfigKeys_proofs`). The properties are said on the whole
history of typed keys, the code keeps five variables. `ModeInv` ties them to the
last events of the history (Pause is held iff it was pressed and not released
since; the latch is on exactly after a Pause that was only touched;
`last_press_time` is the time of the last event if that was a Pause, else 0).
`PairsInv` says that `key_to_fork` is the last key typed to configure when their
number is odd. The rest is how `InOrder` and `Assigned` change when
one event is appended.

**The driver** (`WinDriver_proofs`). `AcknowledgedForksSurvive` becomes inductive
with `RequestInMemory`: while a request is in progress, the fork it sets is the
one in memory, so that what `SaveForks` writes and acknowledges is the same. The
one step that is not plain reasoning by cases is the overflow: that a forked key
is missing in what was stored only if more than `MAX_FORKS` keys are forked
(`ForgottenOnlyOverflow`) compares the cardinality of the forked keys below it
with that of all. `ReportsHaveReceiver` is inductive with the types.

### What is only model-checked

* Liveness: `PromiseToDeliver`, `NextGetsItsTime`, `RequestsComplete`. The prover
  has no fairness and no ENABLED.
* `SameCodeWhileHeld` with auto-repeat.
## 6. Plan

What is left, in order of importance.

Theorems: `SameCodeWhileHeld` with auto-repeat, for keys that have their fork
from the start; `DecidedByTheEvents` without `consider_forks_for_repeat`, for
which the definition must leave out the releases of forked keys.

Models: the capacity of the queue inside the machine; `create_configs`, `stop`
and `destroy_plugin`; the E0 flag and the wrap of the clock; two keyboards in
`WinDriver`.

## 7. Not modelled

* `VERIFICATION_MATRIX` and `MULTIPLE_CONFIGURATIONS` builds (defined nowhere or
  as 0), the log of last events (`save_event_to_log` is empty as compiled),
  copying members of the buffer that nothing calls.
* A push into a full queue: the code's machine has 100 slots, the model's queue
  is unbounded, and `TriQueue`'s user has room. What the code does then is
  a buffer whose count is wrong.
* X: loading, option parsing, the translation of client requests, removal of a
  plugin. libinput: the ownership of its events, whose lifetime is decided in
  libinput.
* Windows: callbacks in parallel (a data race on an unlocked queue), wrap of the
  clock, scan-code flags, the cache of keyboard attributes, the i8042 hook, the
  tool's parsing of its command line.
