----------------------------- MODULE WinDriver -----------------------------
(***************************************************************************)
(* What the Windows filter driver (src/windows/sys/kbfiltr.cpp,            *)
(* src/windows/sys/rawpdo.cpp) keeps around the machine: its device, the   *)
(* class driver above, the configuration in memory and its copy in the     *)
(* driver's registry key, and the requests that the tool kbftest sends to  *)
(* the raw child device.  Any call to the system may fail, and the system  *)
(* may stop between two calls.                                             *)
(*                                                                         *)
(* There is one keyboard: every keyboard has its own device, but all share *)
(* one registry key, and a second one would overwrite what the first saved.*)
(* The raw device's queue is sequential, so there is one control request   *)
(* at a time (rawpdo.cpp:78-82).                                           *)
(***************************************************************************)
EXTENDS Integers, FiniteSets

CONSTANTS
    Key,            \* keycodes above 0 and below MAX_KEYCODE
    ForkCode,       \* keycodes that keys are forked to
    RepeatLimit,    \* values that the global repeat_max is set to
    DefaultRepeat,  \* its value in a new machineConfig
    Absent,         \* no value in the registry
    MAX_FORKS,      \* forks that the registry value holds (16)
    MaxRequests     \* bound: control requests

NO_FORK == 0

ASSUME ForkCodeAssumption == Key \subseteq Nat \ {0} /\ ForkCode \subseteq Nat \ {0}
ASSUME KeyAssumption == IsFiniteSet(Key)
ASSUME RepeatAssumption == DefaultRepeat \in Nat /\ RepeatLimit \subseteq Nat
ASSUME MaxForksAssumption == MAX_FORKS \in Nat \ {0} /\ MaxRequests \in Nat

VARIABLES
    machine,       \* the device's machine (with its timer) exists
    pdo,           \* the raw child device exists
    fork_keycode,  \* the forks in memory
    repeat_max,    \* the global in memory
    UpperConnectData,  \* ClassService is set
    ClassService,  \* the port driver reports to KbFilter_ServiceCallback
    registry,      \* the value repeat_limit and the value binary-forks
    request,       \* the control request in progress
    requests,      \* the number of control requests so far
    promised       \* per key: what its fork may be once the device is added

memory == <<fork_keycode, repeat_max>>
connection == <<UpperConnectData, ClassService>>
driverVars == <<machine, pdo, memory, connection, registry, request, requests, promised>>

Fork == ForkCode \cup {NO_FORK}
NoForks == [k \in Key |-> NO_FORK]
NoRequest == [at |-> "idle", key |-> NO_FORK, value |-> NO_FORK]

Idle == request.at = "idle"

(***************************************************************************)
(* The registry value: the forks of the MAX_FORKS smallest forked keys.    *)
(***************************************************************************)
ForkedKeys(forks) == {k \in Key : forks[k] # NO_FORK}

\* Mutant of StoredKeys: the loop stops one fork before the array is full.
StoredKeysOneLess(forks) ==
    {k \in ForkedKeys(forks) :
        Cardinality({j \in ForkedKeys(forks) : j < k}) < MAX_FORKS - 1}

StoredKeys(forks) ==
    {k \in ForkedKeys(forks) :
        Cardinality({j \in ForkedKeys(forks) : j < k}) < MAX_FORKS}

save_forks(forks) == [k \in StoredKeys(forks) |-> forks[k]]

DriverInit ==
    /\ machine = FALSE
    /\ pdo = FALSE
    /\ fork_keycode = NoForks
    /\ repeat_max = DefaultRepeat
    /\ UpperConnectData = FALSE
    /\ ClassService = FALSE
    /\ registry =  \* no list of forks is read like an empty one
          [repeat_limit |-> Absent, binary_forks |-> save_forks(NoForks)]
    /\ request = NoRequest
    /\ requests = 0
    /\ promised = [k \in Key |-> {NO_FORK}]
-----------------------------------------------------------------------------
\* Mutant of restore_forks: the loop ends before the last pair.
restore_forks_but_last(forks) ==
    [k \in Key |-> IF k \in DOMAIN registry.binary_forks
                      /\ \E j \in DOMAIN registry.binary_forks : j > k
                  THEN registry.binary_forks[k] ELSE forks[k]]

\* configure_from_registry_key: the pairs that were read, the others as they are.
restore_forks(forks) ==
    [k \in Key |-> IF k \in DOMAIN registry.binary_forks
                  THEN registry.binary_forks[k] ELSE forks[k]]

\* Mutant of restore_global_value: the status of the query is not looked at.
restore_global_anyway(value) == registry.repeat_limit

restore_global_value(value) ==
    IF registry.repeat_limit = Absent THEN value ELSE registry.repeat_limit
-----------------------------------------------------------------------------
(***************************************************************************)
(* KbFilter_EvtDeviceAdd.  That the raw device could not be created goes   *)
(* unnoticed: its status is overwritten.  Without a timer the device fails *)
(* to start, as if never added.  A registry that cannot be opened, or a    *)
(* value in it that cannot be read, leaves the defaults, and the device    *)
(* starts: if the forks are among them, promises are void.                 *)
(***************************************************************************)
KbFiltr_CreateRawPdo == \E created \in BOOLEAN : pdo' = created

create_machine == machine' = TRUE

\* The query of each value may fail alone; without the list no key is a fork.
configure_from_registry ==
    /\ repeat_max' \in {DefaultRepeat, restore_global_value(DefaultRepeat)}
    /\ \/ /\ fork_keycode' = restore_forks(NoForks)
          /\ UNCHANGED promised
       \/ /\ fork_keycode' = NoForks
          /\ promised' = [k \in Key |-> promised[k] \cup {NO_FORK}]

KbFilter_EvtDeviceAdd ==
    /\ ~machine
    /\ KbFiltr_CreateRawPdo
    /\ create_machine
    /\ configure_from_registry
    /\ UNCHANGED <<connection, registry, request, requests>>

\* The system stops or starts anew: what is in memory is gone.
SystemRestarts ==
    /\ machine' = FALSE
    /\ pdo' = FALSE
    /\ fork_keycode' = NoForks
    /\ repeat_max' = DefaultRepeat
    /\ UpperConnectData' = FALSE
    /\ ClassService' = FALSE
    /\ request' = NoRequest
    /\ UNCHANGED <<registry, requests, promised>>
-----------------------------------------------------------------------------
(***************************************************************************)
(* The class driver's requests.  A connection that the port refuses leaves *)
(* UpperConnectData set, and every later one is a sharing violation.       *)
(***************************************************************************)
Connect ==
    /\ machine /\ ~UpperConnectData
    /\ UpperConnectData' = TRUE
    /\ \E accepted \in BOOLEAN : ClassService' = accepted
    /\ UNCHANGED <<machine, pdo, memory, registry, request, requests, promised>>

\* Mutant of Disconnect: the assignments that are commented out.
DisconnectClears ==
    /\ UpperConnectData
    /\ UpperConnectData' = FALSE
    /\ UNCHANGED <<machine, pdo, memory, ClassService, registry, request, requests, promised>>

\* STATUS_NOT_IMPLEMENTED, and the request is not passed down.
Disconnect == UpperConnectData /\ UNCHANGED driverVars
-----------------------------------------------------------------------------
(***************************************************************************)
(* IOCTL_KBFILTR_SET_FORK: the raw device passes the request to the        *)
(* keyboard's device, which changes the configuration in memory, opens the *)
(* registry key, writes the globals (whatever comes of it), writes the     *)
(* forks, and answers with the status of the last call.                    *)
(*                                                                         *)
(* The values are read through InputBuffer though its retrieval may have   *)
(* failed (its status is not looked at): that is a null pointer then, and  *)
(* the system stops, which SystemRestarts may do at any time.  Values that *)
(* a short request does not bring are what lies on the stack: configuring  *)
(* them is one of SetFork and SetGlobal, whichever they happen to say.     *)
(***************************************************************************)
MayRequest == machine /\ pdo /\ Idle /\ requests < MaxRequests

Requested(key, value) ==
    /\ request' = [at |-> "configured", key |-> key, value |-> value]
    /\ requests' = requests + 1
    /\ UNCHANGED <<machine, pdo, connection, registry>>

SetFork(key, value) ==
    /\ MayRequest
    /\ fork_keycode' = [fork_keycode EXCEPT ![key] = value]
    /\ promised' = [promised EXCEPT ![key] = @ \cup {value}]
    /\ Requested(key, value)
    /\ UNCHANGED repeat_max

\* The tool refuses a fork to 0; another program may send one.
fork_configure == \E key \in Key, fork \in ForkCode : SetFork(key, fork)

UnforkKey == \E key \in Key : SetFork(key, NO_FORK)

SetGlobal ==
    /\ MayRequest
    /\ \E value \in RepeatLimit : repeat_max' = value
    /\ Requested(NO_FORK, NO_FORK)
    /\ UNCHANGED <<fork_keycode, promised>>

Answered == request' = NoRequest

Continues(at) == request' = [request EXCEPT !.at = at]

OpenKey ==
    /\ request.at = "configured"
    /\ Continues("opened")
    /\ UNCHANGED <<machine, pdo, memory, connection, registry, requests, promised>>

\* Mutant of OpenKeyFails: returns without completing the request.
OpenKeyFailsSilently ==
    /\ request.at = "configured"
    /\ Continues("dropped")
    /\ UNCHANGED <<machine, pdo, memory, connection, registry, requests, promised>>

OpenKeyFails ==
    /\ request.at = "configured"
    /\ Answered
    /\ UNCHANGED <<machine, pdo, memory, connection, registry, requests, promised>>

save_global_value ==
    /\ request.at = "opened"
    /\ registry' \in {registry, [registry EXCEPT !.repeat_limit = repeat_max]}
    /\ Continues("globals")
    /\ UNCHANGED <<machine, pdo, memory, connection, requests, promised>>

\* An answer of success is a promise for the key of the request.  Of more than
\* MAX_FORKS forks it is known only that some are lost.
Promises ==
    [k \in Key |->
        (IF k = request.key THEN {request.value} ELSE promised[k])
        \cup (IF Cardinality(ForkedKeys(fork_keycode)) > MAX_FORKS THEN {NO_FORK} ELSE {})]

SaveForks ==
    /\ request.at = "globals"
    /\ registry' = [registry EXCEPT !.binary_forks = save_forks(fork_keycode)]
    /\ promised' = Promises
    /\ Answered
    /\ UNCHANGED <<machine, pdo, memory, connection, requests>>

SaveForksFails ==
    /\ request.at = "globals"
    /\ Answered
    /\ UNCHANGED <<machine, pdo, memory, connection, registry, requests, promised>>

KbFilter_EvtIoDeviceControlFromRawPdo ==
    \/ OpenKey \/ OpenKeyFails
    \/ save_global_value
    \/ SaveForks \/ SaveForksFails

KbFilter_EvtIoDeviceControlForRawPdo ==
    fork_configure \/ UnforkKey \/ SetGlobal
-----------------------------------------------------------------------------
DriverNext ==
    \/ KbFilter_EvtDeviceAdd
    \/ Connect \/ Disconnect
    \/ KbFilter_EvtIoDeviceControlForRawPdo
    \/ KbFilter_EvtIoDeviceControlFromRawPdo
    \/ SystemRestarts

DriverSpec == DriverInit /\ [][DriverNext]_driverVars

\* A handler that was entered goes on.
DriverFairSpec == DriverSpec /\ WF_driverVars(KbFilter_EvtIoDeviceControlFromRawPdo)
-----------------------------------------------------------------------------
ForkLists == UNION {[S -> ForkCode] : S \in SUBSET Key}

DriverTypeOK ==
    /\ machine \in BOOLEAN /\ pdo \in BOOLEAN
    /\ fork_keycode \in [Key -> Fork]
    /\ repeat_max \in Nat
    /\ UpperConnectData \in BOOLEAN /\ ClassService \in BOOLEAN
    /\ registry \in [repeat_limit : Nat \cup {Absent}, binary_forks : ForkLists]
    /\ request \in [at : {"idle", "configured", "opened", "globals"},
                    key : Key \cup {NO_FORK}, value : Fork]
    /\ requests \in 0..MaxRequests
    /\ promised \in [Key -> SUBSET Fork]

(***************************************************************************)
(* A fork that was acknowledged is what the driver has, in memory and for  *)
(* after the next start, whichever later requests failed half-way and      *)
(* wherever the system stopped: until the same key is set again, more than *)
(* MAX_FORKS keys are forked, or a start cannot read the forks.           *)
(***************************************************************************)
StoredForks == restore_forks(NoForks)

AcknowledgedForksSurvive ==
    \A k \in Key :
        /\ StoredForks[k] \in promised[k]
        /\ machine => fork_keycode[k] \in promised[k]

(***************************************************************************)
(* While the port reports to the filter, the filter has a machine to ask   *)
(* and a class driver to report to, so that pass_event calls no null       *)
(* ClassService, however the class driver connects and disconnects.        *)
(***************************************************************************)
ReportsHaveReceiver == ClassService => machine /\ UpperConnectData

(***************************************************************************)
(* The tool, blocked in DeviceIoControl, gets its answer on every path of  *)
(* the handler that a failed call leaves open.                             *)
(***************************************************************************)
RequestsComplete == ~Idle ~> Idle
=============================================================================
