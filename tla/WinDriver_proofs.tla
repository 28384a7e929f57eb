-------------------------- MODULE WinDriver_proofs --------------------------
(***************************************************************************)
(* Proofs about WinDriver, for every finite set of keys, every number of   *)
(* forks that the registry holds and every number of requests.             *)
(***************************************************************************)
EXTENDS WinDriver, FiniteSetTheorems, TLAPS

(***************************************************************************)
(* What makes AcknowledgedForksSurvive inductive: a request is answered    *)
(* only for a fork that is still the one in memory, by a driver that is    *)
(* there.                                                                  *)
(***************************************************************************)
RequestInMemory ==
    ~Idle =>
        /\ machine
        /\ request.key \in Key => fork_keycode[request.key] = request.value

DriverInv ==
    DriverTypeOK /\ RequestInMemory /\ ReportsHaveReceiver /\ AcknowledgedForksSurvive

-----------------------------------------------------------------------------
(***************************************************************************)
(* A forked key that the loop of save_configuration_to_registry does not   *)
(* reach has MAX_FORKS forked keys before it: there are more than that.    *)
(***************************************************************************)
LEMMA ForgottenOnlyOverflow ==
    ASSUME NEW forks \in [Key -> Fork],
           NEW k \in ForkedKeys(forks), k \notin StoredKeys(forks)
    PROVE  Cardinality(ForkedKeys(forks)) > MAX_FORKS
<1> DEFINE before == {j \in ForkedKeys(forks) : j < k}
<1>1. IsFiniteSet(ForkedKeys(forks)) /\ IsFiniteSet(before)
  <2>1. ForkedKeys(forks) \subseteq Key /\ before \subseteq Key
    BY DEF ForkedKeys
  <2> QED BY <2>1, KeyAssumption, FS_Subset
<1>2. k \notin before /\ before \cup {k} \subseteq ForkedKeys(forks)
  BY ForkCodeAssumption DEF ForkedKeys
<1>3. Cardinality(before \cup {k}) = Cardinality(before) + 1
  BY <1>1, <1>2, FS_AddElement
<1>4. Cardinality(before \cup {k}) <= Cardinality(ForkedKeys(forks))
  BY <1>1, <1>2, FS_Subset
<1>5. Cardinality(before) \in Nat /\ Cardinality(ForkedKeys(forks)) \in Nat
  BY <1>1, FS_CardinalityType
<1>6. ~(Cardinality(before) < MAX_FORKS)
  BY DEF StoredKeys
<1> HIDE DEF before
<1> QED BY <1>3, <1>4, <1>5, <1>6, MaxForksAssumption

LEMMA SavedType ==
    ASSUME NEW forks \in [Key -> Fork]
    PROVE  /\ save_forks(forks) \in ForkLists
           /\ DOMAIN save_forks(forks) = StoredKeys(forks)
           /\ \A k \in StoredKeys(forks) : save_forks(forks)[k] = forks[k]
<1>1. StoredKeys(forks) \in SUBSET Key
  BY DEF StoredKeys, ForkedKeys
<1>2. save_forks(forks) \in [StoredKeys(forks) -> ForkCode]
  BY DEF save_forks, StoredKeys, ForkedKeys, Fork
<1> QED BY <1>1, <1>2 DEF ForkLists, save_forks

LEMMA RestoredType ==
    ASSUME registry.binary_forks \in ForkLists
    PROVE  restore_forks(NoForks) \in [Key -> Fork]
<1>1. PICK S \in SUBSET Key : registry.binary_forks \in [S -> ForkCode]
  BY DEF ForkLists
<1> QED BY <1>1 DEF restore_forks, NoForks, Fork

(***************************************************************************)
(* What is in memory is what is restored, or was set by a request.         *)
(***************************************************************************)
LEMMA InitDriverInv == DriverInit => DriverInv
<1> SUFFICES ASSUME DriverInit PROVE DriverInv
  OBVIOUS
<1>1. NoForks \in [Key -> Fork] /\ ForkedKeys(NoForks) = {}
  BY DEF NoForks, Fork, ForkedKeys
<1>2. DOMAIN save_forks(NoForks) = {}
  BY <1>1 DEF save_forks, StoredKeys
<1>3. registry.binary_forks = save_forks(NoForks) /\ registry.repeat_limit = Absent
  BY DEF DriverInit
<1>4. DriverTypeOK
  <2>1. registry \in [repeat_limit : Nat \cup {Absent}, binary_forks : ForkLists]
    BY <1>1, SavedType DEF DriverInit
  <2>2. request \in [at : {"idle", "configured", "opened", "globals"},
                     key : Key \cup {NO_FORK}, value : Fork]
    BY DEF DriverInit, NoRequest, Fork
  <2>3. /\ fork_keycode \in [Key -> Fork] /\ repeat_max \in Nat
        /\ requests \in 0..MaxRequests /\ promised \in [Key -> SUBSET Fork]
    BY <1>1, RepeatAssumption, MaxForksAssumption DEF DriverInit, Fork
  <2> QED BY <2>1, <2>2, <2>3 DEF DriverTypeOK, DriverInit
<1>5. AcknowledgedForksSurvive
  <2> SUFFICES ASSUME NEW k \in Key
               PROVE  StoredForks[k] = NO_FORK
    BY DEF AcknowledgedForksSurvive, DriverInit
  <2> QED BY <1>2, <1>3 DEF StoredForks, restore_forks, NoForks
<1>6. RequestInMemory /\ ReportsHaveReceiver
  BY DEF DriverInit, RequestInMemory, Idle, NoRequest, ReportsHaveReceiver
<1> QED BY <1>4, <1>5, <1>6 DEF DriverInv
-----------------------------------------------------------------------------
(***************************************************************************)
(* The driver starts with what the registry holds, or with nothing.        *)
(***************************************************************************)
LEMMA DeviceAddPreserves == DriverInv /\ KbFilter_EvtDeviceAdd => DriverInv'
<1> SUFFICES ASSUME DriverInv, KbFilter_EvtDeviceAdd PROVE DriverInv'
  OBVIOUS
<1> USE DEF DriverInv, KbFilter_EvtDeviceAdd, create_machine, KbFiltr_CreateRawPdo
<1>1. registry' = registry /\ request' = request /\ requests' = requests
  OBVIOUS
<1>2. StoredForks \in [Key -> Fork] /\ StoredForks' = StoredForks
  BY <1>1, RestoredType DEF DriverTypeOK, StoredForks, restore_forks
<1>3. NoForks \in [Key -> Fork] /\ restore_global_value(DefaultRepeat) \in Nat
  BY RepeatAssumption DEF NoForks, Fork, DriverTypeOK, restore_global_value
<1>4. /\ fork_keycode' \in [Key -> Fork] /\ repeat_max' \in Nat
      /\ promised' \in [Key -> SUBSET Fork]
      /\ \A k \in Key : promised[k] \subseteq promised'[k]
      /\ \A k \in Key : fork_keycode'[k] \in promised'[k]
  <2>1. repeat_max' \in Nat
    BY <1>3, RepeatAssumption DEF configure_from_registry
  <2>2. CASE fork_keycode' = StoredForks /\ promised' = promised
    BY <2>1, <2>2, <1>2 DEF AcknowledgedForksSurvive, DriverTypeOK
  <2>3. CASE /\ fork_keycode' = NoForks
             /\ promised' = [k \in Key |-> promised[k] \cup {NO_FORK}]
    BY <2>1, <2>3, <1>3 DEF DriverTypeOK, NoForks, Fork
  <2> QED BY <2>2, <2>3 DEF configure_from_registry, StoredForks
<1>5. DriverTypeOK'
  <2>1. machine' \in BOOLEAN /\ pdo' \in BOOLEAN
    BY DEF DriverTypeOK
  <2>2. UpperConnectData' \in BOOLEAN /\ ClassService' \in BOOLEAN
    BY DEF DriverTypeOK, connection
  <2> QED BY <2>1, <2>2, <1>1, <1>4 DEF DriverTypeOK
<1>6. Idle
  BY DEF RequestInMemory
<1>7. RequestInMemory' /\ ReportsHaveReceiver'
  BY <1>1, <1>6 DEF RequestInMemory, Idle, ReportsHaveReceiver, connection
<1>8. AcknowledgedForksSurvive'
  BY <1>2, <1>4 DEF AcknowledgedForksSurvive
<1> QED BY <1>5, <1>7, <1>8

(***************************************************************************)
(* What was in memory is gone; the registry and its promises stay.         *)
(***************************************************************************)
LEMMA RestartPreserves == DriverInv /\ SystemRestarts => DriverInv'
<1> SUFFICES ASSUME DriverInv, SystemRestarts PROVE DriverInv'
  OBVIOUS
<1> USE DEF DriverInv, SystemRestarts
<1>1. DriverTypeOK'
  <2>1. NoForks \in [Key -> Fork] /\ DefaultRepeat \in Nat
    BY RepeatAssumption DEF NoForks, Fork
  <2>2. request' \in [at : {"idle", "configured", "opened", "globals"},
                      key : Key \cup {NO_FORK}, value : Fork]
    BY DEF NoRequest, Fork
  <2> QED BY <2>1, <2>2 DEF DriverTypeOK
<1>2. RequestInMemory' /\ ReportsHaveReceiver'
  BY DEF RequestInMemory, Idle, NoRequest, ReportsHaveReceiver
<1>3. AcknowledgedForksSurvive'
  BY DEF AcknowledgedForksSurvive, StoredForks, restore_forks
<1> QED BY <1>1, <1>2, <1>3

(***************************************************************************)
(* The connection touches nothing of the configuration.                    *)
(***************************************************************************)
LEMMA ConnectPreserves == DriverInv /\ (Connect \/ Disconnect) => DriverInv'
<1> SUFFICES ASSUME DriverInv, Connect \/ Disconnect PROVE DriverInv'
  OBVIOUS
<1>1. UNCHANGED <<machine, pdo, memory, registry, request, requests, promised>>
  BY DEF Connect, Disconnect, driverVars
<1>2. UpperConnectData' \in BOOLEAN /\ ClassService' \in BOOLEAN
  BY DEF Connect, Disconnect, driverVars, connection, DriverInv, DriverTypeOK
<1>3. DriverTypeOK'
  BY <1>1, <1>2 DEF DriverInv, DriverTypeOK, memory
<1>4. ReportsHaveReceiver'
  BY DEF Connect, Disconnect, driverVars, connection, DriverInv, ReportsHaveReceiver
<1>5. RequestInMemory' /\ AcknowledgedForksSurvive'
  BY <1>1 DEF DriverInv, memory, RequestInMemory, Idle, AcknowledgedForksSurvive,
              StoredForks, restore_forks
<1> QED BY <1>3, <1>4, <1>5 DEF DriverInv
-----------------------------------------------------------------------------
(***************************************************************************)
(* A new request: the fork it sets is in memory, and may come back.        *)
(***************************************************************************)
LEMMA SetForkPreserves ==
    ASSUME NEW key \in Key, NEW value \in Fork, DriverInv, SetFork(key, value)
    PROVE  DriverInv'
<1> USE DEF DriverInv, SetFork, Requested, MayRequest
<1>1. UNCHANGED <<machine, pdo, repeat_max, connection, registry>>
  OBVIOUS
<1>2. /\ fork_keycode' \in [Key -> Fork] /\ fork_keycode'[key] = value
      /\ \A k \in Key \ {key} : fork_keycode'[k] = fork_keycode[k]
  BY DEF DriverTypeOK
<1>3. /\ promised' \in [Key -> SUBSET Fork] /\ value \in promised'[key]
      /\ \A k \in Key : promised[k] \subseteq promised'[k]
  BY DEF DriverTypeOK
<1>4. request' \in [at : {"idle", "configured", "opened", "globals"},
                    key : Key \cup {NO_FORK}, value : Fork]
  OBVIOUS
<1>5. requests' \in 0..MaxRequests
  BY MaxForksAssumption DEF DriverTypeOK
<1>6. DriverTypeOK'
  BY <1>1, <1>2, <1>3, <1>4, <1>5 DEF DriverTypeOK, connection
<1>7. RequestInMemory' /\ ReportsHaveReceiver'
  BY <1>1, <1>2 DEF RequestInMemory, Idle, ReportsHaveReceiver, connection
<1>8. AcknowledgedForksSurvive'
  BY <1>1, <1>2, <1>3 DEF AcknowledgedForksSurvive, StoredForks, restore_forks
<1> QED BY <1>6, <1>7, <1>8

LEMMA SetGlobalPreserves == DriverInv /\ SetGlobal => DriverInv'
<1> SUFFICES ASSUME DriverInv, SetGlobal PROVE DriverInv'
  OBVIOUS
<1> USE DEF DriverInv, SetGlobal, Requested, MayRequest
<1>1. UNCHANGED <<machine, pdo, fork_keycode, connection, registry, promised>>
  OBVIOUS
<1>2. request' \in [at : {"idle", "configured", "opened", "globals"},
                    key : Key \cup {NO_FORK}, value : Fork]
  BY DEF Fork
<1>3. requests' \in 0..MaxRequests /\ repeat_max' \in Nat
  BY MaxForksAssumption, RepeatAssumption DEF DriverTypeOK
<1>4. DriverTypeOK'
  BY <1>1, <1>2, <1>3 DEF DriverTypeOK, connection
<1>5. NO_FORK \notin Key
  BY ForkCodeAssumption DEF NO_FORK
<1>6. RequestInMemory' /\ ReportsHaveReceiver'
  BY <1>1, <1>5 DEF RequestInMemory, Idle, ReportsHaveReceiver, connection
<1>7. AcknowledgedForksSurvive'
  BY <1>1 DEF AcknowledgedForksSurvive, StoredForks, restore_forks
<1> QED BY <1>4, <1>6, <1>7

(***************************************************************************)
(* The handler's steps that leave the list of forks alone.                 *)
(***************************************************************************)
LEMMA HandlerStepPreserves ==
    DriverInv /\ (OpenKey \/ OpenKeyFails \/ save_global_value \/ SaveForksFails) => DriverInv'
<1> SUFFICES ASSUME DriverInv,
                    OpenKey \/ OpenKeyFails \/ save_global_value \/ SaveForksFails
             PROVE  DriverInv'
  OBVIOUS
<1> USE DEF DriverInv, OpenKey, OpenKeyFails, save_global_value, SaveForksFails
<1>1. UNCHANGED <<machine, pdo, memory, connection, requests, promised>>
  OBVIOUS
<1>2. /\ registry' \in [repeat_limit : Nat \cup {Absent}, binary_forks : ForkLists]
      /\ registry'.binary_forks = registry.binary_forks
  BY DEF DriverTypeOK
<1>3. /\ request' \in [at : {"idle", "configured", "opened", "globals"},
                       key : Key \cup {NO_FORK}, value : Fork]
      /\ \/ request' = NoRequest
         \/ ~Idle /\ request'.key = request.key /\ request'.value = request.value
  BY DEF DriverTypeOK, Answered, Continues, NoRequest, Idle, Fork
<1>4. DriverTypeOK'
  BY <1>1, <1>2, <1>3 DEF DriverTypeOK, memory, connection
<1>5. RequestInMemory' /\ ReportsHaveReceiver'
  BY <1>1, <1>3 DEF RequestInMemory, Idle, NoRequest, ReportsHaveReceiver, memory, connection
<1>6. AcknowledgedForksSurvive'
  BY <1>1, <1>2 DEF AcknowledgedForksSurvive, StoredForks, restore_forks, memory
<1> QED BY <1>4, <1>5, <1>6

(***************************************************************************)
(* The answer of success: what was written is what is promised.            *)
(***************************************************************************)
LEMMA SaveForksPreserves == DriverInv /\ SaveForks => DriverInv'
<1> SUFFICES ASSUME DriverInv, SaveForks PROVE DriverInv'
  OBVIOUS
<1> USE DEF DriverInv, SaveForks
<1>1. UNCHANGED <<machine, pdo, memory, connection, requests>>
  OBVIOUS
<1>2. fork_keycode \in [Key -> Fork] /\ promised \in [Key -> SUBSET Fork]
  BY DEF DriverTypeOK
<1>3. machine /\ (request.key \in Key => fork_keycode[request.key] = request.value)
  BY DEF RequestInMemory, Idle
<1>4. /\ registry' \in [repeat_limit : Nat \cup {Absent}, binary_forks : ForkLists]
      /\ registry'.binary_forks = save_forks(fork_keycode)
  BY <1>2, SavedType DEF DriverTypeOK
<1>5. promised' \in [Key -> SUBSET Fork]
  BY <1>2, <1>3 DEF Promises, DriverTypeOK, Fork
<1>6. DriverTypeOK'
  <2>1. request' \in [at : {"idle", "configured", "opened", "globals"},
                      key : Key \cup {NO_FORK}, value : Fork]
    BY DEF Answered, NoRequest, Fork
  <2> QED BY <1>1, <1>4, <1>5, <2>1 DEF DriverTypeOK, memory, connection
<1>7. RequestInMemory' /\ ReportsHaveReceiver'
  BY <1>1 DEF RequestInMemory, Idle, Answered, NoRequest, ReportsHaveReceiver, connection
<1>8. ASSUME NEW k \in Key
      PROVE  StoredForks'[k] \in promised'[k] /\ fork_keycode'[k] \in promised'[k]
  <2>1. fork_keycode[k] \in promised'[k] /\ fork_keycode' = fork_keycode
    BY <1>1, <1>3 DEF Promises, memory, AcknowledgedForksSurvive
  <2>2. StoredForks'[k] = IF k \in StoredKeys(fork_keycode) THEN fork_keycode[k] ELSE NO_FORK
    BY <1>2, <1>4, SavedType DEF StoredForks, restore_forks, NoForks
  <2>3. CASE k \in StoredKeys(fork_keycode)
    BY <2>1, <2>2, <2>3
  <2>4. CASE k \notin ForkedKeys(fork_keycode)
    BY <2>1, <2>2, <2>4 DEF ForkedKeys, StoredKeys
  <2>5. CASE k \in ForkedKeys(fork_keycode) /\ k \notin StoredKeys(fork_keycode)
    BY <1>2, <2>1, <2>2, <2>5, ForgottenOnlyOverflow DEF Promises
  <2> QED BY <2>3, <2>4, <2>5
<1>9. AcknowledgedForksSurvive'
  BY <1>8 DEF AcknowledgedForksSurvive
<1> QED BY <1>6, <1>7, <1>9
-----------------------------------------------------------------------------
LEMMA NextDriverInv == DriverInv /\ [DriverNext]_driverVars => DriverInv'
<1> SUFFICES ASSUME DriverInv, [DriverNext]_driverVars PROVE DriverInv'
  OBVIOUS
<1>1. CASE KbFilter_EvtDeviceAdd
  BY <1>1, DeviceAddPreserves
<1>2. CASE Connect \/ Disconnect
  BY <1>2, ConnectPreserves
<1>3. CASE fork_configure \/ UnforkKey
  BY <1>3, SetForkPreserves DEF fork_configure, UnforkKey, Fork
<1>4. CASE SetGlobal
  BY <1>4, SetGlobalPreserves
<1>5. CASE OpenKey \/ OpenKeyFails \/ save_global_value \/ SaveForksFails
  BY <1>5, HandlerStepPreserves
<1>6. CASE SaveForks
  BY <1>6, SaveForksPreserves
<1>7. CASE SystemRestarts
  BY <1>7, RestartPreserves
<1>8. CASE UNCHANGED driverVars
  BY <1>8 DEF driverVars, DriverInv, memory, connection, DriverTypeOK, RequestInMemory, Idle,
              ReportsHaveReceiver, AcknowledgedForksSurvive, StoredForks, restore_forks
<1> QED BY <1>1, <1>2, <1>3, <1>4, <1>5, <1>6, <1>7, <1>8
        DEF DriverNext, KbFilter_EvtIoDeviceControlForRawPdo, KbFilter_EvtIoDeviceControlFromRawPdo

LEMMA DriverInvariance == DriverSpec => []DriverInv
BY InitDriverInv, NextDriverInv, PTL DEF DriverSpec

(***************************************************************************)
(* A fork that SET_FORK acknowledged is what is in memory and in the       *)
(* registry, whichever calls fail and wherever the system stops, for every *)
(* finite set of keys and every MAX_FORKS.                                 *)
(***************************************************************************)
THEOREM ForksSurvive == DriverSpec => []AcknowledgedForksSurvive
<1>1. DriverInv => AcknowledgedForksSurvive
  BY DEF DriverInv
<1> QED BY <1>1, DriverInvariance, PTL

(***************************************************************************)
(* No report of the port finds the filter without its machine or without   *)
(* the class driver above it.                                              *)
(***************************************************************************)
THEOREM ReportsAreReceived == DriverSpec => []ReportsHaveReceiver
<1>1. DriverInv => ReportsHaveReceiver
  BY DEF DriverInv
<1> QED BY <1>1, DriverInvariance, PTL

(***************************************************************************)
(* The driver's variables keep their types; the registry holds fork lists  *)
(* and a limit that loading can read back, at every step of a request.     *)
(***************************************************************************)
THEOREM DriverTypeCorrect == DriverSpec => []DriverTypeOK
<1>1. DriverInv => DriverTypeOK
  BY DEF DriverInv
<1> QED BY <1>1, DriverInvariance, PTL
=============================================================================
