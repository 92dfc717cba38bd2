------------------------- MODULE ControlPlaneProofs -------------------------
(***************************************************************************)
(* Theorems about the daemon for any number of clients, sandboxes, keys and *)
(* containers, any faults and any crashes.                                  *)
(***************************************************************************)
EXTENDS ControlPlane, StoreProofs

(* The versions a row can have in each state.  They tie the versions the    *)
(* handlers and the pass carry to the bound of StoreNext.                   *)
VersionsIn(state) ==
    CASE state = Absent     -> {0}
      [] state = "pending"  -> {1}
      [] state = "running"  -> {2}
      [] state = "failed"   -> {2, 3}
      [] state = "stopping" -> {3}
      [] state = "stopped"  -> {4}

VersionsFollowStates ==
    \A s \in SandboxID : sandboxes[s].versionID \in VersionsIn(sandboxes[s].state)

StoreInv == EnvTypeOK /\ StoreTypeOK /\ ControlTypeOK /\ VersionsFollowStates
               /\ SameKeySameSandbox

-----------------------------------------------------------------------------
LEMMA EnvStep ==
    ASSUME EnvTypeOK,
           NoFault \/ Fault \/ ClockTick \/ CrashAllowed \/ CallHangs \/ CallReturns
    PROVE  EnvTypeOK'
<1> USE DEF NoFault, Fault, ClockTick, CrashAllowed, CallHangs, CallReturns, envVars
<1>1. hung' \in BOOLEAN
    <2>1. hung' \in {TRUE, FALSE, hung}
        OBVIOUS
    <2>. QED BY <2>1, Zenon DEF EnvTypeOK
<1>2. now' \in 0 .. MaxTime /\ faults' \in 0 .. MaxFaults /\ crashes' \in 0 .. MaxCrashes
    BY EnvironmentAssumption DEF EnvTypeOK
<1>. QED BY <1>1, <1>2, Zenon DEF EnvTypeOK

(* A write that matched was given the version of its row.                   *)
LEMMA UpdateIsStoreStep ==
    ASSUME StoreTypeOK, VersionsFollowStates, NEW s \in SandboxID,
           NEW from, NEW to, NEW v, UpdateSandboxState(s, from, to, v)
    PROVE  StoreNext
<1>1. from \in TaskState /\ to \in TaskState
    BY TransitionsTyped DEF UpdateSandboxState
<1>2. sandboxes[s].state \in State /\ v \in VersionsIn(sandboxes[s].state)
    BY DEF UpdateSandboxState, Matches, StoreTypeOK, Row, VersionsFollowStates
<1>3. v \in Version
    BY <1>2, StoreAssumption DEF VersionsIn, State, TaskState, Absent, Version
<1>. QED BY <1>1, <1>3 DEF StoreNext

LEMMA VersionsStep ==
    ASSUME StoreTypeOK, VersionsFollowStates, [StoreNext]_storeVars
    PROVE  VersionsFollowStates'
<1> USE DEF StoreTypeOK, VersionsFollowStates
<1>1. ASSUME NEW k \in Key, NEW s \in SandboxID, NEW x \in Expiry,
             InsertSandbox(k, s, x)
      PROVE  VersionsFollowStates'
    <2>1. /\ sandboxes'[s].state = "pending" /\ sandboxes'[s].versionID = 1
          /\ \A r \in SandboxID \ {s} : sandboxes'[r] = sandboxes[r]
        BY <1>1 DEF InsertSandbox
    <2>. QED BY <2>1 DEF VersionsIn, Absent
<1>2. ASSUME NEW s \in SandboxID, NEW from \in TaskState, NEW to \in TaskState,
             NEW v \in Version, UpdateSandboxState(s, from, to, v)
      PROVE  VersionsFollowStates'
    <2>1. /\ sandboxes'[s].state = to /\ sandboxes'[s].versionID = v + 1
          /\ \A r \in SandboxID \ {s} : sandboxes'[r] = sandboxes[r]
        BY <1>2 DEF UpdateSandboxState
    <2>2. v \in VersionsIn(from) /\ to \in ValidTransitions[from]
        BY <1>2 DEF UpdateSandboxState, Matches, CanTransition
    <2>3. v + 1 \in VersionsIn(to)
        BY <2>2 DEF VersionsIn, ValidTransitions, TaskState, Absent
    <2>. QED BY <2>1, <2>3
<1>3. ASSUME NEW s \in SandboxID, NEW x \in Expiry, UpdateSandboxExpiry(s, x)
      PROVE  VersionsFollowStates'
    <2>1. \A r \in SandboxID : /\ sandboxes'[r].state = sandboxes[r].state
                               /\ sandboxes'[r].versionID = sandboxes[r].versionID
        BY <1>3 DEF UpdateSandboxExpiry, Row
    <2>. QED BY <2>1
<1>4. CASE UNCHANGED storeVars
    BY <1>4 DEF storeVars
<1>. QED BY <1>1, <1>2, <1>3, <1>4 DEF StoreNext

-----------------------------------------------------------------------------
(* The handlers.                                                            *)
LEMMA LeasesFit ==
    ASSUME EnvTypeOK, NEW ttl \in TTL
    PROVE  now + ttl \in Expiry
BY ControlAssumption, StoreAssumption, EnvironmentAssumption DEF EnvTypeOK, Expiry

LEMMA InsertingTyped ==
    ASSUME ControlTypeOK, NEW c \in Client, req[c].at = "insert"
    PROVE  req[c].key \in Key /\ req[c].expiresAt \in Expiry
<1>1. req[c] \in Request
    BY DEF ControlTypeOK
<1>2. req[c] # Idle
    BY DEF Idle
<1>3. req[c] \notin [at : {"destroy"}, id : SandboxID, versionID : Version]
    OBVIOUS
<1>4. PICK k \in Key, x \in Expiry : req[c] = Inserting(k, x)
    BY <1>1, <1>2, <1>3 DEF Request
<1>. QED BY <1>4 DEF Inserting

LEMMA StoppingTyped ==
    ASSUME ControlTypeOK, NEW c \in Client, req[c].at = "destroy"
    PROVE  req[c].id \in SandboxID
<1>1. req[c] \in Request
    BY DEF ControlTypeOK
<1>2. req[c] # Idle /\ \A k \in Key, x \in Expiry : req[c] # Inserting(k, x)
    BY DEF Idle, Inserting
<1>. QED BY <1>1, <1>2 DEF Request

LEMMA HandlersUseStore ==
    ASSUME StoreInv, ControlNext
    PROVE  [StoreNext]_storeVars /\ EnvTypeOK'
<1> USE DEF StoreInv
<1>1. ASSUME NEW c \in Client, NEW k \in Key, NEW ttl \in TTL, CreateLookup(c, k, ttl)
      PROVE  [StoreNext]_storeVars /\ EnvTypeOK'
    BY <1>1, EnvStep DEF CreateLookup
<1>2. ASSUME NEW c \in Client, CreateInsert(c)
      PROVE  [StoreNext]_storeVars /\ EnvTypeOK'
    <2>1. req[c].key \in Key /\ req[c].expiresAt \in Expiry
        BY <1>2, InsertingTyped DEF CreateInsert
    <2>2. NoFault \/ Fault
        BY <1>2 DEF CreateInsert
    <2>3. UNCHANGED storeVars
              \/ \E s \in SandboxID : InsertSandbox(req[c].key, s, req[c].expiresAt)
        BY <1>2 DEF CreateInsert
    <2>. QED BY <2>1, <2>2, <2>3, EnvStep DEF StoreNext
<1>3. ASSUME NEW c \in Client, NEW s \in SandboxID, DestroyRead(c, s)
      PROVE  [StoreNext]_storeVars /\ EnvTypeOK'
    BY <1>3, EnvStep DEF DestroyRead
<1>4. ASSUME NEW c \in Client, DestroyAccepted(c)
      PROVE  [StoreNext]_storeVars /\ EnvTypeOK'
    BY <1>4, EnvStep, StoppingTyped, UpdateIsStoreStep DEF DestroyAccepted
<1>5. ASSUME NEW c \in Client, DestroyErrs(c)
      PROVE  [StoreNext]_storeVars /\ EnvTypeOK'
    BY <1>5, EnvStep DEF DestroyErrs
<1>6. ASSUME NEW s \in SandboxID, NEW ttl \in TTL, Keepalive(s, ttl)
      PROVE  [StoreNext]_storeVars /\ EnvTypeOK'
    BY <1>6, EnvStep, LeasesFit DEF Keepalive, StoreNext
<1>. QED BY <1>1, <1>2, <1>3, <1>4, <1>5, <1>6 DEF ControlNext

(* The answers: a key that is recorded names the same sandbox for ever, and *)
(* one that is not has been answered with none.                             *)
LEMMA KeysKept ==
    ASSUME StoreTypeOK, [StoreNext]_storeVars, NEW k \in Key, keys[k] # NoSandbox
    PROVE  keys'[k] = keys[k]
BY DEF StoreTypeOK, StoreNext, InsertSandbox, CanInsert, UpdateSandboxState,
       UpdateSandboxExpiry, storeVars

LEMMA UnrecordedUnanswered ==
    ASSUME ControlTypeOK, SameKeySameSandbox, NEW k \in Key, keys[k] = NoSandbox
    PROVE  answered[k] = {}
BY SandboxAssumption DEF ControlTypeOK, SameKeySameSandbox

LEMMA AnswersKept ==
    ASSUME StoreInv, [StoreNext]_storeVars, UNCHANGED answered
    PROVE  SameKeySameSandbox'
<1>1. ASSUME NEW k \in Key
      PROVE  answered'[k] \subseteq {keys'[k]}
    <2>1. CASE keys[k] = NoSandbox
        BY <2>1, UnrecordedUnanswered DEF StoreInv
    <2>2. CASE keys[k] # NoSandbox
        BY <2>2, KeysKept DEF StoreInv, SameKeySameSandbox
    <2>. QED BY <2>1, <2>2
<1>. QED BY <1>1 DEF SameKeySameSandbox

LEMMA IdleIsRequest == Idle \in Request
BY DEF Request

LEMMA HandlersKeepControl ==
    ASSUME StoreInv, ControlNext
    PROVE  ControlTypeOK' /\ SameKeySameSandbox'
<1> USE DEF StoreInv
<1>0. [StoreNext]_storeVars
    BY HandlersUseStore
<1>1. ASSUME NEW c \in Client, NEW k \in Key, NEW ttl \in TTL, CreateLookup(c, k, ttl)
      PROVE  ControlTypeOK' /\ SameKeySameSandbox'
    <2>1. keys' = keys
        BY <1>1 DEF CreateLookup, storeVars
    <2>2. CASE keys[k] # NoSandbox
        <3>1. answered' = [answered EXCEPT ![k] = @ \union {keys[k]}] /\ req' = req
            BY <1>1, <2>2 DEF CreateLookup
        <3>2. keys[k] \in SandboxID
            BY <2>2 DEF StoreTypeOK
        <3>3. ControlTypeOK'
            BY <3>1, <3>2 DEF ControlTypeOK
        <3>. QED BY <2>1, <3>1, <3>3 DEF ControlTypeOK, SameKeySameSandbox
    <2>3. CASE keys[k] = NoSandbox
        <3>1. req' = [req EXCEPT ![c] = Inserting(k, now + ttl)] /\ answered' = answered
            BY <1>1, <2>3 DEF CreateLookup
        <3>2. Inserting(k, now + ttl) \in Request
            BY LeasesFit DEF Request
        <3>3. ControlTypeOK'
            BY <3>1, <3>2 DEF ControlTypeOK
        <3>. QED BY <1>0, <3>1, <3>3, AnswersKept
    <2>. QED BY <2>2, <2>3
<1>2. ASSUME NEW c \in Client, CreateInsert(c)
      PROVE  ControlTypeOK' /\ SameKeySameSandbox'
    <2> DEFINE k == req[c].key
    <2>1. k \in Key
        BY <1>2, InsertingTyped DEF CreateInsert
    <2>2. req' = [req EXCEPT ![c] = Idle]
        BY <1>2 DEF CreateInsert, Answer
    <2>3. ASSUME NEW s \in SandboxID, InsertSandbox(k, s, req[c].expiresAt),
                 answered' = [answered EXCEPT ![k] = @ \union {s}]
          PROVE  ControlTypeOK' /\ SameKeySameSandbox'
        <3>1. ControlTypeOK'
            BY <2>1, <2>2, <2>3, IdleIsRequest DEF ControlTypeOK
        <3>2. answered[k] = {}
            BY <2>1, <2>3, UnrecordedUnanswered DEF InsertSandbox, CanInsert
        <3>3. /\ keys'[k] = s /\ answered'[k] = {s}
              /\ \A j \in Key \ {k} : keys'[j] = keys[j] /\ answered'[j] = answered[j]
            BY <2>1, <2>3, <3>2 DEF InsertSandbox, StoreTypeOK, ControlTypeOK
        <3>. QED BY <3>1, <3>3 DEF SameKeySameSandbox
    <2>4. CASE UNCHANGED answered
        BY <1>0, <2>2, <2>4, IdleIsRequest, AnswersKept DEF ControlTypeOK
    <2>. QED BY <1>2, <2>3, <2>4 DEF CreateInsert
<1>3. ASSUME NEW c \in Client, NEW s \in SandboxID, DestroyRead(c, s)
      PROVE  ControlTypeOK' /\ SameKeySameSandbox'
    <2>1. sandboxes[s].state \in State /\ sandboxes[s].versionID \in VersionsIn(sandboxes[s].state)
        BY DEF StoreTypeOK, Row, VersionsFollowStates
    <2>2. sandboxes[s].versionID \in Version
        BY <2>1, StoreAssumption DEF VersionsIn, State, TaskState, Absent, Version
    <2>3. Stopping(s, sandboxes[s].versionID) \in Request
        BY <2>2 DEF Stopping, Request
    <2>. QED BY <1>0, <1>3, <2>3, AnswersKept DEF DestroyRead, ControlTypeOK
<1>4. ASSUME NEW c \in Client, DestroyAccepted(c) \/ DestroyErrs(c)
      PROVE  ControlTypeOK' /\ SameKeySameSandbox'
    <2>1. req' = [req EXCEPT ![c] = Idle] /\ answered' = answered
        BY <1>4 DEF DestroyAccepted, DestroyErrs, Answer
    <2>. QED BY <1>0, <2>1, IdleIsRequest, AnswersKept DEF ControlTypeOK
<1>5. ASSUME NEW s \in SandboxID, NEW ttl \in TTL, Keepalive(s, ttl)
      PROVE  ControlTypeOK' /\ SameKeySameSandbox'
    BY <1>0, <1>5, AnswersKept DEF Keepalive, controlVars, ControlTypeOK
<1>. QED BY <1>1, <1>2, <1>3, <1>4, <1>5 DEF ControlNext

-----------------------------------------------------------------------------
(* The pass, whose only writes are its write-back and its mark.             *)
LEMMA ReconcilerUsesStore ==
    ASSUME StoreInv, ReconcilerNext
    PROVE  [StoreNext]_storeVars /\ EnvTypeOK'
<1> USE DEF StoreInv
<1>1. ASSUME ListRows \/ ListContainers \/ ListFails \/ FinishPass
                 \/ \E s \in SandboxID : StartItem(s)
      PROVE  UNCHANGED storeVars /\ (NoFault \/ Fault)
    BY <1>1 DEF ListRows, ListContainers, ListFails, FinishPass, StartItem
<1>2. ASSUME NEW s \in SandboxID,
             CreateContainer(s) \/ StartContainer(s) \/ CleanupFailed(s)
                 \/ Compensate(s) \/ DestroyContainer(s)
      PROVE  UNCHANGED storeVars /\ (NoFault \/ Fault)
    BY <1>2 DEF CreateContainer, StartContainer, CleanupFailed, Compensate, DestroyContainer
<1>3. ASSUME NEW s \in SandboxID, WriteBack(s)
      PROVE  [StoreNext]_storeVars /\ (NoFault \/ Fault)
    BY <1>3, UpdateIsStoreStep DEF WriteBack
<1>4. ASSUME NEW s \in SandboxID, Mark(s)
      PROVE  [StoreNext]_storeVars /\ (NoFault \/ Fault)
    BY <1>4, UpdateIsStoreStep DEF Mark
<1>5. [StoreNext]_storeVars /\ (NoFault \/ Fault)
    BY <1>1, <1>2, <1>3, <1>4 DEF ReconcilerNext, HandleAction
<1>. QED BY <1>5, EnvStep

(* Every step of the daemon, of Docker, of the clock, and every crash.      *)
LEMMA StoreInvStep ==
    ASSUME StoreInv, [Next]_vars
    PROVE  [StoreNext]_storeVars /\ StoreInv'
<1>1. ASSUME [StoreNext]_storeVars, EnvTypeOK', ControlTypeOK', SameKeySameSandbox'
      PROVE  StoreInv'
    BY <1>1, StoreTypeStep, VersionsStep DEF StoreInv
<1>2. ASSUME [StoreNext]_storeVars, EnvTypeOK', UNCHANGED controlVars
      PROVE  StoreInv'
    BY <1>1, <1>2, AnswersKept DEF StoreInv, controlVars, ControlTypeOK
<1>3. CASE HandlerStep
    BY <1>1, <1>3, HandlersUseStore, HandlersKeepControl DEF HandlerStep
<1>4. CASE ReconcilerStep
    BY <1>2, <1>4, ReconcilerUsesStore DEF ReconcilerStep
<1>5. CASE DockerStep
    <2>1. NoFault \/ Fault
        BY <1>5 DEF DockerStep
    <2>. QED BY <1>2, <1>5, <2>1, EnvStep DEF DockerStep, StoreInv
<1>6. CASE TimePasses \/ DaemonHangs
    BY <1>2, <1>6, EnvStep DEF TimePasses, DaemonHangs, StoreInv
<1>7. CASE CrashAndRestart
    <2>1. ControlTypeOK'
        BY <1>7, IdleIsRequest DEF CrashAndRestart, ControlTypeOK, StoreInv
    <2>2. UNCHANGED storeVars /\ UNCHANGED answered /\ EnvTypeOK'
        BY <1>7, EnvStep DEF CrashAndRestart, StoreInv
    <2>. QED BY <1>1, <2>1, <2>2, AnswersKept
<1>8. CASE UNCHANGED vars
    <2>1. UNCHANGED storeVars /\ UNCHANGED controlVars /\ NoFault
        BY <1>8 DEF vars, NoFault
    <2>. QED BY <1>2, <2>1, EnvStep DEF StoreInv
<1>. QED BY <1>3, <1>4, <1>5, <1>6, <1>7, <1>8 DEF Next

LEMMA StoreInvInit == Init => StoreInv
<1> SUFFICES ASSUME Init PROVE StoreInv
    OBVIOUS
<1>1. StoreTypeOK
    BY StoreTypeInit DEF Init
<1>2. EnvTypeOK
    <2>1. Init => hung = FALSE /\ now = 0 /\ faults = 0 /\ crashes = 0
        BY Zenon DEF Init, EnvInit
    <2>2. 0 \in 0 .. MaxTime /\ 0 \in 0 .. MaxFaults /\ 0 \in 0 .. MaxCrashes
        BY EnvironmentAssumption
    <2>. QED BY <2>1, <2>2, Zenon DEF EnvTypeOK
<1>3. ControlTypeOK /\ SameKeySameSandbox
    BY IdleIsRequest DEF Init, ControlInit, ControlTypeOK, SameKeySameSandbox
<1>4. VersionsFollowStates
    BY DEF Init, StoreInit, NoRow, Absent, VersionsFollowStates, VersionsIn
<1>. QED BY <1>1, <1>2, <1>3, <1>4 DEF StoreInv

(* Every write of the handlers and of the reconciler is a transaction of    *)
(* the store that any caller may try: what is proved of StoreSpec holds of  *)
(* the daemon.                                                              *)
THEOREM DaemonUsesStore == Spec => UsesStore
<1>1. Init => StoreInit
    BY DEF Init
<1>. QED
    BY <1>1, StoreInvInit, StoreInvStep, PTL DEF Spec, UsesStore, StoreSpec

(* The idempotency key: whatever races, fails and crashes, all creates      *)
(* answered under one key were told of the same sandbox.                    *)
THEOREM OneAnswerPerKey == Spec => []SameKeySameSandbox
<1>1. StoreInv => SameKeySameSandbox
    BY DEF StoreInv
<1>. QED BY <1>1, StoreInvInit, StoreInvStep, PTL DEF Spec

(* What was proved of the store for any callers, for the callers there are: *)
(* under every interleaving of handlers, passes and crashes the rows live   *)
(* the abstract life, replay from their history, and keep their keys.       *)
THEOREM StoreHoldsInDaemon ==
    Spec => /\ []StoreTypeOK /\ []HistoryReplays /\ []OneKeyPerSandbox
            /\ KeysNeverMove /\ ImplementsLifecycle
BY DaemonUsesStore, StoreTypeCorrect, HistoryAlwaysReplays, OneKeyPerSandboxAlways, KeysAreStable,
   StoreImplementsLifecycle, PTL DEF UsesStore
=============================================================================
