---------------------------- MODULE StoreProofs ----------------------------
(***************************************************************************)
(* Theorems about the store for any set of sandboxes and keys and any       *)
(* callers.  The invariants are proved of StoreSpec, so they hold of every  *)
(* specification whose steps are store steps.                               *)
(***************************************************************************)
EXTENDS Store, TLAPS

LEMMA TransitionsTyped ==
    ASSUME NEW from, NEW to, CanTransition(from, to)
    PROVE  from \in TaskState /\ to \in TaskState
BY DEF CanTransition

LEMMA StoreTypeInit == StoreInit => StoreTypeOK
BY StoreAssumption, SandboxAssumption DEF StoreInit, StoreTypeOK, Row, NoRow, State, Expiry

LEMMA StoreTypeStep == StoreTypeOK /\ [StoreNext]_storeVars => StoreTypeOK'
<1> SUFFICES ASSUME StoreTypeOK, [StoreNext]_storeVars
             PROVE  StoreTypeOK'
    OBVIOUS
<1> USE StoreAssumption DEF StoreTypeOK, Row, Event, State, Expiry, Version
<1>1. ASSUME NEW k \in Key, NEW s \in SandboxID, NEW x \in Expiry,
             InsertSandbox(k, s, x)
      PROVE  StoreTypeOK'
    BY <1>1 DEF InsertSandbox, AppendEvent, TaskState, Absent
<1>2. ASSUME NEW s \in SandboxID, NEW from \in TaskState, NEW to \in TaskState,
             NEW v \in Version, UpdateSandboxState(s, from, to, v)
      PROVE  StoreTypeOK'
    BY <1>2 DEF UpdateSandboxState, AppendEvent
<1>3. ASSUME NEW s \in SandboxID, NEW x \in Expiry, UpdateSandboxExpiry(s, x)
      PROVE  StoreTypeOK'
    BY <1>3 DEF UpdateSandboxExpiry
<1>4. CASE UNCHANGED storeVars
    BY <1>4 DEF storeVars
<1>. QED
    BY <1>1, <1>2, <1>3, <1>4 DEF StoreNext

(* Every reachable store is well typed. *)
THEOREM StoreTypeCorrect == StoreSpec => []StoreTypeOK
BY StoreTypeInit, StoreTypeStep, PTL DEF StoreSpec

-----------------------------------------------------------------------------
(* The history.  HistoryReplays alone is not inductive: a row must also be  *)
(* known to have a positive version exactly when it exists, or the first    *)
(* event of a row could be a transition.                                    *)
Born == \A s \in SandboxID : Exists(s) <=> sandboxes[s].versionID # 0

HistoryInv == StoreTypeOK /\ Born /\ HistoryReplays

LEMMA AbsentIsNoState == Absent \notin TaskState
BY DEF Absent, TaskState

LEMMA HistoryInit == StoreInit => HistoryInv
BY StoreTypeInit
DEF StoreInit, HistoryInv, Born, Exists, NoRow, HistoryReplays, NumberedOnce,
    NothingBeyondRow, Chained, EndsAtRow, EventsOf

(* What inserting a row does to a sandbox's history: only s gains an event,  *)
(* and s had none.                                                           *)
LEMMA InsertHistory ==
    ASSUME HistoryInv, StoreTypeOK',
           NEW k \in Key, NEW s \in SandboxID, NEW x \in Expiry,
           InsertSandbox(k, s, x)
    PROVE  Born' /\ HistoryReplays'
<1> DEFINE new == [sandboxID |-> s, versionID |-> 1, from |-> Absent, to |-> "pending"]
<1>1. events' = events \union {new}
    BY DEF InsertSandbox, AppendEvent
<1>2. /\ sandboxes[s] = NoRow
      /\ sandboxes'[s].state = "pending" /\ sandboxes'[s].versionID = 1
      /\ \A r \in SandboxID \ {s} : sandboxes'[r] = sandboxes[r]
    BY DEF InsertSandbox, HistoryInv, StoreTypeOK
<1>3. Born'
    BY <1>2, AbsentIsNoState DEF HistoryInv, Born, Exists, Absent
<1>4. EventsOf(s) = {}
    BY <1>2 DEF HistoryInv, HistoryReplays, NothingBeyondRow, NoRow, EventsOf
<1>5. EventsOf(s)' = {new}
    BY <1>1, <1>4 DEF EventsOf
<1>6. \A r \in SandboxID \ {s} : EventsOf(r)' = EventsOf(r)
    BY <1>1 DEF EventsOf
<1>7. ASSUME NEW r \in SandboxID
      PROVE  (NumberedOnce(r) /\ NothingBeyondRow(r) /\ Chained(r) /\ EndsAtRow(r))'
    <2>1. CASE r = s
        <3>1. /\ new.versionID = 1 /\ new.from = Absent /\ new.to = "pending"
              /\ new \in EventsOf(s)'
              /\ \A f \in EventsOf(s)' : f = new
            BY <1>5
        <3>2. NumberedOnce(s)'
            BY <1>2, <3>1 DEF NumberedOnce
        <3>3. NothingBeyondRow(s)' /\ Chained(s)' /\ EndsAtRow(s)'
            BY <1>2, <3>1 DEF NothingBeyondRow, Chained, EndsAtRow
        <3>. QED BY <2>1, <3>2, <3>3
    <2>2. CASE r # s
        BY <1>2, <1>6, <2>2
        DEF HistoryInv, HistoryReplays, NumberedOnce, NothingBeyondRow, Chained, EndsAtRow
    <2>. QED BY <2>1, <2>2
<1>. QED BY <1>3, <1>7 DEF HistoryReplays

(* A transition appends the event of the next version, starting where the    *)
(* row, and so the last event, was.                                          *)
LEMMA TransitionHistory ==
    ASSUME HistoryInv, StoreTypeOK',
           NEW s \in SandboxID, NEW from \in TaskState, NEW to \in TaskState,
           NEW v \in Version, UpdateSandboxState(s, from, to, v)
    PROVE  Born' /\ HistoryReplays'
<1> DEFINE new == [sandboxID |-> s, versionID |-> v + 1, from |-> from, to |-> to]
<1>0. v \in Nat
    BY StoreAssumption DEF Version
<1> USE <1>0
<1>1. events' = events \union {new}
    BY DEF UpdateSandboxState, AppendEvent
<1>2. /\ sandboxes[s].state = from /\ sandboxes[s].versionID = v
      /\ sandboxes'[s].state = to /\ sandboxes'[s].versionID = v + 1
      /\ \A r \in SandboxID \ {s} : sandboxes'[r] = sandboxes[r]
    BY DEF UpdateSandboxState, Matches, HistoryInv, StoreTypeOK
<1>3. v # 0
    BY <1>2, AbsentIsNoState DEF HistoryInv, Born, Exists
<1>4. Born'
    BY <1>2, AbsentIsNoState DEF HistoryInv, Born, Exists
<1>5. EventsOf(s)' = EventsOf(s) \union {new}
    BY <1>1 DEF EventsOf
<1>6. \A r \in SandboxID \ {s} : EventsOf(r)' = EventsOf(r)
    BY <1>1 DEF EventsOf
<1>7. \A e \in EventsOf(s) : e.versionID \in 1 .. v
    BY <1>2 DEF HistoryInv, HistoryReplays, NothingBeyondRow
<1>8. \A e \in EventsOf(s) : e.versionID = v => e.to = from
    BY <1>2 DEF HistoryInv, HistoryReplays, EndsAtRow
<1>9. ASSUME NEW r \in SandboxID
      PROVE  (NumberedOnce(r) /\ NothingBeyondRow(r) /\ Chained(r) /\ EndsAtRow(r))'
    <2>1. CASE r = s
        <3>1. NumberedOnce(s)'
            <4>1. ASSUME NEW w \in 1 .. v
                  PROVE  \E e \in EventsOf(s)' :
                            /\ e.versionID = w
                            /\ \A f \in EventsOf(s)' : f.versionID = w => f = e
                BY <1>2, <1>5, <1>7, <4>1
                DEF HistoryInv, HistoryReplays, NumberedOnce
            <4>2. \E e \in EventsOf(s)' :
                     /\ e.versionID = v + 1
                     /\ \A f \in EventsOf(s)' : f.versionID = v + 1 => f = e
                <5>1. new \in EventsOf(s)' /\ new.versionID = v + 1
                    BY <1>5
                <5>2. ASSUME NEW f \in EventsOf(s)', f.versionID = v + 1
                      PROVE  f = new
                    BY <1>5, <1>7, <5>2
                <5>. QED BY <5>1, <5>2
            <4>. QED BY <1>2, <4>1, <4>2 DEF NumberedOnce
        <3>2. NothingBeyondRow(s)'
            BY <1>2, <1>3, <1>5, <1>7 DEF NothingBeyondRow
        <3>3. Chained(s)'
            BY <1>2, <1>3, <1>5, <1>7, <1>8
            DEF HistoryInv, HistoryReplays, Chained
        <3>4. EndsAtRow(s)'
            BY <1>2, <1>5, <1>7 DEF EndsAtRow
        <3>. QED BY <2>1, <3>1, <3>2, <3>3, <3>4
    <2>2. CASE r # s
        BY <1>2, <1>6, <2>2
        DEF HistoryInv, HistoryReplays, NumberedOnce, NothingBeyondRow, Chained, EndsAtRow
    <2>. QED BY <2>1, <2>2
<1>. QED BY <1>4, <1>9 DEF HistoryReplays

(* Rewriting the lease touches neither the state, the version nor history.   *)
LEMMA ExpiryHistory ==
    ASSUME HistoryInv, StoreTypeOK',
           NEW s \in SandboxID, NEW x \in Expiry, UpdateSandboxExpiry(s, x)
    PROVE  Born' /\ HistoryReplays'
<1>1. \A r \in SandboxID :
          /\ sandboxes'[r].state = sandboxes[r].state
          /\ sandboxes'[r].versionID = sandboxes[r].versionID
          /\ EventsOf(r)' = EventsOf(r)
    BY DEF UpdateSandboxExpiry, HistoryInv, StoreTypeOK, Row, EventsOf
<1>. QED
    BY <1>1
    DEF HistoryInv, Born, Exists, HistoryReplays, NumberedOnce, NothingBeyondRow,
        Chained, EndsAtRow

LEMMA HistoryStep == HistoryInv /\ [StoreNext]_storeVars => HistoryInv'
<1> SUFFICES ASSUME HistoryInv, [StoreNext]_storeVars
             PROVE  HistoryInv'
    OBVIOUS
<1>1. StoreTypeOK'
    BY StoreTypeStep DEF HistoryInv
<1>2. CASE StoreNext
    BY <1>1, <1>2, InsertHistory, TransitionHistory, ExpiryHistory
    DEF StoreNext, HistoryInv
<1>3. CASE UNCHANGED storeVars
    BY <1>1, <1>3
    DEF storeVars, HistoryInv, Born, Exists, HistoryReplays, NumberedOnce,
        NothingBeyondRow, Chained, EndsAtRow, EventsOf
<1>. QED BY <1>2, <1>3

(* The event log replays to the row, for any callers in any order: a state   *)
(* change and its event are never seen apart.                                *)
THEOREM HistoryAlwaysReplays == StoreSpec => []HistoryReplays
<1>1. StoreSpec => []HistoryInv
    BY HistoryInit, HistoryStep, PTL DEF StoreSpec
<1>2. HistoryInv => HistoryReplays
    BY DEF HistoryInv
<1>. QED BY <1>1, <1>2, PTL
-----------------------------------------------------------------------------
(* Keys.  A row and its key are inserted in one transaction.                *)
KeysInv == StoreTypeOK /\ OneKeyPerSandbox

LEMMA KeysInit == StoreInit => KeysInv
BY StoreTypeInit, StoreAssumption, SandboxAssumption
DEF StoreInit, KeysInv, OneKeyPerSandbox, Exists, NoRow

LEMMA KeysStep == KeysInv /\ [StoreNext]_storeVars => KeysInv'
<1> SUFFICES ASSUME KeysInv, [StoreNext]_storeVars
             PROVE  OneKeyPerSandbox'
    BY StoreTypeStep DEF KeysInv
<1>0. StoreTypeOK'
    BY StoreTypeStep DEF KeysInv
<1>1. ASSUME NEW k \in Key, NEW s \in SandboxID, NEW x \in Expiry,
             InsertSandbox(k, s, x)
      PROVE  OneKeyPerSandbox'
    <2>1. /\ ~Exists(s) /\ Exists(s)'
          /\ \A r \in SandboxID \ {s} : Exists(r)' = Exists(r)
        BY <1>1 DEF InsertSandbox, KeysInv, StoreTypeOK, NoRow, Exists, Absent
    <2>2. /\ keys[k] = NoSandbox /\ keys'[k] = s
          /\ \A j \in Key \ {k} : keys'[j] = keys[j]
        BY <1>1 DEF InsertSandbox, CanInsert, KeysInv, StoreTypeOK
    <2>3. \A j \in Key : keys[j] # s
        BY <2>1, StoreAssumption, SandboxAssumption DEF KeysInv, OneKeyPerSandbox
    <2>. QED
        BY <2>1, <2>2, <2>3, StoreAssumption, SandboxAssumption DEF KeysInv, StoreTypeOK, OneKeyPerSandbox
<1>2. ASSUME keys' = keys, \A s \in SandboxID : Exists(s)' = Exists(s)
      PROVE  OneKeyPerSandbox'
    BY <1>2, StoreAssumption, SandboxAssumption DEF KeysInv, StoreTypeOK, OneKeyPerSandbox
<1>3. ASSUME NEW s \in SandboxID, NEW from \in TaskState, NEW to \in TaskState,
             NEW v \in Version, UpdateSandboxState(s, from, to, v)
      PROVE  OneKeyPerSandbox'
    BY <1>2, <1>3, AbsentIsNoState
    DEF UpdateSandboxState, Matches, KeysInv, StoreTypeOK, Exists
<1>4. ASSUME NEW s \in SandboxID, NEW x \in Expiry, UpdateSandboxExpiry(s, x)
      PROVE  OneKeyPerSandbox'
    BY <1>2, <1>4 DEF UpdateSandboxExpiry, KeysInv, StoreTypeOK, Row, Exists
<1>5. CASE UNCHANGED storeVars
    BY <1>2, <1>5 DEF storeVars, Exists
<1>. QED BY <1>1, <1>3, <1>4, <1>5 DEF StoreNext

(* However creates race, every sandbox has exactly one key and every key in  *)
(* the table has its sandbox: a retry finds the record or makes the first.   *)
THEOREM OneKeyPerSandboxAlways == StoreSpec => []OneKeyPerSandbox
<1>1. StoreSpec => []KeysInv
    BY KeysInit, KeysStep, PTL DEF StoreSpec
<1>2. KeysInv => OneKeyPerSandbox
    BY DEF KeysInv
<1>. QED BY <1>1, <1>2, PTL

(* A recorded key is never repointed.                                        *)
THEOREM KeysAreStable == StoreSpec => KeysNeverMove
<1>1. StoreTypeOK /\ [StoreNext]_storeVars =>
          [\A k \in Key : keys[k] # NoSandbox => keys'[k] = keys[k]]_storeVars
    BY DEF StoreNext, InsertSandbox, CanInsert, UpdateSandboxState,
           UpdateSandboxExpiry, storeVars, StoreTypeOK
<1>. QED BY <1>1, StoreTypeCorrect, PTL DEF StoreSpec, KeysNeverMove

-----------------------------------------------------------------------------
(* Refinement: a store step is a step of the lifecycle or leaves it alone.   *)
LEMMA LifecycleStep ==
    HistoryInv /\ [StoreNext]_storeVars => [Lifecycle!Next]_(Lifecycle!vars)
<1> SUFFICES ASSUME HistoryInv, [StoreNext]_storeVars
             PROVE  [Lifecycle!Next]_(Lifecycle!vars)
    OBVIOUS
<1>1. ASSUME NEW k \in Key, NEW s \in SandboxID, NEW x \in Expiry,
             InsertSandbox(k, s, x)
      PROVE  Lifecycle!Record(s)
    <2>1. /\ sandboxes[s] = NoRow
          /\ sandboxes'[s].state = "pending" /\ sandboxes'[s].versionID = 1
          /\ \A r \in SandboxID \ {s} : sandboxes'[r] = sandboxes[r]
        BY <1>1 DEF InsertSandbox, HistoryInv, StoreTypeOK
    <2>2. sandboxes[s].state = Absent /\ sandboxes[s].versionID = 0
        BY <2>1 DEF NoRow
    <2>3. [r \in SandboxID |-> sandboxes'[r].state]
              = [[r \in SandboxID |-> sandboxes[r].state] EXCEPT ![s] = "pending"]
        BY <2>1
    <2>4. [r \in SandboxID |-> sandboxes'[r].versionID]
              = [[r \in SandboxID |-> sandboxes[r].versionID] EXCEPT ![s] = 1]
        BY <2>1
    <2>5. [r \in SandboxID |-> sandboxes[r].versionID][s] + 1 = 1
        BY <2>2
    <2>6. Lifecycle!Move(s, "pending")
        BY <2>3, <2>4, <2>5 DEF Lifecycle!Move
    <2>. QED
        BY <2>2, <2>6 DEF Lifecycle!Record, Lifecycle!Absent, Absent
<1>2. ASSUME NEW s \in SandboxID, NEW from \in TaskState, NEW to \in TaskState,
             NEW v \in Version, UpdateSandboxState(s, from, to, v)
      PROVE  Lifecycle!Transition(s)
    <2>1. Lifecycle!CanTransition(sandboxes[s].state, to)
        BY <1>2
        DEF UpdateSandboxState, Matches, CanTransition, Lifecycle!CanTransition,
            ValidTransitions, Lifecycle!ValidTransitions, TaskState, Lifecycle!TaskState
    <2>2. Lifecycle!Move(s, to)
        BY <1>2
        DEF UpdateSandboxState, Matches, HistoryInv, StoreTypeOK, Lifecycle!Move
    <2>. QED
        BY <2>1, <2>2 DEF Lifecycle!Transition, Lifecycle!TaskState, TaskState
<1>3. ASSUME NEW s \in SandboxID, NEW x \in Expiry, UpdateSandboxExpiry(s, x)
      PROVE  UNCHANGED Lifecycle!vars
    BY <1>3 DEF UpdateSandboxExpiry, HistoryInv, StoreTypeOK, Row, Lifecycle!vars
<1>4. CASE UNCHANGED storeVars
    BY <1>4 DEF storeVars, Lifecycle!vars
<1>. QED BY <1>1, <1>2, <1>3, <1>4 DEF StoreNext, Lifecycle!Next

(* Whatever the callers do, each row lives the abstract life: born pending,  *)
(* legal moves only, one version per move, nothing after a terminal state.   *)
THEOREM StoreImplementsLifecycle == StoreSpec => ImplementsLifecycle
<1>1. StoreInit => Lifecycle!Init
    BY DEF StoreInit, NoRow, Lifecycle!Init, Lifecycle!Absent, Absent
<1>2. StoreSpec => []HistoryInv
    BY HistoryInit, HistoryStep, PTL DEF StoreSpec
<1>. QED
    BY <1>1, <1>2, LifecycleStep, PTL DEF StoreSpec, ImplementsLifecycle, Lifecycle!Spec
=============================================================================
