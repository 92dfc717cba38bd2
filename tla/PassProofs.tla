----------------------------- MODULE PassProofs ------------------------------
(***************************************************************************)
(* Theorems about the pass over the containers of one Docker daemon, for    *)
(* any instance of the control plane.  The invariant says what the pass     *)
(* may rely on between two of its calls, whatever happened meanwhile.       *)
(***************************************************************************)
EXTENDS ControlPlaneProofs, FiniteSetTheorems

(* An action under way belongs to a sandbox with a plan, in the pass that   *)
(* made the plan.                                                           *)
ActingOnPlan ==
    /\ at # "none" => /\ phase = "acting"
                      /\ current \in SandboxID
                      /\ plan[current].action # "none"
    /\ \A s \in SandboxID : plan[s].action = "none" => plan[s] = NoPlan

(* Only an orphan, or a sandbox the pass is done with, has no row.          *)
OrphansHaveNoRow ==
    phase = "acting" =>
        \A s \in SandboxID : plan[s].action \in {"none", "destroy_orphan"}
                                 => desired[s].state = Absent

(* A container that ran is remembered, and so is what the pass saw running, *)
(* what it is about to start, and what it has just started.                 *)
RanIsStarted ==
    \A c \in ContainerID :
        containers[c].state \in Up \union {"exited"} => containers[c].sandbox \in started

PlanSawStarted == \A s \in SandboxID : plan[s].action = "mark_running" => s \in started

MadeIsItsOwn ==
    at = "start" => /\ made \in ContainerID
                    /\ containers[made].state # "none" => containers[made].sandbox = current

WrittenBackIsStarted == at = "writeback" => current \in started

PassInv ==
    /\ DockerTypeOK /\ ReconcilerTypeOK
    /\ ActingOnPlan /\ OrphansHaveNoRow
    /\ RanIsStarted /\ PlanSawStarted /\ MadeIsItsOwn /\ WrittenBackIsStarted

-----------------------------------------------------------------------------
(* The decision table.                                                      *)
LEMMA DecisionTyped ==
    ASSUME NEW row \in Row, NEW observed \in Observed, NEW t \in Nat
    PROVE  /\ DecideReconcileAction(row, observed, t) \in Action
           /\ DecideReconcileAction(row, observed, t) \in {"none", "destroy_orphan"}
                  => row.state \in {Absent, "running"} \union Terminal
           /\ DecideReconcileAction(row, observed, t) = "destroy_orphan" => row.state = Absent
           /\ DecideReconcileAction(row, observed, t) = "mark_running" => observed = "running"
           /\ DecideReconcileAction(row, observed, t) = "create" => observed = "nil"
BY DEF DecideReconcileAction, DecideOrphan, DecideForRow, Expired, Row, State, TaskState,
       Absent, Terminal, Observed, Action

LEMMA FirstStepTyped ==
    ASSUME NEW s \in SandboxID, ReconcilerTypeOK, plan[s].action # "none"
    PROVE  FirstStep(s) \in {"mark", "create", "destroy"}
BY DEF FirstStep, ReconcilerTypeOK, Action

(* An observation of a running container is of one that ran.                *)
LEMMA SeenRunningIsStarted ==
    ASSUME DockerTypeOK, RanIsStarted, NEW view \in Views, NEW s \in SandboxID,
           view[s] = "running"
    PROVE  s \in started
<1>1. view[s] \in Sightings(s)
    BY DEF Views
<1>2. PICK c \in ContainersOf(s) : StateFromContainerState(containers[c].state) = "running"
    BY <1>1 DEF Sightings
<1>. QED BY <1>2 DEF StateFromContainerState, ContainersOf, RanIsStarted

LEMMA ViewsTyped == ASSUME NEW view \in Views, NEW s \in SandboxID
                    PROVE  view[s] \in Observed
BY DEF Views

-----------------------------------------------------------------------------
(* What each move of the Docker daemon leaves as it was.                    *)
DockerInv == DockerTypeOK /\ RanIsStarted

LEMMA CreateKept ==
    ASSUME DockerInv, NEW c \in ContainerID, NEW s \in SandboxID,
           ContainerCreate(c, s), inflight' \subseteq inflight, UNCHANGED started
    PROVE  /\ DockerInv'
           /\ containers'[c].sandbox = s
           /\ \A d \in ContainerID \ {c} : containers'[d] = containers[d]
<1>1. /\ containers' = [containers EXCEPT ![c] = [sandbox |-> s, state |-> "created"]]
      /\ s # NoSandbox
    BY SandboxAssumption DEF ContainerCreate
<1>2. DockerTypeOK'
    BY <1>1 DEF DockerInv, DockerTypeOK, ContainerState
<1>3. RanIsStarted'
    BY <1>1 DEF DockerInv, DockerTypeOK, RanIsStarted, Up
<1>. QED BY <1>1, <1>2, <1>3 DEF DockerInv, DockerTypeOK

LEMMA StartKept ==
    ASSUME DockerInv, NEW c \in ContainerID, ContainerStart(c)
    PROVE  /\ DockerInv'
           /\ started \subseteq started'
           /\ containers[c].sandbox \in started'
           /\ \A d \in ContainerID : /\ containers'[d].sandbox = containers[d].sandbox
                                     /\ d # c => containers'[d] = containers[d]
<1>1. /\ containers[c].state = "created"
      /\ containers' = [containers EXCEPT ![c].state = "running"]
      /\ started' = started \union {containers[c].sandbox}
      /\ UNCHANGED inflight
    BY DEF ContainerStart
<1>2. containers[c].sandbox \in SandboxID
    BY <1>1 DEF DockerInv, DockerTypeOK
<1>3. DockerTypeOK'
    BY <1>1, <1>2, SandboxAssumption DEF DockerInv, DockerTypeOK, ContainerState
<1>4. RanIsStarted'
    BY <1>1, <1>2 DEF DockerInv, DockerTypeOK, RanIsStarted, Up
<1>. QED BY <1>1, <1>3, <1>4 DEF DockerInv, DockerTypeOK

LEMMA RemoveKept ==
    ASSUME DockerInv, NEW c, RemoveContainer(c)
    PROVE  /\ DockerInv' /\ UNCHANGED started
           /\ \A d \in ContainerID : containers'[d] \in {containers[d], NoSuchContainer}
<1>1. /\ containers' = [containers EXCEPT ![c] = NoSuchContainer]
      /\ UNCHANGED <<inflight, started>>
    BY DEF RemoveContainer
<1>2. DockerTypeOK'
    BY <1>1 DEF DockerInv, DockerTypeOK, ContainerState, NoSuchContainer
<1>3. RanIsStarted'
    BY <1>1 DEF DockerInv, DockerTypeOK, RanIsStarted, NoSuchContainer, Up
<1>. QED BY <1>1, <1>2, <1>3 DEF DockerInv, DockerTypeOK

LEMMA DestroyKept ==
    ASSUME DockerInv, NEW s, Destroy(s)
    PROVE  /\ DockerInv' /\ UNCHANGED started
           /\ \A d \in ContainerID : containers'[d] \in {containers[d], NoSuchContainer}
<1>1. CASE UNCHANGED dockerVars
    BY <1>1 DEF dockerVars, DockerInv, DockerTypeOK, RanIsStarted
<1>2. CASE \E c \in ContainersOf(s) : RemoveContainer(c)
    BY <1>2, RemoveKept
<1>. QED BY <1>1, <1>2 DEF Destroy

LEMMA ExitOrRestartKept ==
    ASSUME DockerInv, NEW c \in ContainerID, ContainerExits(c) \/ ContainerRestarts(c)
    PROVE  /\ DockerInv' /\ UNCHANGED started
           /\ \A d \in ContainerID : /\ containers'[d].sandbox = containers[d].sandbox
                                     /\ containers[d].state # "none"
                                     \/ containers'[d] = containers[d]
<1>1. PICK state \in {"exited", "restarted"} :
          /\ containers[c].state \in Up \union {"exited"}
          /\ containers' = [containers EXCEPT ![c].state = state]
          /\ UNCHANGED <<inflight, started>>
    BY DEF ContainerExits, ContainerRestarts
<1>2. DockerTypeOK'
    BY <1>1 DEF DockerInv, DockerTypeOK, ContainerState, Up
<1>3. RanIsStarted'
    BY <1>1 DEF DockerInv, DockerTypeOK, RanIsStarted, Up
<1>. QED BY <1>1, <1>2, <1>3 DEF DockerInv, DockerTypeOK, Up

-----------------------------------------------------------------------------
(* The rows.  A running one, or one that was, is followed by its container  *)
(* when a write to running is.                                              *)
LEMMA UpdateStarted ==
    ASSUME StoreTypeOK, RunningWasStarted, started \subseteq started',
           NEW s \in SandboxID, NEW from, NEW to, NEW v, UpdateSandboxState(s, from, to, v),
           to = "running" => s \in started'
    PROVE  RunningWasStarted'
<1>1. /\ CanTransition(from, to) /\ sandboxes[s].state = from /\ sandboxes'[s].state = to
      /\ \A r \in SandboxID \ {s} : sandboxes'[r] = sandboxes[r]
    BY DEF UpdateSandboxState, Matches, StoreTypeOK
<1>2. to \in {"running", "failed"} \/ from \in {"running", "stopping"}
    BY <1>1 DEF CanTransition, ValidTransitions, TaskState
<1>3. to = "failed" \/ s \in started'
    BY <1>1, <1>2 DEF RunningWasStarted
<1>. QED BY <1>1, <1>3 DEF RunningWasStarted

LEMMA OthersStarted ==
    ASSUME RunningWasStarted, started \subseteq started',
           \A s \in SandboxID : sandboxes'[s].state \in {sandboxes[s].state, "pending"}
    PROVE  RunningWasStarted'
BY DEF RunningWasStarted

(* No handler writes that a sandbox runs.                                   *)
LEMMA HandlersStarted ==
    ASSUME StoreInv, RunningWasStarted, ControlNext, UNCHANGED started
    PROVE  RunningWasStarted'
<1> USE DEF StoreInv
<1>1. ASSUME NEW c \in Client, CreateInsert(c)
      PROVE  RunningWasStarted'
    <2>1. UNCHANGED storeVars
              \/ \E s \in SandboxID : InsertSandbox(req[c].key, s, req[c].expiresAt)
        BY <1>1 DEF CreateInsert
    <2>. QED BY <2>1, OthersStarted DEF InsertSandbox, StoreTypeOK, storeVars
<1>2. ASSUME NEW c \in Client, DestroyAccepted(c)
      PROVE  RunningWasStarted'
    <2>1. CASE UNCHANGED storeVars
        BY <2>1, OthersStarted DEF storeVars
    <2>2. CASE UpdateSandboxState(req[c].id, "running", "stopping", req[c].versionID)
        BY <1>2, <2>2, StoppingTyped, UpdateStarted DEF DestroyAccepted
    <2>. QED BY <1>2, <2>1, <2>2 DEF DestroyAccepted
<1>3. ASSUME NEW s \in SandboxID, NEW ttl \in TTL, Keepalive(s, ttl)
      PROVE  RunningWasStarted'
    BY <1>3, OthersStarted DEF Keepalive, UpdateSandboxExpiry, StoreTypeOK, Row
<1>4. ASSUME UNCHANGED storeVars
      PROVE  RunningWasStarted'
    BY <1>4, OthersStarted DEF storeVars
<1>. QED BY <1>1, <1>2, <1>3, <1>4 DEF ControlNext, CreateLookup, DestroyRead, DestroyErrs

-----------------------------------------------------------------------------
(* The pass.  It starts and ends, and looks, without moving a container.    *)
PassAndRows == StoreInv /\ PassInv /\ RunningWasStarted

LEMMA NoRowIsRow == NoRow \in Row /\ NoRow.state = Absent
BY StoreAssumption DEF NoRow, Row, State, Expiry

LEMMA NoPlanTyped ==
    NoPlan \in [action : Action, observed : Observed] /\ NoPlan.action = "none"
BY DEF NoPlan, Action, Observed

LEMMA ListRowsKeeps == ASSUME PassAndRows, ListRows PROVE PassInv'
<1> USE DEF PassAndRows, PassInv, StoreInv
<1>1. at = "none"
    BY DEF ListRows, ActingOnPlan
<1>2. ReconcilerTypeOK'
    BY DEF ListRows, ReconcilerTypeOK, StoreTypeOK, specVars
<1>. QED
    BY <1>1, <1>2
    DEF ListRows, dockerVars, DockerTypeOK, ActingOnPlan, OrphansHaveNoRow, RanIsStarted,
        PlanSawStarted, MadeIsItsOwn, WrittenBackIsStarted

LEMMA ListContainersKeeps == ASSUME PassAndRows, ListContainers PROVE PassInv'
<1> USE DEF PassAndRows, PassInv, StoreInv
<1>1. PICK view \in Views :
          LET decided == [s \in SandboxID |-> DecideReconcileAction(desired[s], view[s], now)]
          IN  /\ plan' = [s \in SandboxID |->
                     IF decided[s] = "none" THEN NoPlan
                     ELSE [action |-> decided[s], observed |-> view[s]]]
              /\ desired' = [s \in SandboxID |->
                     IF decided[s] = "none" THEN NoRow ELSE desired[s]]
    BY DEF ListContainers
<1> DEFINE decided == [s \in SandboxID |-> DecideReconcileAction(desired[s], view[s], now)]
<1>2. \A s \in SandboxID :
          /\ view[s] \in Observed
          /\ decided[s] \in Action
          /\ decided[s] = "destroy_orphan" => desired[s].state = Absent
          /\ decided[s] = "mark_running" => view[s] = "running"
    BY ViewsTyped, DecisionTyped, EnvironmentAssumption DEF ReconcilerTypeOK, EnvTypeOK
<1>3. \A s \in SandboxID :
          \/ decided[s] = "none" /\ plan'[s] = NoPlan /\ desired'[s] = NoRow
          \/ /\ decided[s] # "none" /\ desired'[s] = desired[s]
             /\ plan'[s] = [action |-> decided[s], observed |-> view[s]]
    BY <1>1
<1>4. /\ at = "none" /\ phase' = "acting"
      /\ UNCHANGED <<current, at, made, unresolvable, missing>>
      /\ UNCHANGED dockerVars
    BY DEF ListContainers, ActingOnPlan, specVars
<1>5. \A s \in SandboxID :
          /\ plan'[s] \in [action : Action, observed : Observed]
          /\ desired'[s] \in Row
    <2>1. ASSUME NEW s \in SandboxID, decided[s] = "none"
          PROVE  /\ plan'[s] \in [action : Action, observed : Observed]
                 /\ desired'[s] \in Row
        BY <1>3, <2>1, NoPlanTyped, NoRowIsRow
    <2>2. ASSUME NEW s \in SandboxID, decided[s] # "none"
          PROVE  /\ plan'[s] \in [action : Action, observed : Observed]
                 /\ desired'[s] \in Row
        <3>1. plan'[s] = [action |-> decided[s], observed |-> view[s]] /\ desired'[s] = desired[s]
            BY <1>3, <2>2
        <3>2. decided[s] \in Action /\ view[s] \in Observed
            BY <1>2
        <3>3. desired[s] \in Row
            BY DEF ReconcilerTypeOK
        <3> HIDE DEF decided
        <3>. QED BY <3>1, <3>2, <3>3
    <2>. QED BY <2>1, <2>2
<1>6. ReconcilerTypeOK'
    <2>1. plan' \in [SandboxID -> [action : Action, observed : Observed]]
        BY <1>1, <1>5
    <2>2. desired' \in [SandboxID -> Row]
        BY <1>1, <1>5
    <2>. QED BY <1>4, <2>1, <2>2 DEF ReconcilerTypeOK
<1>7. ASSUME NEW s \in SandboxID
      PROVE  plan'[s].action = decided[s]
    <2>1. CASE decided[s] = "none" /\ plan'[s] = NoPlan
        BY <2>1, NoPlanTyped
    <2>2. CASE plan'[s] = [action |-> decided[s], observed |-> view[s]]
        BY <2>2
    <2>. QED BY <1>3, <2>1, <2>2
<1>8. ActingOnPlan' /\ OrphansHaveNoRow'
    <2>1. ActingOnPlan'
        <3>1. at' = "none"
            BY <1>4 DEF ActingOnPlan
        <3>2. ASSUME NEW s \in SandboxID, plan'[s].action = "none" PROVE plan'[s] = NoPlan
            BY <1>3, <1>7, <3>2
        <3>. QED BY <3>1, <3>2 DEF ActingOnPlan
    <2>2. ASSUME NEW s \in SandboxID, plan'[s].action \in {"none", "destroy_orphan"}
          PROVE  desired'[s].state = Absent
        <3>1. decided[s] \in {"none", "destroy_orphan"}
            BY <1>7, <2>2
        <3>2. CASE decided[s] = "none"
            BY <1>3, <3>2, NoRowIsRow
        <3>3. CASE decided[s] = "destroy_orphan"
            BY <1>2, <1>3, <3>3
        <3>. QED BY <3>1, <3>2, <3>3
    <2>. QED BY <2>1, <2>2 DEF OrphansHaveNoRow
<1>9. PlanSawStarted'
    BY <1>2, <1>4, <1>7, SeenRunningIsStarted DEF PlanSawStarted, dockerVars
<1>. QED
    BY <1>4, <1>6, <1>8, <1>9
    DEF dockerVars, DockerTypeOK, RanIsStarted, MadeIsItsOwn, WrittenBackIsStarted

LEMMA ListFailsKeeps == ASSUME PassAndRows, ListFails PROVE PassInv'
<1> USE DEF PassAndRows, PassInv
<1>1. at = "none"
    BY DEF ListFails, ActingOnPlan
<1>2. ReconcilerTypeOK'
    BY NoRowIsRow DEF ListFails, ReconcilerTypeOK, specVars
<1>. QED
    BY <1>1, <1>2
    DEF ListFails, dockerVars, DockerTypeOK, ActingOnPlan, OrphansHaveNoRow, RanIsStarted,
        PlanSawStarted, MadeIsItsOwn, WrittenBackIsStarted

LEMMA StartItemKeeps == ASSUME PassAndRows, NEW s \in SandboxID, StartItem(s) PROVE PassInv'
<1> USE DEF PassAndRows, PassInv
<1>1. plan[s].action # "none"
    BY DEF StartItem, ActingOnPlan
<1>2. at' \in {"mark", "create", "destroy"}
    BY <1>1, FirstStepTyped DEF StartItem
<1>3. ReconcilerTypeOK'
    BY <1>2 DEF StartItem, ReconcilerTypeOK, Step, specVars
<1>. QED
    BY <1>1, <1>2, <1>3
    DEF StartItem, dockerVars, DockerTypeOK, ActingOnPlan, OrphansHaveNoRow, RanIsStarted,
        PlanSawStarted, MadeIsItsOwn, WrittenBackIsStarted

LEMMA FinishPassKeeps == ASSUME PassAndRows, FinishPass PROVE PassInv'
<1> USE DEF PassAndRows, PassInv
<1>1. at = "none"
    BY NoPlanTyped DEF FinishPass, ActingOnPlan
<1>2. ReconcilerTypeOK'
    BY DEF FinishPass, ReconcilerTypeOK, specVars
<1>. QED
    BY <1>1, <1>2
    DEF FinishPass, dockerVars, DockerTypeOK, ActingOnPlan, OrphansHaveNoRow, RanIsStarted,
        PlanSawStarted, MadeIsItsOwn, WrittenBackIsStarted

-----------------------------------------------------------------------------
(* The end of an action, and its next call, need only know what the daemon  *)
(* did.                                                                     *)
LEMMA EndItemKeeps ==
    ASSUME PassAndRows, NEW s \in SandboxID, EndItem(s), DockerInv', started \subseteq started'
    PROVE  PassInv'
<1> USE DEF PassAndRows, PassInv
<1>1. /\ plan' = [plan EXCEPT ![s] = NoPlan] /\ desired' = [desired EXCEPT ![s] = NoRow]
      /\ at' = "none" /\ current' = NoSandbox /\ made' = NoContainer
      /\ UNCHANGED <<phase, unresolvable, missing>>
    BY DEF EndItem, specVars
<1>2. ReconcilerTypeOK'
    BY <1>1, NoPlanTyped, NoRowIsRow DEF ReconcilerTypeOK, Step
<1>3. ActingOnPlan' /\ OrphansHaveNoRow' /\ PlanSawStarted'
    BY <1>1, NoPlanTyped, NoRowIsRow
    DEF ReconcilerTypeOK, ActingOnPlan, OrphansHaveNoRow, PlanSawStarted
<1>. QED
    BY <1>1, <1>2, <1>3 DEF DockerInv, MadeIsItsOwn, WrittenBackIsStarted

LEMMA GoToKeeps ==
    ASSUME PassAndRows, NEW s \in SandboxID, current = s, at # "none",
           NEW step \in Step \ {"none", "start"}, GoTo(step),
           DockerInv', started \subseteq started', step = "writeback" => s \in started'
    PROVE  PassInv'
<1> USE DEF PassAndRows, PassInv
<1>1. /\ at' = step
      /\ UNCHANGED <<phase, desired, plan, current, made, unresolvable, missing>>
    BY DEF GoTo, specVars
<1>2. ReconcilerTypeOK'
    BY <1>1 DEF ReconcilerTypeOK
<1>3. ActingOnPlan' /\ OrphansHaveNoRow' /\ PlanSawStarted'
    BY <1>1 DEF ActingOnPlan, OrphansHaveNoRow, PlanSawStarted
<1>. QED
    BY <1>1, <1>2, <1>3 DEF DockerInv, MadeIsItsOwn, WrittenBackIsStarted

LEMMA DockerUnmoved ==
    ASSUME PassInv, UNCHANGED dockerVars
    PROVE  DockerInv' /\ started \subseteq started'
BY DEF PassInv, dockerVars, DockerInv, DockerTypeOK, RanIsStarted

(* The calls.                                                               *)
LEMMA CreateContainerKeeps ==
    ASSUME PassAndRows, NEW s \in SandboxID, CreateContainer(s)
    PROVE  PassInv'
<1> USE DEF PassAndRows, PassInv
<1>0. DockerInv /\ current = s /\ at = "create"
    BY DEF CreateContainer, DockerInv
<1>1. ASSUME NEW c \in ContainerID, ContainerCreate(c, s), made' = c, at' = "start",
             UNCHANGED <<inflight, started, phase, desired, plan, current, specVars>>
      PROVE  PassInv'
    <2>1. DockerInv' /\ containers'[c].sandbox = s
        BY <1>0, <1>1, CreateKept
    <2>2. ReconcilerTypeOK'
        BY <1>1 DEF ReconcilerTypeOK, Step, specVars
    <2>3. ActingOnPlan' /\ OrphansHaveNoRow' /\ PlanSawStarted'
        BY <1>0, <1>1 DEF ActingOnPlan, OrphansHaveNoRow, PlanSawStarted
    <2>. QED
        BY <1>0, <1>1, <2>1, <2>2, <2>3 DEF DockerInv, MadeIsItsOwn, WrittenBackIsStarted
<1>2. ASSUME EndItem(s), UNCHANGED dockerVars
      PROVE  PassInv'
    BY <1>2, DockerUnmoved, EndItemKeeps
<1>3. ASSUME NEW c \in ContainerID, ContainerCreate(c, s), EndItem(s),
             UNCHANGED <<inflight, started>>
      PROVE  PassInv'
    BY <1>0, <1>3, CreateKept, EndItemKeeps
<1>. QED BY <1>1, <1>2, <1>3 DEF CreateContainer

LEMMA StartContainerKeeps ==
    ASSUME PassAndRows, NEW s \in SandboxID, StartContainer(s)
    PROVE  PassInv'
<1> USE DEF PassAndRows, PassInv
<1>0. DockerInv /\ current = s /\ at = "start" /\ made \in ContainerID
    BY DEF StartContainer, DockerInv, MadeIsItsOwn
<1>1. ASSUME ContainerStart(made)
      PROVE  DockerInv' /\ started \subseteq started' /\ s \in started'
    <2>1. containers[made].sandbox = s
        BY <1>0, <1>1 DEF ContainerStart, MadeIsItsOwn
    <2>. QED BY <1>0, <1>1, <2>1, StartKept
<1>2. CASE GoTo("writeback")
    BY <1>0, <1>1, <1>2, GoToKeeps DEF StartContainer, Step, GoTo
<1>3. CASE GoTo("cleanup")
    BY <1>0, <1>1, <1>3, DockerUnmoved, GoToKeeps DEF StartContainer, Step, GoTo
<1>. QED BY <1>2, <1>3 DEF StartContainer

LEMMA CleanupFailedKeeps ==
    ASSUME PassAndRows, NEW s \in SandboxID, CleanupFailed(s)
    PROVE  PassInv'
<1>1. DockerInv
    BY DEF PassAndRows, PassInv, DockerInv
<1>2. DockerInv' /\ started \subseteq started'
    BY <1>1, RemoveKept, DockerUnmoved DEF CleanupFailed, PassAndRows
<1>. QED BY <1>2, EndItemKeeps DEF CleanupFailed

LEMMA CompensateKeeps ==
    ASSUME PassAndRows, NEW s \in SandboxID, Compensate(s)
    PROVE  PassInv'
<1>1. DockerInv
    BY DEF PassAndRows, PassInv, DockerInv
<1>2. DockerInv' /\ started \subseteq started'
    BY <1>1, DestroyKept, DockerUnmoved DEF Compensate, PassAndRows
<1>. QED BY <1>2, EndItemKeeps DEF Compensate

LEMMA DestroyContainerKeeps ==
    ASSUME PassAndRows, NEW s \in SandboxID, DestroyContainer(s)
    PROVE  PassInv'
<1>1. DockerInv /\ current = s /\ at = "destroy"
    BY DEF PassAndRows, PassInv, DockerInv, DestroyContainer
<1>2. DockerInv' /\ started \subseteq started'
    BY <1>1, DestroyKept, DockerUnmoved DEF DestroyContainer, PassAndRows
<1>3. GoTo("mark") \/ EndItem(s)
    BY DEF DestroyContainer
<1>. QED BY <1>1, <1>2, <1>3, EndItemKeeps, GoToKeeps DEF Step

LEMMA WriteBackKeeps ==
    ASSUME PassAndRows, NEW s \in SandboxID, WriteBack(s)
    PROVE  PassInv' /\ RunningWasStarted'
<1> USE DEF PassAndRows
<1>1. current = s /\ at = "writeback" /\ s \in started /\ UNCHANGED dockerVars
    BY DEF WriteBack, PassInv, WrittenBackIsStarted
<1>2. DockerInv' /\ started \subseteq started'
    BY <1>1, DockerUnmoved
<1>3. GoTo("compensate") \/ EndItem(s)
    BY DEF WriteBack
<1>4. PassInv'
    BY <1>1, <1>2, <1>3, EndItemKeeps, GoToKeeps DEF Step
<1>5. UNCHANGED storeVars \/ UpdateSandboxState(s, "pending", "running", desired[s].versionID)
    BY DEF WriteBack
<1>6. RunningWasStarted'
    BY <1>1, <1>2, <1>5, UpdateStarted, OthersStarted DEF StoreInv, storeVars
<1>. QED BY <1>4, <1>6

(* The only mark that says running is of what the pass saw running.         *)
LEMMA MarkKeeps ==
    ASSUME PassAndRows, NEW s \in SandboxID, Mark(s)
    PROVE  PassInv' /\ RunningWasStarted'
<1> USE DEF PassAndRows
<1>1. current = s /\ at = "mark" /\ UNCHANGED dockerVars /\ EndItem(s)
    BY DEF Mark
<1>2. DockerInv' /\ started \subseteq started'
    BY <1>1, DockerUnmoved
<1>3. PassInv'
    BY <1>1, <1>2, EndItemKeeps
<1>4. ASSUME UNCHANGED storeVars
      PROVE  RunningWasStarted'
    BY <1>2, <1>4, OthersStarted DEF storeVars
<1>5. ASSUME UpdateSandboxState(s, desired[s].state, MarkTarget(s), desired[s].versionID)
      PROVE  RunningWasStarted'
    <2>1. desired[s].state \in TaskState
        BY <1>5, TransitionsTyped DEF UpdateSandboxState
    <2>2. plan[s].action \in Action \ {"none", "destroy_orphan"}
        BY <1>1, <2>1, AbsentIsNoState
        DEF PassInv, ActingOnPlan, OrphansHaveNoRow, ReconcilerTypeOK
    <2>3. MarkTarget(s) = "running" => s \in started
        BY <2>2 DEF MarkTarget, Action, PassInv, PlanSawStarted
    <2>. QED BY <1>2, <1>5, <2>3, UpdateStarted DEF StoreInv
<1>. QED BY <1>3, <1>4, <1>5 DEF Mark

LEMMA ReconcilerKeeps ==
    ASSUME PassAndRows, ReconcilerNext
    PROVE  PassInv' /\ RunningWasStarted'
<1>1. ASSUME UNCHANGED storeVars, PassInv', started \subseteq started'
      PROVE  RunningWasStarted'
    BY <1>1, OthersStarted DEF PassAndRows, storeVars
<1>2. CASE ListRows \/ ListContainers \/ ListFails \/ FinishPass
               \/ \E s \in SandboxID : StartItem(s)
    <2>1. UNCHANGED storeVars /\ UNCHANGED dockerVars
        BY <1>2 DEF ListRows, ListContainers, ListFails, FinishPass, StartItem
    <2>2. PassInv'
        BY <1>2, ListRowsKeeps, ListContainersKeeps, ListFailsKeeps, FinishPassKeeps, StartItemKeeps
    <2>. QED BY <1>1, <2>1, <2>2 DEF dockerVars
<1>3. ASSUME NEW s \in SandboxID,
             CreateContainer(s) \/ StartContainer(s) \/ CleanupFailed(s)
                 \/ Compensate(s) \/ DestroyContainer(s)
      PROVE  PassInv' /\ RunningWasStarted'
    <2>1. UNCHANGED storeVars
        BY <1>3 DEF CreateContainer, StartContainer, CleanupFailed, Compensate, DestroyContainer
    <2>2. started \subseteq started'
        BY <1>3 DEF CreateContainer, StartContainer, CleanupFailed, Compensate,
                    DestroyContainer, Destroy, RemoveContainer, ContainerStart, dockerVars
    <2>3. PassInv'
        BY <1>3, CreateContainerKeeps, StartContainerKeeps, CleanupFailedKeeps,
           CompensateKeeps, DestroyContainerKeeps
    <2>. QED BY <1>1, <2>1, <2>2, <2>3
<1>. QED
    BY <1>2, <1>3, WriteBackKeeps, MarkKeeps DEF ReconcilerNext, HandleAction

(* Docker on its own: the container an action has made stays its own.       *)
LEMMA DockerKeeps == ASSUME PassAndRows, DockerStep PROVE PassInv' /\ RunningWasStarted'
<1> USE DEF PassAndRows, PassInv
<1>0. DockerInv /\ UNCHANGED storeVars /\ UNCHANGED reconcilerVars
    BY DEF DockerInv, DockerStep
<1>1. ASSUME DockerInv', UNCHANGED started,
             \A c \in ContainerID :
                 c = made /\ containers'[c].state # "none"
                     => /\ containers[c].state # "none"
                        /\ containers'[c].sandbox = containers[c].sandbox
      PROVE  PassInv' /\ RunningWasStarted'
    <2>1. ReconcilerTypeOK' /\ ActingOnPlan' /\ OrphansHaveNoRow' /\ PlanSawStarted'
              /\ MadeIsItsOwn' /\ WrittenBackIsStarted'
        BY <1>0, <1>1
        DEF reconcilerVars, passVars, specVars, ReconcilerTypeOK, ActingOnPlan,
            OrphansHaveNoRow, PlanSawStarted, MadeIsItsOwn, WrittenBackIsStarted
    <2>2. RunningWasStarted'
        BY <1>0, <1>1, OthersStarted DEF storeVars
    <2>. QED BY <1>1, <2>1, <2>2 DEF DockerInv
<1>2. ASSUME NEW c \in ContainerID, ContainerExits(c) \/ ContainerRestarts(c)
      PROVE  PassInv' /\ RunningWasStarted'
    BY <1>0, <1>1, <1>2, ExitOrRestartKept
<1>3. ASSUME NEW c \in ContainerID, ContainerVanishes(c)
      PROVE  PassInv' /\ RunningWasStarted'
    BY <1>0, <1>1, <1>3, RemoveKept DEF ContainerVanishes, NoSuchContainer
<1>4. ASSUME NEW c \in ContainerID, NEW s \in SandboxID, c # made, LateCreate(c, s)
      PROVE  PassInv' /\ RunningWasStarted'
    BY <1>0, <1>1, <1>4, CreateKept DEF LateCreate
<1>. QED BY <1>2, <1>3, <1>4 DEF DockerStep

LEMMA CrashKeeps == ASSUME PassAndRows, CrashAndRestart PROVE PassInv' /\ RunningWasStarted'
<1> USE DEF PassAndRows, PassInv
<1>1. /\ phase' = "idle" /\ at' = "none" /\ current' = NoSandbox /\ made' = NoContainer
      /\ desired' = [s \in SandboxID |-> NoRow] /\ plan' = [s \in SandboxID |-> NoPlan]
      /\ UNCHANGED <<containers, started, missing>> /\ UNCHANGED storeVars
    BY DEF CrashAndRestart, PassLost
<1>2. inflight' \subseteq SandboxID
    BY DEF CrashAndRestart, ActingOnPlan, DockerTypeOK
<1>3. unresolvable' \subseteq SandboxID
    BY DEF CrashAndRestart, ReconcilerTypeOK
<1>4. DockerTypeOK' /\ RanIsStarted'
    BY <1>1, <1>2 DEF DockerTypeOK, RanIsStarted
<1>5. ReconcilerTypeOK'
    BY <1>1, <1>3, NoPlanTyped, NoRowIsRow DEF ReconcilerTypeOK, Step
<1>6. ActingOnPlan' /\ OrphansHaveNoRow' /\ PlanSawStarted'
    BY <1>1, NoPlanTyped DEF ActingOnPlan, OrphansHaveNoRow, PlanSawStarted
<1>7. RunningWasStarted'
    BY <1>1, OthersStarted DEF storeVars
<1>. QED BY <1>1, <1>4, <1>5, <1>6, <1>7 DEF MadeIsItsOwn, WrittenBackIsStarted

LEMMA PassUnmoved ==
    ASSUME PassInv, UNCHANGED dockerVars, UNCHANGED reconcilerVars
    PROVE  PassInv'
BY DEF PassInv, dockerVars, reconcilerVars, passVars, specVars, DockerTypeOK,
       ReconcilerTypeOK, ActingOnPlan, OrphansHaveNoRow, RanIsStarted, PlanSawStarted,
       MadeIsItsOwn, WrittenBackIsStarted

LEMMA PassAndRowsStep == PassAndRows /\ [Next]_vars => PassAndRows'
<1> SUFFICES ASSUME PassAndRows, [Next]_vars PROVE PassInv' /\ RunningWasStarted'
    BY StoreInvStep DEF PassAndRows
<1>1. CASE HandlerStep
    BY <1>1, PassUnmoved, HandlersStarted DEF HandlerStep, PassAndRows, dockerVars
<1>2. CASE ReconcilerStep
    BY <1>2, ReconcilerKeeps DEF ReconcilerStep
<1>3. CASE TimePasses \/ DaemonHangs \/ UNCHANGED vars
    <2>1. UNCHANGED storeVars /\ UNCHANGED dockerVars /\ UNCHANGED reconcilerVars
        BY <1>3 DEF TimePasses, DaemonHangs, vars
    <2>. QED BY <2>1, PassUnmoved, OthersStarted DEF PassAndRows, dockerVars, storeVars
<1>. QED BY <1>1, <1>2, <1>3, DockerKeeps, CrashKeeps DEF Next

LEMMA PassAndRowsInit == Init => PassAndRows
<1> SUFFICES ASSUME Init PROVE PassInv /\ RunningWasStarted
    BY StoreInvInit DEF PassAndRows
<1>1. DockerInv
    <2>1. PICK kept \in [Orphans -> ContainerID] :
              /\ inflight = {} /\ started = Orphans
              /\ containers = [c \in ContainerID |->
                    IF \E s \in Orphans : kept[s] = c
                    THEN [sandbox |-> CHOOSE s \in Orphans : kept[s] = c, state |-> "running"]
                    ELSE NoSuchContainer]
        BY DEF Init, DockerInit
    <2>2. ASSUME NEW c \in ContainerID
          PROVE  \/ containers[c] = NoSuchContainer
                 \/ \E s \in Orphans : containers[c] = [sandbox |-> s, state |-> "running"]
        BY <2>1
    <2>3. ASSUME NEW c \in ContainerID
          PROVE  /\ containers[c] \in [sandbox : SandboxID \union {NoSandbox},
                                       state : ContainerState]
                 /\ containers[c].sandbox = NoSandbox <=> containers[c].state = "none"
                 /\ containers[c].state # "none" => containers[c].sandbox \in started
        BY <2>1, <2>2, ControlAssumption, SandboxAssumption DEF NoSuchContainer, ContainerState
    <2>4. containers \in [ContainerID -> [sandbox : SandboxID \union {NoSandbox},
                                          state : ContainerState]]
        BY <2>1, <2>3
    <2>5. DockerTypeOK
        BY <2>1, <2>3, <2>4, ControlAssumption DEF DockerTypeOK
    <2>6. RanIsStarted
        BY <2>3 DEF RanIsStarted, Up
    <2>. QED BY <2>5, <2>6 DEF DockerInv
<1>2. ReconcilerTypeOK
    BY NoPlanTyped, NoRowIsRow DEF Init, ReconcilerInit, ReconcilerTypeOK, Step
<1>3. ActingOnPlan /\ OrphansHaveNoRow /\ PlanSawStarted /\ MadeIsItsOwn /\ WrittenBackIsStarted
    BY NoPlanTyped
    DEF Init, ReconcilerInit, ActingOnPlan, OrphansHaveNoRow, PlanSawStarted, MadeIsItsOwn,
        WrittenBackIsStarted
<1>4. RunningWasStarted
    BY DEF Init, StoreInit, NoRow, Absent, RunningWasStarted
<1>. QED BY <1>1, <1>2, <1>3, <1>4 DEF PassInv, DockerInv

(* Every variable of the daemon, and of what surrounds it, keeps its type.  *)
THEOREM DaemonTypeCorrect == Spec => []TypeOK
<1>1. PassAndRows => TypeOK
    BY DEF PassAndRows, StoreInv, PassInv, TypeOK
<1>. QED BY <1>1, PassAndRowsInit, PassAndRowsStep, PTL DEF Spec

(* No row says running, or has said so, of a sandbox whose container never  *)
(* was started, whatever fails, crashes or lands late.                      *)
THEOREM RunningAlwaysStarted == Spec => []RunningWasStarted
<1>1. PassAndRows => RunningWasStarted
    BY DEF PassAndRows
<1>. QED BY <1>1, PassAndRowsInit, PassAndRowsStep, PTL DEF Spec

-----------------------------------------------------------------------------
(* The containers of a sandbox that ever ran and are still there.  There is *)
(* one at most, and none while the pass has still to start the one it makes.*)
RanOf(s) == {c \in ContainersOf(s) : containers[c].state \in Up \union {"exited"}}

RanOnce == \A s \in SandboxID : \A c, d \in RanOf(s) : c = d

CreatesOnPlan ==
    at \in {"create", "start", "cleanup", "writeback", "compensate"}
        => plan[current].action = "create"

StartedBy(s) == current = s /\ at \in {"cleanup", "writeback", "compensate"}

NoneRanYet ==
    phase = "acting" =>
        \A s \in SandboxID : plan[s].action = "create" /\ ~StartedBy(s) => RanOf(s) = {}

RanInv == RanOnce /\ CreatesOnPlan /\ NoneRanYet

(* Nothing but a start adds to them.                                        *)
LEMMA UnstartedRan ==
    ASSUME DockerTypeOK, NEW s \in SandboxID,
           \/ UNCHANGED containers
           \/ \E c : RemoveContainer(c)
           \/ \E c \in ContainerID : \E r \in SandboxID : ContainerCreate(c, r)
           \/ \E c \in ContainerID : ContainerExits(c) \/ ContainerRestarts(c)
    PROVE  RanOf(s)' \subseteq RanOf(s)
<1>1. CASE UNCHANGED containers
    BY <1>1 DEF RanOf, ContainersOf
<1>2. ASSUME NEW c, RemoveContainer(c)
      PROVE  RanOf(s)' \subseteq RanOf(s)
    <2>1. \A d \in ContainerID : containers'[d] \in {containers[d], NoSuchContainer}
        BY <1>2 DEF RemoveContainer, DockerTypeOK
    <2>. QED BY <2>1, SandboxAssumption DEF RanOf, ContainersOf, NoSuchContainer
<1>3. ASSUME NEW c \in ContainerID, NEW r \in SandboxID, ContainerCreate(c, r)
      PROVE  RanOf(s)' \subseteq RanOf(s)
    <2>1. /\ containers'[c].state = "created"
          /\ \A d \in ContainerID \ {c} : containers'[d] = containers[d]
        BY <1>3 DEF ContainerCreate, DockerTypeOK
    <2>. QED BY <2>1 DEF RanOf, ContainersOf, Up
<1>4. ASSUME NEW c \in ContainerID, ContainerExits(c) \/ ContainerRestarts(c)
      PROVE  RanOf(s)' \subseteq RanOf(s)
    <2>1. PICK state : containers' = [containers EXCEPT ![c].state = state]
        BY <1>4 DEF ContainerExits, ContainerRestarts
    <2>2. /\ containers[c].state \in Up \union {"exited"}
          /\ \A d \in ContainerID : /\ containers'[d].sandbox = containers[d].sandbox
                                    /\ d # c => containers'[d] = containers[d]
        BY <1>4, <2>1 DEF ContainerExits, ContainerRestarts, DockerTypeOK
    <2>. QED BY <2>2 DEF RanOf, ContainersOf
<1>. QED BY <1>1, <1>2, <1>3, <1>4

(* A step that starts nothing keeps the invariant when its creates are      *)
(* those there were, or of sandboxes of which nothing has run.              *)
LEMMA UnstartedKeepsRan ==
    ASSUME RanInv, CreatesOnPlan',
           \A s \in SandboxID : RanOf(s)' \subseteq RanOf(s),
           \A s \in SandboxID :
               phase' = "acting" /\ plan'[s].action = "create" /\ ~StartedBy(s)'
               => \/ phase = "acting" /\ plan[s].action = "create" /\ ~StartedBy(s)
                  \/ RanOf(s) = {}
    PROVE  RanInv'
<1>1. RanOnce'
    BY DEF RanInv, RanOnce
<1>2. NoneRanYet'
    BY DEF RanInv, NoneRanYet
<1>. QED BY <1>1, <1>2 DEF RanInv

LEMMA RanWhenPassStays ==
    ASSUME RanInv, UNCHANGED passVars, \A s \in SandboxID : RanOf(s)' \subseteq RanOf(s)
    PROVE  RanInv'
<1>1. CreatesOnPlan'
    BY DEF RanInv, CreatesOnPlan, passVars
<1>. QED BY <1>1, UnstartedKeepsRan DEF passVars, StartedBy

LEMMA RanWhenActionEnds ==
    ASSUME PassInv, RanInv, NEW s \in SandboxID, current = s, EndItem(s),
           \A r \in SandboxID : RanOf(r)' \subseteq RanOf(r)
    PROVE  RanInv'
<1>1. /\ plan'[s] = NoPlan /\ \A r \in SandboxID \ {s} : plan'[r] = plan[r]
      /\ at' = "none" /\ phase' = phase
    BY DEF EndItem, PassInv, ReconcilerTypeOK
<1>2. CreatesOnPlan'
    BY <1>1 DEF CreatesOnPlan
<1>3. \A r \in SandboxID : plan'[r].action = "create" => r # s /\ ~StartedBy(r)
    BY <1>1 DEF NoPlan, StartedBy
<1>. QED BY <1>1, <1>2, <1>3, UnstartedKeepsRan

(* The start: nothing of the sandbox had run, and the call is not made      *)
(* twice.                                                                   *)
LEMMA StartRan ==
    ASSUME PassAndRows, RanInv, NEW s \in SandboxID, StartContainer(s)
    PROVE  RanInv'
<1> USE DEF PassAndRows, PassInv
<1>1. /\ current = s /\ at = "start" /\ phase = "acting" /\ made \in ContainerID
      /\ plan[s].action = "create" /\ RanOf(s) = {}
    BY DEF StartContainer, ActingOnPlan, MadeIsItsOwn, RanInv, CreatesOnPlan, NoneRanYet,
           StartedBy
<1>2. /\ UNCHANGED <<phase, plan, current>> /\ at' \in {"writeback", "cleanup"}
    BY DEF StartContainer, GoTo
<1>3. CreatesOnPlan'
    BY <1>1, <1>2 DEF CreatesOnPlan
<1>4. \A r \in SandboxID : StartedBy(r)' <=> r = s
    BY <1>1, <1>2 DEF StartedBy
<1>5. CASE UNCHANGED dockerVars
    <2>1. \A r \in SandboxID : RanOf(r)' \subseteq RanOf(r)
        BY <1>5, UnstartedRan DEF dockerVars
    <2>. QED BY <1>1, <1>2, <1>3, <1>4, <2>1, UnstartedKeepsRan DEF StartedBy
<1>6. CASE ContainerStart(made)
    <2>1. /\ containers[made].sandbox = s
          /\ \A d \in ContainerID : /\ containers'[d].sandbox = containers[d].sandbox
                                    /\ d # made => containers'[d] = containers[d]
        BY <1>1, <1>6 DEF ContainerStart, MadeIsItsOwn, DockerTypeOK
    <2>2. \A r \in SandboxID \ {s} : RanOf(r)' \subseteq RanOf(r)
        BY <2>1 DEF RanOf, ContainersOf
    <2>3. RanOf(s)' \subseteq {made}
        BY <1>1, <2>1 DEF RanOf, ContainersOf
    <2>4. RanOnce'
        BY <2>2, <2>3 DEF RanInv, RanOnce
    <2>5. NoneRanYet'
        BY <1>1, <1>2, <1>4, <2>2 DEF RanInv, NoneRanYet, StartedBy
    <2>. QED BY <1>3, <2>4, <2>5 DEF RanInv
<1>. QED BY <1>5, <1>6 DEF StartContainer

(* A sandbox is planned to be made when the listing showed no container.    *)
LEMMA ListingRan ==
    ASSUME PassAndRows, RanInv, ListContainers
    PROVE  RanInv'
<1> USE DEF PassAndRows, PassInv
<1>1. at' = "none" /\ UNCHANGED containers
    BY DEF ListContainers, ActingOnPlan, dockerVars
<1>2. \A s \in SandboxID : RanOf(s)' \subseteq RanOf(s)
    BY <1>1, UnstartedRan
<1>3. ASSUME NEW s \in SandboxID, plan'[s].action = "create"
      PROVE  RanOf(s) = {}
    <2>1. PICK view \in Views :
              plan'[s] = NoPlan
                  \/ plan'[s] = [action |-> DecideReconcileAction(desired[s], view[s], now),
                                 observed |-> view[s]]
        BY DEF ListContainers
    <2>2. DecideReconcileAction(desired[s], view[s], now) = "create"
        BY <1>3, <2>1, NoPlanTyped
    <2>3. desired[s] \in Row /\ now \in Nat /\ view[s] \in Observed
        BY ViewsTyped, EnvironmentAssumption DEF ReconcilerTypeOK, StoreInv, EnvTypeOK
    <2>4. "nil" \in Sightings(s)
        BY <2>2, <2>3, DecisionTyped DEF Views
    <2>5. ContainersOf(s) = {}
        BY <2>4 DEF Sightings, StateFromContainerState
    <2>. QED BY <2>5 DEF RanOf
<1>4. CreatesOnPlan'
    BY <1>1 DEF CreatesOnPlan
<1>. QED BY <1>2, <1>3, <1>4, UnstartedKeepsRan

LEMMA PassRan ==
    ASSUME PassAndRows, RanInv, ReconcilerNext
    PROVE  RanInv'
<1> USE DEF PassAndRows, PassInv
<1>1. ASSUME UNCHANGED containers, NEW s \in SandboxID
      PROVE  RanOf(s)' \subseteq RanOf(s)
    BY <1>1, UnstartedRan
<1>2. CASE ListRows \/ ListFails \/ FinishPass
    <2>1. UNCHANGED containers /\ phase' # "acting" /\ at' = "none"
        BY <1>2, NoPlanTyped DEF ListRows, ListFails, FinishPass, ActingOnPlan, dockerVars
    <2>2. CreatesOnPlan'
        BY <2>1 DEF CreatesOnPlan
    <2>. QED BY <1>1, <2>1, <2>2, UnstartedKeepsRan
<1>3. ASSUME NEW s \in SandboxID, StartItem(s)
      PROVE  RanInv'
    <2>1. /\ UNCHANGED containers /\ UNCHANGED <<phase, plan>> /\ current' = s
          /\ at = "none" /\ at' = FirstStep(s) /\ plan[s].action # "none"
        BY <1>3, SandboxAssumption DEF StartItem, ActingOnPlan, dockerVars
    <2>2. at' \in {"mark", "create", "destroy"}
        BY <2>1, FirstStepTyped
    <2>3. at' = "create" => plan[s].action = "create"
        BY <2>1 DEF FirstStep, ReconcilerTypeOK, Action
    <2>4. CreatesOnPlan'
        BY <2>1, <2>2, <2>3 DEF CreatesOnPlan
    <2>. QED BY <1>1, <2>1, <2>4, UnstartedKeepsRan DEF StartedBy
<1>4. ASSUME NEW s \in SandboxID, CreateContainer(s)
      PROVE  RanInv'
    <2>1. current = s /\ at = "create" /\ plan[s].action = "create"
        BY <1>4 DEF CreateContainer, RanInv, CreatesOnPlan
    <2>2. \A r \in SandboxID : RanOf(r)' \subseteq RanOf(r)
        <3>1. UNCHANGED containers \/ \E c \in ContainerID : ContainerCreate(c, s)
            BY <1>4 DEF CreateContainer, dockerVars
        <3>. QED BY <3>1, UnstartedRan
    <2>3. CASE EndItem(s)
        BY <2>1, <2>2, <2>3, RanWhenActionEnds
    <2>4. CASE at' = "start" /\ UNCHANGED <<phase, plan, current>>
        <3>1. CreatesOnPlan'
            BY <2>1, <2>4 DEF CreatesOnPlan
        <3>. QED BY <2>1, <2>2, <2>4, <3>1, UnstartedKeepsRan DEF StartedBy
    <2>. QED BY <1>4, <2>3, <2>4 DEF CreateContainer
<1>5. ASSUME NEW s \in SandboxID,
             CleanupFailed(s) \/ WriteBack(s) \/ Compensate(s) \/ DestroyContainer(s) \/ Mark(s)
      PROVE  RanInv'
    <2>1. current = s /\ at \in {"cleanup", "writeback", "compensate", "destroy", "mark"}
        BY <1>5 DEF CleanupFailed, WriteBack, Compensate, DestroyContainer, Mark
    <2>2. \A r \in SandboxID : RanOf(r)' \subseteq RanOf(r)
        <3>1. UNCHANGED containers \/ \E c : RemoveContainer(c)
            BY <1>5 DEF CleanupFailed, WriteBack, Compensate, DestroyContainer, Mark, Destroy,
                        dockerVars
        <3>. QED BY <3>1, UnstartedRan
    <2>3. CASE EndItem(s)
        BY <2>1, <2>2, <2>3, RanWhenActionEnds
    <2>4. CASE at = "writeback" /\ GoTo("compensate")
        <3>1. at' = "compensate" /\ UNCHANGED <<phase, plan, current>>
            BY <2>4 DEF GoTo
        <3>2. CreatesOnPlan'
            BY <2>4, <3>1 DEF RanInv, CreatesOnPlan
        <3>. QED BY <2>2, <2>4, <3>1, <3>2, UnstartedKeepsRan DEF StartedBy
    <2>5. CASE at = "destroy" /\ GoTo("mark")
        <3>1. at' = "mark" /\ UNCHANGED <<phase, plan, current>>
            BY <2>5 DEF GoTo
        <3>2. CreatesOnPlan'
            BY <3>1 DEF CreatesOnPlan
        <3>. QED BY <2>2, <2>5, <3>1, <3>2, UnstartedKeepsRan DEF StartedBy
    <2>. QED
        BY <1>5, <2>3, <2>4, <2>5 DEF CleanupFailed, WriteBack, Compensate, DestroyContainer, Mark
<1>. QED
    BY <1>2, <1>3, <1>4, <1>5, StartRan, ListingRan DEF ReconcilerNext, HandleAction

LEMMA RanStep == PassAndRows /\ RanInv /\ [Next]_vars => RanInv'
<1> SUFFICES ASSUME PassAndRows, RanInv, [Next]_vars PROVE RanInv'
    OBVIOUS
<1>0. DockerTypeOK
    BY DEF PassAndRows, PassInv
<1>1. CASE HandlerStep \/ TimePasses \/ DaemonHangs \/ UNCHANGED vars
    <2>1. UNCHANGED containers /\ UNCHANGED passVars
        BY <1>1 DEF HandlerStep, TimePasses, DaemonHangs, vars, dockerVars,
                    reconcilerVars
    <2>. QED BY <1>0, <2>1, UnstartedRan, RanWhenPassStays
<1>2. CASE ReconcilerStep
    BY <1>2, PassRan DEF ReconcilerStep
<1>3. CASE DockerStep
    <2>1. /\ UNCHANGED passVars
          /\ \/ \E c : RemoveContainer(c)
             \/ \E c \in ContainerID : \E r \in SandboxID : ContainerCreate(c, r)
             \/ \E c \in ContainerID : ContainerExits(c) \/ ContainerRestarts(c)
        BY <1>3 DEF DockerStep, reconcilerVars, ContainerVanishes, LateCreate
    <2>. QED BY <1>0, <2>1, UnstartedRan, RanWhenPassStays
<1>4. CASE CrashAndRestart
    <2>1. UNCHANGED containers /\ phase' = "idle" /\ at' = "none"
        BY <1>4 DEF CrashAndRestart, PassLost
    <2>2. CreatesOnPlan'
        BY <2>1 DEF CreatesOnPlan
    <2>. QED BY <1>0, <2>1, <2>2, UnstartedRan, UnstartedKeepsRan
<1>. QED BY <1>1, <1>2, <1>3, <1>4 DEF Next

LEMMA RanInit == Init => RanInv
<1> SUFFICES ASSUME Init PROVE RanInv
    OBVIOUS
<1>1. PICK kept \in [Orphans -> ContainerID] :
          containers = [c \in ContainerID |->
                IF \E s \in Orphans : kept[s] = c
                THEN [sandbox |-> CHOOSE s \in Orphans : kept[s] = c, state |-> "running"]
                ELSE NoSuchContainer]
    BY DEF Init, DockerInit
<1>2. ASSUME NEW c \in ContainerID, NEW s \in SandboxID, containers[c].sandbox = s
      PROVE  s \in Orphans /\ kept[s] = c
    <2>1. \E r \in Orphans : kept[r] = c
        BY <1>1, <1>2, SandboxAssumption DEF NoSuchContainer
    <2>2. containers[c].sandbox = CHOOSE r \in Orphans : kept[r] = c
        BY <1>1, <2>1
    <2>. QED BY <1>2, <2>1, <2>2
<1>3. RanOnce
    BY <1>2 DEF RanOnce, RanOf, ContainersOf
<1>. QED BY <1>3 DEF Init, ReconcilerInit, RanInv, CreatesOnPlan, NoneRanYet

LEMMA StaysRan == Spec => [](PassAndRows /\ RanInv)
BY RanInit, RanStep, PassAndRowsInit, PassAndRowsStep, PTL DEF Spec

(* No sandbox ever runs in two containers, in any instance: not even where  *)
(* creates land after a crash and leave several containers under one id.    *)
THEOREM NeverTwoRunning == Spec => []OneRunningPerSandbox
<1>1. RanInv => OneRunningPerSandbox
    BY DEF RanInv, RanOnce, RanOf, RunningContainersOf, OneRunningPerSandbox
<1>. QED BY <1>1, StaysRan, PTL

-----------------------------------------------------------------------------
(* The end of a pass.  Its work is what it has still to take up, and the    *)
(* calls that the action under way may still make (of which a create makes  *)
(* the most: create, start, writeback, compensate).                         *)
Planned == {s \in SandboxID : plan[s] # NoPlan}

CallsLeft ==
    [none |-> 6, create |-> 5, start |-> 4, writeback |-> 3, cleanup |-> 2,
     compensate |-> 2, destroy |-> 2, mark |-> 1]

PassWork == 7 * Cardinality(Planned) + CallsLeft[at]

(* Every call of a pass (handleAction), whether it succeeds or fails,       *)
(* brings the pass nearer to its end: none is repeated within the pass, and *)
(* nobody else adds to it.                                                  *)
PassesEnd ==
    [][phase = "acting" /\ passVars' # passVars
       => phase' = "idle" \/ (phase' = "acting" /\ PassWork' < PassWork)]_vars

LEMMA WorkCounted ==
    ASSUME IsFiniteSet(SandboxID), ReconcilerTypeOK
    PROVE  /\ IsFiniteSet(Planned) /\ Cardinality(Planned) \in Nat
           /\ Cardinality(Planned) <= Cardinality(SandboxID)
           /\ CallsLeft[at] \in 1 .. 6
           /\ PassWork \in 1 .. 7 * Cardinality(SandboxID) + 6
<1>1. /\ IsFiniteSet(Planned) /\ Cardinality(Planned) <= Cardinality(SandboxID)
    BY FS_Subset DEF Planned
<1>2. Cardinality(Planned) \in Nat /\ Cardinality(SandboxID) \in Nat
    BY <1>1, FS_CardinalityType
<1>3. CallsLeft[at] \in 1 .. 6
    BY DEF ReconcilerTypeOK, Step, CallsLeft
<1>. QED BY <1>1, <1>2, <1>3 DEF PassWork

LEMMA CallIsProgress ==
    ASSUME IsFiniteSet(SandboxID), ReconcilerTypeOK, ReconcilerTypeOK', UNCHANGED plan,
           CallsLeft[at'] < CallsLeft[at]
    PROVE  PassWork' < PassWork
<1>1. Cardinality(Planned)' = Cardinality(Planned) /\ CallsLeft[at]' = CallsLeft[at']
    BY DEF Planned, CallsLeft
<1>2. Cardinality(Planned) \in Nat /\ CallsLeft[at] \in 1 .. 6
    BY WorkCounted
<1>3. CallsLeft[at'] \in 1 .. 6
    BY DEF ReconcilerTypeOK, Step, CallsLeft
<1>. QED BY <1>1, <1>2, <1>3 DEF PassWork

LEMMA EndIsProgress ==
    ASSUME IsFiniteSet(SandboxID), PassInv, ReconcilerTypeOK', NEW s \in SandboxID,
           current = s, at # "none", EndItem(s)
    PROVE  PassWork' < PassWork
<1> USE DEF PassInv
<1>1. s \in Planned
    BY NoPlanTyped DEF ActingOnPlan, Planned
<1>2. Planned' = Planned \ {s}
    BY DEF EndItem, ReconcilerTypeOK, Planned
<1>3. IsFiniteSet(Planned) /\ Cardinality(Planned) \in Nat /\ CallsLeft[at] \in 1 .. 6
    BY WorkCounted
<1>4. Cardinality(Planned') = Cardinality(Planned) - 1
    BY <1>1, <1>2, <1>3, FS_RemoveElement
<1>5. CallsLeft[at'] = 6
    BY DEF EndItem, CallsLeft
<1>6. PassWork' = 7 * Cardinality(Planned') + CallsLeft[at']
    BY DEF PassWork, CallsLeft
<1>. QED BY <1>3, <1>4, <1>5, <1>6 DEF PassWork

LEMMA StepsOfPassProgress ==
    ASSUME IsFiniteSet(SandboxID), PassAndRows, ReconcilerTypeOK', ReconcilerNext,
           phase = "acting", phase' # "idle"
    PROVE  phase' = "acting" /\ PassWork' < PassWork
<1> USE DEF PassAndRows, PassInv
<1>1. ASSUME NEW s \in SandboxID, StartItem(s)
      PROVE  phase' = "acting" /\ PassWork' < PassWork
    <2>1. phase' = phase /\ UNCHANGED plan /\ at = "none" /\ at' = FirstStep(s)
          /\ plan[s].action # "none"
        BY <1>1, SandboxAssumption DEF StartItem, ActingOnPlan
    <2>2. CallsLeft[at'] < CallsLeft[at]
        BY <2>1, FirstStepTyped DEF CallsLeft
    <2>. QED BY <2>1, <2>2, CallIsProgress
<1>2. ASSUME NEW s \in SandboxID, HandleAction(s)
      PROVE  phase' = "acting" /\ PassWork' < PassWork
    <2>1. current = s /\ at # "none"
        BY <1>2 DEF HandleAction, CreateContainer, StartContainer, CleanupFailed, WriteBack,
                    Compensate, DestroyContainer, Mark
    <2>2. CASE EndItem(s)
        BY <2>1, <2>2, EndIsProgress DEF EndItem
    <2>3. ASSUME UNCHANGED <<phase, plan>>, CallsLeft[at'] < CallsLeft[at]
          PROVE  phase' = "acting" /\ PassWork' < PassWork
        BY <2>3, CallIsProgress
    <2>4. \/ EndItem(s)
          \/ /\ UNCHANGED <<phase, plan>>
             /\ \/ at = "create" /\ at' = "start"
                \/ at = "start" /\ at' \in {"writeback", "cleanup"}
                \/ at = "writeback" /\ at' = "compensate"
                \/ at = "destroy" /\ at' = "mark"
        BY <1>2 DEF HandleAction, CreateContainer, StartContainer, CleanupFailed, WriteBack,
                    Compensate, DestroyContainer, Mark, GoTo
    <2>. QED BY <2>2, <2>3, <2>4 DEF CallsLeft
<1>. QED BY <1>1, <1>2 DEF ReconcilerNext, ListRows, ListContainers, ListFails, FinishPass

(* A pass over finitely many sandboxes ends: it starts with at most seven   *)
(* units of work for each sandbox, and none of its steps leaves it as much. *)
THEOREM EveryPassEnds ==
    ASSUME IsFiniteSet(SandboxID)
    PROVE  Spec => /\ PassesEnd
                   /\ [](PassWork \in 1 .. 7 * Cardinality(SandboxID) + 6)
<1>1. ASSUME PassAndRows, [Next]_vars, phase = "acting", passVars' # passVars,
             phase' # "idle"
      PROVE  phase' = "acting" /\ PassWork' < PassWork
    <2>1. ReconcilerTypeOK'
        BY <1>1, PassAndRowsStep DEF PassAndRows, PassInv
    <2>2. ReconcilerNext
        BY <1>1 DEF Next, HandlerStep, ReconcilerStep, DockerStep, TimePasses,
                    DaemonHangs, CrashAndRestart, PassLost, vars, reconcilerVars
    <2>. QED BY <1>1, <2>1, <2>2, StepsOfPassProgress
<1>2. PassAndRows /\ [Next]_vars =>
          [phase = "acting" /\ passVars' # passVars
           => phase' = "idle" \/ (phase' = "acting" /\ PassWork' < PassWork)]_vars
    BY <1>1
<1>3. PassAndRows => PassWork \in 1 .. 7 * Cardinality(SandboxID) + 6
    BY WorkCounted DEF PassAndRows, PassInv
<1>. QED BY <1>2, <1>3, PassAndRowsInit, PassAndRowsStep, PTL DEF Spec, PassesEnd

-----------------------------------------------------------------------------
(* The rows, moved by the handlers.                                         *)
HandlersMove(s) ==
    \/ sandboxes'[s].state = sandboxes[s].state
    \/ sandboxes[s].state = Absent /\ sandboxes'[s].state = "pending" /\ s \notin Orphans
    \/ sandboxes[s].state = "running" /\ sandboxes'[s].state = "stopping"

LEMMA UpdateMoves ==
    ASSUME StoreTypeOK, NEW s \in SandboxID, NEW from, NEW to, NEW v,
           UpdateSandboxState(s, from, to, v)
    PROVE  /\ CanTransition(from, to) /\ sandboxes[s].state = from /\ sandboxes'[s].state = to
           /\ \A r \in SandboxID \ {s} : sandboxes'[r] = sandboxes[r]
BY DEF UpdateSandboxState, Matches, StoreTypeOK

LEMMA HandlersMoveRows ==
    ASSUME StoreInv, ControlNext, NEW r \in SandboxID
    PROVE  HandlersMove(r)
<1> USE DEF StoreInv, HandlersMove
<1>1. ASSUME NEW c \in Client, CreateInsert(c)
      PROVE  HandlersMove(r)
    <2>1. UNCHANGED storeVars
              \/ \E s \in SandboxID \ Orphans : InsertSandbox(req[c].key, s, req[c].expiresAt)
        BY <1>1 DEF CreateInsert
    <2>. QED BY <2>1 DEF InsertSandbox, NoRow, StoreTypeOK, storeVars
<1>2. ASSUME NEW c \in Client, DestroyAccepted(c)
      PROVE  HandlersMove(r)
    <2>1. UNCHANGED storeVars
              \/ UpdateSandboxState(req[c].id, "running", "stopping", req[c].versionID)
        BY <1>2 DEF DestroyAccepted
    <2>2. req[c].id \in SandboxID
        BY <1>2, StoppingTyped DEF DestroyAccepted
    <2>. QED BY <2>1, <2>2, UpdateMoves DEF storeVars
<1>3. ASSUME NEW s \in SandboxID, NEW ttl \in TTL, Keepalive(s, ttl)
      PROVE  HandlersMove(r)
    BY <1>3 DEF Keepalive, UpdateSandboxExpiry, StoreTypeOK, Row
<1>4. ASSUME UNCHANGED storeVars
      PROVE  HandlersMove(r)
    BY <1>4 DEF storeVars
<1>. QED BY <1>1, <1>2, <1>3, <1>4 DEF ControlNext, CreateLookup, DestroyRead, DestroyErrs

-----------------------------------------------------------------------------
(* The guarded writes.  What became of the rows the pass has read: only a   *)
(* row that runs can have been moved, by an accepted DELETE.                *)
Owned == {"pending", "stopping"} \union Terminal

RowYields(s, read) ==
    /\ read \in Owned => sandboxes[s].state = read
    /\ read = "running" => sandboxes[s].state \in {"running", "stopping"}

ReadRowsYield ==
    phase # "idle" =>
        \A s \in SandboxID : /\ desired[s].versionID \in VersionsIn(desired[s].state)
                             /\ RowYields(s, desired[s].state)

(* The rows each action is decided for ...                                  *)
FitsRow(action, read) ==
    /\ action \in {"create", "mark_running"} => read = "pending"
    /\ action = "mark_failed"                => read \in {"pending", "running"}
    /\ action = "mark_stopped"               => read = "stopping"
    /\ action = "reap"                       => read \in {"pending", "running", "stopping"}
    /\ action = "destroy"                    => read \in {"stopping"} \union Terminal

PlansFitRows ==
    phase = "acting" => \A s \in SandboxID : FitsRow(plan[s].action, desired[s].state)

(* ... and, of those that destroy, the ones that come to a mark.            *)
MarksFit ==
    at = "mark" => /\ plan[current].action # "destroy_orphan"
                   /\ plan[current].action = "destroy" => desired[current].state = "stopping"

GuardInv == ReadRowsYield /\ PlansFitRows /\ MarksFit

LEMMA DecisionFitsRow ==
    ASSUME NEW row \in Row, NEW observed \in Observed, NEW t \in Nat
    PROVE  FitsRow(DecideReconcileAction(row, observed, t), row.state)
<1>1. row.state \in {Absent, "pending", "running", "stopping", "failed", "stopped"}
    BY DEF Row, State, TaskState
<1>2. CASE row.state = Absent
    BY <1>2 DEF DecideReconcileAction, DecideOrphan, FitsRow
<1>3. CASE row.state # Absent /\ Expired(row, t)
    BY <1>1, <1>3 DEF DecideReconcileAction, DecideForRow, Expired, Terminal, FitsRow
<1>4. CASE row.state # Absent /\ ~Expired(row, t)
    BY <1>1, <1>4
    DEF DecideReconcileAction, DecideForRow, Expired, Terminal, Observed, Absent, FitsRow
<1>. QED BY <1>2, <1>3, <1>4

LEMMA NoPlanFits ==
    /\ FitsRow(NoPlan.action, NoRow.state)
    /\ NoRow.versionID \in VersionsIn(NoRow.state)
    /\ NoRow.state \notin Owned \union {"running"}
BY DEF FitsRow, NoPlan, NoRow, VersionsIn, Owned, Terminal, Absent

(* A row nobody moves, or that a handler moves, yields as it should.        *)
RowOwned(s) ==
    \/ sandboxes'[s].state = sandboxes[s].state
    \/ sandboxes[s].state \notin Owned \union {"running"}
    \/ sandboxes[s].state = "running" /\ sandboxes'[s].state = "stopping"

LEMMA MovedIsOwned ==
    ASSUME NEW s \in SandboxID, HandlersMove(s)
    PROVE  RowOwned(s)
BY DEF HandlersMove, RowOwned, Owned, Terminal, Absent

LEMMA OwnedYields ==
    ASSUME NEW s \in SandboxID, NEW read, RowYields(s, read), RowOwned(s)
    PROVE  RowYields(s, read)'
BY DEF RowOwned, RowYields, Owned, Terminal

LEMMA GuardsStay ==
    ASSUME GuardInv, UNCHANGED passVars, \A s \in SandboxID : RowOwned(s)
    PROVE  GuardInv'
<1>1. ReadRowsYield'
    BY OwnedYields DEF GuardInv, ReadRowsYield, passVars
<1>. QED BY <1>1 DEF GuardInv, PlansFitRows, MarksFit, passVars

LEMMA GuardsEnd ==
    ASSUME PassInv, GuardInv, NEW s \in SandboxID, EndItem(s),
           \A r \in SandboxID \ {s} : RowOwned(r)
    PROVE  GuardInv'
<1>1. /\ desired'[s] = NoRow /\ plan'[s] = NoPlan
      /\ \A r \in SandboxID \ {s} : desired'[r] = desired[r] /\ plan'[r] = plan[r]
      /\ at' = "none" /\ phase' = phase
    BY DEF EndItem, PassInv, ReconcilerTypeOK
<1>2. RowYields(s, NoRow.state)'
    BY NoPlanFits DEF RowYields, NoRow
<1>3. ReadRowsYield'
    BY <1>1, <1>2, NoPlanFits, OwnedYields DEF GuardInv, ReadRowsYield
<1>4. PlansFitRows' /\ MarksFit'
    BY <1>1, NoPlanFits DEF GuardInv, PlansFitRows, MarksFit
<1>. QED BY <1>3, <1>4 DEF GuardInv

LEMMA GuardsGoOn ==
    ASSUME GuardInv, UNCHANGED sandboxes, UNCHANGED <<phase, desired, plan>>, MarksFit'
    PROVE  GuardInv'
BY DEF GuardInv, ReadRowsYield, RowYields, PlansFitRows

LEMMA GuardsListed ==
    ASSUME PassAndRows, GuardInv, ListContainers
    PROVE  GuardInv'
<1> USE DEF PassAndRows, PassInv
<1>1. at' = "none" /\ phase = "listed" /\ UNCHANGED sandboxes
    BY DEF ListContainers, ActingOnPlan, storeVars
<1>2. ASSUME NEW s \in SandboxID
      PROVE  /\ desired'[s] \in {desired[s], NoRow}
             /\ FitsRow(plan'[s].action, desired'[s].state)
    <2>1. PICK view \in Views :
              \/ plan'[s] = NoPlan /\ desired'[s] = NoRow
              \/ /\ plan'[s] = [action |-> DecideReconcileAction(desired[s], view[s], now),
                                observed |-> view[s]]
                 /\ desired'[s] = desired[s]
        BY DEF ListContainers
    <2>2. desired[s] \in Row /\ now \in Nat /\ view[s] \in Observed
        BY ViewsTyped, EnvironmentAssumption DEF ReconcilerTypeOK, StoreInv, EnvTypeOK
    <2>3. CASE plan'[s] = NoPlan /\ desired'[s] = NoRow
        BY <2>3, NoPlanFits
    <2>4. CASE /\ plan'[s] = [action |-> DecideReconcileAction(desired[s], view[s], now),
                              observed |-> view[s]]
               /\ desired'[s] = desired[s]
        <3>1. plan'[s].action = DecideReconcileAction(desired[s], view[s], now)
            BY <2>4
        <3>. QED BY <2>2, <2>4, <3>1, DecisionFitsRow
    <2>. QED BY <2>1, <2>3, <2>4
<1>3. ReadRowsYield'
    <2>1. ASSUME NEW s \in SandboxID
          PROVE  /\ desired'[s].versionID \in VersionsIn(desired'[s].state)
                 /\ RowYields(s, desired[s].state)'
        <3>1. CASE desired'[s] = desired[s]
            BY <1>1, <3>1 DEF GuardInv, ReadRowsYield, RowYields
        <3>2. CASE desired'[s] = NoRow
            BY <3>2, NoPlanFits DEF RowYields
        <3>. QED BY <1>2, <3>1, <3>2
    <2>. QED BY <2>1 DEF ReadRowsYield
<1>. QED BY <1>1, <1>2, <1>3 DEF GuardInv, PlansFitRows, MarksFit

LEMMA PassGuards ==
    ASSUME PassAndRows, GuardInv, ReconcilerNext
    PROVE  GuardInv'
<1> USE DEF PassAndRows, PassInv
<1>1. CASE ListRows
    <2>1. /\ at' = "none" /\ phase' = "listed" /\ desired' = sandboxes /\ UNCHANGED sandboxes
        BY <1>1 DEF ListRows, ActingOnPlan, storeVars
    <2>. QED
        BY <2>1 DEF GuardInv, ReadRowsYield, RowYields, PlansFitRows, MarksFit, StoreInv,
                    VersionsFollowStates
<1>2. CASE ListFails \/ FinishPass
    <2>1. at' = "none" /\ phase' = "idle"
        BY <1>2, NoPlanTyped DEF ListFails, FinishPass, ActingOnPlan
    <2>. QED BY <2>1 DEF GuardInv, ReadRowsYield, PlansFitRows, MarksFit
<1>3. ASSUME NEW s \in SandboxID, StartItem(s)
      PROVE  GuardInv'
    <2>1. /\ UNCHANGED sandboxes /\ UNCHANGED <<phase, desired, plan>>
          /\ current' = s /\ at' = FirstStep(s) /\ plan[s].action # "none"
        BY <1>3 DEF StartItem, ActingOnPlan, storeVars
    <2>2. at' = "mark" => plan[s].action \notin {"destroy", "destroy_orphan"}
        BY <2>1 DEF FirstStep, ReconcilerTypeOK, Action
    <2>. QED BY <2>1, <2>2, GuardsGoOn DEF MarksFit
<1>4. ASSUME NEW s \in SandboxID,
             CreateContainer(s) \/ StartContainer(s) \/ CleanupFailed(s) \/ Compensate(s)
      PROVE  GuardInv'
    <2>1. /\ UNCHANGED sandboxes
          /\ \/ EndItem(s)
             \/ at' # "mark" /\ UNCHANGED <<phase, desired, plan>>
        BY <1>4 DEF CreateContainer, StartContainer, CleanupFailed, Compensate, GoTo, storeVars
    <2>. QED BY <2>1, GuardsEnd, GuardsGoOn DEF RowOwned, MarksFit
<1>5. ASSUME NEW s \in SandboxID, DestroyContainer(s)
      PROVE  GuardInv'
    <2>1. UNCHANGED sandboxes /\ current = s /\ phase = "acting"
        BY <1>5 DEF DestroyContainer, ActingOnPlan, storeVars
    <2>2. CASE EndItem(s)
        BY <2>1, <2>2, GuardsEnd DEF RowOwned
    <2>3. CASE /\ GoTo("mark")
               /\ plan[s].action = "reap" \/ desired[s].state = "stopping"
        <3>1. plan[s].action # "destroy_orphan"
            BY <2>1, <2>3 DEF OrphansHaveNoRow, Absent
        <3>. QED BY <2>1, <2>3, <3>1, GuardsGoOn DEF GoTo, MarksFit
    <2>. QED BY <1>5, <2>2, <2>3 DEF DestroyContainer
<1>6. ASSUME NEW s \in SandboxID, WriteBack(s) \/ Mark(s)
      PROVE  GuardInv'
    <2>1. \A r \in SandboxID \ {s} : RowOwned(r)
        BY <1>6, UpdateMoves DEF WriteBack, Mark, RowOwned, storeVars, StoreInv
    <2>2. EndItem(s) \/ (GoTo("compensate") /\ UNCHANGED sandboxes)
        BY <1>6 DEF WriteBack, Mark, storeVars
    <2>. QED BY <2>1, <2>2, GuardsEnd, GuardsGoOn DEF GoTo, MarksFit
<1>. QED
    BY <1>1, <1>2, <1>3, <1>4, <1>5, <1>6, GuardsListed DEF ReconcilerNext, HandleAction

LEMMA GuardStep == PassAndRows /\ GuardInv /\ [Next]_vars => GuardInv'
<1> SUFFICES ASSUME PassAndRows, GuardInv, [Next]_vars PROVE GuardInv'
    OBVIOUS
<1>1. CASE HandlerStep
    BY <1>1, HandlersMoveRows, MovedIsOwned, GuardsStay
    DEF HandlerStep, PassAndRows, reconcilerVars
<1>2. CASE ReconcilerStep
    BY <1>2, PassGuards DEF ReconcilerStep
<1>3. CASE DockerStep \/ TimePasses \/ DaemonHangs \/ UNCHANGED vars
    BY <1>3, GuardsStay DEF DockerStep, TimePasses, DaemonHangs, vars, reconcilerVars,
                            storeVars, RowOwned
<1>4. CASE CrashAndRestart
    BY <1>4 DEF CrashAndRestart, PassLost, GuardInv, ReadRowsYield, PlansFitRows, MarksFit
<1>. QED BY <1>1, <1>2, <1>3, <1>4 DEF Next

LEMMA GuardInit == Init => GuardInv
BY DEF Init, ReconcilerInit, GuardInv, ReadRowsYield, PlansFitRows, MarksFit

Guarded == PassAndRows /\ RanInv /\ GuardInv

LEMMA StaysGuarded == Spec => []Guarded
<1>1. Guarded /\ [Next]_vars => Guarded'
    BY RanStep, PassAndRowsStep, GuardStep DEF Guarded
<1>2. Init => Guarded
    BY RanInit, PassAndRowsInit, GuardInit DEF Guarded
<1>. QED BY <1>1, <1>2, PTL DEF Spec

(* The row under a mark, and the target the action has for it.              *)
LEMMA MarkIsLegal ==
    ASSUME Guarded, at = "mark"
    PROVE  /\ desired[current].state \in {"pending", "running", "stopping"}
           /\ CanTransition(desired[current].state, MarkTarget(current))
           /\ plan[current].action = "mark_running" =>
                  desired[current].state = "pending" /\ MarkTarget(current) = "running"
           /\ plan[current].action # "mark_running" => MarkTarget(current) \in Terminal
<1> DEFINE action == plan[current].action
           read == desired[current].state
<1>1. /\ action \in {"create", "destroy", "reap", "mark_failed", "mark_stopped", "mark_running"}
      /\ phase = "acting" /\ current \in SandboxID
    BY DEF Guarded, PassAndRows, PassInv, ActingOnPlan, ReconcilerTypeOK, Action, GuardInv,
           MarksFit
<1>2. /\ FitsRow(action, read)
      /\ action = "destroy" => read = "stopping"
    BY <1>1 DEF Guarded, GuardInv, PlansFitRows, MarksFit
<1>3. read \in {"pending", "running", "stopping"}
    BY <1>1, <1>2 DEF FitsRow
<1>4. /\ action = "mark_running" => read = "pending" /\ MarkTarget(current) = "running"
      /\ action \in {"create", "mark_failed"} =>
             read \in {"pending", "running"} /\ MarkTarget(current) = "failed"
      /\ action \in {"destroy", "mark_stopped"} =>
             read = "stopping" /\ MarkTarget(current) = "stopped"
      /\ action = "reap" => MarkTarget(current) = IF read = "stopping" THEN "stopped" ELSE "failed"
    BY <1>2 DEF FitsRow, MarkTarget
<1>5. CanTransition(read, MarkTarget(current))
    BY <1>1, <1>3, <1>4 DEF CanTransition, ValidTransitions, TaskState
<1>. QED BY <1>1, <1>3, <1>4, <1>5 DEF Terminal

(* Nobody moves a row in a way that its version does not tell.              *)
LEMMA KeptRowMatches ==
    ASSUME Guarded, phase # "idle", NEW s \in SandboxID,
           desired[s].state \in {"pending", "running", "stopping"},
           sandboxes[s].state = desired[s].state
    PROVE  Matches(s, desired[s].state, desired[s].versionID)
<1>1. /\ desired[s].versionID \in VersionsIn(desired[s].state)
      /\ sandboxes[s].versionID \in VersionsIn(desired[s].state)
    BY DEF Guarded, GuardInv, ReadRowsYield, PassAndRows, StoreInv, VersionsFollowStates
<1>. QED BY <1>1 DEF VersionsIn, Matches, Absent

(* A mark that is refused found its running row stopping.                   *)
LEMMA RefusedForStop ==
    ASSUME Guarded, at = "mark",
           UpdateRefused(current, desired[current].state, MarkTarget(current),
                         desired[current].versionID)
    PROVE  desired[current].state = "running" /\ sandboxes[current].state = "stopping"
<1>1. phase = "acting" /\ current \in SandboxID
    BY DEF Guarded, PassAndRows, PassInv, ActingOnPlan
<1>2. desired[current].state \in {"pending", "running", "stopping"}
      /\ CanTransition(desired[current].state, MarkTarget(current))
    BY MarkIsLegal
<1>3. sandboxes[current].state # desired[current].state
    BY <1>1, <1>2, KeptRowMatches DEF UpdateRefused
<1>. QED BY <1>1, <1>2, <1>3 DEF Guarded, GuardInv, ReadRowsYield, RowYields, Owned

(* The guards of the write-back and of the mark miss for a DELETE only: a   *)
(* pending row, over which a container is made for seconds, is moved by     *)
(* nobody else, and so the write-back never misses.                         *)
THEOREM GuardsMissForStopsOnly == Spec => WritesYieldToStopsOnly
<1>1. ASSUME Guarded, [Next]_vars, NEW s \in SandboxID,
             current = s, at \in {"writeback", "mark"}, at' # at, NoFault, UNCHANGED sandboxes
      PROVE  desired[s].state = "running" /\ sandboxes[s].state = "stopping"
    <2>1. /\ phase = "acting" /\ crashes \in Nat /\ faults \in Nat
          /\ \A v \in Nat : v + 1 # v
        BY <1>1, EnvironmentAssumption
        DEF Guarded, PassAndRows, PassInv, ActingOnPlan, StoreInv, EnvTypeOK
    <2>2. ~CrashAndRestart /\ ~Fault
        BY <1>1, <2>1 DEF CrashAndRestart, CrashAllowed, Fault, NoFault, envVars
    <2>3. WriteBack(s) \/ Mark(s)
        BY <1>1, <2>2, SandboxAssumption
        DEF Next, HandlerStep, ReconcilerStep, DockerStep, TimePasses, DaemonHangs,
            vars, reconcilerVars, passVars, ReconcilerNext, ListRows, ListContainers,
            ListFails, FinishPass, StartItem, HandleAction, CreateContainer,
            StartContainer, CleanupFailed, Compensate, DestroyContainer, WriteBack,
            Mark
    <2>4. ASSUME NEW from, NEW to, NEW v, UpdateSandboxState(s, from, to, v) PROVE FALSE
        BY <1>1, <2>1, <2>4 DEF UpdateSandboxState, Matches, Guarded, PassAndRows, StoreInv,
                                StoreTypeOK, Row
    <2>5. CASE WriteBack(s)
        <3>1. UpdateRefused(s, "pending", "running", desired[s].versionID) /\ at = "writeback"
            BY <2>2, <2>4, <2>5 DEF WriteBack
        <3>2. desired[s].state = "pending"
            BY <1>1, <2>1, <3>1
            DEF Guarded, RanInv, CreatesOnPlan, GuardInv, PlansFitRows, FitsRow
        <3>3. sandboxes[s].state = "pending"
            BY <1>1, <2>1, <3>2 DEF Guarded, GuardInv, ReadRowsYield, RowYields, Owned
        <3>4. CanTransition("pending", "running")
            BY DEF CanTransition, ValidTransitions, TaskState
        <3>. QED BY <1>1, <2>1, <3>1, <3>2, <3>3, <3>4, KeptRowMatches DEF UpdateRefused
    <2>6. CASE Mark(s)
        <3>1. /\ UpdateRefused(s, desired[s].state, MarkTarget(s), desired[s].versionID)
              /\ at = "mark"
            BY <2>2, <2>4, <2>6 DEF Mark
        <3>. QED BY <1>1, <3>1, RefusedForStop
    <2>. QED BY <2>3, <2>5, <2>6
<1>2. Guarded /\ [Next]_vars =>
          [\A s \in SandboxID :
              /\ current = s /\ at \in {"writeback", "mark"} /\ at' # at
              /\ NoFault /\ UNCHANGED sandboxes
              => desired[s].state = "running" /\ sandboxes[s].state = "stopping"]_vars
    BY <1>1
<1>. QED BY <1>2, StaysGuarded, PTL DEF Spec, WritesYieldToStopsOnly
=============================================================================
