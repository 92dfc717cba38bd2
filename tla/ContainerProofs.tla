--------------------------- MODULE ContainerProofs ---------------------------
(***************************************************************************)
(* Theorems about rows and containers together, for any instance in which   *)
(* a create whose caller died does not land any more.  Then the pass is     *)
(* alone in making and starting containers, and what it saw of a sandbox's  *)
(* container can only have become less, or been restarted.                  *)
(***************************************************************************)
EXTENDS PassProofs

Ended == {"stopping"} \union Terminal

(* The create of s has made its container and is not over.                  *)
Making(s) == current = s /\ at \in {"start", "cleanup", "writeback", "compensate"}

(* Rows and containers. *)
NothingInFlight == inflight = {}
OrphansStayAbsent == \A s \in Orphans : sandboxes[s].state = Absent
ContainersHaveRows == \A s \in SandboxID : ContainersOf(s) # {} => Exists(s) \/ s \in Orphans

WorldInv ==
    /\ NothingInFlight /\ OrphansStayAbsent /\ ContainersHaveRows
    /\ OneContainerPerSandbox /\ TerminalRunsOnlyRestarted

(* What became of the rows the pass has read: a pending one is the pass's   *)
(* own, and none comes back from its end.                                   *)
ReadRows ==
    phase # "idle" =>
        \A s \in SandboxID :
            /\ desired[s].state = "pending" => sandboxes[s].state = "pending"
            /\ desired[s].state \in Ended => sandboxes[s].state \in Ended

UnreadAreOrphans ==
    phase = "listed" =>
        \A s \in SandboxID :
            desired[s].state = Absent /\ ContainersOf(s) # {} => s \in Orphans

(* What each plan was made for ...                                          *)
PlansFit ==
    phase = "acting" =>
        \A s \in SandboxID :
            /\ plan[s].action = "create" =>
                   plan[s].observed = "nil" /\ desired[s].state = "pending"
            /\ plan[s].action = "mark_stopped" => plan[s].observed = "nil"
            /\ plan[s].action = "mark_failed" => plan[s].observed # "running"
            /\ plan[s].action = "destroy" => desired[s].state \in Ended
            /\ plan[s].action = "destroy_orphan" => s \in Orphans
            /\ plan[s].action = "reap" => desired[s].expiresAt < now

(* ... still holds of the containers when its turn comes.                   *)
SeenIsStillSo ==
    phase = "acting" =>
        \A s \in SandboxID : plan[s].action # "none" /\ ~Making(s) =>
            /\ plan[s].observed = "nil" => ContainersOf(s) = {}
            /\ plan[s].observed = "stopped" =>
                   \A c \in ContainersOf(s) : containers[c].state # "running"

CallsFit ==
    /\ at = "create" \/ Making(current) => plan[current].action = "create"
    /\ at = "destroy" => plan[current].action \in {"destroy", "destroy_orphan", "reap"}
    /\ at = "mark" /\ plan[current].action \in {"destroy", "reap"}
           => ContainersOf(current) = {}

AloneInv == ReadRows /\ UnreadAreOrphans /\ PlansFit /\ SeenIsStillSo /\ CallsFit
-----------------------------------------------------------------------------
(* What a step may do to a row the pass has read, and to the containers of  *)
(* a sandbox the pass is not working on: some go, some exit, some restart.  *)
RowKept(s) ==
    /\ sandboxes[s].state = "pending" => sandboxes'[s].state = "pending"
    /\ sandboxes[s].state \in Ended => sandboxes'[s].state \in Ended

Fades(s) ==
    /\ ContainersOf(s)' \subseteq ContainersOf(s)
    /\ \A c \in ContainersOf(s)' :
           containers'[c].state = "running" => containers[c].state = "running"

Alone == PassAndRows /\ WorldInv /\ AloneInv

LEMMA UnmovedFades ==
    ASSUME NEW s \in SandboxID, UNCHANGED containers
    PROVE  Fades(s)
BY DEF Fades, ContainersOf

LEMMA RemovedFades ==
    ASSUME NEW s \in SandboxID,
           \A d \in ContainerID : containers'[d] \in {containers[d], NoSuchContainer}
    PROVE  Fades(s)
BY SandboxAssumption DEF Fades, ContainersOf, NoSuchContainer

LEMMA ExitedFades ==
    ASSUME DockerTypeOK, NEW s \in SandboxID, NEW c \in ContainerID,
           ContainerExits(c) \/ ContainerRestarts(c)
    PROVE  Fades(s)
<1>1. PICK state \in {"exited", "restarted"} :
          containers' = [containers EXCEPT ![c].state = state]
    BY DEF ContainerExits, ContainerRestarts
<1>. QED BY <1>1 DEF Fades, ContainersOf, DockerTypeOK

(* Made and started containers disturb their own sandbox only.              *)
LEMMA CreatedFades ==
    ASSUME DockerTypeOK, NEW c \in ContainerID, NEW s \in SandboxID, ContainerCreate(c, s)
    PROVE  /\ \A r \in SandboxID \ {s} : Fades(r)
           /\ ContainersOf(s)' = ContainersOf(s) \union {c}
           /\ \A d \in ContainersOf(s)' : containers'[d].state = "running"
                                              => containers[d].state = "running"
<1>1. /\ containers'[c] = [sandbox |-> s, state |-> "created"]
      /\ \A d \in ContainerID \ {c} : containers'[d] = containers[d]
    BY DEF ContainerCreate, DockerTypeOK
<1>. QED BY <1>1 DEF Fades, ContainersOf

LEMMA StartedFades ==
    ASSUME DockerTypeOK, NEW c \in ContainerID, ContainerStart(c)
    PROVE  \A r \in SandboxID : /\ ContainersOf(r)' = ContainersOf(r)
                                /\ r # containers[c].sandbox => Fades(r)
<1>1. /\ containers'[c].sandbox = containers[c].sandbox
      /\ \A d \in ContainerID \ {c} : containers'[d] = containers[d]
    BY DEF ContainerStart, DockerTypeOK
<1>. QED BY <1>1 DEF Fades, ContainersOf

-----------------------------------------------------------------------------
(* The rows, moved by the handlers.                                         *)
LEMMA MovedIsKept ==
    ASSUME NEW s \in SandboxID, HandlersMove(s)
    PROVE  RowKept(s)
BY DEF HandlersMove, RowKept, Ended, Terminal, Absent

-----------------------------------------------------------------------------
(* Rows and containers, when no container is made or started.               *)
LEMMA WorldFades ==
    ASSUME WorldInv, inflight' = inflight,
           \A s \in SandboxID :
               /\ Fades(s)
               /\ sandboxes[s].state # Absent => sandboxes'[s].state # Absent
               /\ s \in Orphans /\ sandboxes[s].state = Absent => sandboxes'[s].state = Absent
               /\ sandboxes'[s].state \in Terminal
                      => \/ sandboxes[s].state \in Terminal
                         \/ \A c \in ContainersOf(s) : containers[c].state # "running"
    PROVE  WorldInv'
<1> USE DEF WorldInv, Fades
<1>1. NothingInFlight' /\ OrphansStayAbsent'
    BY ControlAssumption DEF NothingInFlight, OrphansStayAbsent
<1>2. ContainersHaveRows'
    BY DEF ContainersHaveRows, Exists
<1>3. OneContainerPerSandbox'
    BY DEF OneContainerPerSandbox
<1>4. ASSUME NEW s \in SandboxID, sandboxes'[s].state \in Terminal,
             NEW c \in RunningContainersOf(s)'
      PROVE  containers'[c].state = "restarted"
    <2>1. c \in ContainersOf(s)' /\ c \in ContainersOf(s) /\ containers'[c].state \in Up
        BY <1>4 DEF RunningContainersOf
    <2>2. ASSUME containers'[c].state = "running"
          PROVE  FALSE
        <3>1. containers[c].state = "running"
            BY <2>1, <2>2
        <3>2. sandboxes[s].state \in Terminal /\ c \in RunningContainersOf(s)
            BY <1>4, <2>1, <3>1 DEF RunningContainersOf, Up
        <3>. QED BY <3>1, <3>2 DEF TerminalRunsOnlyRestarted
    <2>. QED BY <2>1, <2>2 DEF Up
<1>. QED BY <1>1, <1>2, <1>3, <1>4 DEF TerminalRunsOnlyRestarted

(* ... and the pass, when it does not move.                                 *)
LEMMA AloneUnmoved ==
    ASSUME PassInv, AloneInv, UNCHANGED passVars, EnvTypeOK, EnvTypeOK', now <= now',
           \A s \in SandboxID : Fades(s) /\ RowKept(s)
    PROVE  AloneInv'
<1> USE DEF AloneInv, passVars
<1>1. ReadRows'
    BY DEF ReadRows, RowKept
<1>2. UnreadAreOrphans'
    BY DEF UnreadAreOrphans, Fades
<1>3. PlansFit'
    <2>1. \A s \in SandboxID : desired[s].expiresAt \in Nat /\ now \in Nat /\ now' \in Nat
        BY StoreAssumption, EnvironmentAssumption
        DEF PassInv, ReconcilerTypeOK, Row, Expiry, EnvTypeOK
    <2>2. \A s \in SandboxID : desired[s].expiresAt < now => desired[s].expiresAt < now'
        BY <2>1
    <2>. QED BY <2>2 DEF PlansFit
<1>4. SeenIsStillSo'
    BY DEF SeenIsStillSo, Fades, Making
<1>5. CallsFit'
    <2>1. at = "mark" => current \in SandboxID
        BY DEF PassInv, ActingOnPlan
    <2>2. at' = at /\ current' = current /\ plan' = plan /\ (Making(current)' <=> Making(current))
        BY DEF Making
    <2>3. at = "mark" => ContainersOf(current)' \subseteq ContainersOf(current)
        BY <2>1, <2>2 DEF Fades
    <2>. QED BY <2>2, <2>3 DEF CallsFit
<1>. QED BY <1>1, <1>2, <1>3, <1>4, <1>5
-----------------------------------------------------------------------------
(* The end of an action: what it did to its own sandbox no longer matters.  *)
LEMMA AloneEnds ==
    ASSUME PassInv, AloneInv, NEW s \in SandboxID, current = s, phase = "acting",
           EndItem(s), now' = now,
           \A r \in SandboxID \ {s} : Fades(r) /\ RowKept(r)
    PROVE  AloneInv'
<1> USE DEF AloneInv
<1>1. /\ desired'[s] = NoRow /\ plan'[s] = NoPlan
      /\ \A r \in SandboxID \ {s} : desired'[r] = desired[r] /\ plan'[r] = plan[r]
      /\ at' = "none" /\ current' = NoSandbox /\ phase' = phase
    BY DEF EndItem, PassInv, ReconcilerTypeOK
<1>2. ReadRows'
    BY <1>1 DEF ReadRows, RowKept, NoRow, Absent, Ended, Terminal
<1>3. UnreadAreOrphans' /\ PlansFit'
    BY <1>1 DEF UnreadAreOrphans, PlansFit, NoPlan
<1>4. SeenIsStillSo'
    <2>1. ASSUME NEW r \in SandboxID, plan'[r].action # "none"
          PROVE  ~Making(r) /\ plan'[r] = plan[r] /\ Fades(r)
        BY <1>1, <2>1 DEF NoPlan, Making
    <2>. QED BY <1>1, <2>1 DEF SeenIsStillSo, Fades, Making
<1>5. CallsFit'
    BY <1>1 DEF CallsFit, Making
<1>. QED BY <1>2, <1>3, <1>4, <1>5
(* The next call of an action.                                              *)
LEMMA AloneGoesOn ==
    ASSUME PassInv, AloneInv, NEW s \in SandboxID, current = s, at # "none", NEW step,
           GoTo(step), UNCHANGED storeVars, now' = now,
           \A r \in SandboxID \ {s} : Fades(r),
           \/ ~Making(s) /\ Fades(s)
           \/ Making(s) /\ Making(s)',
           CallsFit'
    PROVE  AloneInv'
<1> USE DEF AloneInv
<1>1. /\ at' = step /\ phase = "acting"
      /\ UNCHANGED <<phase, desired, plan, current>> /\ UNCHANGED sandboxes
    BY DEF GoTo, PassInv, ActingOnPlan, storeVars
<1>2. ReadRows' /\ UnreadAreOrphans' /\ PlansFit'
    BY <1>1 DEF ReadRows, UnreadAreOrphans, PlansFit
<1>3. SeenIsStillSo'
    <2>1. ASSUME NEW r \in SandboxID, ~Making(r)'
          PROVE  ~Making(r) /\ Fades(r)
        BY <1>1, <2>1 DEF Making
    <2>. QED BY <1>1, <2>1 DEF SeenIsStillSo, Fades, Making
<1>. QED BY <1>2, <1>3

-----------------------------------------------------------------------------
(* What the pass holds of the sandbox it is working on.                     *)
LEMMA CreatorsRowIsPending ==
    ASSUME PassInv, AloneInv, NEW s \in SandboxID, current = s, at = "create" \/ Making(s)
    PROVE  /\ plan[s].action = "create" /\ plan[s].observed = "nil"
           /\ desired[s].state = "pending" /\ sandboxes[s].state = "pending"
           /\ at = "create" => ContainersOf(s) = {}
<1>1. plan[s].action = "create"
    BY DEF AloneInv, CallsFit
<1>2. phase = "acting"
    BY DEF PassInv, ActingOnPlan, Making
<1>. QED
    BY <1>1, <1>2 DEF AloneInv, PlansFit, ReadRows, SeenIsStillSo, Making

(* The pass starts, looks and ends.                                         *)
LEMMA RowsReadAlone == ASSUME Alone, ListRows PROVE AloneInv'
<1> USE DEF Alone, PassAndRows
<1>1. at = "none" /\ phase' = "listed" /\ desired' = sandboxes
      /\ UNCHANGED <<plan, current, at>> /\ UNCHANGED sandboxes /\ UNCHANGED containers
    BY DEF ListRows, PassInv, ActingOnPlan, storeVars, dockerVars
<1>2. ReadRows'
    BY <1>1 DEF ReadRows
<1>3. UnreadAreOrphans'
    BY <1>1 DEF UnreadAreOrphans, WorldInv, ContainersHaveRows, Exists, ContainersOf
<1>4. PlansFit' /\ SeenIsStillSo' /\ CallsFit'
    BY <1>1 DEF PlansFit, SeenIsStillSo, CallsFit, Making
<1>. QED BY <1>2, <1>3, <1>4 DEF AloneInv

LEMMA SightingsMean ==
    ASSUME DockerTypeOK, OneContainerPerSandbox, NEW view \in Views, NEW s \in SandboxID
    PROVE  /\ view[s] \in Observed
           /\ view[s] = "nil" <=> ContainersOf(s) = {}
           /\ view[s] = "stopped" => \A c \in ContainersOf(s) : containers[c].state # "running"
<1>1. view[s] \in Sightings(s) /\ view[s] \in Observed
    BY DEF Views
<1>2. CASE ContainersOf(s) = {}
    BY <1>1, <1>2 DEF Sightings
<1>3. CASE ContainersOf(s) # {}
    <2>1. PICK c \in ContainersOf(s) : view[s] = StateFromContainerState(containers[c].state)
        BY <1>1, <1>3 DEF Sightings
    <2>2. \A d \in ContainersOf(s) : d = c
        BY DEF OneContainerPerSandbox
    <2>. QED BY <1>1, <1>3, <2>1, <2>2 DEF StateFromContainerState, Up
<1>. QED BY <1>2, <1>3

(* What the decision table may rely on, action by action.                   *)
LEMMA DecisionMeans ==
    ASSUME NEW row \in Row, NEW observed \in Observed, NEW t \in Nat,
           NEW action, action = DecideReconcileAction(row, observed, t)
    PROVE  /\ action = "create" => observed = "nil" /\ row.state = "pending"
           /\ action = "mark_stopped" => observed = "nil"
           /\ action = "mark_failed" => observed # "running"
           /\ action = "destroy" => row.state \in Ended
           /\ action = "destroy_orphan" => row.state = Absent /\ observed # "nil"
           /\ action = "reap" => row.expiresAt < t
<1>1. row.state \in {Absent, "pending", "running", "stopping", "failed", "stopped"}
      /\ row.expiresAt \in Nat
    BY StoreAssumption DEF Row, State, TaskState, Expiry
<1>2. CASE row.state = Absent
    BY <1>2 DEF DecideReconcileAction, DecideOrphan
<1>3. CASE row.state # Absent /\ Expired(row, t)
    BY <1>1, <1>3 DEF DecideReconcileAction, DecideForRow, Expired
<1>4. CASE row.state # Absent /\ ~Expired(row, t)
    BY <1>1, <1>4
    DEF DecideReconcileAction, DecideForRow, Expired, Ended, Terminal, Observed, Absent
<1>. QED BY <1>2, <1>3, <1>4

LEMMA ContainersListedAlone == ASSUME Alone, ListContainers PROVE AloneInv'
<1> USE DEF Alone, PassAndRows
<1>1. PICK view \in Views :
          LET decided == [s \in SandboxID |-> DecideReconcileAction(desired[s], view[s], now)]
          IN  /\ plan' = [s \in SandboxID |->
                     IF decided[s] = "none" THEN NoPlan
                     ELSE [action |-> decided[s], observed |-> view[s]]]
              /\ desired' = [s \in SandboxID |->
                     IF decided[s] = "none" THEN NoRow ELSE desired[s]]
    BY DEF ListContainers
<1>2. /\ at = "none" /\ phase = "listed" /\ phase' = "acting" /\ at' = "none" /\ now' = now
      /\ UNCHANGED containers /\ UNCHANGED sandboxes
    BY DEF ListContainers, PassInv, ActingOnPlan, NoFault, envVars, storeVars, dockerVars
<1>3. ASSUME NEW s \in SandboxID
      PROVE  \/ plan'[s] = NoPlan /\ desired'[s] = NoRow
             \/ /\ desired'[s] = desired[s]
                /\ plan'[s].action = DecideReconcileAction(desired[s], view[s], now)
                /\ plan'[s].observed = view[s]
    BY <1>1
<1>4. ASSUME NEW s \in SandboxID
      PROVE  /\ desired[s] \in Row /\ now \in Nat
             /\ view[s] \in Observed
             /\ view[s] = "nil" <=> ContainersOf(s) = {}
             /\ view[s] = "stopped" => \A c \in ContainersOf(s) : containers[c].state # "running"
    BY SightingsMean, EnvironmentAssumption
    DEF PassInv, ReconcilerTypeOK, StoreInv, EnvTypeOK, WorldInv
<1>5. ReadRows'
    BY <1>2, <1>3 DEF AloneInv, ReadRows, NoRow, Absent, Ended, Terminal
<1>6. PlansFit'
    <2>1. ASSUME NEW s \in SandboxID,
                 plan'[s].action = DecideReconcileAction(desired[s], view[s], now),
                 plan'[s].observed = view[s], desired'[s] = desired[s]
          PROVE  /\ plan'[s].action = "create" =>
                        plan'[s].observed = "nil" /\ desired'[s].state = "pending"
                 /\ plan'[s].action = "mark_stopped" => plan'[s].observed = "nil"
                 /\ plan'[s].action = "mark_failed" => plan'[s].observed # "running"
                 /\ plan'[s].action = "destroy" => desired'[s].state \in Ended
                 /\ plan'[s].action = "destroy_orphan" => s \in Orphans
                 /\ plan'[s].action = "reap" => desired'[s].expiresAt < now'
        BY <1>2, <1>4, <2>1, DecisionMeans DEF AloneInv, UnreadAreOrphans
    <2>. QED BY <1>3, <2>1 DEF PlansFit, NoPlan
<1>7. SeenIsStillSo'
    BY <1>2, <1>3, <1>4 DEF SeenIsStillSo, ContainersOf, NoPlan
<1>8. UnreadAreOrphans' /\ CallsFit'
    BY <1>2 DEF UnreadAreOrphans, CallsFit, Making
<1>. QED BY <1>5, <1>6, <1>7, <1>8 DEF AloneInv

LEMMA PassIdlesAlone == ASSUME Alone, ListFails \/ FinishPass PROVE AloneInv'
<1> USE DEF Alone, PassAndRows
<1>1. /\ phase' = "idle" /\ at' = "none"
    BY NoPlanTyped DEF ListFails, FinishPass, PassInv, ActingOnPlan
<1>. QED
    BY <1>1 DEF AloneInv, ReadRows, UnreadAreOrphans, PlansFit, SeenIsStillSo, CallsFit, Making

LEMMA ItemStartsAlone == ASSUME Alone, NEW s \in SandboxID, StartItem(s) PROVE AloneInv'
<1> USE DEF Alone, PassAndRows, AloneInv
<1>1. /\ at' = FirstStep(s) /\ current' = s /\ phase = "acting" /\ plan[s].action # "none"
      /\ current = NoSandbox /\ now' = now
      /\ UNCHANGED <<phase, desired, plan>> /\ UNCHANGED sandboxes /\ UNCHANGED containers
    BY DEF StartItem, PassInv, ActingOnPlan, NoFault, envVars, storeVars, dockerVars
<1>2. at' \in {"mark", "create", "destroy"}
    BY <1>1, FirstStepTyped DEF PassInv
<1>3. ReadRows' /\ UnreadAreOrphans' /\ PlansFit'
    BY <1>1 DEF ReadRows, UnreadAreOrphans, PlansFit
<1>4. \A r \in SandboxID : ~Making(r) /\ ~Making(r)'
    BY <1>1, <1>2, SandboxAssumption DEF Making
<1>5. SeenIsStillSo'
    BY <1>1, <1>4 DEF SeenIsStillSo, ContainersOf
<1>6. CallsFit'
    <2>1. plan[s].action = "reap" /\ at' = "mark" => ContainersOf(s) = {}
        BY <1>1, <1>4 DEF FirstStep, SeenIsStillSo
    <2>2. /\ at' = "create" => plan[s].action = "create"
          /\ at' = "destroy" => plan[s].action \in {"destroy", "destroy_orphan", "reap"}
          /\ at' = "mark" => plan[s].action # "destroy"
        BY <1>1 DEF FirstStep, PassInv, ReconcilerTypeOK, Action
    <2>3. ContainersOf(current)' = ContainersOf(s) /\ plan'[current'] = plan[s]
        BY <1>1 DEF ContainersOf
    <2>. QED BY <1>4, <2>1, <2>2, <2>3, <1>1 DEF CallsFit
<1>. QED BY <1>3, <1>5, <1>6
-----------------------------------------------------------------------------
(* The calls of an action.                                                  *)
LEMMA CallOfPass ==
    ASSUME Alone, NEW s \in SandboxID, HandleAction(s)
    PROVE  /\ current = s /\ at # "none" /\ phase = "acting"
           /\ now' = now /\ inflight' = inflight
           /\ DockerTypeOK
<1>1. current = s /\ at # "none" /\ (NoFault \/ Fault) /\ inflight' = inflight
    BY DEF HandleAction, CreateContainer, StartContainer, CleanupFailed, WriteBack, Compensate,
           DestroyContainer, Mark, Destroy, RemoveContainer, ContainerStart, dockerVars
<1>. QED
    BY <1>1 DEF Alone, PassAndRows, PassInv, ActingOnPlan,
                NoFault, Fault, envVars

(* With the rows as they were and no container made or started, only the    *)
(* pass is left to look at.                                                 *)
LEMMA QuietCall ==
    ASSUME Alone, NEW s \in SandboxID, current = s, phase = "acting",
           now' = now, inflight' = inflight, UNCHANGED storeVars,
           \A r \in SandboxID : Fades(r),
           EndItem(s)
    PROVE  WorldInv' /\ AloneInv'
<1>1. \A r \in SandboxID : sandboxes'[r].state = sandboxes[r].state /\ RowKept(r)
    BY DEF storeVars, RowKept
<1>. QED BY <1>1, WorldFades, AloneEnds DEF Alone, PassAndRows

LEMMA CreateAlone ==
    ASSUME Alone, NEW s \in SandboxID, CreateContainer(s)
    PROVE  WorldInv' /\ AloneInv'
<1> USE DEF Alone, PassAndRows
<1>1. /\ current = s /\ at = "create" /\ phase = "acting" /\ now' = now
      /\ inflight' = inflight /\ DockerTypeOK /\ UNCHANGED storeVars
    BY CallOfPass DEF HandleAction, CreateContainer
<1>2. /\ ContainersOf(s) = {} /\ Exists(s) /\ sandboxes[s].state = "pending"
      /\ plan[s].action = "create"
    BY <1>1, CreatorsRowIsPending DEF Exists, Absent
<1>3. ASSUME NEW c \in ContainerID, ContainerCreate(c, s)
      PROVE  WorldInv' /\ \A r \in SandboxID \ {s} : Fades(r) /\ RowKept(r)
    <2>1. /\ \A r \in SandboxID \ {s} : Fades(r)
          /\ ContainersOf(s)' = {c} /\ containers'[c].state = "created"
        <3>1. containers'[c].state = "created"
            BY <1>1, <1>3 DEF ContainerCreate, DockerTypeOK
        <3>. QED BY <1>1, <1>2, <1>3, <3>1, CreatedFades
    <2>2. UNCHANGED sandboxes
        BY <1>1 DEF storeVars
    <2>3. NothingInFlight' /\ OrphansStayAbsent'
        BY <1>1, <2>2 DEF WorldInv, NothingInFlight, OrphansStayAbsent
    <2>4. ContainersHaveRows'
        BY <1>2, <2>1, <2>2 DEF WorldInv, ContainersHaveRows, Exists, Fades
    <2>5. OneContainerPerSandbox'
        BY <2>1 DEF WorldInv, OneContainerPerSandbox, Fades
    <2>6. TerminalRunsOnlyRestarted'
        <3>1. ASSUME NEW r \in SandboxID, sandboxes'[r].state \in Terminal,
                     NEW d \in RunningContainersOf(r)'
              PROVE  containers'[d].state = "restarted"
            <4>1. r # s /\ Fades(r) /\ sandboxes[r].state \in Terminal
                BY <1>2, <2>1, <2>2, <3>1 DEF Terminal
            <4>2. d \in ContainersOf(r)' /\ d # c /\ containers'[d].state \in Up
                BY <2>1, <3>1, <4>1 DEF RunningContainersOf, ContainersOf
            <4>3. containers'[d] = containers[d] /\ d \in RunningContainersOf(r)
                BY <1>3, <4>1, <4>2
                DEF ContainerCreate, Fades, RunningContainersOf, DockerTypeOK, ContainersOf
            <4>. QED BY <4>1, <4>3 DEF WorldInv, TerminalRunsOnlyRestarted
        <3>. QED BY <3>1 DEF TerminalRunsOnlyRestarted
    <2>. QED BY <2>1, <2>2, <2>3, <2>4, <2>5, <2>6 DEF WorldInv, RowKept
<1>4. ASSUME NEW c \in ContainerID, ContainerCreate(c, s), at' = "start",
             UNCHANGED <<phase, desired, plan, current>>
      PROVE  AloneInv'
    <2>1. /\ \A r \in SandboxID \ {s} : Fades(r)
          /\ UNCHANGED sandboxes /\ Making(s)'
          /\ \A r \in SandboxID \ {s} : ~Making(r)
        BY <1>1, <1>3, <1>4 DEF Making, storeVars
    <2>2. ReadRows' /\ UnreadAreOrphans' /\ PlansFit' /\ CallsFit'
        BY <1>1, <1>2, <1>4, <2>1
        DEF AloneInv, ReadRows, UnreadAreOrphans, PlansFit, CallsFit, Making
    <2>3. SeenIsStillSo'
        BY <1>1, <1>4, <2>1 DEF AloneInv, SeenIsStillSo, Fades
    <2>. QED BY <2>2, <2>3 DEF AloneInv
<1>5. ASSUME UNCHANGED dockerVars, EndItem(s)
      PROVE  WorldInv' /\ AloneInv'
    BY <1>1, <1>5, UnmovedFades, QuietCall DEF dockerVars
<1>6. ASSUME NEW c \in ContainerID, ContainerCreate(c, s), EndItem(s)
      PROVE  WorldInv' /\ AloneInv'
    BY <1>1, <1>3, <1>6, AloneEnds
<1>. QED BY <1>3, <1>4, <1>5, <1>6 DEF CreateContainer

(* Rows are not touched, and only the sandbox of the action is started.     *)
LEMMA StartAlone ==
    ASSUME Alone, NEW s \in SandboxID, StartContainer(s)
    PROVE  WorldInv' /\ AloneInv'
<1> USE DEF Alone, PassAndRows
<1>1. /\ current = s /\ at = "start" /\ Making(s) /\ phase = "acting" /\ now' = now
      /\ inflight' = inflight /\ DockerTypeOK /\ UNCHANGED storeVars
    BY CallOfPass DEF HandleAction, StartContainer, Making
<1>2. sandboxes[s].state = "pending" /\ plan[s].action = "create"
    BY <1>1, CreatorsRowIsPending
<1>3. UNCHANGED sandboxes /\ \A r \in SandboxID : RowKept(r)
    BY <1>1 DEF storeVars, RowKept
<1>4. ASSUME ContainerStart(made)
      PROVE  WorldInv' /\ \A r \in SandboxID \ {s} : Fades(r)
    <2>1. made \in ContainerID /\ containers[made].sandbox = s
        BY <1>1, <1>4 DEF PassInv, MadeIsItsOwn, ContainerStart
    <2>2. \A r \in SandboxID : /\ ContainersOf(r)' = ContainersOf(r)
                               /\ r # s => Fades(r)
        BY <1>1, <1>4, <2>1, StartedFades
    <2>3. NothingInFlight' /\ OrphansStayAbsent' /\ ContainersHaveRows' /\ OneContainerPerSandbox'
        BY <1>1, <1>3, <2>2
        DEF WorldInv, NothingInFlight, OrphansStayAbsent, ContainersHaveRows, Exists,
            OneContainerPerSandbox
    <2>4. ASSUME NEW r \in SandboxID, sandboxes'[r].state \in Terminal,
                 NEW d \in RunningContainersOf(r)'
          PROVE  containers'[d].state = "restarted"
        <3>1. r # s /\ sandboxes[r].state \in Terminal
            BY <1>2, <1>3, <2>4 DEF Terminal
        <3>2. d \in ContainersOf(r) /\ containers'[d].state \in Up
            BY <2>2, <2>4 DEF RunningContainersOf
        <3>3. containers'[d] = containers[d] /\ d \in RunningContainersOf(r)
            BY <1>1, <1>4, <2>1, <3>1, <3>2
            DEF ContainerStart, DockerTypeOK, ContainersOf, RunningContainersOf
        <3>. QED BY <3>1, <3>2, <3>3 DEF WorldInv, TerminalRunsOnlyRestarted
    <2>. QED BY <2>2, <2>3, <2>4 DEF WorldInv, TerminalRunsOnlyRestarted
<1>5. ASSUME UNCHANGED dockerVars
      PROVE  WorldInv' /\ \A r \in SandboxID \ {s} : Fades(r)
    BY <1>1, <1>3, <1>5, UnmovedFades, WorldFades DEF dockerVars
<1>6. ASSUME NEW step \in {"writeback", "cleanup"}, GoTo(step),
             \A r \in SandboxID \ {s} : Fades(r)
      PROVE  AloneInv'
    <2>1. Making(s)' /\ CallsFit'
        BY <1>1, <1>2, <1>6 DEF GoTo, Making, CallsFit
    <2>. QED BY <1>1, <1>6, <2>1, AloneGoesOn
<1>. QED BY <1>4, <1>5, <1>6 DEF StartContainer

LEMMA CleanupAlone ==
    ASSUME Alone, NEW s \in SandboxID, CleanupFailed(s)
    PROVE  WorldInv' /\ AloneInv'
<1>1. /\ current = s /\ phase = "acting" /\ now' = now /\ inflight' = inflight
      /\ UNCHANGED storeVars /\ EndItem(s)
    BY CallOfPass DEF HandleAction, CleanupFailed
<1>2. \A r \in SandboxID : Fades(r)
    <2>1. CASE RemoveContainer(made)
        BY <2>1, RemoveKept, RemovedFades DEF Alone, PassAndRows, PassInv, DockerInv
    <2>2. CASE UNCHANGED dockerVars
        BY <2>2, UnmovedFades DEF dockerVars
    <2>. QED BY <2>1, <2>2 DEF CleanupFailed
<1>. QED BY <1>1, <1>2, QuietCall

(* A destroy leaves nothing behind, for there was one container at most.    *)
LEMMA DestroyFades ==
    ASSUME Alone, NEW s \in SandboxID, Destroy(s)
    PROVE  /\ \A r \in SandboxID : Fades(r)
           /\ ContainersOf(s)' = {}
<1>1. DockerInv
    BY DEF Alone, PassAndRows, PassInv, DockerInv
<1>2. \A r \in SandboxID : Fades(r)
    BY <1>1, DestroyKept, RemovedFades
<1>3. ContainersOf(s)' = {}
    <2>1. CASE ContainersOf(s) = {}
        BY <1>2, <2>1 DEF Fades
    <2>2. ASSUME NEW c \in ContainersOf(s), RemoveContainer(c)
          PROVE  ContainersOf(s)' = {}
        <3>1. containers'[c] = NoSuchContainer /\ ContainersOf(s) = {c}
            BY <2>2 DEF RemoveContainer, ContainersOf, Alone, PassAndRows, PassInv, DockerTypeOK,
                        WorldInv, OneContainerPerSandbox
        <3>2. c \notin ContainersOf(s)' /\ ContainersOf(s)' \subseteq {c}
            BY <1>2, <3>1, SandboxAssumption DEF ContainersOf, NoSuchContainer, Fades
        <3>. QED BY <3>2
    <2>. QED BY <2>1, <2>2 DEF Destroy
<1>. QED BY <1>2, <1>3

LEMMA CompensateAlone ==
    ASSUME Alone, NEW s \in SandboxID, Compensate(s)
    PROVE  WorldInv' /\ AloneInv'
<1>1. /\ current = s /\ phase = "acting" /\ now' = now /\ inflight' = inflight
      /\ UNCHANGED storeVars /\ EndItem(s)
    BY CallOfPass DEF HandleAction, Compensate
<1>2. \A r \in SandboxID : Fades(r)
    BY DestroyFades, UnmovedFades DEF Compensate, dockerVars
<1>. QED BY <1>1, <1>2, QuietCall

LEMMA DestroyAlone ==
    ASSUME Alone, NEW s \in SandboxID, DestroyContainer(s)
    PROVE  WorldInv' /\ AloneInv'
<1>1. /\ current = s /\ at = "destroy" /\ phase = "acting" /\ now' = now
      /\ inflight' = inflight /\ UNCHANGED storeVars
    BY CallOfPass DEF HandleAction, DestroyContainer
<1>2. \A r \in SandboxID : Fades(r)
    BY DestroyFades, UnmovedFades DEF DestroyContainer, dockerVars
<1>3. ASSUME Destroy(s), GoTo("mark")
      PROVE  WorldInv' /\ AloneInv'
    <2>1. \A r \in SandboxID : sandboxes'[r].state = sandboxes[r].state
        BY <1>1 DEF storeVars
    <2>2. WorldInv'
        BY <1>1, <1>2, <2>1, WorldFades DEF Alone
    <2>3. ~Making(s) /\ at # "none"
        BY <1>1 DEF Making
    <2>4. CallsFit'
        <3>1. ContainersOf(current)' = {} /\ at' = "mark" /\ ~Making(current)'
            BY <1>1, <1>3, DestroyFades DEF GoTo, ContainersOf, Making
        <3>. QED BY <3>1 DEF CallsFit
    <2>5. AloneInv'
        BY <1>1, <1>2, <1>3, <2>3, <2>4, AloneGoesOn DEF Alone, PassAndRows
    <2>. QED BY <2>2, <2>5
<1>4. ASSUME EndItem(s)
      PROVE  WorldInv' /\ AloneInv'
    BY <1>1, <1>2, <1>4, QuietCall
<1>. QED BY <1>3, <1>4 DEF DestroyContainer

-----------------------------------------------------------------------------
(* The two writes of the pass.                                              *)
LEMMA RowMoves ==
    ASSUME Alone, NEW s \in SandboxID, current = s, phase = "acting",
           now' = now, inflight' = inflight, UNCHANGED containers,
           NEW from, NEW to, NEW v, UpdateSandboxState(s, from, to, v), EndItem(s),
           to \in Terminal => \A c \in ContainersOf(s) : containers[c].state # "running"
    PROVE  WorldInv' /\ AloneInv'
<1> USE DEF Alone, PassAndRows
<1>1. /\ sandboxes[s].state = from /\ sandboxes'[s].state = to
      /\ from \in TaskState /\ to \in TaskState
      /\ \A r \in SandboxID \ {s} : sandboxes'[r] = sandboxes[r]
    BY UpdateMoves, TransitionsTyped DEF StoreInv
<1>2. \A r \in SandboxID : Fades(r)
    BY UnmovedFades
<1>3. \A r \in SandboxID \ {s} : RowKept(r)
    BY <1>1 DEF RowKept
<1>4. WorldInv'
    BY <1>1, <1>2, AbsentIsNoState, WorldFades
<1>. QED BY <1>2, <1>3, <1>4, AloneEnds

LEMMA WriteBackAlone ==
    ASSUME Alone, NEW s \in SandboxID, WriteBack(s)
    PROVE  WorldInv' /\ AloneInv'
<1> USE DEF Alone, PassAndRows
<1>1. /\ current = s /\ at = "writeback" /\ Making(s) /\ phase = "acting" /\ now' = now
      /\ inflight' = inflight /\ UNCHANGED containers
    BY CallOfPass DEF HandleAction, WriteBack, Making, dockerVars
<1>2. ASSUME UpdateSandboxState(s, "pending", "running", desired[s].versionID), EndItem(s)
      PROVE  WorldInv' /\ AloneInv'
    BY <1>1, <1>2, RowMoves DEF Terminal
<1>3. ASSUME GoTo("compensate"), UNCHANGED storeVars
      PROVE  WorldInv' /\ AloneInv'
    <2>1. \A r \in SandboxID : Fades(r) /\ sandboxes'[r].state = sandboxes[r].state
        BY <1>1, <1>3, UnmovedFades DEF storeVars
    <2>2. WorldInv'
        BY <1>1, <2>1, WorldFades
    <2>3. plan[s].action = "create"
        BY <1>1, CreatorsRowIsPending
    <2>4. Making(s)' /\ CallsFit'
        BY <1>1, <1>3, <2>3 DEF GoTo, Making, CallsFit
    <2>. QED BY <1>1, <1>3, <2>1, <2>2, <2>4, AloneGoesOn
<1>. QED BY <1>2, <1>3 DEF WriteBack

(* A row is marked as ended over no container that keeps running, and a     *)
(* stop as complete over none.                                              *)
LEMMA MarkMeans ==
    ASSUME Alone, NEW s \in SandboxID, current = s, at = "mark",
           desired[s].state \in TaskState
    PROVE  /\ MarkTarget(s) \in Terminal
                  => \A c \in ContainersOf(s) : containers[c].state # "running"
           /\ MarkTarget(s) = "stopped" => ContainersOf(s) = {}
<1> USE DEF Alone, PassAndRows
<1>1. /\ phase = "acting" /\ ~Making(s)
      /\ plan[s].action \in Action /\ plan[s].observed \in Observed
      /\ plan[s].action \notin {"none", "destroy_orphan"}
    BY AbsentIsNoState
    DEF PassInv, ActingOnPlan, OrphansHaveNoRow, ReconcilerTypeOK, Making
<1>2. CASE plan[s].action \in {"destroy", "reap"}
    BY <1>2 DEF AloneInv, CallsFit
<1>3. CASE plan[s].action \in {"create", "mark_stopped"}
    BY <1>1, <1>3 DEF AloneInv, PlansFit, SeenIsStillSo
<1>4. CASE plan[s].action = "mark_failed"
    <2>1. plan[s].observed \in {"nil", "stopped"}
        BY <1>1, <1>4 DEF AloneInv, PlansFit, Observed
    <2>2. MarkTarget(s) = "failed"
        BY <1>4 DEF MarkTarget
    <2>. QED BY <1>1, <1>4, <2>1, <2>2 DEF AloneInv, SeenIsStillSo
<1>5. CASE plan[s].action = "mark_running"
    BY <1>5 DEF MarkTarget, Terminal
<1>. QED BY <1>1, <1>2, <1>3, <1>4, <1>5 DEF Action

LEMMA MarkAlone ==
    ASSUME Alone, NEW s \in SandboxID, Mark(s)
    PROVE  WorldInv' /\ AloneInv'
<1>1. /\ current = s /\ at = "mark" /\ phase = "acting" /\ now' = now
      /\ inflight' = inflight /\ UNCHANGED containers /\ EndItem(s)
    BY CallOfPass DEF HandleAction, Mark, dockerVars
<1>2. ASSUME UpdateSandboxState(s, desired[s].state, MarkTarget(s), desired[s].versionID)
      PROVE  WorldInv' /\ AloneInv'
    <2>1. desired[s].state \in TaskState
        BY <1>2, TransitionsTyped DEF UpdateSandboxState
    <2>2. MarkTarget(s) \in Terminal
              => \A c \in ContainersOf(s) : containers[c].state # "running"
        BY <1>1, <2>1, MarkMeans
    <2>. QED BY <1>1, <1>2, <2>2, RowMoves
<1>3. ASSUME UNCHANGED storeVars
      PROVE  WorldInv' /\ AloneInv'
    BY <1>1, <1>3, UnmovedFades, QuietCall
<1>. QED BY <1>2, <1>3 DEF Mark

LEMMA PassStaysAlone == ASSUME Alone, ReconcilerNext PROVE WorldInv' /\ AloneInv'
<1>1. ASSUME ListRows \/ ListContainers \/ ListFails \/ FinishPass
                 \/ \E s \in SandboxID : StartItem(s)
      PROVE  WorldInv' /\ AloneInv'
    <2>1. UNCHANGED storeVars /\ UNCHANGED dockerVars
        BY <1>1 DEF ListRows, ListContainers, ListFails, FinishPass, StartItem
    <2>2. \A r \in SandboxID : Fades(r) /\ sandboxes'[r].state = sandboxes[r].state
        BY <2>1, UnmovedFades DEF storeVars, dockerVars
    <2>3. WorldInv'
        BY <2>1, <2>2, WorldFades DEF Alone, dockerVars
    <2>. QED
        BY <1>1, <2>3, RowsReadAlone, ContainersListedAlone, PassIdlesAlone, ItemStartsAlone
<1>. QED
    BY <1>1, CreateAlone, StartAlone, CleanupAlone, CompensateAlone, DestroyAlone,
       WriteBackAlone, MarkAlone
    DEF ReconcilerNext, HandleAction

-----------------------------------------------------------------------------
(* Everybody else. *)
LEMMA OthersLeaveItAlone ==
    ASSUME Alone, PassAndRows', UNCHANGED passVars, inflight' = inflight, now <= now',
           \A s \in SandboxID : Fades(s) /\ HandlersMove(s)
    PROVE  WorldInv' /\ AloneInv'
<1>1. \A s \in SandboxID :
          /\ sandboxes[s].state # Absent => sandboxes'[s].state # Absent
          /\ s \in Orphans /\ sandboxes[s].state = Absent => sandboxes'[s].state = Absent
          /\ sandboxes'[s].state \in Terminal => sandboxes[s].state \in Terminal
    BY DEF HandlersMove, Absent, Terminal
<1>2. WorldInv'
    BY <1>1, WorldFades DEF Alone
<1>3. AloneInv'
    BY MovedIsKept, AloneUnmoved DEF Alone, PassAndRows, StoreInv
<1>. QED BY <1>2, <1>3

LEMMA AloneStep ==
    ASSUME LateCreates = FALSE, Alone, [Next]_vars
    PROVE  Alone'
<1>1. PassAndRows' /\ DockerTypeOK /\ StoreInv /\ EnvTypeOK
    BY PassAndRowsStep DEF Alone, PassAndRows, PassInv, StoreInv
<1>2. SUFFICES WorldInv' /\ AloneInv'
    BY <1>1 DEF Alone
<1>3. now \in Nat /\ (NoFault \/ Fault \/ CrashAllowed => now' = now)
    BY <1>1, EnvironmentAssumption DEF EnvTypeOK, NoFault, Fault, CrashAllowed, envVars
<1>4. ASSUME UNCHANGED storeVars, NEW s \in SandboxID
      PROVE  HandlersMove(s)
    BY <1>4 DEF HandlersMove, storeVars
<1>5. CASE HandlerStep
    <2>1. NoFault \/ Fault
        BY <1>5 DEF HandlerStep, ControlNext, CreateLookup, CreateInsert, DestroyRead,
                    DestroyAccepted, DestroyErrs, Keepalive
    <2>. QED
        BY <1>1, <1>3, <1>5, <2>1, HandlersMoveRows, UnmovedFades, OthersLeaveItAlone
        DEF HandlerStep, dockerVars, reconcilerVars
<1>6. CASE ReconcilerStep
    BY <1>6, PassStaysAlone DEF ReconcilerStep
<1>7. CASE DockerStep
    <2>1. \A c \in ContainerID, s \in SandboxID : ~LateCreate(c, s)
        BY DEF LateCreate, Alone, WorldInv, NothingInFlight
    <2>2. PICK c \in ContainerID :
              ContainerExits(c) \/ ContainerVanishes(c) \/ ContainerRestarts(c)
        BY <1>7, <2>1 DEF DockerStep
    <2>3. inflight' = inflight /\ \A s \in SandboxID : Fades(s)
        <3>1. CASE ContainerVanishes(c)
            BY <1>1, <3>1, RemoveKept, RemovedFades
            DEF ContainerVanishes, RemoveContainer, Alone, PassAndRows, PassInv, DockerInv
        <3>2. CASE ContainerExits(c) \/ ContainerRestarts(c)
            BY <1>1, <3>2, ExitedFades DEF ContainerExits, ContainerRestarts
        <3>. QED BY <2>2, <3>1, <3>2
    <2>4. (NoFault \/ Fault) /\ UNCHANGED storeVars /\ UNCHANGED reconcilerVars
        BY <1>7 DEF DockerStep
    <2>. QED
        BY <1>1, <1>3, <1>4, <2>3, <2>4, OthersLeaveItAlone DEF reconcilerVars
<1>8. CASE TimePasses \/ DaemonHangs \/ UNCHANGED vars
    <2>1. now <= now' /\ UNCHANGED storeVars /\ UNCHANGED dockerVars /\ UNCHANGED reconcilerVars
        BY <1>3, <1>8 DEF TimePasses, DaemonHangs, CallHangs, CallReturns, ClockTick,
                          vars, envVars
    <2>. QED
        BY <1>1, <1>4, <2>1, UnmovedFades, OthersLeaveItAlone DEF dockerVars, reconcilerVars
<1>9. CASE CrashAndRestart
    <2>1. /\ UNCHANGED storeVars /\ UNCHANGED containers /\ inflight' = inflight
          /\ phase' = "idle" /\ at' = "none"
        BY <1>9 DEF CrashAndRestart, PassLost
    <2>2. WorldInv'
        BY <1>4, <2>1, UnmovedFades, WorldFades DEF Alone, storeVars
    <2>3. AloneInv'
        BY <2>1
        DEF AloneInv, ReadRows, UnreadAreOrphans, PlansFit, SeenIsStillSo, CallsFit, Making
    <2>. QED BY <2>2, <2>3
<1>. QED BY <1>5, <1>6, <1>7, <1>8, <1>9 DEF Next

(* The containers found at the start are those of the orphans, one each.    *)
LEMMA AloneInit == Init => Alone
<1> SUFFICES ASSUME Init PROVE WorldInv /\ AloneInv
    BY PassAndRowsInit DEF Alone
<1>1. PICK kept \in [Orphans -> ContainerID] :
          /\ inflight = {}
          /\ \A r, s \in Orphans : kept[r] = kept[s] => r = s
          /\ containers = [c \in ContainerID |->
                IF \E s \in Orphans : kept[s] = c
                THEN [sandbox |-> CHOOSE s \in Orphans : kept[s] = c, state |-> "running"]
                ELSE NoSuchContainer]
    BY DEF Init, DockerInit
<1>2. ASSUME NEW c \in ContainerID, NEW s \in SandboxID, containers[c].sandbox = s
      PROVE  s \in Orphans /\ kept[s] = c
    <2>1. \E r \in Orphans : kept[r] = c
        BY <1>1, <1>2, SandboxAssumption DEF NoSuchContainer
    <2>2. containers[c].sandbox = CHOOSE r \in Orphans : kept[r] = c
        BY <1>1, <2>1
    <2>. QED BY <1>2, <2>1, <2>2
<1>3. \A s \in SandboxID : sandboxes[s].state = Absent
    BY DEF Init, StoreInit, NoRow
<1>4. WorldInv
    BY <1>1, <1>2, <1>3, ControlAssumption
    DEF WorldInv, NothingInFlight, OrphansStayAbsent, ContainersHaveRows,
        OneContainerPerSandbox, TerminalRunsOnlyRestarted, ContainersOf, Terminal, Absent
<1>5. AloneInv
    BY DEF Init, ReconcilerInit, AloneInv, ReadRows, UnreadAreOrphans, PlansFit, SeenIsStillSo,
           CallsFit, Making
<1>. QED BY <1>4, <1>5

LEMMA StaysAlone == ASSUME LateCreates = FALSE PROVE Spec => []Alone
<1>1. Alone /\ [Next]_vars => Alone'
    BY AloneStep
<1>. QED BY <1>1, AloneInit, PTL DEF Spec

-----------------------------------------------------------------------------
(* The pass never makes a second container of a sandbox: it lists before it *)
(* creates, and a row it reads as pending is in nobody else's hands.        *)
THEOREM NeverTwoContainers ==
    ASSUME LateCreates = FALSE PROVE Spec => []OneContainerPerSandbox
<1>1. Alone => OneContainerPerSandbox
    BY DEF Alone, WorldInv
<1>. QED BY <1>1, StaysAlone, PTL

(* A row says failed or stopped over no running container but one that the  *)
(* Docker daemon brought back.                                              *)
THEOREM EndedRunsNothing ==
    ASSUME LateCreates = FALSE PROVE Spec => []TerminalRunsOnlyRestarted
<1>1. Alone => TerminalRunsOnlyRestarted
    BY DEF Alone, WorldInv
<1>. QED BY <1>1, StaysAlone, PTL

(* A stop is complete when it is recorded: stopping -> stopped is written   *)
(* only when no container of the sandbox is left.                           *)
StoppedMeansRemoved ==
    [][\A s \in SandboxID :
          sandboxes[s].state = "stopping" /\ sandboxes'[s].state = "stopped"
          => ContainersOf(s) = {}]_vars

(* A stop is recorded as complete only over no container at all: the only   *)
(* write from stopping to stopped is a mark, after a destroy or a listing   *)
(* that showed nothing.                                                     *)
THEOREM StopsAreComplete ==
    ASSUME LateCreates = FALSE PROVE Spec => StoppedMeansRemoved
<1>1. ASSUME Alone, [Next]_vars, NEW s \in SandboxID,
             sandboxes[s].state = "stopping", sandboxes'[s].state = "stopped"
      PROVE  ContainersOf(s) = {}
    <2>1. StoreInv /\ sandboxes' # sandboxes
        BY <1>1 DEF Alone, PassAndRows
    <2>2. ~HandlerStep
        BY <1>1, <2>1, HandlersMoveRows DEF HandlerStep, HandlersMove
    <2>3. PICK r \in SandboxID : WriteBack(r) \/ Mark(r)
        BY <1>1, <2>1, <2>2
        DEF Next, ReconcilerStep, ReconcilerNext, HandleAction, ListRows,
            ListContainers, ListFails, FinishPass, StartItem, CreateContainer,
            StartContainer, CleanupFailed, Compensate, DestroyContainer, DockerStep,
            TimePasses, DaemonHangs, CrashAndRestart, vars, storeVars
    <2>4. CASE WriteBack(r)
        <3>1. UpdateSandboxState(r, "pending", "running", desired[r].versionID)
            BY <2>1, <2>4 DEF WriteBack, storeVars
        <3>. QED BY <1>1, <2>1, <3>1, UpdateMoves DEF StoreInv
    <2>5. CASE Mark(r)
        <3>1. /\ UpdateSandboxState(r, desired[r].state, MarkTarget(r), desired[r].versionID)
              /\ current = r /\ at = "mark"
            BY <2>1, <2>5 DEF Mark, storeVars
        <3>2. r = s /\ desired[s].state \in TaskState /\ MarkTarget(s) = "stopped"
            BY <1>1, <2>1, <3>1, UpdateMoves, TransitionsTyped DEF StoreInv
        <3>. QED BY <1>1, <3>1, <3>2, MarkMeans
    <2>. QED BY <2>3, <2>4, <2>5
<1>2. Alone /\ [Next]_vars =>
          [\A s \in SandboxID :
              sandboxes[s].state = "stopping" /\ sandboxes'[s].state = "stopped"
              => ContainersOf(s) = {}]_vars
    BY <1>1
<1>. QED BY <1>2, StaysAlone, PTL DEF Spec, StoppedMeansRemoved

(* The pass takes the container of a running sandbox away only to reap it,  *)
(* after its lease had run out: what it compensates or cleans up is         *)
(* pending, what it destroys has ended, and an orphan has no row.           *)
THEOREM OnlyReapsRunning ==
    ASSUME LateCreates = FALSE PROVE Spec => KillsRunningOnlyToReap
<1> DEFINE Killed(c) ==
        /\ containers[c].state \in Up /\ containers'[c].state = "none"
        /\ current = containers[c].sandbox /\ at' # at
        /\ sandboxes[current].state = "running"
<1>1. ASSUME Alone, [Next]_vars, NEW c \in ContainerID, Killed(c)
      PROVE  plan[current].action = "reap" /\ desired[current].expiresAt < now
    <2>1. current \in SandboxID /\ containers' # containers
        BY <1>1 DEF Up, Alone, PassAndRows, PassInv, DockerTypeOK
    <2>2. ReconcilerNext
        BY <1>1, <2>1
        DEF Next, HandlerStep, ReconcilerStep, DockerStep, TimePasses, DaemonHangs,
            CrashAndRestart, vars, dockerVars, reconcilerVars, passVars
    <2>3. PICK s \in SandboxID : HandleAction(s)
        BY <2>1, <2>2
        DEF ReconcilerNext, ListRows, ListContainers, ListFails, FinishPass, StartItem,
            dockerVars
    <2>4. current = s /\ phase = "acting"
        BY <1>1, <2>3, CallOfPass
    <2>5. plan[current].action \in {"destroy", "destroy_orphan", "reap"}
        <3>1. at # "create" /\ ~Making(s)
            BY <1>1, <2>4, CreatorsRowIsPending DEF Alone, PassAndRows
        <3>2. at = "destroy"
            BY <2>1, <2>3, <2>4, <3>1
            DEF HandleAction, CreateContainer, StartContainer, CleanupFailed, WriteBack,
                Compensate, DestroyContainer, Mark, Making, dockerVars
        <3>. QED BY <1>1, <3>2 DEF Alone, AloneInv, CallsFit
    <2>6. plan[current].action # "destroy"
        BY <1>1, <2>1, <2>4 DEF Alone, AloneInv, PlansFit, ReadRows, Ended, Terminal
    <2>7. plan[current].action # "destroy_orphan"
        BY <1>1, <2>1, <2>4 DEF Alone, AloneInv, PlansFit, WorldInv, OrphansStayAbsent, Absent
    <2>. QED BY <1>1, <2>1, <2>4, <2>5, <2>6, <2>7 DEF Alone, AloneInv, PlansFit
<1>2. Alone /\ [Next]_vars =>
          [\A c \in ContainerID :
              LET s == containers[c].sandbox IN
              (/\ containers[c].state \in Up /\ containers'[c].state = "none"
               /\ current = s /\ at' # at
               /\ sandboxes[s].state = "running")
              => plan[s].action = "reap" /\ desired[s].expiresAt < now]_vars
    BY <1>1
<1>. QED BY <1>2, StaysAlone, PTL DEF Spec, KillsRunningOnlyToReap

-----------------------------------------------------------------------------
(* Each sandbox, as the handlers of requests know it (SandboxWorld).        *)
FollowsWorld(s) == World(s)!Next \/ UNCHANGED World(s)!vars

BoxesRead ==
    \A s \in SandboxID :
        /\ BoxOf(s) \in {"none", "stopped", "running"}
        /\ BoxOf(s) = "none" <=> ContainersOf(s) = {}

LEMMA Boxes == BoxesRead
<1> SUFFICES ASSUME NEW s \in SandboxID
             PROVE  /\ BoxOf(s) \in {"none", "stopped", "running"}
                    /\ BoxOf(s) = "none" <=> ContainersOf(s) = {}
    BY DEF BoxesRead
<1>1. CASE ContainersOf(s) = {}
    BY <1>1 DEF BoxOf, RunningContainersOf
<1>2. CASE ContainersOf(s) # {} /\ RunningContainersOf(s) # {}
    BY <1>2 DEF BoxOf
<1>3. CASE ContainersOf(s) # {} /\ RunningContainersOf(s) = {}
    BY <1>3 DEF BoxOf
<1>. QED BY <1>1, <1>2, <1>3

(* Under a row that stays, a container that is not made only starts again,  *)
(* exits or goes.                                                           *)
LEMMA FadingFollowsWorld ==
    ASSUME NEW s \in SandboxID, sandboxes'[s].state = sandboxes[s].state,
           ContainersOf(s) = {} => ContainersOf(s)' = {}
    PROVE  FollowsWorld(s)
<1>1. BoxOf(s) \in {"none", "stopped", "running"} /\ (BoxOf(s) = "none" <=> ContainersOf(s) = {})
    BY Boxes DEF BoxesRead
<1>2. BoxOf(s)' \in {"none", "stopped", "running"} /\ (BoxOf(s)' = "none" <=> ContainersOf(s)' = {})
    <2>1. BoxesRead'
        BY Boxes, PTL
    <2>. QED BY <2>1 DEF BoxesRead
<1>3. CASE BoxOf(s)' = BoxOf(s)
    BY <1>3 DEF FollowsWorld, World!vars
<1>4. CASE BoxOf(s)' # BoxOf(s)
    <2>1. \/ BoxOf(s) # "none" /\ BoxOf(s)' = "none"
          \/ BoxOf(s) = "stopped" /\ BoxOf(s)' = "running"
          \/ BoxOf(s) = "running" /\ BoxOf(s)' = "stopped"
        BY <1>1, <1>2, <1>4
    <2>. QED
        BY <2>1 DEF FollowsWorld, World!Next, World!ContainerGoes, World!ContainerStarts,
                    World!ContainerExits
<1>. QED BY <1>3, <1>4

(* A row moves by the rules while the containers stay.                      *)
LEMMA MovingFollowsWorld ==
    ASSUME NEW s \in SandboxID, UNCHANGED containers,
           \/ CanTransition(sandboxes[s].state, sandboxes'[s].state)
           \/ /\ sandboxes[s].state = Absent /\ sandboxes'[s].state = "pending"
              /\ ContainersOf(s) = {},
           sandboxes'[s].state = "stopped" => ContainersOf(s) = {}
    PROVE  FollowsWorld(s)
<1>1. BoxOf(s)' = BoxOf(s)
    BY DEF BoxOf, ContainersOf, RunningContainersOf
<1>2. BoxOf(s) = "none" <=> ContainersOf(s) = {}
    BY Boxes DEF BoxesRead
<1>3. CASE CanTransition(sandboxes[s].state, sandboxes'[s].state)
    <2>1. /\ World(s)!CanTransition(sandboxes[s].state, sandboxes'[s].state)
          /\ sandboxes'[s].state \in World(s)!TaskState
        BY <1>3 DEF CanTransition, ValidTransitions, TaskState, World!CanTransition,
                    World!ValidTransitions, World!TaskState
    <2>. QED BY <1>1, <1>2, <2>1 DEF FollowsWorld, World!Next, World!RowMoves
<1>4. CASE /\ sandboxes[s].state = Absent /\ sandboxes'[s].state = "pending"
           /\ ContainersOf(s) = {}
    BY <1>1, <1>2, <1>4 DEF FollowsWorld, World!Next, World!Recorded, World!Absent, Absent
<1>. QED BY <1>3, <1>4

LEMMA HandlersMoveInWorld ==
    ASSUME Alone, NEW s \in SandboxID, UNCHANGED containers, HandlersMove(s)
    PROVE  FollowsWorld(s)
<1>1. CASE sandboxes'[s].state = sandboxes[s].state
    BY <1>1, FadingFollowsWorld DEF ContainersOf
<1>2. CASE /\ sandboxes[s].state = Absent /\ sandboxes'[s].state = "pending"
           /\ s \notin Orphans
    <2>1. ContainersOf(s) = {}
        BY <1>2 DEF Alone, WorldInv, ContainersHaveRows, Exists
    <2>. QED BY <1>2, <2>1, MovingFollowsWorld
<1>3. CASE sandboxes[s].state = "running" /\ sandboxes'[s].state = "stopping"
    <2>1. CanTransition("running", "stopping")
        BY DEF CanTransition, ValidTransitions, TaskState
    <2>. QED BY <1>3, <2>1, MovingFollowsWorld
<1>. QED BY <1>1, <1>2, <1>3 DEF HandlersMove

LEMMA WritesFollowWorld ==
    ASSUME Alone, UNCHANGED containers, NEW r \in SandboxID, NEW from, NEW to, NEW v,
           UpdateSandboxState(r, from, to, v), to = "stopped" => ContainersOf(r) = {},
           NEW s \in SandboxID
    PROVE  FollowsWorld(s)
<1>1. /\ CanTransition(from, to) /\ sandboxes[r].state = from /\ sandboxes'[r].state = to
      /\ s # r => sandboxes'[s] = sandboxes[s]
    BY UpdateMoves DEF Alone, PassAndRows, StoreInv
<1>2. CASE s = r
    BY <1>1, <1>2, MovingFollowsWorld
<1>3. CASE s # r
    BY <1>1, <1>3, FadingFollowsWorld DEF ContainersOf
<1>. QED BY <1>2, <1>3

(* What the pass makes, it makes for a pending row that has no container.   *)
LEMMA MakingFollowsWorld ==
    ASSUME Alone, NEW r \in SandboxID, NEW s \in SandboxID,
           CreateContainer(r) \/ StartContainer(r)
    PROVE  FollowsWorld(s)
<1>1. DockerTypeOK /\ UNCHANGED sandboxes
    BY DEF Alone, PassAndRows, PassInv, CreateContainer, StartContainer, storeVars
<1>2. ASSUME Fades(s) PROVE FollowsWorld(s)
    BY <1>1, <1>2, FadingFollowsWorld DEF Fades
<1>3. ASSUME NEW c \in ContainerID, CreateContainer(r), ContainerCreate(c, r), s = r
      PROVE  FollowsWorld(s)
    <2>1. ContainersOf(s) = {} /\ sandboxes[s].state = "pending"
        <3>1. current = r /\ at = "create" /\ phase = "acting"
            BY <1>3, CallOfPass DEF HandleAction, CreateContainer
        <3>. QED BY <1>3, <3>1, CreatorsRowIsPending DEF Alone, PassAndRows
    <2>2. ContainersOf(s)' = {c}
        BY <1>1, <1>3, <2>1, CreatedFades
    <2>3. containers'[c].state = "created"
        BY <1>1, <1>3 DEF ContainerCreate, DockerTypeOK
    <2>4. RunningContainersOf(s)' = {}
        BY <2>2, <2>3 DEF RunningContainersOf, Up
    <2>5. BoxOf(s) = "none"
        BY <2>1, Boxes DEF BoxesRead
    <2>6. BoxOf(s)' = "stopped"
        BY <2>2, <2>4 DEF BoxOf
    <2>. QED BY <1>1, <2>1, <2>5, <2>6 DEF FollowsWorld, World!Next, World!ContainerMade
<1>4. ASSUME StartContainer(r), ContainerStart(made), s = containers[made].sandbox
      PROVE  FollowsWorld(s)
    <2>1. ContainersOf(s)' = ContainersOf(s)
        <3>1. made \in ContainerID
            <4>1. current = r /\ at = "start"
                BY <1>4 DEF StartContainer
            <4>. QED BY <1>4, <4>1 DEF Alone, PassAndRows, PassInv, MadeIsItsOwn, ContainerStart
        <3>. QED BY <1>1, <1>4, <3>1, StartedFades
    <2>. QED BY <1>1, <2>1, FadingFollowsWorld
<1>5. CASE CreateContainer(r)
    <2>1. UNCHANGED containers \/ \E c \in ContainerID : ContainerCreate(c, r)
        BY <1>5 DEF CreateContainer, dockerVars
    <2>. QED BY <1>1, <1>2, <1>3, <1>5, <2>1, UnmovedFades, CreatedFades
<1>6. CASE StartContainer(r)
    <2>1. UNCHANGED containers \/ ContainerStart(made)
        BY <1>6 DEF StartContainer, dockerVars
    <2>2. CASE ContainerStart(made)
        <3>1. made \in ContainerID
            BY <1>6, <2>2 DEF StartContainer, Alone, PassAndRows, PassInv, MadeIsItsOwn,
                              ContainerStart
        <3>. QED BY <1>1, <1>2, <1>4, <1>6, <2>2, <3>1, StartedFades
    <2>. QED BY <1>2, <2>1, <2>2, UnmovedFades
<1>. QED BY <1>5, <1>6

LEMMA PassFollowsWorld ==
    ASSUME Alone, ReconcilerNext, NEW s \in SandboxID
    PROVE  FollowsWorld(s)
<1>1. ASSUME UNCHANGED sandboxes, Fades(s)
      PROVE  FollowsWorld(s)
    BY <1>1, FadingFollowsWorld DEF Fades
<1>2. CASE ListRows \/ ListContainers \/ ListFails \/ FinishPass
               \/ \E r \in SandboxID : StartItem(r)
    BY <1>1, <1>2, UnmovedFades
    DEF ListRows, ListContainers, ListFails, FinishPass, StartItem, storeVars, dockerVars
<1>3. ASSUME NEW r \in SandboxID, CleanupFailed(r) PROVE FollowsWorld(s)
    <2>1. UNCHANGED sandboxes /\ DockerInv /\ (RemoveContainer(made) \/ UNCHANGED containers)
        BY <1>3 DEF CleanupFailed, storeVars, dockerVars, Alone, PassAndRows, PassInv, DockerInv
    <2>2. Fades(s)
        BY <2>1, RemoveKept, RemovedFades, UnmovedFades
    <2>. QED BY <1>1, <2>1, <2>2
<1>4. ASSUME NEW r \in SandboxID, Compensate(r) \/ DestroyContainer(r) PROVE FollowsWorld(s)
    <2>1. UNCHANGED sandboxes /\ (Destroy(r) \/ UNCHANGED containers)
        BY <1>4 DEF Compensate, DestroyContainer, storeVars, dockerVars
    <2>. QED BY <1>1, <2>1, DestroyFades, UnmovedFades
<1>5. ASSUME NEW r \in SandboxID, WriteBack(r) PROVE FollowsWorld(s)
    <2>1. UNCHANGED containers
        BY <1>5 DEF WriteBack, dockerVars
    <2>2. CASE UpdateSandboxState(r, "pending", "running", desired[r].versionID)
        BY <2>1, <2>2, WritesFollowWorld
    <2>3. CASE UNCHANGED storeVars
        BY <1>1, <2>1, <2>3, UnmovedFades DEF storeVars
    <2>. QED BY <1>5, <2>2, <2>3 DEF WriteBack
<1>6. ASSUME NEW r \in SandboxID, Mark(r) PROVE FollowsWorld(s)
    <2>1. current = r /\ at = "mark" /\ UNCHANGED containers
        BY <1>6 DEF Mark, dockerVars
    <2>2. ASSUME UpdateSandboxState(r, desired[r].state, MarkTarget(r), desired[r].versionID)
          PROVE  FollowsWorld(s)
        <3>1. desired[r].state \in TaskState
            BY <2>2, TransitionsTyped DEF UpdateSandboxState
        <3>2. MarkTarget(r) = "stopped" => ContainersOf(r) = {}
            BY <2>1, <3>1, MarkMeans
        <3>. QED BY <2>1, <2>2, <3>2, WritesFollowWorld
    <2>3. CASE UNCHANGED storeVars
        BY <1>1, <2>1, <2>3, UnmovedFades DEF storeVars
    <2>. QED BY <1>6, <2>2, <2>3 DEF Mark
<1>. QED
    BY <1>2, <1>3, <1>4, <1>5, <1>6, MakingFollowsWorld DEF ReconcilerNext, HandleAction

LEMMA DockerFollowsWorld ==
    ASSUME Alone, DockerStep, NEW s \in SandboxID
    PROVE  FollowsWorld(s)
<1>1. DockerInv /\ UNCHANGED sandboxes
    BY DEF DockerStep, storeVars, Alone, PassAndRows, PassInv, DockerInv
<1>2. PICK c \in ContainerID :
          ContainerExits(c) \/ ContainerVanishes(c) \/ ContainerRestarts(c)
    BY DEF DockerStep, LateCreate, Alone, WorldInv, NothingInFlight
<1>3. Fades(s)
    <2>1. CASE ContainerVanishes(c)
        BY <1>1, <2>1, RemoveKept, RemovedFades DEF ContainerVanishes, RemoveContainer
    <2>2. CASE ContainerExits(c) \/ ContainerRestarts(c)
        BY <1>1, <2>2, ExitedFades DEF DockerInv
    <2>. QED BY <1>2, <2>1, <2>2
<1>. QED BY <1>1, <1>3, FadingFollowsWorld DEF Fades

(* What the handlers of requests take to be possible between two of their   *)
(* steps is all that is: the daemon, its pass, its crashes and Docker move  *)
(* each sandbox only as SandboxWorld does, for any number of sandboxes.     *)
THEOREM DaemonKeepsToTheWorld ==
    ASSUME LateCreates = FALSE PROVE Spec => SandboxesFollowWorld
<1>1. Init => \A s \in SandboxID : World(s)!Init
    <2> SUFFICES ASSUME Init, NEW s \in SandboxID PROVE World(s)!Init
        OBVIOUS
    <2>1. sandboxes[s].state = Absent
        BY DEF Init, StoreInit, NoRow
    <2>2. \A c \in ContainerID : containers[c].state \in {"none", "running"}
        BY DEF Init, DockerInit, NoSuchContainer
    <2>3. CASE ContainersOf(s) = {}
        BY <2>1, <2>3 DEF BoxOf, World!Init, World!Absent, Absent
    <2>4. ASSUME NEW c \in ContainersOf(s) PROVE World(s)!Init
        <3>1. containers[c].state # "none"
            BY <2>4, AloneInit, SandboxAssumption
            DEF ContainersOf, Alone, PassAndRows, PassInv, DockerTypeOK
        <3>2. c \in RunningContainersOf(s)
            BY <2>2, <2>4, <3>1 DEF RunningContainersOf, ContainersOf, Up
        <3>. QED BY <2>1, <2>4, <3>2 DEF BoxOf, World!Init, World!Absent, Absent
    <2>. QED BY <2>3, <2>4
<1>2. ASSUME Alone, [Next]_vars, NEW s \in SandboxID
      PROVE  FollowsWorld(s)
    <2>1. CASE HandlerStep
        BY <1>2, <2>1, HandlersMoveRows, HandlersMoveInWorld
        DEF HandlerStep, dockerVars, Alone, PassAndRows
    <2>2. CASE ReconcilerStep
        BY <1>2, <2>2, PassFollowsWorld DEF ReconcilerStep
    <2>3. CASE DockerStep
        BY <1>2, <2>3, DockerFollowsWorld
    <2>4. CASE TimePasses \/ DaemonHangs \/ CrashAndRestart \/ UNCHANGED vars
        <3>1. UNCHANGED sandboxes /\ UNCHANGED containers
            BY <2>4 DEF TimePasses, DaemonHangs, CrashAndRestart, vars, storeVars,
                        dockerVars
        <3>. QED BY <3>1, FadingFollowsWorld DEF ContainersOf
    <2>. QED BY <1>2, <2>1, <2>2, <2>3, <2>4 DEF Next
<1>3. Alone /\ [Next]_vars =>
          [\A s \in SandboxID : World(s)!Next \/ UNCHANGED World(s)!vars]_vars
    BY <1>2 DEF FollowsWorld
<1>. QED BY <1>1, <1>3, StaysAlone, PTL DEF Spec, SandboxesFollowWorld

-----------------------------------------------------------------------------
(* The steps that convergence is made of.  A pass leaves alone what has     *)
(* converged, and nothing else that it sees as it is (the decision table,   *)
(* with expiry first).                                                      *)
PassSeesWhatIsLeft ==
    [][\A s \in SandboxID :
          phase = "listed" /\ phase' = "acting" /\ desired = sandboxes
          => (plan'[s] = NoPlan
                  <=> Converged(s) /\ ~(Exists(s) /\ Expired(sandboxes[s], now)))]_vars

LEMMA StaysAloneGuarded ==
    ASSUME LateCreates = FALSE PROVE Spec => [](Alone /\ Guarded)
BY StaysAlone, StaysGuarded, PTL

LEMMA DecisionRests ==
    ASSUME NEW row \in Row, NEW observed \in Observed, NEW t \in Nat
    PROVE  DecideReconcileAction(row, observed, t) = "none" <=>
               /\ \/ row.state = "running" /\ observed = "running"
                  \/ row.state \in Terminal \union {Absent} /\ observed = "nil"
               /\ ~(row.state # Absent /\ Expired(row, t))
<1>1. row.state \in {Absent, "pending", "running", "stopping", "failed", "stopped"}
    BY DEF Row, State, TaskState
<1>2. CASE row.state = Absent
    BY <1>2 DEF DecideReconcileAction, DecideOrphan, Absent
<1>3. CASE row.state # Absent /\ Expired(row, t)
    BY <1>1, <1>3 DEF DecideReconcileAction, DecideForRow, Expired
<1>4. CASE row.state # Absent /\ ~Expired(row, t)
    BY <1>1, <1>4
    DEF DecideReconcileAction, DecideForRow, Expired, Terminal, Observed, Absent
<1>. QED BY <1>2, <1>3, <1>4

(* What a listing shows of a sandbox that has one container at most.        *)
LEMMA SightingRuns ==
    ASSUME OneContainerPerSandbox, NEW view \in Views, NEW s \in SandboxID
    PROVE  view[s] = "running" <=> RunningContainersOf(s) # {}
<1>1. view[s] \in Sightings(s)
    BY DEF Views
<1>2. CASE ContainersOf(s) = {}
    BY <1>1, <1>2 DEF Sightings, RunningContainersOf
<1>3. CASE ContainersOf(s) # {}
    <2>1. PICK c \in ContainersOf(s) : view[s] = StateFromContainerState(containers[c].state)
        BY <1>1, <1>3 DEF Sightings
    <2>2. \A d \in ContainersOf(s) : d = c
        BY DEF OneContainerPerSandbox
    <2>. QED BY <2>1, <2>2 DEF StateFromContainerState, RunningContainersOf
<1>. QED BY <1>2, <1>3

(* A pass that sees a sandbox as it is plans nothing for it exactly when it *)
(* has converged, and its lease has not run out.                            *)
THEOREM PassRestsWhenConverged ==
    ASSUME LateCreates = FALSE PROVE Spec => PassSeesWhatIsLeft
<1>1. ASSUME Alone, [Next]_vars, NEW s \in SandboxID,
             phase = "listed", phase' = "acting", desired = sandboxes
      PROVE  plan'[s] = NoPlan
                 <=> Converged(s) /\ ~(Exists(s) /\ Expired(sandboxes[s], now))
    <2>1. at = "none"
        BY <1>1 DEF Alone, PassAndRows, PassInv, ActingOnPlan
    <2>2. ListContainers
        BY <1>1, <2>1
        DEF Next, HandlerStep, ReconcilerStep, DockerStep, TimePasses, DaemonHangs,
            CrashAndRestart, PassLost, vars, reconcilerVars, passVars, ReconcilerNext,
            ListRows, ListFails, FinishPass, StartItem, HandleAction, CreateContainer,
            StartContainer, CleanupFailed, WriteBack, Compensate, DestroyContainer,
            Mark
    <2>3. PICK view \in Views :
              plan'[s] = IF DecideReconcileAction(desired[s], view[s], now) = "none" THEN NoPlan
                         ELSE [action |-> DecideReconcileAction(desired[s], view[s], now),
                               observed |-> view[s]]
        BY <2>2 DEF ListContainers
    <2>4. plan'[s] = NoPlan <=> DecideReconcileAction(desired[s], view[s], now) = "none"
        BY <2>3 DEF NoPlan
    <2>5. /\ sandboxes[s] \in Row /\ now \in Nat /\ view[s] \in Observed
          /\ view[s] = "nil" <=> ContainersOf(s) = {}
          /\ view[s] = "running" <=> RunningContainersOf(s) # {}
        BY <1>1, SightingsMean, SightingRuns, EnvironmentAssumption
        DEF Alone, PassAndRows, PassInv, StoreInv, StoreTypeOK, EnvTypeOK, WorldInv
    <2>6. Converged(s) <=>
              \/ sandboxes[s].state = "running" /\ RunningContainersOf(s) # {}
              \/ sandboxes[s].state \in Terminal \union {Absent} /\ ContainersOf(s) = {}
        BY DEF Converged, Terminal, Absent
    <2>. QED BY <1>1, <2>4, <2>5, <2>6, DecisionRests DEF Exists
<1>2. Alone /\ [Next]_vars =>
          [\A s \in SandboxID :
              phase = "listed" /\ phase' = "acting" /\ desired = sandboxes
              => (plan'[s] = NoPlan
                      <=> Converged(s) /\ ~(Exists(s) /\ Expired(sandboxes[s], now)))]_vars
    BY <1>1
<1>. QED BY <1>2, StaysAlone, PTL DEF Spec, PassSeesWhatIsLeft

(* The last call of an action that makes nothing.                           *)
LEMMA DestroyDoesItsWork ==
    ASSUME Alone, Guarded, NEW s \in SandboxID, DestroyContainer(s), EndItem(s), ~Fault
    PROVE  /\ ContainersOf(s)' = {}
           /\ sandboxes'[s].state \in Terminal \union {Absent}
<1> USE DEF Alone, AloneInv
<1>1. /\ Destroy(s) /\ current = s /\ at = "destroy" /\ phase = "acting"
      /\ UNCHANGED sandboxes
    BY DEF DestroyContainer, PassAndRows, PassInv, ActingOnPlan, storeVars
<1>2. ~(plan[s].action = "reap" \/ desired[s].state = "stopping")
    BY <1>1, SandboxAssumption DEF DestroyContainer, GoTo, EndItem
<1>3. plan[s].action \in {"destroy", "destroy_orphan"}
    BY <1>1, <1>2 DEF CallsFit
<1>4. CASE plan[s].action = "destroy"
    <2>1. desired[s].state \in Terminal
        BY <1>1, <1>2, <1>4 DEF Guarded, GuardInv, PlansFitRows, FitsRow
    <2>2. sandboxes[s].state = desired[s].state
        BY <1>1, <2>1 DEF Guarded, GuardInv, ReadRowsYield, RowYields, Owned
    <2>. QED BY <1>1, <2>1, <2>2, DestroyFades
<1>5. CASE plan[s].action = "destroy_orphan"
    <2>1. sandboxes[s].state = Absent
        BY <1>1, <1>5 DEF PlansFit, WorldInv, OrphansStayAbsent
    <2>. QED BY <1>1, <2>1, DestroyFades
<1>. QED BY <1>3, <1>4, <1>5

LEMMA MarkDoesItsWork ==
    ASSUME Alone, Guarded, NEW s \in SandboxID, Mark(s), ~Fault, plan[s].action # "create"
    PROVE  /\ plan[s].action \notin {"mark_running", "mark_failed"} => ContainersOf(s)' = {}
           /\ IF plan[s].action = "mark_running"
              THEN sandboxes'[s].state = "running"
              ELSE \/ sandboxes'[s].state \in Terminal
                   \/ desired[s].state = "running" /\ sandboxes'[s].state = "stopping"
<1>1. current = s /\ at = "mark" /\ ContainersOf(s)' = ContainersOf(s)
    BY DEF Mark, dockerVars, ContainersOf
<1>2. /\ desired[s].state \in {"pending", "running", "stopping"}
      /\ plan[s].action = "mark_running" =>
             desired[s].state = "pending" /\ MarkTarget(s) = "running"
      /\ plan[s].action # "mark_running" => MarkTarget(s) \in Terminal
    BY <1>1, MarkIsLegal
<1>3. \/ sandboxes'[s].state = MarkTarget(s)
      \/ /\ desired[s].state = "running" /\ sandboxes[s].state = "stopping"
         /\ UNCHANGED sandboxes
    <2>1. CASE UpdateSandboxState(s, desired[s].state, MarkTarget(s), desired[s].versionID)
        BY <2>1, UpdateMoves DEF Alone, PassAndRows, StoreInv
    <2>2. CASE /\ UpdateRefused(s, desired[s].state, MarkTarget(s), desired[s].versionID)
               /\ UNCHANGED storeVars
        BY <1>1, <2>2, RefusedForStop DEF storeVars
    <2>. QED BY <2>1, <2>2 DEF Mark
<1>4. ASSUME plan[s].action \notin {"mark_running", "mark_failed"}
      PROVE  ContainersOf(s) = {}
    <2>1. plan[s].action \in {"destroy", "reap", "mark_stopped"}
        BY <1>1, <1>4
        DEF Guarded, PassAndRows, PassInv, ActingOnPlan, ReconcilerTypeOK, Action, GuardInv,
            MarksFit
    <2>2. CASE plan[s].action \in {"destroy", "reap"}
        BY <1>1, <2>2 DEF Alone, AloneInv, CallsFit
    <2>3. CASE plan[s].action = "mark_stopped"
        <3>1. MarkTarget(s) = "stopped" /\ desired[s].state \in TaskState
            BY <1>2, <2>3 DEF MarkTarget, TaskState
        <3>. QED BY <1>1, <3>1, MarkMeans
    <2>. QED BY <2>1, <2>2, <2>3
<1>. QED BY <1>1, <1>2, <1>3, <1>4

(* An action other than a create that ends without a fault leaves nothing   *)
(* to do but a stop that came first.                                        *)
THEOREM ActionsDoTheirWork ==
    ASSUME LateCreates = FALSE PROVE Spec => ItemsDoTheirWork
<1>1. ASSUME Alone, Guarded, [Next]_vars, NEW s \in SandboxID,
             current = s, current' = NoSandbox, NoFault, plan[s].action # "create"
      PROVE  /\ plan[s].action \notin {"mark_running", "mark_failed"} => ContainersOf(s)' = {}
             /\ IF plan[s].action = "mark_running"
                THEN sandboxes'[s].state = "running"
                ELSE \/ sandboxes'[s].state \in Terminal \union {Absent}
                     \/ desired[s].state = "running" /\ sandboxes'[s].state = "stopping"
    <2>1. /\ crashes \in Nat /\ faults \in Nat
          /\ \A v \in Nat : v + 1 # v
        BY <1>1, EnvironmentAssumption DEF Guarded, PassAndRows, StoreInv, EnvTypeOK
    <2>2. ~CrashAndRestart /\ ~Fault
        BY <1>1, <2>1 DEF CrashAndRestart, CrashAllowed, Fault, NoFault, envVars
    <2>3. ReconcilerNext /\ current' # current
        BY <1>1, <2>2, SandboxAssumption
        DEF Next, HandlerStep, ReconcilerStep, DockerStep, TimePasses, DaemonHangs,
            vars, reconcilerVars, passVars
    <2>4. PICK r \in SandboxID : HandleAction(r)
        BY <1>1, <2>3, SandboxAssumption
        DEF ReconcilerNext, ListRows, ListContainers, ListFails, FinishPass, StartItem
    <2>5. r = s /\ at \notin {"create", "start", "cleanup", "writeback", "compensate"}
        BY <1>1, <2>4, CallOfPass DEF Guarded, RanInv, CreatesOnPlan
    <2>6. DestroyContainer(s) \/ Mark(s)
        BY <2>4, <2>5
        DEF HandleAction, CreateContainer, StartContainer, CleanupFailed, WriteBack, Compensate
    <2>7. CASE DestroyContainer(s)
        <3>1. EndItem(s)
            BY <2>3, <2>7 DEF DestroyContainer, GoTo
        <3>2. plan[s].action # "mark_running"
            BY <1>1, <2>7 DEF DestroyContainer, Alone, AloneInv, CallsFit
        <3>. QED BY <1>1, <2>2, <2>7, <3>1, <3>2, DestroyDoesItsWork
    <2>8. CASE Mark(s)
        BY <1>1, <2>2, <2>8, MarkDoesItsWork
    <2>. QED BY <2>6, <2>7, <2>8
<1>2. Alone /\ Guarded /\ [Next]_vars =>
          [\A s \in SandboxID :
              /\ current = s /\ current' = NoSandbox /\ NoFault
              /\ plan[s].action # "create"
              => /\ plan[s].action \notin {"mark_running", "mark_failed"}
                        => ContainersOf(s)' = {}
                 /\ IF plan[s].action = "mark_running"
                    THEN sandboxes'[s].state = "running"
                    ELSE \/ sandboxes'[s].state \in Terminal \union {Absent}
                         \/ desired[s].state = "running" /\ sandboxes'[s].state = "stopping"]_vars
    BY <1>1
<1>. QED BY <1>2, StaysAloneGuarded, PTL DEF Spec, ItemsDoTheirWork
=============================================================================
