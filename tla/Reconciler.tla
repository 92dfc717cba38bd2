----------------------------- MODULE Reconciler -----------------------------
(***************************************************************************)
(* internal/reconciler: the pass that makes the containers follow the rows. *)
(* One pass runs at a time (the mutex is tried, never waited for).  It      *)
(* lists the rows, then the containers, decides an action per sandbox from  *)
(* these two snapshots and one reading of the clock, and carries the        *)
(* actions out one sandbox after another.  Every call to the daemon or the  *)
(* store is a step of its own, so rows and containers change under the      *)
(* pass; an action that fails is logged and the pass goes on to the next.   *)
(*                                                                          *)
(* Ids are random, so the order of a pass, sorted by id, may be any order.  *)
(***************************************************************************)
EXTENDS Store, Docker, Environment

CONSTANT MissingImages      \* sandboxes whose image may be in no registry

ASSUME ReconcilerAssumption == MissingImages \subseteq SandboxID

VARIABLES
    phase,          \* idle, listed (rows read), acting
    desired,        \* the rows the pass read and has still to act on
    plan,           \* the action decided for each sandbox, and what was seen
    current,        \* the sandbox being acted on
    at,             \* the next call of its action
    made,           \* the container ContainerCreate returned to this action
    unresolvable,   \* rows whose stored spec this release does not resolve
    missing         \* sandboxes whose image is in no registry

passVars == <<phase, desired, plan, current, at, made>>
specVars == <<unresolvable, missing>>
reconcilerVars == <<passVars, specVars>>

Action == {"none", "create", "destroy", "destroy_orphan", "reap",
           "mark_failed", "mark_stopped", "mark_running"}
Step == {"none", "create", "start", "cleanup", "writeback", "compensate",
         "destroy", "mark"}

NoPlan == [action |-> "none", observed |-> "nil"]

-----------------------------------------------------------------------------
(* decideReconcileAction: the decision table, expiry first; a container     *)
(* without a row is an orphan.                                              *)
ExpiredRunning(row, t) ==         \* faulty variant: only running rows expire
    row.state = "running" /\ t > row.expiresAt

Expired(row, t) == row.state \notin Terminal /\ t > row.expiresAt

DecideForRow(row, observed, t) ==
    CASE Expired(row, t) -> "reap"
      [] row.state = "pending" /\ ~Expired(row, t) ->
             (CASE observed = "nil"     -> "create"
                [] observed = "stopped" -> "mark_failed"
                [] observed = "running" -> "mark_running")
      [] row.state = "running" /\ ~Expired(row, t) ->
             IF observed = "running" THEN "none" ELSE "mark_failed"
      [] row.state = "stopping" /\ ~Expired(row, t) ->
             IF observed = "nil" THEN "mark_stopped" ELSE "destroy"
      [] row.state \in Terminal ->
             IF observed = "nil" THEN "none" ELSE "destroy"

DecideOrphan(observed) == IF observed = "nil" THEN "none" ELSE "destroy_orphan"

(* Faulty variants: orphans are left alone; containers of ended rows are.   *)
IgnoreOrphans(row, observed, t) ==
    IF row.state = Absent THEN "none" ELSE DecideForRow(row, observed, t)

KeepLeftovers(row, observed, t) ==
    IF row.state = Absent THEN DecideOrphan(observed)
    ELSE IF row.state \in Terminal THEN "none" ELSE DecideForRow(row, observed, t)

(* Faulty variant: a running sandbox that lost its container gets another.  *)
RecreateLost(row, observed, t) ==
    IF row.state = "running" /\ observed = "nil" /\ ~Expired(row, t) THEN "create"
    ELSE IF row.state = Absent THEN DecideOrphan(observed) ELSE DecideForRow(row, observed, t)

DecideReconcileAction(row, observed, t) ==
    IF row.state = Absent THEN DecideOrphan(observed) ELSE DecideForRow(row, observed, t)

(* handleAction: the first call of each action, and the state the row is    *)
(* marked with at its end.                                                  *)
ReapByMark(s) ==                  \* faulty variant: reap leaves the container
    CASE plan[s].action = "create" ->
             IF s \in unresolvable THEN "mark" ELSE "create"
      [] plan[s].action \in {"destroy", "destroy_orphan"} -> "destroy"
      [] OTHER -> "mark"

FirstStep(s) ==
    CASE plan[s].action = "create" ->
             IF s \in unresolvable THEN "mark" ELSE "create"
      [] plan[s].action \in {"destroy", "destroy_orphan"} -> "destroy"
      [] plan[s].action = "reap" ->
             IF plan[s].observed = "nil" THEN "mark" ELSE "destroy"
      [] plan[s].action \in {"mark_failed", "mark_stopped", "mark_running"} -> "mark"

ReapMeansFailed(s) ==             \* faulty variant: also for a stopping row
    CASE plan[s].action = "mark_running" -> "running"
      [] plan[s].action \in {"create", "mark_failed", "reap"} -> "failed"
      [] plan[s].action \in {"destroy", "mark_stopped"} -> "stopped"

MarkTarget(s) ==
    CASE plan[s].action = "mark_running" -> "running"
      [] plan[s].action \in {"create", "mark_failed"} -> "failed"
      [] plan[s].action \in {"destroy", "mark_stopped"} -> "stopped"
      [] plan[s].action = "reap" ->
             IF desired[s].state = "stopping" THEN "stopped" ELSE "failed"

-----------------------------------------------------------------------------
(* ReconcileOnce: the rows first ... *)
ListRows ==
    /\ phase = "idle"
    /\ phase' = "listed"
    /\ desired' = sandboxes
    /\ NoFault
    /\ UNCHANGED <<plan, current, at, made, specVars, storeVars, dockerVars>>

(* ... then the containers and the clock.  Sandboxes with nothing to do are *)
(* dropped from the pass at once.                                           *)
ListContainers ==
    /\ phase = "listed"
    /\ \E view \in Views :
           LET decided == [s \in SandboxID |->
                              DecideReconcileAction(desired[s], view[s], now)]
           IN  /\ plan' = [s \in SandboxID |->
                      IF decided[s] = "none" THEN NoPlan
                      ELSE [action |-> decided[s], observed |-> view[s]]]
               /\ desired' = [s \in SandboxID |->
                      IF decided[s] = "none" THEN NoRow ELSE desired[s]]
    /\ phase' = "acting"
    /\ NoFault
    /\ UNCHANGED <<current, at, made, specVars, storeVars, dockerVars>>

(* A listing that fails ends the pass; the next tick starts another.        *)
ListFails ==
    /\ phase = "listed"
    /\ Fault
    /\ phase' = "idle"
    /\ desired' = [s \in SandboxID |-> NoRow]
    /\ UNCHANGED <<plan, current, at, made, specVars, storeVars, dockerVars>>

StartItem(s) ==
    /\ phase = "acting" /\ current = NoSandbox
    /\ plan[s] # NoPlan
    /\ current' = s
    /\ at' = FirstStep(s)
    /\ NoFault
    /\ UNCHANGED <<phase, desired, plan, made, specVars, storeVars, dockerVars>>

FinishPass ==
    /\ phase = "acting"
    /\ \A s \in SandboxID : plan[s] = NoPlan
    /\ phase' = "idle"
    /\ NoFault
    /\ UNCHANGED <<desired, plan, current, at, made, specVars, storeVars, dockerVars>>

(* The action on s is over, well or not: on to the next sandbox. *)
EndItem(s) ==
    /\ desired' = [desired EXCEPT ![s] = NoRow]
    /\ plan' = [plan EXCEPT ![s] = NoPlan]
    /\ current' = NoSandbox
    /\ at' = "none"
    /\ made' = NoContainer
    /\ UNCHANGED <<phase, specVars>>

GoTo(step) ==
    /\ at' = step
    /\ UNCHANGED <<phase, desired, plan, current, made, specVars>>

-----------------------------------------------------------------------------
(* Create, call by call: pull the image and make the container.  It fails   *)
(* without an image, when the daemon has no room for another container, or  *)
(* by a fault, and the answer to a create that took place can be lost.      *)
NoneFree == \A c \in ContainerID : containers[c] # NoSuchContainer

CreateContainer(s) ==
    /\ current = s /\ at = "create"
    /\ UNCHANGED storeVars
    /\ \/ \E c \in ContainerID :
              /\ s \notin missing
              /\ ContainerCreate(c, s)
              /\ made' = c
              /\ at' = "start"
              /\ NoFault
              /\ UNCHANGED <<inflight, started, phase, desired, plan, current, specVars>>
       \/ /\ IF s \in missing \/ NoneFree THEN NoFault ELSE Fault
          /\ EndItem(s)
          /\ UNCHANGED dockerVars
       \/ \E c \in ContainerID :
              /\ s \notin missing
              /\ Fault
              /\ ContainerCreate(c, s)
              /\ EndItem(s)
              /\ UNCHANGED <<inflight, started>>

StartAssumed(s) ==                \* faulty variant: the start's error is ignored
    /\ current = s /\ at = "start"
    /\ UNCHANGED storeVars
    /\ \/ ContainerStart(made) /\ NoFault
       \/ UNCHANGED dockerVars /\ Fault
    /\ GoTo("writeback")

StartContainer(s) ==
    /\ current = s /\ at = "start"
    /\ UNCHANGED storeVars
    /\ \/ ContainerStart(made) /\ NoFault /\ GoTo("writeback")
       \/ /\ containers[made].state = "none"      \* removed meanwhile
          /\ NoFault
          /\ GoTo("cleanup")
          /\ UNCHANGED dockerVars
       \/ /\ Fault
          /\ GoTo("cleanup")
          /\ ContainerStart(made) \/ UNCHANGED dockerVars

(* cleanupFailed removes by identity the container that did not start; when *)
(* that fails too, the container is leaked.                                 *)
CleanupFailed(s) ==
    /\ current = s /\ at = "cleanup"
    /\ UNCHANGED storeVars
    /\ \/ RemoveContainer(made) /\ NoFault
       \/ UNCHANGED dockerVars /\ Fault
    /\ EndItem(s)

(* Faulty variant: the compensation is run after a write that succeeded.    *)
WriteBackThenCompensate(s) ==
    /\ current = s /\ at = "writeback"
    /\ UNCHANGED dockerVars
    /\ UpdateSandboxState(s, "pending", "running", desired[s].versionID)
    /\ NoFault
    /\ GoTo("compensate")

(* The write-back pending -> running under the version the pass read; if it *)
(* does not commit, the container is destroyed again.                       *)
WriteBack(s) ==
    LET v == desired[s].versionID IN
    /\ current = s /\ at = "writeback"
    /\ UNCHANGED dockerVars
    /\ \/ UpdateSandboxState(s, "pending", "running", v) /\ NoFault /\ EndItem(s)
       \/ /\ (UpdateRefused(s, "pending", "running", v) /\ NoFault) \/ Fault
          /\ GoTo("compensate")
          /\ UNCHANGED storeVars

Compensate(s) ==
    /\ current = s /\ at = "compensate"
    /\ UNCHANGED storeVars
    /\ \/ Destroy(s) /\ NoFault
       \/ UNCHANGED dockerVars /\ Fault
    /\ EndItem(s)

(* Destroy for a stopping, terminal, expired or missing row.  A row with a  *)
(* transition to complete is marked next; a destroy that fails ends the     *)
(* action with the row as it was.                                           *)
DestroyAssumed(s) ==              \* faulty variant: the destroy's error is ignored
    /\ current = s /\ at = "destroy"
    /\ UNCHANGED storeVars
    /\ \/ Destroy(s) /\ NoFault
       \/ UNCHANGED dockerVars /\ Fault
    /\ IF plan[s].action = "reap" \/ desired[s].state = "stopping"
       THEN GoTo("mark")
       ELSE EndItem(s)

DestroyContainer(s) ==
    /\ current = s /\ at = "destroy"
    /\ UNCHANGED storeVars
    /\ \/ /\ Destroy(s)
          /\ NoFault
          /\ IF plan[s].action = "reap" \/ desired[s].state = "stopping"
             THEN GoTo("mark")
             ELSE EndItem(s)
       \/ /\ Fault
          /\ Destroy(s) \/ UNCHANGED dockerVars
          /\ EndItem(s)

(* mark: the guarded transition an action ends in, under the state and the  *)
(* version the pass read.                                                   *)
Mark(s) ==
    LET row == desired[s] IN
    /\ current = s /\ at = "mark"
    /\ UNCHANGED dockerVars
    /\ \/ UpdateSandboxState(s, row.state, MarkTarget(s), row.versionID) /\ NoFault
       \/ /\ (UpdateRefused(s, row.state, MarkTarget(s), row.versionID) /\ NoFault) \/ Fault
          /\ UNCHANGED storeVars
    /\ EndItem(s)

-----------------------------------------------------------------------------
(* The pass is in a call to the Docker daemon that only its answer ends:    *)
(* the context it passes on is Serve's, which has no deadline.  (A start    *)
(* that took place unanswered is held before the write-back, a destroy      *)
(* before the mark.  Only cleanupFailed sets a timeout, of 30 seconds.)     *)
AwaitsDaemon ==
    \/ phase = "listed"
    \/ at \in {"create", "start", "writeback", "compensate", "destroy"}
    \/ at = "mark" /\ FirstStep(current) = "destroy"

ReconcilerInit ==
    /\ phase = "idle"
    /\ desired = [s \in SandboxID |-> NoRow]
    /\ plan = [s \in SandboxID |-> NoPlan]
    /\ current = NoSandbox
    /\ at = "none"
    /\ made = NoContainer
    /\ unresolvable = {}
    /\ missing \in SUBSET MissingImages

HandleAction(s) ==
    \/ CreateContainer(s)
    \/ StartContainer(s)
    \/ CleanupFailed(s)
    \/ WriteBack(s)
    \/ Compensate(s)
    \/ DestroyContainer(s)
    \/ Mark(s)

ReconcilerNext ==
    \/ ListRows
    \/ ListContainers
    \/ ListFails
    \/ FinishPass
    \/ \E s \in SandboxID : StartItem(s) \/ HandleAction(s)

(* The process dies: the pass is gone, whatever it was doing.               *)
PassLost ==
    /\ phase' = "idle"
    /\ desired' = [s \in SandboxID |-> NoRow]
    /\ plan' = [s \in SandboxID |-> NoPlan]
    /\ current' = NoSandbox
    /\ at' = "none"
    /\ made' = NoContainer

ReconcilerTypeOK ==
    /\ phase \in {"idle", "listed", "acting"}
    /\ desired \in [SandboxID -> Row]
    /\ plan \in [SandboxID -> [action : Action, observed : Observed]]
    /\ current \in SandboxID \union {NoSandbox}
    /\ at \in Step
    /\ made \in ContainerID \union {NoContainer}
    /\ unresolvable \subseteq SandboxID
    /\ missing \subseteq MissingImages
=============================================================================
