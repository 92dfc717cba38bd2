---------------------------- MODULE ControlPlane ----------------------------
(***************************************************************************)
(* The daemon (internal/daemon): the request handlers and the reconciler    *)
(* over one store and one Docker daemon, with the clock, the failures and   *)
(* the crashes around them.                                                 *)
(***************************************************************************)
EXTENDS Control, Reconciler

CONSTANT LateCreates    \* may a dead caller's create request still land?

ASSUME ControlPlaneAssumption == LateCreates \in BOOLEAN

vars == <<envVars, storeVars, controlVars, dockerVars, reconcilerVars>>

Init ==
    /\ EnvInit
    /\ StoreInit
    /\ ControlInit
    /\ DockerInit(Orphans)
    /\ ReconcilerInit

(* Serve: the handlers and the reconciler run side by side.                 *)
HandlerStep == ControlNext /\ UNCHANGED <<dockerVars, reconcilerVars>>

ReconcilerStep == ~hung /\ ReconcilerNext /\ UNCHANGED controlVars

(* A call of the pass goes unanswered, and the only loop there is waits     *)
(* with it: no tick passes the mutex until the daemon answers.              *)
DaemonHangs ==
    /\ (AwaitsDaemon /\ CallHangs) \/ CallReturns
    /\ UNCHANGED <<storeVars, controlVars, dockerVars, reconcilerVars>>

(* (An identity is never given twice: not the one an action still holds.)   *)
DockerStep ==
    /\ \E c \in ContainerID :
           \/ ContainerExits(c) /\ NoFault
           \/ ContainerVanishes(c) /\ Fault
           \/ ContainerRestarts(c) /\ Fault
           \/ \E s \in SandboxID : c # made /\ LateCreate(c, s) /\ NoFault
    /\ UNCHANGED <<storeVars, controlVars, reconcilerVars>>

TimePasses ==
    /\ ClockTick
    /\ UNCHANGED <<storeVars, controlVars, dockerVars, reconcilerVars>>

(* The process dies and is started again over the same database: requests   *)
(* and the pass are lost, rows and containers stay.  The create request it  *)
(* had sent may still be carried out, and the new process may be a release  *)
(* that no longer resolves a spec it finds stored.                          *)
CrashAndRestart ==
    /\ CrashAllowed
    /\ req' = [c \in Client |-> Idle]
    /\ PassLost
    /\ inflight' = IF LateCreates /\ at = "create"
                   THEN inflight \union {current} ELSE inflight
    /\ \E tightened \in SUBSET {s \in SandboxID : Exists(s)} :
           unresolvable' = unresolvable \union tightened
    /\ UNCHANGED <<storeVars, answered, containers, started, missing>>

Next ==
    \/ HandlerStep
    \/ ReconcilerStep
    \/ DaemonHangs
    \/ DockerStep
    \/ TimePasses
    \/ CrashAndRestart

Spec == Init /\ [][Next]_vars

(* The ticker starts a pass again and again, and the pass goes on whenever  *)
(* no call of it hangs: the store is a local database, and what Docker      *)
(* answers is returned.  That a call is answered is not assumed - the pass  *)
(* sets it no deadline - so a hung one may stop the loop for ever.  Nothing *)
(* is assumed of clients, of crashes or of the daemon's own moves, and no   *)
(* fault is ever bound to happen.                                           *)
FairSpec == Spec /\ WF_vars(ReconcilerStep /\ NoFault)

-----------------------------------------------------------------------------
TypeOK ==
    /\ EnvTypeOK
    /\ StoreTypeOK
    /\ ControlTypeOK
    /\ DockerTypeOK
    /\ ReconcilerTypeOK

(* Every write of the handlers and the reconciler is one of the store's     *)
(* transactions: all that holds of the store for any callers holds here.    *)
UsesStore == StoreSpec

(* The idempotency key (control.CreateSandbox): every create answered under *)
(* a key was answered with the same sandbox, the one the table names, also  *)
(* across concurrent creates, failed inserts and restarts.                  *)
SameKeySameSandbox == \A k \in Key : answered[k] \subseteq {keys[k]}

(* A row says running, or has been, only if a container of that sandbox was *)
(* started: the write-back follows ContainerStart, and adoption follows an  *)
(* observation of a running container, across crashes at any call.          *)
RunningWasStarted ==
    \A s \in SandboxID :
        sandboxes[s].state \in {"running", "stopping", "stopped"} => s \in started

(* A sandbox reported failed or stopped runs nothing, unless the Docker     *)
(* daemon restarted what the pass had seen down: every other path to a      *)
(* terminal state removes the container first or has seen it gone, also     *)
(* when the write-back, the start or their cleanup failed.                  *)
TerminalRunsOnlyRestarted ==
    \A s \in SandboxID : sandboxes[s].state \in Terminal =>
        \A c \in RunningContainersOf(s) : containers[c].state = "restarted"

(* One reconciler that lists before it creates makes at most one container  *)
(* per sandbox, whatever fails between its calls.                           *)
OneContainerPerSandbox ==
    \A s \in SandboxID : \A c, d \in ContainersOf(s) : c = d

(* Also where creates land late, and leave a second container under an id:  *)
(* no sandbox ever runs two, for the pass starts only what it has made over *)
(* nothing that ran, and the Docker daemon restarts only what had run.      *)
OneRunningPerSandbox ==
    \A s \in SandboxID : \A c, d \in RunningContainersOf(s) : c = d

(* The reconciler kills the container of a running row only when it reaps   *)
(* it, under a lease that had run out when the pass read it.  Compensation, *)
(* the removal of orphans and of leftovers never hit a running sandbox.     *)
KillsRunningOnlyToReap ==
    [][\A c \in ContainerID :
          LET s == containers[c].sandbox IN
          (/\ containers[c].state \in Up /\ containers'[c].state = "none"
           /\ current = s /\ at' # at
           /\ sandboxes[s].state = "running")
          => plan[s].action = "reap" /\ desired[s].expiresAt < now]_vars

(* The guarded writes of the pass (write-back and mark): unless the store   *)
(* fails, only a DELETE that came first makes one miss, and the row the     *)
(* pass read as running is stopping by then.  A pending or a stopping row   *)
(* is the pass's own, under the very version it read.                       *)
WritesYieldToStopsOnly ==
    [][\A s \in SandboxID :
          /\ current = s /\ at \in {"writeback", "mark"} /\ at' # at
          /\ NoFault /\ UNCHANGED sandboxes
          => desired[s].state = "running" /\ sandboxes[s].state = "stopping"]_vars

(* What the handlers of requests count on while they run (Requests): of     *)
(* whatever the daemon, the pass, crashes and Docker do, one sandbox sees   *)
(* legal moves of its row, one container at most, made only while the row   *)
(* is pending and never under an id without a row, and no container any     *)
(* more once it has stopped.                                                *)
BoxOf(s) ==
    CASE ContainersOf(s) = {}         -> "none"
      [] RunningContainersOf(s) # {}  -> "running"
      [] OTHER                        -> "stopped"

World(s) == INSTANCE SandboxWorld WITH row <- sandboxes[s].state, box <- BoxOf(s)

SandboxesFollowWorld ==
    /\ \A s \in SandboxID : World(s)!Init
    /\ [][\A s \in SandboxID : World(s)!Next \/ UNCHANGED World(s)!vars]_vars

-----------------------------------------------------------------------------
(* The state validate-06.sh waits for, sandbox by sandbox: nothing pending  *)
(* or stopping, a running row over a running container, and no container    *)
(* under a terminal row or under none.                                      *)
Converged(s) ==
    CASE sandboxes[s].state = "running" -> RunningContainersOf(s) # {}
      [] sandboxes[s].state \in Terminal \union {Absent} -> ContainersOf(s) = {}
      [] OTHER -> FALSE

(* An action other than a create that ends without a fault has done its     *)
(* work: the row is adopted, ended, or stopping if a DELETE came first, and *)
(* after a destroy there is no container (handleAction).                    *)
ItemsDoTheirWork ==
    [][\A s \in SandboxID :
          /\ current = s /\ current' = NoSandbox /\ NoFault
          /\ plan[s].action # "create"
          => /\ plan[s].action \notin {"mark_running", "mark_failed"}
                    => ContainersOf(s)' = {}
             /\ IF plan[s].action = "mark_running"
                THEN sandboxes'[s].state = "running"
                ELSE \/ sandboxes'[s].state \in Terminal \union {Absent}
                     \/ desired[s].state = "running" /\ sandboxes'[s].state = "stopping"]_vars

(* However it drifted, each sandbox converges again once failures stop: the *)
(* pass repairs crashes, leaks, exits, orphans and finished stops.  (A row  *)
(* whose image does not exist stays pending until its lease runs out.)      *)
(* This and the next three are owed only while the one loop is not stuck in *)
(* a call, about any sandbox, that the daemon never answers: hangs are      *)
(* bounded, so "again and again hung" is hung for ever.                     *)
EverySandboxConverges ==
    \A s \in SandboxID : s \notin missing => []<>(Converged(s) \/ hung)

(* A lease that ran out ends the sandbox unless a keepalive renews it, also *)
(* for a sandbox that could never start.                                    *)
ExpiredSandboxesEnd ==
    \A s \in SandboxID :
        now > sandboxes[s].expiresAt /\ Exists(s)
        ~> sandboxes[s].state \in Terminal \/ now <= sandboxes[s].expiresAt \/ hung

(* An accepted stop is carried out.                                         *)
StopsComplete ==
    \A s \in SandboxID :
        sandboxes[s].state = "stopping"
        ~> (sandboxes[s].state = "stopped" /\ ContainersOf(s) = {}) \/ hung

(* Nothing of an ended sandbox is left behind, not even the second container *)
(* that a create landing late can leave under one id, of which a destroy     *)
(* removes only one.                                                         *)
LeftoversRemoved ==
    \A s \in SandboxID :
        sandboxes[s].state \in Terminal \union {Absent} /\ ContainersOf(s) # {}
        ~> sandboxes[s].state \notin Terminal \union {Absent} \/ ContainersOf(s) = {} \/ hung

-----------------------------------------------------------------------------
(* What documentation and comments say, and the code does not do.           *)

(* control.go:102: a refused write means "an absent row or one already past *)
(* Running".                                                                *)
RefusedDestroyIsPastRunning ==
    [][\A c \in Client :
          req[c].at = "destroy" /\ DestroyAccepted(c)
          => sandboxes'[req[c].id].state \notin {"pending", "running"}]_vars

(* 06-reconciler-leases-events.mdx:233: a crash between the 202 and the     *)
(* guarded UPDATE costs one tick of latency, "never a lost sandbox": a      *)
(* pending row that is failed for what the pass saw of its container (not   *)
(* for its lease or its spec) is one whose container ran and exited.        *)
CrashLosesNoSandbox ==
    [][\A s \in SandboxID :
          /\ sandboxes[s].state = "pending" /\ sandboxes'[s].state = "failed"
          /\ plan[s].action = "mark_failed"
          => \E c \in ContainersOf(s) : containers[c].state \in {"exited", "restarted"}]_vars

(* package-boundaries.mdx:54: two writers are safe because "every write     *)
(* restates the state it read in its WHERE clause": the reap that was       *)
(* decided on a lease is written only while that lease is the row's.        *)
ReapSeesTheLease ==
    [][\A s \in SandboxID :
          /\ current = s /\ at = "mark" /\ plan[s].action = "reap"
          /\ sandboxes'[s].state # sandboxes[s].state
          => sandboxes[s].expiresAt = desired[s].expiresAt]_vars
=============================================================================
