------------------------------- MODULE Docker -------------------------------
(***************************************************************************)
(* internal/runtime/docker over the Docker daemon: the containers that      *)
(* carry the managed labels, and the calls of the runtime that change them. *)
(* A container has an identity of its own; its sandbox is a label, and the  *)
(* daemon does not stop two containers from carrying the same one.          *)
(***************************************************************************)
EXTENDS Sandbox

CONSTANTS
    ContainerID,    \* bound: the containers the daemon has room for
    NoContainer

ASSUME DockerAssumption == NoContainer \notin ContainerID

VARIABLES
    containers,     \* the daemon's containers
    inflight,       \* create requests whose caller is gone and which the
                    \* daemon may still carry out
    started         \* history: sandboxes whose container ever ran

dockerVars == <<containers, inflight, started>>

(* A restarted container is running again after it had exited: to the       *)
(* program the two look the same.                                           *)
ContainerState == {"none", "created", "running", "exited", "restarted"}
Up == {"running", "restarted"}
NoSuchContainer == [sandbox |-> NoSandbox, state |-> "none"]

ContainersOf(s) == {c \in ContainerID : containers[c].sandbox = s}
RunningContainersOf(s) == {c \in ContainersOf(s) : containers[c].state \in Up}

-----------------------------------------------------------------------------
(* stateFromContainerState: a container that was created and never started  *)
(* reads as stopped, like one that ran and exited.                          *)
StateFromContainerState(st) == IF st \in Up THEN "running" ELSE "stopped"

Observed == {"nil", "running", "stopped"}

(* Faulty variant: List without All, which shows running containers only.   *)
SightingsOfRunning(s) ==
    IF RunningContainersOf(s) = {} THEN {"nil"} ELSE {"running"}

(* List, as pairSnapshots reads it: one observation per sandbox id.  Where  *)
(* several containers carry the id the last in the daemon's order wins.     *)
Sightings(s) ==
    IF ContainersOf(s) = {}
    THEN {"nil"}
    ELSE {StateFromContainerState(containers[c].state) : c \in ContainersOf(s)}

Views == {view \in [SandboxID -> Observed] :
              \A s \in SandboxID : view[s] \in Sightings(s)}

-----------------------------------------------------------------------------
(* The calls of Create: ContainerCreate with the sandbox's labels, then     *)
(* ContainerStart of the identity it returned.                              *)
ContainerCreate(c, s) ==
    /\ containers[c] = NoSuchContainer
    /\ containers' = [containers EXCEPT ![c] = [sandbox |-> s, state |-> "created"]]

ContainerStart(c) ==
    /\ containers[c].state = "created"
    /\ containers' = [containers EXCEPT ![c].state = "running"]
    /\ started' = started \union {containers[c].sandbox}
    /\ UNCHANGED inflight

(* removeContainer: forced, and an absent container is a success.           *)
RemoveContainer(c) ==
    /\ containers' = [containers EXCEPT ![c] = NoSuchContainer]
    /\ UNCHANGED <<inflight, started>>

(* Destroy: look the id up by label and remove the first container found;   *)
(* none found is a success.                                                 *)
Destroy(s) ==
    \/ ContainersOf(s) = {} /\ UNCHANGED dockerVars
    \/ \E c \in ContainersOf(s) : RemoveContainer(c)

-----------------------------------------------------------------------------
(* What the daemon and its host do on their own. *)

(* A container exits and stays down: somebody stops it, the Docker daemon   *)
(* goes down, or a restart fails.  (A main process that merely dies is      *)
(* restarted at once, which shows as restarting, and so as running.)        *)
ContainerExits(c) ==
    /\ containers[c].state \in Up
    /\ containers' = [containers EXCEPT ![c].state = "exited"]
    /\ UNCHANGED <<inflight, started>>

(* RestartPolicyAlways: the Docker daemon comes back and starts the         *)
(* container again, or somebody does.                                       *)
ContainerRestarts(c) ==
    /\ containers[c].state = "exited"
    /\ containers' = [containers EXCEPT ![c].state = "restarted"]
    /\ UNCHANGED <<inflight, started>>

(* Somebody removes a container behind the program's back. *)
ContainerVanishes(c) ==
    /\ containers[c].state # "none"
    /\ RemoveContainer(c)

(* A create whose caller died lands after all. *)
LateCreate(c, s) ==
    /\ s \in inflight
    /\ ContainerCreate(c, s)
    /\ inflight' = inflight \ {s}
    /\ UNCHANGED started

(* The daemon may hold containers of sandboxes no database remembers. *)
DockerInit(orphans) ==
    /\ inflight = {}
    /\ started = orphans
    /\ \E kept \in [orphans -> ContainerID] :
           /\ \A r, s \in orphans : kept[r] = kept[s] => r = s
           /\ containers = [c \in ContainerID |->
                 IF \E s \in orphans : kept[s] = c
                 THEN [sandbox |-> CHOOSE s \in orphans : kept[s] = c, state |-> "running"]
                 ELSE NoSuchContainer]

DockerTypeOK ==
    /\ containers \in [ContainerID ->
           [sandbox : SandboxID \union {NoSandbox}, state : ContainerState]]
    /\ \A c \in ContainerID :
           containers[c].sandbox = NoSandbox <=> containers[c].state = "none"
    /\ inflight \subseteq SandboxID
    /\ started \subseteq SandboxID
=============================================================================
