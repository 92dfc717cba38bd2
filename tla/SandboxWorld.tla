---------------------------- MODULE SandboxWorld ----------------------------
(***************************************************************************)
(* One sandbox as its requests find it: the state of its row, and whether   *)
(* there is a container.  This is what the daemon promises its handlers,    *)
(* whatever runs beside them: between two steps of a request any of these   *)
(* moves may happen, and no other.                                          *)
(***************************************************************************)
EXTENDS Sandbox

VARIABLES
    row,                \* the state of the row, or Absent
    box                 \* the container: none, stopped (made and not yet
                        \* started, or exited), running

vars == <<row, box>>

(* An orphan's container is there without a row.                            *)
Init == row = Absent /\ box \in {"none", "running"}

(* A row is recorded under a fresh id, which is no orphan's.                *)
Recorded == row = Absent /\ box = "none" /\ row' = "pending" /\ UNCHANGED box

(* A stop is complete over no container only.                               *)
RowMoves ==
    /\ \E to \in TaskState : CanTransition(row, to) /\ row' = to
    /\ row' = "stopped" => box = "none"
    /\ UNCHANGED box

(* Only a pending row gets a container, and none that has one.              *)
ContainerMade ==
    /\ row = "pending" /\ box = "none"
    /\ box' = "stopped"
    /\ UNCHANGED row

(* It starts and, with its restart policy, starts again; it exits; it goes. *)
ContainerStarts == box = "stopped" /\ box' = "running" /\ UNCHANGED row

ContainerExits == box = "running" /\ box' = "stopped" /\ UNCHANGED row

ContainerGoes == box # "none" /\ box' = "none" /\ UNCHANGED row

Next ==
    \/ Recorded
    \/ RowMoves
    \/ ContainerMade
    \/ ContainerStarts
    \/ ContainerExits
    \/ ContainerGoes

Spec == Init /\ [][Next]_vars
=============================================================================
