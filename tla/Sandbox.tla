------------------------------ MODULE Sandbox ------------------------------
(***************************************************************************)
(* The domain of internal/sandbox: the task states of a sandbox, the        *)
(* transitions between them, and the lifetime a request may ask for.        *)
(* Absent stands for "no row": the from_state of the first event is the     *)
(* empty string, and a replay of the history starts there.                  *)
(***************************************************************************)
EXTENDS Naturals, FiniteSets

CONSTANTS
    SandboxID,      \* identifiers runtime.NewSandboxID may return
    NoSandbox       \* "no sandbox"

ASSUME SandboxAssumption == NoSandbox \notin SandboxID

Absent == "absent"

TaskState == {"pending", "running", "failed", "stopping", "stopped"}

(* validTransitions: each state and the states that may follow it. *)
ValidTransitions ==
    [from \in TaskState |->
        CASE from = "pending"  -> {"running", "failed"}
          [] from = "running"  -> {"failed", "stopping"}
          [] from = "stopping" -> {"stopped"}
          [] OTHER             -> {}]

(* CanTransition returned nil. *)
CanTransition(from, to) ==
    /\ from \in TaskState
    /\ to \in TaskState
    /\ to \in ValidTransitions[from]

Terminal == {"failed", "stopped"}
=============================================================================
