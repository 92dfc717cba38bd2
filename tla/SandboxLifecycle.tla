------------------------- MODULE SandboxLifecycle --------------------------
(***************************************************************************)
(* What the control plane promises about one record of a sandbox, whoever   *)
(* writes it and in whatever order: it is born pending, moves only along    *)
(* the legal transitions, one version per move, and stays where it ended.   *)
(* Rewriting the lease is a stuttering step of this specification.          *)
(***************************************************************************)
EXTENDS Sandbox

VARIABLES state, version

vars == <<state, version>>

Init ==
    /\ state = [s \in SandboxID |-> Absent]
    /\ version = [s \in SandboxID |-> 0]

Move(s, to) ==
    /\ state' = [state EXCEPT ![s] = to]
    /\ version' = [version EXCEPT ![s] = version[s] + 1]

Record(s) ==
    /\ state[s] = Absent
    /\ Move(s, "pending")

Transition(s) ==
    \E to \in TaskState :
        /\ CanTransition(state[s], to)
        /\ Move(s, to)

Next == \E s \in SandboxID : Record(s) \/ Transition(s)

Spec == Init /\ [][Next]_vars
=============================================================================
