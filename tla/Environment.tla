---------------------------- MODULE Environment ----------------------------
(***************************************************************************)
(* What surrounds the control plane: the clock, and the failures a run is   *)
(* allowed.  A fault is one call to the Docker daemon or to SQLite that     *)
(* returns an error, one call of the pass to the daemon that is not         *)
(* answered, or a container removed or restarted behind the program's back; *)
(* a crash is one abrupt stop and restart of the quickspin process.         *)
(***************************************************************************)
EXTENDS Naturals

CONSTANTS
    MaxTime,        \* bound: the clock stops here
    MaxFaults,      \* bound: faults per behaviour
    MaxCrashes      \* bound: crashes per behaviour

ASSUME EnvironmentAssumption ==
    MaxTime \in Nat /\ MaxFaults \in Nat /\ MaxCrashes \in Nat

VARIABLES
    now,            \* time.Now, the clock of the one host
    faults,         \* faults so far
    crashes,        \* crashes so far
    hung            \* the pass is in a call the Docker daemon does not answer

envVars == <<now, faults, crashes, hung>>

EnvInit == now = 0 /\ faults = 0 /\ crashes = 0 /\ hung = FALSE

EnvTypeOK ==
    /\ now \in 0 .. MaxTime
    /\ faults \in 0 .. MaxFaults
    /\ crashes \in 0 .. MaxCrashes
    /\ hung \in BOOLEAN

(* Time passes. *)
ClockTick ==
    /\ now < MaxTime
    /\ now' = now + 1
    /\ UNCHANGED <<faults, crashes, hung>>

(* Nothing goes wrong in this step, or one thing does. *)
NoFault == UNCHANGED envVars

Fault ==
    /\ faults < MaxFaults
    /\ faults' = faults + 1
    /\ UNCHANGED <<now, crashes, hung>>

CrashAllowed ==
    /\ crashes < MaxCrashes
    /\ crashes' = crashes + 1
    /\ hung' = FALSE
    /\ UNCHANGED <<now, faults>>

(* A call without a deadline of its own is not answered; it returns when    *)
(* the daemon answers after all, or never.                                  *)
CallHangs ==
    /\ ~hung
    /\ faults < MaxFaults
    /\ faults' = faults + 1
    /\ hung' = TRUE
    /\ UNCHANGED <<now, crashes>>

CallReturns ==
    /\ hung
    /\ hung' = FALSE
    /\ UNCHANGED <<now, faults, crashes>>
=============================================================================
