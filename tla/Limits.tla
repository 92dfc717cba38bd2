------------------------------- MODULE Limits -------------------------------
(***************************************************************************)
(* The arithmetic of what a client may ask for: lifetimes, which travel as  *)
(* whole seconds (internal/api), and are resolved against a default and a   *)
(* cap (internal/sandbox); and memory limits, a number with a unit.  All of *)
(* it is done in int64, which wraps.                                        *)
(***************************************************************************)
EXTENDS Integers

CONSTANTS
    Half,               \* 2^63: an int64 is one of -Half .. Half - 1
    Second,             \* time.Second, in units of a time.Duration
    DefaultTTL, MaxTTL,
    MinMemoryLimit,
    Rejected            \* no value: an error instead

ASSUME LimitsAssumption ==
    /\ Second \in Nat \ {0}
    /\ MaxTTL \in Nat /\ MaxTTL % Second = 0
    /\ DefaultTTL \in 1 .. MaxTTL
    /\ MinMemoryLimit \in Nat \ {0}
    /\ Half \in Nat /\ MaxTTL + Second <= Half /\ Half % 2 = 0
    /\ Rejected \notin Int

Int64 == -Half .. Half - 1

Wrap(n) == ((n + Half) % (2 * Half)) - Half

(* Go divides towards zero. *)
Quotient(n, d) == IF n >= 0 THEN n \div d ELSE -((-n) \div d)

Smaller(m, n) == IF m < n THEN m ELSE n

-----------------------------------------------------------------------------
(* TTL: the seconds of a request as a time.Duration (ExecOpts does the same *)
(* to the timeout of an exec, which is not followed further).               *)
ToDuration(seconds) == Wrap(seconds * Second)

FloorSeconds(d) ==              \* faulty variant: rounded down
    IF d <= 0 THEN 0 ELSE Quotient(d, Second)

(* ceilSeconds, which a client uses for creates: rounded up, and nothing    *)
(* below zero.                                                              *)
CeilSeconds(d) ==
    IF d <= 0 THEN 0 ELSE Quotient(Wrap(d + Second - 1), Second)

(* NewKeepaliveSandboxRequest keeps a negative duration negative.           *)
KeepaliveSeconds(d) ==
    IF d < 0 THEN Smaller(Quotient(d, Second), -1) ELSE CeilSeconds(d)

(* ResolveTTL: zero is the default, never for ever.                         *)
ResolveTTL(d) ==
    CASE d = 0           -> DefaultTTL
      [] d \in 1 .. MaxTTL -> d
      [] OTHER           -> Rejected

(* KeepaliveSandbox clamps what CreateSandbox turns away.                   *)
ClampTTL(d) == ResolveTTL(Smaller(d, MaxTTL))

-----------------------------------------------------------------------------
(* parseMemory, of digits that already parsed as an int64, and              *)
(* Spec.Validate's floor.                                                   *)
MemoryLimit(digits, unit) ==
    IF digits > (Half \div 2) \div unit \/ Wrap(digits * unit) < MinMemoryLimit
    THEN Rejected
    ELSE Wrap(digits * unit)
=============================================================================
