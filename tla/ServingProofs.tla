--------------------------- MODULE ServingProofs ----------------------------
(***************************************************************************)
(* Theorems about Requests and Serving, for any number of requests and any  *)
(* width of an int64: what a shutdown may lose, what a request changes in a *)
(* container, what a create or a keepalive is granted, and that what a      *)
(* request is answered was so.                                              *)
(***************************************************************************)
EXTENDS Serving, FiniteSetTheorems, SequenceTheorems, TLAPS

-----------------------------------------------------------------------------
(* Arithmetic.                                                              *)

(* Division rounds down to the multiple of the divisor below (a / b of Go,  *)
(* of numbers that are not negative).                                       *)
LEMMA DivisionRoundsDown ==
    ASSUME NEW a \in Nat, NEW b \in Nat \ {0}
    PROVE  /\ a \div b \in Nat
           /\ (a \div b) * b \in Int
           /\ (a \div b) * b <= a
           /\ a < (a \div b) * b + b
BY SMT

(* An int64 stays what it is.                                               *)
LEMMA WrapKeepsInt64 ==
    ASSUME LimitsAssumption, NEW n \in Int64
    PROVE  Wrap(n) = n
<1>1. Half \in Nat /\ Half # 0
    BY DEF LimitsAssumption
<1>2. n + Half \in 0 .. 2 * Half - 1
    BY <1>1 DEF Int64
<1>3. ASSUME NEW m \in Nat \ {0}, NEW k \in 0 .. m - 1
      PROVE  k % m = k
    BY SMT
<1>4. (n + Half) % (2 * Half) = n + Half
    BY <1>1, <1>2, <1>3
<1> QED
    BY <1>1, <1>4 DEF Wrap, Int64

(* ceilSeconds and TTL: a lifetime that fits comes back rounded up by less  *)
(* than a second.                                                           *)
LEMMA CeilTravels ==
    ASSUME LimitsAssumption, NEW d \in Int, 0 < d, d <= Half - Second
    PROVE  /\ CeilSeconds(d) \in Nat
           /\ ToDuration(CeilSeconds(d)) \in d .. d + Second - 1
<1> DEFINE n == d + Second - 1
<1>1. Second \in Nat \ {0} /\ Half \in Nat
    BY DEF LimitsAssumption
<1>2. n \in Nat /\ n \in Int64
    BY <1>1 DEF Int64
<1>3. Wrap(n) = n
    BY <1>2, WrapKeepsInt64
<1>4. CeilSeconds(d) = n \div Second
    BY <1>2, <1>3 DEF CeilSeconds, Quotient
<1> HIDE DEF n
<1>5. /\ n \div Second \in Nat
      /\ (n \div Second) * Second \in Int
      /\ (n \div Second) * Second <= n
      /\ n < (n \div Second) * Second + Second
    BY <1>1, <1>2, DivisionRoundsDown
<1>6. (n \div Second) * Second \in d .. d + Second - 1
    BY <1>1, <1>5 DEF n
<1>7. (n \div Second) * Second \in Int64
    BY <1>1, <1>6 DEF Int64
<1>8. ToDuration(CeilSeconds(d)) = (n \div Second) * Second
    BY <1>4, <1>7, WrapKeepsInt64 DEF ToDuration
<1> QED
    BY <1>4, <1>5, <1>6, <1>8

(* NewKeepaliveSandboxRequest and TTL: a negative lifetime stays negative.  *)
LEMMA NegativeTravels ==
    ASSUME LimitsAssumption, NEW d \in Int64, d < 0
    PROVE  ToDuration(KeepaliveSeconds(d)) \in Int /\ ToDuration(KeepaliveSeconds(d)) < 0
<1> DEFINE a == -d
           q == a \div Second
<1>1. Second \in Nat \ {0} /\ Half \in Nat /\ Second <= Half
    BY DEF LimitsAssumption
<1>2. a \in Nat /\ a <= Half
    BY <1>1 DEF Int64
<1>3. q \in Nat /\ q * Second \in Int /\ q * Second <= a
    BY <1>1, <1>2, DivisionRoundsDown
<1>4. Quotient(d, Second) = -q
    BY DEF Quotient, Int64
<1> HIDE DEF a, q
<1>5. CASE q = 0
    <2>1. KeepaliveSeconds(d) = -1
        BY <1>4, <1>5 DEF KeepaliveSeconds, Smaller
    <2>2. -1 * Second = -Second /\ -Second \in Int64
        BY <1>1 DEF Int64
    <2>3. ToDuration(KeepaliveSeconds(d)) = -Second
        BY <2>1, <2>2, WrapKeepsInt64 DEF ToDuration
    <2> QED
        BY <1>1, <2>3
<1>6. CASE q # 0
    <2>1. KeepaliveSeconds(d) = -q
        BY <1>3, <1>4, <1>6 DEF KeepaliveSeconds, Smaller
    <2>2. (-q) * Second = -(q * Second)
        BY <1>1, <1>3
    <2>3. q * Second > 0
        BY <1>1, <1>3, <1>6
    <2>4. -(q * Second) \in Int64
        BY <1>1, <1>2, <1>3, <2>3 DEF Int64
    <2>5. ToDuration(KeepaliveSeconds(d)) = -(q * Second)
        BY <2>1, <2>2, <2>4, WrapKeepsInt64 DEF ToDuration
    <2> QED
        BY <1>3, <2>3, <2>5
<1> QED
    BY <1>5, <1>6

(* parseMemory: a limit that is not turned away is the product, exactly.    *)
LEMMA MemoryIsExact ==
    ASSUME LimitsAssumption, NEW k \in Nat, NEW u \in Nat \ {0},
           MemoryLimit(k, u) # Rejected
    PROVE  MemoryLimit(k, u) = k * u
<1> DEFINE h == Half \div 2
<1>1. Half \in Nat /\ h \in Nat /\ 2 * h <= Half /\ Half # 0
    BY DEF LimitsAssumption
<1> HIDE DEF h
<1>2. k <= h \div u
    BY DEF MemoryLimit, h
<1>3. h \div u \in Nat /\ (h \div u) * u \in Int /\ (h \div u) * u <= h
    BY <1>1, DivisionRoundsDown
<1>4. ASSUME NEW x \in Nat, NEW y \in Nat, x <= y
      PROVE  x * u <= y * u
    BY <1>4
<1>5. k * u <= (h \div u) * u
    BY <1>2, <1>3, <1>4
<1>6. k * u \in Nat
    OBVIOUS
<1>7. k * u \in Int64
    BY <1>1, <1>3, <1>5, <1>6 DEF Int64
<1> QED
    BY <1>7, WrapKeepsInt64 DEF MemoryLimit
-----------------------------------------------------------------------------
(* What is granted.                                                         *)

(* Lifetimes that fit a time.Duration, there and back, and memory limits    *)
(* that are not negative.  (api.go:57, spec_resolve.go:90: others wrap.)     *)
LifetimesFit ==
    /\ \A d \in Lifetimes : d <= Half - Second
    /\ \A n \in WireSeconds : n * Second \in Int64

Fits == LifetimesFit /\ Digits \subseteq Nat

(* GrantedAsAsked, of one request and what it is given.                     *)
TTLAsAsked(i, ttl) ==
    LET d == Lifetime(i) IN
    \/ d > 0 /\ ttl \in Smaller(d, MaxTTL) .. Smaller(d + Second - 1, MaxTTL)
    \/ d = 0 /\ ttl = DefaultTTL
    \/ d < 0 /\ i.op = "create" /\ Seconds(i) = 0 /\ ttl = DefaultTTL

AsAsked(i, g) == g.memory = Memory(i) /\ TTLAsAsked(i, g.ttl)

(* Terms: a lifetime is that of a Go client, which converts it, or seconds  *)
(* on the wire, or left out.                                                *)
LEMMA LifetimeOfTerms ==
    ASSUME NEW i \in Input, i.op \in {"create", "keepalive"}
    PROVE  \/ /\ Lifetime(i) \in Lifetimes
              /\ Seconds(i) = IF i.op = "create" THEN CeilSeconds(Lifetime(i))
                                                 ELSE KeepaliveSeconds(Lifetime(i))
           \/ Seconds(i) \in WireSeconds /\ Lifetime(i) = Seconds(i) * Second
           \/ i.op = "create" /\ Lifetime(i) = 0 /\ Seconds(i) = 0
<1>1. i.terms \in Terms(i.op)
    BY DEF Input
<1>2. CASE i.op = "create"
    BY <1>1, <1>2 DEF Terms, Lifetime, Seconds
<1>3. CASE i.op = "keepalive"
    BY <1>1, <1>3 DEF Terms, Lifetime, Seconds
<1> QED
    BY <1>2, <1>3

LEMMA MemoryOfTerms ==
    ASSUME LimitsAssumption, RequestsAssumption,
           NEW i \in Input, i.op \in {"create", "keepalive"}
    PROVE  /\ i.terms[2][1] \in Int /\ i.terms[2][2] \in Nat \ {0}
           /\ Fits => i.terms[2][1] \in Nat
<1>1. i.terms \in Terms(i.op)
    BY DEF Input
<1>2. i.terms[2] = <<MinMemoryLimit, 1>> \/ i.terms[2] \in Digits \X Units
    BY <1>1 DEF Terms
<1>3. /\ MinMemoryLimit \in Nat /\ Digits \subseteq Int /\ Units \subseteq Nat \ {0}
      /\ Fits => Digits \subseteq Nat
    BY DEF LimitsAssumption, RequestsAssumption, Int64, Fits
<1>4. CASE i.terms[2] = <<MinMemoryLimit, 1>>
    <2>1. i.terms[2][1] = MinMemoryLimit /\ i.terms[2][2] = 1
        BY <1>4
    <2> QED
        BY <1>3, <2>1
<1>5. CASE i.terms[2] \in Digits \X Units
    <2>1. i.terms[2][1] \in Digits /\ i.terms[2][2] \in Units
        BY <1>5
    <2> QED
        BY <1>3, <2>1
<1> QED
    BY <1>2, <1>4, <1>5

(* ResolveTTL and the clamp of keepalive keep what was asked for up to the  *)
(* cap, and turn away what is below zero.                                   *)
LEMMA ResolveKeeps ==
    ASSUME LimitsAssumption, NEW d \in Int
    PROVE  /\ d = 0 => ResolveTTL(d) = DefaultTTL /\ ClampTTL(d) = DefaultTTL
           /\ d < 0 => ResolveTTL(d) = Rejected /\ ClampTTL(d) = Rejected
           /\ d > 0 => /\ ResolveTTL(d) \in {d, Rejected}
                       /\ ResolveTTL(d) = d => d <= MaxTTL
                       /\ ClampTTL(d) = Smaller(d, MaxTTL)
<1>1. MaxTTL \in Nat /\ MaxTTL >= 1 /\ Rejected \notin Int
    BY DEF LimitsAssumption
<1>2. d = 0 => Smaller(d, MaxTTL) = 0
    BY <1>1 DEF Smaller
<1>3. d < 0 => Smaller(d, MaxTTL) = d
    BY <1>1 DEF Smaller
<1>4. d > 0 => Smaller(d, MaxTTL) \in 1 .. MaxTTL
    BY <1>1 DEF Smaller
<1> QED
    BY <1>1, <1>2, <1>3, <1>4 DEF ResolveTTL, ClampTTL
(* A lifetime that arrives rounded up by less than a second is granted as   *)
(* it was asked for, or turned away.                                        *)
LEMMA RoundedIsAsAsked ==
    ASSUME LimitsAssumption, NEW i \in Input, Lifetime(i) \in Int, Lifetime(i) >= 0,
           NEW r \in Int, ToDuration(Seconds(i)) = r,
           r \in Lifetime(i) .. Lifetime(i) + Second - 1,
           Lifetime(i) = 0 => r = 0,
           GrantedTTL(i) # Rejected
    PROVE  TTLAsAsked(i, GrantedTTL(i))
<1> DEFINE d == Lifetime(i)
<1>1. MaxTTL \in Nat /\ Second \in Nat \ {0}
    BY DEF LimitsAssumption
<1>2. GrantedTTL(i) = IF i.op = "create" THEN ResolveTTL(r) ELSE ClampTTL(r)
    BY DEF GrantedTTL
<1>3. CASE d = 0
    BY <1>2, <1>3, ResolveKeeps DEF TTLAsAsked
<1>4. CASE d > 0
    <2>1. GrantedTTL(i) \in {r, Smaller(r, MaxTTL)}
        BY <1>2, <1>4, ResolveKeeps
    <2>2. GrantedTTL(i) = r => r <= MaxTTL \/ Smaller(r, MaxTTL) = r
        BY <1>2, <1>4, ResolveKeeps
    <2>3. GrantedTTL(i) = Smaller(r, MaxTTL)
        BY <1>1, <2>1, <2>2 DEF Smaller
    <2>4. Smaller(r, MaxTTL) \in Smaller(d, MaxTTL) .. Smaller(d + Second - 1, MaxTTL)
        BY <1>1, <1>4 DEF Smaller
    <2> QED
        BY <1>4, <2>3, <2>4 DEF TTLAsAsked
<1> QED
    BY <1>3, <1>4

LEMMA LifetimeIsGranted ==
    ASSUME LimitsAssumption, RequestsAssumption, Fits,
           NEW i \in Input, i.op \in {"create", "keepalive"},
           GrantedTTL(i) # Rejected
    PROVE  TTLAsAsked(i, GrantedTTL(i))
<1> DEFINE d == Lifetime(i)
           sent == Seconds(i)
           r == ToDuration(sent)
<1>1. /\ Second \in Nat \ {0} /\ Half \in Nat /\ Half # 0
      /\ Lifetimes \subseteq Int64 /\ WireSeconds \subseteq Int64
    BY DEF LimitsAssumption, RequestsAssumption
<1>2. 0 \in Int64 /\ ToDuration(0) = 0
    <2>1. 0 \in Int64 /\ 0 * Second = 0
        BY <1>1 DEF Int64
    <2> QED
        BY <2>1, WrapKeepsInt64 DEF ToDuration
<1>3. CASE d = 0 /\ sent = 0
    BY <1>1, <1>2, <1>3, RoundedIsAsAsked
<1>4. ASSUME sent \in WireSeconds, d = sent * Second
      PROVE  TTLAsAsked(i, GrantedTTL(i))
    <2>1. sent \in Int /\ d \in Int64
        <3>1. sent \in Int64
            BY <1>1, <1>4
        <3>2. d \in Int64
            BY <1>4 DEF Fits, LifetimesFit
        <3> HIDE DEF d, sent
        <3> QED
            BY <1>1, <3>1, <3>2 DEF Int64
    <2>2. d \in Int /\ r = d
        BY <1>1, <1>4, <2>1, WrapKeepsInt64 DEF ToDuration, Int64
    <2>3. CASE d < 0
        <3>1. GrantedTTL(i) = Rejected
            BY <2>2, <2>3, ResolveKeeps DEF GrantedTTL
        <3> QED
            BY <3>1
    <2>4. CASE d >= 0
        <3>1. r \in d .. d + Second - 1
            BY <1>1, <2>2, <2>4
        <3> QED
            BY <2>2, <2>4, <3>1, RoundedIsAsAsked
    <2> QED
        BY <2>2, <2>3, <2>4
<1>5. ASSUME d \in Lifetimes,
             sent = IF i.op = "create" THEN CeilSeconds(d) ELSE KeepaliveSeconds(d)
      PROVE  TTLAsAsked(i, GrantedTTL(i))
    <2>1. d \in Int64 /\ d \in Int /\ d <= Half - Second
        <3>1. d \in Int64
            BY <1>1, <1>5
        <3>2. d <= Half - Second
            BY <1>5 DEF Fits, LifetimesFit
        <3> HIDE DEF d
        <3> QED
            BY <1>1, <3>1, <3>2 DEF Int64
    <2>2. CASE d > 0
        <3>1. sent = CeilSeconds(d)
            BY <1>5, <2>1, <2>2 DEF KeepaliveSeconds
        <3>2. r \in d .. d + Second - 1 /\ r \in Int
            BY <1>1, <2>1, <2>2, <3>1, CeilTravels
        <3> QED
            BY <2>1, <2>2, <3>2, RoundedIsAsAsked
    <2>3. CASE d = 0
        <3>1. sent = 0
            BY <1>5, <2>3 DEF KeepaliveSeconds, CeilSeconds
        <3> QED
            BY <1>3, <2>3, <3>1
    <2>4. CASE d < 0 /\ i.op = "create"
        <3>1. sent = 0
            BY <1>5, <2>1, <2>4 DEF CeilSeconds
        <3>2. GrantedTTL(i) = DefaultTTL
            BY <1>2, <2>4, <3>1, ResolveKeeps DEF GrantedTTL
        <3> QED
            BY <2>4, <3>1, <3>2 DEF TTLAsAsked
    <2>5. CASE d < 0 /\ i.op = "keepalive"
        <3>1. r \in Int /\ r < 0
            BY <1>5, <2>1, <2>5, NegativeTravels
        <3>2. GrantedTTL(i) = Rejected
            BY <2>5, <3>1, ResolveKeeps DEF GrantedTTL
        <3> QED
            BY <3>2
    <2> QED
        BY <2>1, <2>2, <2>3, <2>4, <2>5
<1> QED
    BY <1>3, <1>4, <1>5, LifetimeOfTerms

(* Whatever is granted is granted as it was asked for.                      *)
LEMMA GrantIsAsked ==
    ASSUME LimitsAssumption, RequestsAssumption, Fits,
           NEW i \in Input, i.op \in {"create", "keepalive"}, TermErrs(i) = {}
    PROVE  AsAsked(i, [ttl |-> GrantedTTL(i), memory |-> GrantedMemory(i)])
<1>1. GrantedTTL(i) # Rejected /\ GrantedMemory(i) # Rejected
    BY DEF TermErrs
<1>2. TTLAsAsked(i, GrantedTTL(i))
    BY <1>1, LifetimeIsGranted
<1>3. GrantedMemory(i) = Memory(i)
    BY <1>1, MemoryOfTerms, MemoryIsExact DEF GrantedMemory, Memory
<1> QED
    BY <1>2, <1>3 DEF AsAsked
-----------------------------------------------------------------------------
(* What is known of one request, at every step of it.                       *)

Functions == \A f \in {at, input, granted, witnessed} : f = [c \in Call |-> f[c]]

(* A request has changed nothing before it arrives, asks the store only for *)
(* what is done there, and is past the gate only if it saw a running row.   *)
Gated(c) ==
    /\ at[c] = "idle" => c \notin touched
    /\ at[c] \in {"control", "stop", "refused"} => input[c].op \notin Inside
    /\ at[c] \in {"stop", "refused"} => input[c].op = "destroy"
    /\ at[c] \in {"gate", "lookup", "perform"} => input[c].op \in Inside
    /\ input[c].op \in Inside /\ (at[c] \in {"lookup", "perform"} \/ c \in touched)
           => "running row" \in witnessed[c]

(* It is given nothing before it arrives, and what it asked for then.       *)
Given(c) ==
    /\ at[c] # "idle" => input[c] \in Input
    /\ at[c] = "idle" => granted[c] = NoGrant
    /\ granted[c] # NoGrant => AsAsked(input[c], granted[c])

AllGated == Functions /\ \A c \in Call : Gated(c)

AllGiven == Functions /\ \A c \in Call : Given(c)

(* Of the server: the store is closed behind it, and a clean return leaves  *)
(* nobody.                                                                  *)
ServerInv ==
    /\ ~storeOpen => server \in {"returned", "exited"}
    /\ failure = "none" /\ server \in {"returned", "exited"} => InFlight = {}

LEMMA InitialRequests == Init => AllGated /\ AllGiven
<1> SUFFICES ASSUME Init PROVE AllGated /\ AllGiven
    OBVIOUS
<1>1. Functions
    BY DEF Init, Functions
<1>2. ASSUME NEW c \in Call PROVE Gated(c)
    BY DEF Init, Gated, NoInput, Inside
<1>3. ASSUME NEW c \in Call PROVE Given(c)
    BY DEF Init, Given
<1> QED
    BY <1>1, <1>2, <1>3 DEF AllGated, AllGiven

(* A step of one request leaves the others where they are.                  *)
Others(c) ==
    /\ at' = [at EXCEPT ![c] = at'[c]]
    /\ input' = [input EXCEPT ![c] = input'[c]]
    /\ granted' = [granted EXCEPT ![c] = granted'[c]]
    /\ touched' \subseteq touched \union {c}

LEMMA HandlesItsOwn ==
    ASSUME Functions, NEW c \in Call, Handle(c)
    PROVE  Others(c)
<1>1. /\ at = [b \in Call |-> at[b]] /\ input = [b \in Call |-> input[b]]
      /\ granted = [b \in Call |-> granted[b]]
    BY DEF Functions
<1>2. ASSUME NEW f, NEW x, NEW g, f = [b \in Call |-> f[b]],
             g = [f EXCEPT ![c] = x] \/ g = f
      PROVE  g = [f EXCEPT ![c] = g[c]]
    BY <1>2
<1>3. /\ \E x : at' = [at EXCEPT ![c] = x] \/ at' = at
      /\ \E x : input' = [input EXCEPT ![c] = x] \/ input' = input
      /\ \E x : granted' = [granted EXCEPT ![c] = x] \/ granted' = granted
      /\ touched' \subseteq touched \union {c}
    <2>1. CASE Arrive(c)
        BY <2>1 DEF Arrive, Answer, Proceed, Untouched
    <2>2. CASE Creates(c) \/ Keepalives(c)
        BY <2>2 DEF Creates, Keepalives, Answer, Fails, Untouched, Moves, Grant
    <2>3. CASE DestroyReads(c) \/ DestroyStops(c) \/ ShowsRows(c)
        BY <2>3 DEF DestroyReads, DestroyStops, ShowsRows, Answer, Fails, Proceed,
                    Untouched, Moves
    <2>4. CASE EnsureRunning(c) \/ Lookup(c) \/ Reads(c)
        BY <2>4 DEF EnsureRunning, Lookup, Reads, Answer, Fails, Proceed, Untouched
    <2>5. CASE Writes(c) \/ Execs(c) \/ Removes(c)
        BY <2>5 DEF Writes, Execs, Removes, Answer, Fails, Untouched, Leaves
    <2> QED
        BY <2>1, <2>2, <2>3, <2>4, <2>5 DEF Handle, OnRow, InContainer
<1> QED
    BY <1>1, <1>2, <1>3 DEF Others
(* No request starts over.                                                  *)
LEMMA StaysArrived ==
    ASSUME Functions, NEW c \in Call, Handle(c)
    PROVE  at'[c] # "idle"
<1>1. at = [b \in Call |-> at[b]]
    BY DEF Functions
<1>2. \/ \E r : Answer(c, r)
      \/ \E step \in {"gate", "control", "stop", "refused", "lookup", "perform"} : Proceed(c, step)
    <2>1. CASE Arrive(c)
        BY <2>1 DEF Arrive
    <2>2. CASE Creates(c) \/ Keepalives(c)
        BY <2>2 DEF Creates, Keepalives, Fails
    <2>3. CASE DestroyReads(c) \/ DestroyStops(c) \/ ShowsRows(c)
        BY <2>3 DEF DestroyReads, DestroyStops, ShowsRows, Fails
    <2>4. CASE EnsureRunning(c) \/ Lookup(c) \/ Reads(c)
        BY <2>4 DEF EnsureRunning, Lookup, Reads, Fails
    <2>5. CASE Writes(c) \/ Execs(c) \/ Removes(c)
        BY <2>5 DEF Writes, Execs, Removes, Fails
    <2> QED
        BY <2>1, <2>2, <2>3, <2>4, <2>5 DEF Handle, OnRow, InContainer
<1> QED
    BY <1>1, <1>2 DEF Answer, Proceed

LEMMA FunctionsStay ==
    ASSUME Functions, Observe,
           UNCHANGED requestVars \/ \E c \in Call : Others(c)
    PROVE  Functions'
<1>1. witnessed' = [b \in Call |-> witnessed'[b]]
    BY DEF Observe
<1>2. CASE UNCHANGED requestVars
    BY <1>1, <1>2 DEF Functions, requestVars
<1>3. ASSUME NEW c \in Call, Others(c)
      PROVE  Functions'
    <2>1. ASSUME NEW f, NEW x, NEW g, f = [b \in Call |-> f[b]], g = [f EXCEPT ![c] = x]
          PROVE  g = [b \in Call |-> g[b]]
        BY <2>1
    <2>2. /\ at' = [b \in Call |-> at'[b]] /\ input' = [b \in Call |-> input'[b]]
          /\ granted' = [b \in Call |-> granted'[b]]
        BY <1>3, <2>1 DEF Functions, Others
    <2> QED
        BY <1>1, <2>2 DEF Functions
<1> QED
    BY <1>2, <1>3

(* What is seen is never forgotten, and every step of a request but its     *)
(* first sees the state it starts from.                                     *)
LEMMA SeesMore ==
    ASSUME Functions, Observe, NEW b \in Call
    PROVE  /\ witnessed[b] \subseteq witnessed'[b]
           /\ at[b] \notin {"idle", "done"} => Facts(input[b].op) \subseteq witnessed'[b]
BY DEF Functions, Observe

(* ensureRunning: the gate opens when the row says running, and at no other *)
(* time; the request sees it.                                               *)
LEMMA OpenGateIsSeen ==
    ASSUME NEW op \in Inside, Gate = {}
    PROVE  "running row" \in Facts(op)
<1>1. row = "running" /\ row # Absent
    BY DEF Gate, Absent
<1>2. "running row" \in RowFacts \ {"row", "live row", "row past running"}
    BY <1>1 DEF RowFacts
<1> QED
    BY <1>2 DEF Facts

LEMMA OthersGated ==
    ASSUME AllGated, Observe, NEW c \in Call, Others(c), NEW b \in Call, b # c
    PROVE  Gated(b)'
<1>1. at'[b] = at[b] /\ input'[b] = input[b] /\ (b \in touched' => b \in touched)
    BY DEF AllGated, Functions, Others
<1>2. witnessed[b] \subseteq witnessed'[b]
    BY SeesMore DEF AllGated
<1>3. Gated(b)
    BY DEF AllGated
<1> QED
    BY <1>1, <1>2, <1>3 DEF Gated

LEMMA HandlerGated ==
    ASSUME AllGated, Observe, NEW c \in Call, Handle(c), Others(c)
    PROVE  Gated(c)'
<1>1. Functions /\ Gated(c)
    BY DEF AllGated
<1>2. witnessed[c] \subseteq witnessed'[c]
    BY <1>1, SeesMore
<1>3. /\ at' = [at EXCEPT ![c] = at'[c]] /\ at = [b \in Call |-> at[b]]
      /\ input = [b \in Call |-> input[b]]
    BY <1>1 DEF Others, Functions
<1>4. at'[c] # "idle"
    BY <1>1, StaysArrived
<1>5. CASE Arrive(c)
    <2>1. at[c] = "idle" /\ c \notin touched /\ c \notin touched'
        BY <1>1, <1>5 DEF Arrive, Gated, Untouched
    <2>2. \/ at'[c] = "done"
          \/ at'[c] = "gate" /\ input'[c].op \in Inside
          \/ at'[c] = "control" /\ input'[c].op \notin Inside
        <3>1. PICK i \in Input :
                  /\ input' = [input EXCEPT ![c] = i]
                  /\ IF Undecodable(i) THEN Answer(c, DecodeReply(i))
                     ELSE Proceed(c, IF i.op \in Inside THEN "gate" ELSE "control")
            BY <1>5 DEF Arrive
        <3>2. input'[c] = i
            BY <1>3, <3>1
        <3> QED
            BY <1>3, <3>1, <3>2 DEF Answer, Proceed
    <2>3. CASE at'[c] = "done"
        BY <2>1, <2>3 DEF Gated
    <2>4. CASE at'[c] = "gate" /\ input'[c].op \in Inside
        BY <2>1, <2>4 DEF Gated
    <2>5. CASE at'[c] = "control" /\ input'[c].op \notin Inside
        BY <2>1, <2>5 DEF Gated
    <2> QED
        BY <2>2, <2>3, <2>4, <2>5
<1>6. CASE OnRow(c)
    <2>1. at[c] \in {"control", "stop", "refused"} /\ input' = input
        BY <1>6 DEF OnRow, Creates, Keepalives, DestroyReads, DestroyStops, ShowsRows
    <2>2. input[c].op \notin Inside
        BY <1>1, <2>1 DEF Gated
    <2>3. at'[c] = "done" \/ (at'[c] \in {"stop", "refused"} /\ input[c].op = "destroy")
        <3>1. CASE Creates(c) \/ Keepalives(c)
            BY <1>3, <3>1 DEF Creates, Keepalives, Answer, Fails
        <3>2. CASE DestroyReads(c) \/ DestroyStops(c) \/ ShowsRows(c)
            BY <1>3, <3>2 DEF DestroyReads, DestroyStops, ShowsRows, Answer, Fails, Proceed
        <3> QED
            BY <1>6, <3>1, <3>2 DEF OnRow
    <2> QED
        BY <2>1, <2>2, <2>3 DEF Gated
<1>7. CASE EnsureRunning(c)
    <2>1. at[c] = "gate" /\ input' = input /\ touched' = touched
        BY <1>7 DEF EnsureRunning, Untouched
    <2>2. \/ at'[c] = "done"
          \/ at'[c] = "lookup" /\ Gate = {}
        BY <1>3, <1>7 DEF EnsureRunning, Answer, Fails, Proceed
    <2>3. input[c].op \in Inside /\ Gate = {} => "running row" \in witnessed'[c]
        BY <1>1, <2>1, SeesMore, OpenGateIsSeen
    <2> QED
        BY <1>1, <1>2, <2>1, <2>2, <2>3 DEF Gated
<1>8. CASE InContainer(c)
    <2>1. at[c] \in {"lookup", "perform"} /\ input' = input
        BY <1>8 DEF InContainer, Lookup, Reads, Writes, Execs, Removes
    <2>2. at'[c] \in {"perform", "done"}
        <3>1. CASE Lookup(c)
            BY <1>3, <3>1 DEF Lookup, Answer, Fails, Proceed
        <3>2. CASE Reads(c) \/ Writes(c)
            BY <1>3, <3>2 DEF Reads, Writes, Answer, Fails
        <3>3. CASE Execs(c)
            BY <1>3, <3>3 DEF Execs, Answer, Fails
        <3>4. CASE Removes(c)
            BY <1>3, <3>4 DEF Removes, Answer, Fails
        <3> QED
            BY <1>8, <3>1, <3>2, <3>3, <3>4 DEF InContainer
    <2> QED
        BY <1>1, <1>2, <2>1, <2>2 DEF Gated
<1> QED
    BY <1>5, <1>6, <1>7, <1>8 DEF Handle

(* A step of one request keeps what is known of all.                        *)
LEMMA HandleKeepsGated ==
    ASSUME AllGated, Observe, NEW c \in Call, Handle(c)
    PROVE  AllGated'
<1>1. Others(c)
    BY HandlesItsOwn DEF AllGated
<1>2. Functions'
    BY <1>1, FunctionsStay DEF AllGated
<1>3. ASSUME NEW b \in Call PROVE Gated(b)'
    BY <1>1, OthersGated, HandlerGated
<1> QED
    BY <1>2, <1>3 DEF AllGated

LEMMA HandleKeepsGiven ==
    ASSUME LimitsAssumption, RequestsAssumption, Fits,
           AllGiven, Observe, NEW c \in Call, Handle(c)
    PROVE  AllGiven'
<1>1. Functions /\ Given(c)
    BY DEF AllGiven
<1>2. Others(c) /\ at'[c] # "idle"
    BY <1>1, HandlesItsOwn, StaysArrived
<1>3. Functions'
    BY <1>1, <1>2, FunctionsStay
<1>4. ASSUME NEW b \in Call, b # c PROVE Given(b)'
    <2>1. at'[b] = at[b] /\ input'[b] = input[b] /\ granted'[b] = granted[b]
        BY <1>1, <1>2, <1>4 DEF Functions, Others
    <2>2. Given(b)
        BY DEF AllGiven
    <2> QED
        BY <2>1, <2>2 DEF Given, AsAsked, TTLAsAsked, Lifetime, Seconds, Memory
<1>5. Given(c)'
    <2>1. /\ input = [b \in Call |-> input[b]] /\ granted = [b \in Call |-> granted[b]]
        BY <1>1 DEF Functions
    <2>2. CASE Arrive(c)
        <3>1. at[c] = "idle" /\ granted' = granted /\ input'[c] \in Input
            BY <2>1, <2>2 DEF Arrive
        <3>2. granted'[c] = NoGrant
            BY <1>1, <3>1 DEF Given
        <3> QED
            BY <1>2, <3>1, <3>2 DEF Given
    <2>3. CASE Creates(c) \/ Keepalives(c)
        <3>1. /\ at[c] = "control" /\ input' = input
              /\ input[c].op \in {"create", "keepalive"}
              /\ granted' = granted \/ (TermErrs(input[c]) = {} /\ Grant(c))
            BY <2>3 DEF Creates, Keepalives
        <3>2. input[c] \in Input
            BY <1>1, <3>1 DEF Given
        <3>3. CASE granted' = granted
            BY <1>1, <1>2, <3>1, <3>2, <3>3
                DEF Given, AsAsked, TTLAsAsked, Lifetime, Seconds, Memory
        <3>4. CASE TermErrs(input[c]) = {} /\ Grant(c)
            <4>1. AsAsked(input[c], [ttl |-> GrantedTTL(input[c]),
                                     memory |-> GrantedMemory(input[c])])
                BY <3>1, <3>2, <3>4, GrantIsAsked
            <4>2. granted'[c] = [ttl |-> GrantedTTL(input[c]),
                                 memory |-> GrantedMemory(input[c])]
                BY <2>1, <3>4 DEF Grant
            <4>3. AsAsked(input'[c], granted'[c])
                BY <3>1, <4>1, <4>2
            <4> QED
                BY <1>2, <3>1, <3>2, <4>3
                    DEF Given, AsAsked, TTLAsAsked, Lifetime, Seconds, Memory
        <3> QED
            BY <3>1, <3>3, <3>4
    <2>4. CASE ~(Arrive(c) \/ Creates(c) \/ Keepalives(c))
        <3>1. at[c] # "idle" /\ input' = input /\ granted' = granted
            BY <2>4 DEF Handle, OnRow, InContainer, DestroyReads, DestroyStops, ShowsRows,
                        EnsureRunning, Lookup, Reads, Writes, Execs, Removes
        <3> QED
            BY <1>1, <1>2, <3>1 DEF Given, AsAsked, TTLAsAsked, Lifetime, Seconds, Memory
    <2> QED
        BY <2>2, <2>3, <2>4
<1> QED
    BY <1>3, <1>4, <1>5 DEF AllGiven

-----------------------------------------------------------------------------
(* What is answered to a request that changed something.                    *)

Mistake == 400 .. 499

(* classify: what each sentinel is answered with, each standing in one row  *)
(* of the table.                                                            *)
LEMMA OneRowClassifies ==
    ASSUME NEW S, NEW k \in 1 .. 8,
           \A i \in 1 .. 8 : ClassTable[i].any \cap S # {} <=> i = k
    PROVE  Classify(S) = ClassTable[k].reply
<1> DEFINE rows == {i \in DOMAIN ClassTable : ClassTable[i].any \cap S # {}}
<1>1. DOMAIN ClassTable = 1 .. 8
    BY DEF ClassTable
<1>2. rows = {k}
    BY <1>1
<1>3. Min(rows) = k
    BY <1>2 DEF Min
<1> HIDE DEF rows
<1>4. Classify(S) = IF rows = {} THEN Says(500, "server") ELSE ClassTable[Min(rows)].reply
    BY DEF Classify, rows
<1> QED
    BY <1>2, <1>3, <1>4

LEMMA Classified ==
    /\ Classify({"other"}) = Says(500, "server")
    /\ Classify({"invalid_spec"}) = Says(422, "input")
    /\ Classify({"invalid_transition"}) = Says(409, "sandbox")
    /\ Classify({"not_running"}) = Says(409, "sandbox")
    /\ Classify({"invalid_path"}) = Says(422, "input")
    /\ Classify({"path_not_found"}) = Says(404, "path")
    /\ Classify({"file_too_large"}) = Says(413, "path")
    /\ Classify({"too_many_files"}) = Says(413, "path")
    /\ Classify({"exec_timeout"}) = Says(504, "command")
    /\ Classify({"exec_timeout", "exec_not_killed"}) = Says(504, "command")
    /\ Classify({"not_found"}) = Says(404, "sandbox")
<1>1. Classify({"other"}) = Says(500, "server")
    <2>1. DOMAIN ClassTable = 1 .. 8
        BY DEF ClassTable
    <2>2. \A i \in 1 .. 8 : ClassTable[i].any \cap {"other"} = {}
        BY DEF ClassTable
    <2> QED
        BY <2>1, <2>2 DEF Classify
<1>2. Classify({"invalid_spec"}) = Says(422, "input")
    <2>1. \A i \in 1 .. 8 : ClassTable[i].any \cap {"invalid_spec"} # {} <=> i = 2
        BY DEF ClassTable
    <2>2. ClassTable[2].reply = Says(422, "input")
        BY DEF ClassTable
    <2>3. Classify({"invalid_spec"}) = ClassTable[2].reply
        BY <2>1, OneRowClassifies
    <2> QED
        BY <2>2, <2>3
<1>3. /\ Classify({"invalid_transition"}) = Says(409, "sandbox")
      /\ Classify({"not_running"}) = Says(409, "sandbox")
    <2>1. \A i \in 1 .. 8 : ClassTable[i].any \cap {"invalid_transition"} # {} <=> i = 3
        BY DEF ClassTable
    <2>2. \A i \in 1 .. 8 : ClassTable[i].any \cap {"not_running"} # {} <=> i = 3
        BY DEF ClassTable
    <2>3. ClassTable[3].reply = Says(409, "sandbox")
        BY DEF ClassTable
    <2>4. Classify({"invalid_transition"}) = ClassTable[3].reply
        BY <2>1, OneRowClassifies
    <2>5. Classify({"not_running"}) = ClassTable[3].reply
        BY <2>2, OneRowClassifies
    <2> QED
        BY <2>3, <2>4, <2>5
<1>4. Classify({"invalid_path"}) = Says(422, "input")
    <2>1. \A i \in 1 .. 8 : ClassTable[i].any \cap {"invalid_path"} # {} <=> i = 4
        BY DEF ClassTable
    <2>2. ClassTable[4].reply = Says(422, "input")
        BY DEF ClassTable
    <2>3. Classify({"invalid_path"}) = ClassTable[4].reply
        BY <2>1, OneRowClassifies
    <2> QED
        BY <2>2, <2>3
<1>5. Classify({"path_not_found"}) = Says(404, "path")
    <2>1. \A i \in 1 .. 8 : ClassTable[i].any \cap {"path_not_found"} # {} <=> i = 5
        BY DEF ClassTable
    <2>2. ClassTable[5].reply = Says(404, "path")
        BY DEF ClassTable
    <2>3. Classify({"path_not_found"}) = ClassTable[5].reply
        BY <2>1, OneRowClassifies
    <2> QED
        BY <2>2, <2>3
<1>6. /\ Classify({"file_too_large"}) = Says(413, "path")
      /\ Classify({"too_many_files"}) = Says(413, "path")
    <2>1. \A i \in 1 .. 8 : ClassTable[i].any \cap {"file_too_large"} # {} <=> i = 6
        BY DEF ClassTable
    <2>2. \A i \in 1 .. 8 : ClassTable[i].any \cap {"too_many_files"} # {} <=> i = 6
        BY DEF ClassTable
    <2>3. ClassTable[6].reply = Says(413, "path")
        BY DEF ClassTable
    <2>4. Classify({"file_too_large"}) = ClassTable[6].reply
        BY <2>1, OneRowClassifies
    <2>5. Classify({"too_many_files"}) = ClassTable[6].reply
        BY <2>2, OneRowClassifies
    <2> QED
        BY <2>3, <2>4, <2>5
<1>7. /\ Classify({"exec_timeout"}) = Says(504, "command")
      /\ Classify({"exec_timeout", "exec_not_killed"}) = Says(504, "command")
    <2>1. \A i \in 1 .. 8 : ClassTable[i].any \cap {"exec_timeout"} # {} <=> i = 7
        BY DEF ClassTable
    <2>2. \A i \in 1 .. 8 : ClassTable[i].any \cap {"exec_timeout", "exec_not_killed"} # {} <=> i = 7
        BY DEF ClassTable
    <2>3. ClassTable[7].reply = Says(504, "command")
        BY DEF ClassTable
    <2>4. Classify({"exec_timeout"}) = ClassTable[7].reply
        BY <2>1, OneRowClassifies
    <2>5. Classify({"exec_timeout", "exec_not_killed"}) = ClassTable[7].reply
        BY <2>2, OneRowClassifies
    <2> QED
        BY <2>3, <2>4, <2>5
<1>8. Classify({"not_found"}) = Says(404, "sandbox")
    <2>1. \A i \in 1 .. 8 : ClassTable[i].any \cap {"not_found"} # {} <=> i = 8
        BY DEF ClassTable
    <2>2. ClassTable[8].reply = Says(404, "sandbox")
        BY DEF ClassTable
    <2>3. Classify({"not_found"}) = ClassTable[8].reply
        BY <2>1, OneRowClassifies
    <2> QED
        BY <2>2, <2>3
<1> QED
    BY <1>1, <1>2, <1>3, <1>4, <1>5, <1>6, <1>7, <1>8

(* Neither an error classify does not know nor a timeout, killed or not, is *)
(* the client's mistake.                                                    *)
LEMMA NotMistakes ==
    /\ Classify({"other"}).status = 500
    /\ Classify({"exec_timeout"}).status = 504
    /\ Classify({"exec_timeout", "exec_not_killed"}).status = 504
BY Classified DEF Says

(* A request changes the sandbox in its last step only, and says so.        *)
Owned(c) == c \in touched => at[c] = "done" /\ reply[c].status \notin Mistake

AllOwned ==
    /\ at = [c \in Call |-> at[c]] /\ reply = [c \in Call |-> reply[c]]
    /\ \A c \in Call : Owned(c)

LEMMA HandleKeepsOwned ==
    ASSUME AllOwned, NEW c \in Call, Handle(c)
    PROVE  AllOwned'
<1>1. at = [b \in Call |-> at[b]] /\ reply = [b \in Call |-> reply[b]]
    BY DEF AllOwned
<1>2. at[c] # "done"
    BY DEF Handle, Arrive, OnRow, Creates, Keepalives, DestroyReads, DestroyStops, ShowsRows,
           EnsureRunning, InContainer, Lookup, Reads, Writes, Execs, Removes
<1>3. c \notin touched
    BY <1>2 DEF AllOwned, Owned
<1>4. \/ (\E r : Answer(c, r)) /\ touched' = touched
      \/ (\E step : Proceed(c, step)) /\ touched' = touched
      \/ (\E r : r.status \notin Mistake /\ Answer(c, r)) /\ touched' = touched \union {c}
    <2>1. /\ \A what : \A n \in {200, 202, 204} : Says(n, what).status \notin Mistake
          /\ Classify({"other"}).status \notin Mistake
          /\ Classify({"exec_timeout"}).status \notin Mistake
          /\ Classify({"exec_timeout", "exec_not_killed"}).status \notin Mistake
        BY NotMistakes DEF Says, Mistake
    <2>2. CASE Arrive(c)
        BY <2>2 DEF Arrive, Untouched
    <2>3. CASE Creates(c) \/ Keepalives(c)
        BY <2>1, <2>3 DEF Creates, Keepalives, Fails, Untouched, Moves
    <2>4. CASE DestroyReads(c) \/ DestroyStops(c) \/ ShowsRows(c)
        BY <2>1, <2>4 DEF DestroyReads, DestroyStops, ShowsRows, Fails, Untouched, Moves
    <2>5. CASE EnsureRunning(c) \/ Lookup(c) \/ Reads(c)
        BY <2>5 DEF EnsureRunning, Lookup, Reads, Fails, Untouched
    <2>6. CASE Writes(c)
        BY <2>1, <2>6 DEF Writes, Fails, Untouched, Leaves
    <2>7. CASE Execs(c)
        BY <2>1, <2>7 DEF Execs, Fails, Untouched, Leaves
    <2>8. CASE Removes(c)
        BY <2>1, <2>8 DEF Removes, Fails, Untouched, Leaves
    <2> QED
        BY <2>2, <2>3, <2>4, <2>5, <2>6, <2>7, <2>8 DEF Handle, OnRow, InContainer
<1>5. at' = [b \in Call |-> at'[b]] /\ reply' = [b \in Call |-> reply'[b]]
    BY <1>1, <1>4 DEF Answer, Proceed
<1>6. ASSUME NEW b \in Call, b # c PROVE Owned(b)'
    <2>1. at'[b] = at[b] /\ reply'[b] = reply[b] /\ (b \in touched' => b \in touched)
        BY <1>1, <1>4, <1>6 DEF Answer, Proceed
    <2> QED
        BY <2>1 DEF AllOwned, Owned
<1>7. Owned(c)'
    BY <1>1, <1>3, <1>4 DEF Answer, Owned
<1> QED
    BY <1>5, <1>6, <1>7 DEF AllOwned

-----------------------------------------------------------------------------
(* Types.                                                                   *)

Steps == {"gate", "control", "stop", "refused", "lookup", "perform"}

(* What a handler may do to the row, the container and its files.           *)
LEMMA HandlesWorld ==
    ASSUME TypeOK, NEW c \in Call, Handle(c)
    PROVE  \/ UNCHANGED <<worldVars, touched>>
           \/ \E to \in TaskState : Moves(c, to)
           \/ box # "none" /\ \E what \in Node : Leaves(c, what)
<1>1. /\ {"pending", "running", "stopping"} \subseteq TaskState
      /\ {"file", "absent"} \subseteq Node /\ node \in Node
    BY DEF TypeOK, TaskState, Node
<1>2. CASE Arrive(c)
    BY <1>2 DEF Arrive, Untouched
<1>3. CASE Creates(c) \/ Keepalives(c)
    BY <1>1, <1>3 DEF Creates, Keepalives, Untouched
<1>4. CASE DestroyReads(c) \/ DestroyStops(c) \/ ShowsRows(c)
    BY <1>1, <1>4 DEF DestroyReads, DestroyStops, ShowsRows, Untouched
<1>5. CASE EnsureRunning(c) \/ Lookup(c) \/ Reads(c)
    BY <1>5 DEF EnsureRunning, Lookup, Reads, Untouched
<1>6. CASE Writes(c)
    BY <1>1, <1>6 DEF Writes, Untouched
<1>7. CASE Execs(c)
    BY <1>7 DEF Execs, Untouched
<1>8. CASE Removes(c)
    <2>1. Remains \subseteq Node
        BY <1>1 DEF Remains, Node
    <2> QED
        BY <1>1, <1>8, <2>1 DEF Removes, Untouched
<1> QED
    BY <1>2, <1>3, <1>4, <1>5, <1>6, <1>7, <1>8 DEF Handle, OnRow, InContainer

(* It answers something, once, or goes on.                                  *)
LEMMA GateErrs ==
    /\ Gate # {} => Gate \in {{"not_found"}, {"not_running"}}
    /\ Gate = {"not_found"} => row = Absent
    /\ Gate = {"not_running"} => row \notin {Absent, "running"}
<1>1. CASE row = Absent
    BY <1>1 DEF Gate
<1>2. CASE row # Absent /\ row = "running"
    BY <1>2 DEF Gate, Absent
<1>3. CASE row # Absent /\ row # "running"
    BY <1>3 DEF Gate
<1> QED
    BY <1>1, <1>2, <1>3

LEMMA PathErrsOf ==
    ASSUME NEW i
    PROVE  \/ PathErrs(i) = {}
           \/ PathErrs(i) = {"invalid_path"}
           \/ PathErrs(i) = {"file_too_large"} /\ i.body = "overlong"
<1>1. CASE Invalid(i)
    BY <1>1 DEF PathErrs
<1>2. CASE ~Invalid(i) /\ i.body = "overlong"
    BY <1>2 DEF PathErrs
<1>3. CASE ~Invalid(i) /\ i.body # "overlong"
    BY <1>3 DEF PathErrs
<1> QED
    BY <1>1, <1>2, <1>3

LEMMA ReadErrsOf ==
    \/ ReadErrs = {"path_not_found"} /\ (box = "none" \/ node = "absent")
    \/ ReadErrs = {"file_too_large"} /\ box # "none" /\ node = "large"
    \/ ReadErrs = {} /\ box # "none" /\ node = "file"
    \/ ReadErrs = {"path_not_found"} /\ box # "none" /\ node \notin {"absent", "large", "file"}
<1>1. CASE box = "none" \/ node = "absent"
    BY <1>1 DEF ReadErrs
<1>2. CASE box # "none" /\ node = "large"
    BY <1>2 DEF ReadErrs
<1>3. CASE box # "none" /\ node = "file"
    BY <1>3 DEF ReadErrs
<1>4. CASE box # "none" /\ node \notin {"absent", "large", "file"}
    BY <1>4 DEF ReadErrs
<1> QED
    BY <1>1, <1>2, <1>3, <1>4

LEMMA ListErrsOf ==
    \/ ListErrs = {"path_not_found"} /\ (box = "none" \/ node = "absent")
    \/ /\ box # "none" /\ node # "absent"
       /\ ListErrs = IF \E i \in DOMAIN Archive : Cardinality(ListedBy(i)) > MaxTotalFiles
                     THEN {"too_many_files"} ELSE {}
<1>1. CASE box = "none" \/ node = "absent"
    BY <1>1 DEF ListErrs
<1>2. CASE box # "none" /\ node # "absent"
    BY <1>2 DEF ListErrs
<1> QED
    BY <1>1, <1>2

LEMMA AnswersOrGoesOn ==
    ASSUME NEW c \in Call, Handle(c)
    PROVE  /\ at[c] # "done"
           /\ \/ \E r : r # NoReply /\ Answer(c, r)
              \/ \E step \in Steps : Proceed(c, step)
<1>1. \A n \in {200, 202, 204, 400, 404, 409, 413, 422, 500, 504} :
          \A about : Says(n, about) # NoReply
    <2>1. \A n, about : Says(n, about).status = n
        BY DEF Says
    <2>2. NoReply.status = 0
        BY DEF NoReply
    <2> QED
        BY <2>1, <2>2
<1>2. \A S \in {{"other"}, {"invalid_spec"}, {"invalid_transition"}, {"not_running"},
                {"invalid_path"}, {"path_not_found"}, {"file_too_large"}, {"too_many_files"},
                {"exec_timeout"}, {"exec_timeout", "exec_not_killed"}, {"not_found"}} :
          Classify(S) # NoReply
    BY <1>1, Classified
<1>3. CASE Arrive(c)
    <2>1. \A i : DecodeReply(i) # NoReply
        BY <1>1 DEF DecodeReply
    <2> QED
        BY <1>3, <2>1 DEF Arrive, Steps
<1>4. CASE Creates(c) \/ Keepalives(c)
    <2>1. TermErrs(input[c]) # {} => Classify(TermErrs(input[c])) # NoReply
        BY <1>2 DEF TermErrs
    <2>2. Classify(IF row = Absent THEN {"not_found"} ELSE {"invalid_transition"}) # NoReply
        BY <1>2
    <2>3. Classify({"other"}) # NoReply /\ Says(200, "result") # NoReply
              /\ Says(202, "result") # NoReply
        BY <1>1, <1>2
    <2>4. CASE Creates(c)
        BY <2>1, <2>3, <2>4 DEF Creates, Fails
    <2>5. CASE Keepalives(c)
        BY <2>1, <2>2, <2>3, <2>5 DEF Keepalives, Fails
    <2> QED
        BY <1>4, <2>4, <2>5
<1>5. CASE DestroyReads(c) \/ DestroyStops(c) \/ ShowsRows(c)
    <2>1. /\ Classify({"other"}) # NoReply /\ Classify({"not_found"}) # NoReply
          /\ Says(200, "result") # NoReply /\ Says(202, "result") # NoReply
        BY <1>1, <1>2
    <2>2. CASE DestroyReads(c)
        BY <2>1, <2>2 DEF DestroyReads, Fails, Steps
    <2>3. CASE DestroyStops(c)
        BY <2>1, <2>3 DEF DestroyStops, Fails
    <2>4. CASE ShowsRows(c)
        BY <2>1, <2>4 DEF ShowsRows, Fails
    <2> QED
        BY <1>5, <2>2, <2>3, <2>4
<1>6. CASE EnsureRunning(c)
    BY <1>1, <1>2, <1>6, GateErrs DEF EnsureRunning, Fails, Steps
<1>7. CASE Lookup(c)
    BY <1>1, <1>2, <1>7, PathErrsOf DEF Lookup, Fails, Steps
<1>8. CASE Reads(c)
    <2>1. ReadErrs # {} => Classify(ReadErrs) # NoReply
        BY <1>2, ReadErrsOf
    <2>2. ListErrs # {} => Classify(ListErrs) # NoReply
        BY <1>2, ListErrsOf
    <2> QED
        BY <1>1, <1>2, <1>8, <2>1, <2>2 DEF Reads, Fails
<1>9. CASE Writes(c) \/ Execs(c) \/ Removes(c)
    <2>1. /\ Classify({"other"}) # NoReply /\ Classify({"exec_timeout"}) # NoReply
          /\ Classify({"exec_timeout", "exec_not_killed"}) # NoReply
          /\ Says(200, "result") # NoReply /\ Says(204, "result") # NoReply
        BY <1>1, <1>2
    <2>2. CASE Writes(c)
        BY <2>1, <2>2 DEF Writes, Fails
    <2>3. CASE Execs(c)
        BY <2>1, <2>3 DEF Execs, Fails
    <2>4. CASE Removes(c)
        BY <2>1, <2>4 DEF Removes, Fails
    <2> QED
        BY <1>9, <2>2, <2>3, <2>4
<1> QED
    BY <1>3, <1>4, <1>5, <1>6, <1>7, <1>8, <1>9 DEF Handle, OnRow, InContainer

-----------------------------------------------------------------------------
(* ResolveTTL gives nothing beyond the cap, and parseMemory and Validate    *)
(* nothing below the floor, whatever wraps on the way.                      *)
LEMMA GrantsAreTyped ==
    ASSUME LimitsAssumption, RequestsAssumption,
           NEW i \in Input, i.op \in {"create", "keepalive"}, TermErrs(i) = {}
    PROVE  GrantedTTL(i) \in 1 .. MaxTTL /\ GrantedMemory(i) \in MinMemoryLimit .. Half - 1
<1>1. GrantedTTL(i) # Rejected /\ GrantedMemory(i) # Rejected
    BY DEF TermErrs
<1>2. DefaultTTL \in 1 .. MaxTTL /\ MinMemoryLimit \in Nat \ {0} /\ Half \in Nat /\ Half # 0
      /\ Digits \subseteq Int64 /\ Units \subseteq Nat \ {0} /\ Int64 \subseteq Int
    BY DEF LimitsAssumption, RequestsAssumption, Int64
<1>3. \A d : ResolveTTL(d) \in 1 .. MaxTTL \union {Rejected}
    <2> TAKE d
    <2>1. CASE d = 0
        BY <1>2, <2>1 DEF ResolveTTL
    <2>2. CASE d # 0 /\ d \in 1 .. MaxTTL
        BY <2>2 DEF ResolveTTL
    <2>3. CASE d # 0 /\ d \notin 1 .. MaxTTL
        BY <2>3 DEF ResolveTTL
    <2> QED
        BY <2>1, <2>2, <2>3
<1>4. GrantedTTL(i) \in 1 .. MaxTTL
    BY <1>1, <1>3 DEF GrantedTTL, ClampTTL
<1>5. i.terms[2][1] \in Int /\ i.terms[2][2] \in Nat \ {0}
    <2>1. i.terms \in Terms(i.op)
        BY DEF Input
    <2>2. i.terms[2] = <<MinMemoryLimit, 1>> \/ i.terms[2] \in Digits \X Units
        BY <2>1 DEF Terms
    <2>3. CASE i.terms[2] = <<MinMemoryLimit, 1>>
        <3>1. i.terms[2][1] = MinMemoryLimit /\ i.terms[2][2] = 1
            BY <2>3
        <3> QED
            BY <1>2, <3>1
    <2>4. CASE i.terms[2] \in Digits \X Units
        <3>1. i.terms[2][1] \in Digits /\ i.terms[2][2] \in Units
            BY <2>4
        <3> QED
            BY <1>2, <3>1
    <2> QED
        BY <2>2, <2>3, <2>4
<1> DEFINE k == i.terms[2][1]
           u == i.terms[2][2]
<1>6. GrantedMemory(i) = Wrap(k * u) /\ ~(Wrap(k * u) < MinMemoryLimit)
    BY <1>1 DEF GrantedMemory, MemoryLimit
<1>7. k * u \in Int
    BY <1>5
<1> HIDE DEF k, u
<1>8. Wrap(k * u) \in Int /\ Wrap(k * u) <= Half - 1
    <2> DEFINE n == k * u + Half
               m == 2 * Half
    <2>1. n \in Int /\ m \in Nat \ {0}
        BY <1>2, <1>7
    <2>2. Wrap(k * u) = (n % m) - Half
        BY DEF Wrap
    <2> HIDE DEF n
    <2>3. n % m \in 0 .. m - 1
        BY <2>1, SMT
    <2> QED
        BY <1>2, <2>2, <2>3
<1> QED
    BY <1>2, <1>4, <1>6, <1>8

LEMMA HandlesFaults ==
    ASSUME NEW c, Handle(c)
    PROVE  faulted' = faulted \/ faulted' = faulted \union {c}
<1>1. CASE Arrive(c) \/ Creates(c) \/ Keepalives(c) \/ EnsureRunning(c) \/ Lookup(c)
    BY <1>1 DEF Arrive, Creates, Keepalives, EnsureRunning, Lookup, Works, Fails
<1>2. CASE DestroyReads(c) \/ DestroyStops(c) \/ ShowsRows(c)
    BY <1>2 DEF DestroyReads, DestroyStops, ShowsRows, Works, Fails
<1>3. CASE Reads(c) \/ Writes(c) \/ Execs(c) \/ Removes(c)
    BY <1>3 DEF Reads, Writes, Execs, Removes, Works, Fails
<1> QED
    BY <1>1, <1>2, <1>3 DEF Handle, OnRow, InContainer

LEMMA HandleKeepsTypes ==
    ASSUME LimitsAssumption, RequestsAssumption,
           TypeOK, Functions, AllOwned, NEW c \in Call, Handle(c)
    PROVE  TypeOK'
<1>1. /\ row \in TaskState \union {Absent} /\ box \in {"none", "stopped", "running"}
      /\ node \in Node /\ (box = "none" => node = "absent") /\ touched \subseteq Call
    BY DEF TypeOK
<1>2. /\ row' \in TaskState \union {Absent} /\ box' \in {"none", "stopped", "running"}
      /\ node' \in Node /\ (box' = "none" => node' = "absent") /\ touched' \subseteq Call
    <2>1. CASE UNCHANGED <<worldVars, touched>>
        BY <1>1, <2>1 DEF worldVars
    <2>2. CASE \E to \in TaskState : Moves(c, to)
        BY <1>1, <2>2 DEF Moves
    <2>3. CASE box # "none" /\ \E what \in Node : Leaves(c, what)
        BY <1>1, <2>3 DEF Leaves
    <2> QED
        BY <2>1, <2>2, <2>3, HandlesWorld
<1>3. faulted' \subseteq Call
    <2>1. faulted \subseteq Call
        BY DEF TypeOK
    <2>2. faulted' = faulted \/ faulted' = faulted \union {c}
        BY HandlesFaults
    <2> QED
        BY <2>1, <2>2
<1>4. /\ at \in [Call -> Steps \union {"idle", "done"}]
      /\ reply = [b \in Call |-> reply[b]]
      /\ \A b \in Call : reply[b] # NoReply <=> at[b] = "done"
    BY DEF TypeOK, Steps, AllOwned
<1>5. /\ at' \in [Call -> Steps \union {"idle", "done"}]
      /\ \A b \in Call : reply'[b] # NoReply <=> at'[b] = "done"
    <2>1. CASE \E r : r # NoReply /\ Answer(c, r)
        BY <1>4, <2>1 DEF Answer
    <2>2. CASE \E step \in Steps : Proceed(c, step)
        <3>1. PICK step \in Steps : at' = [at EXCEPT ![c] = step] /\ reply' = reply
            BY <2>2 DEF Proceed
        <3>2. step # "done" /\ at[c] # "done"
            BY AnswersOrGoesOn DEF Steps
        <3> QED
            BY <1>4, <3>1, <3>2
    <2> QED
        BY <2>1, <2>2, AnswersOrGoesOn
<1>6. input' \in [Call -> Input \union {NoInput}]
    <2>1. input \in [Call -> Input \union {NoInput}]
        BY DEF TypeOK
    <2>2. CASE Arrive(c)
        BY <2>1, <2>2 DEF Arrive
    <2>3. CASE ~Arrive(c)
        BY <2>1, <2>3 DEF Handle, OnRow, Creates, Keepalives, DestroyReads, DestroyStops,
            ShowsRows, EnsureRunning, InContainer, Lookup, Reads, Writes, Execs, Removes
    <2> QED
        BY <2>2, <2>3
<1>7. \A b \in Call : granted'[b] # NoGrant =>
          granted'[b].ttl \in 1 .. MaxTTL /\ granted'[b].memory \in MinMemoryLimit .. Half - 1
    <2>1. granted = [b \in Call |-> granted[b]]
        BY DEF Functions
    <2>2. \A b \in Call : granted[b] # NoGrant =>
              granted[b].ttl \in 1 .. MaxTTL /\ granted[b].memory \in MinMemoryLimit .. Half - 1
        BY DEF TypeOK
    <2>3. CASE granted' = granted
        BY <2>2, <2>3
    <2>4. ASSUME input[c].op \in {"create", "keepalive"}, TermErrs(input[c]) = {}, Grant(c)
          PROVE  \A b \in Call : granted'[b] # NoGrant =>
                     /\ granted'[b].ttl \in 1 .. MaxTTL
                     /\ granted'[b].memory \in MinMemoryLimit .. Half - 1
        <3>1. input[c] \in Input
            <4>1. input[c] \in Input \union {NoInput}
                BY DEF TypeOK
            <4>2. NoInput.op = "none"
                BY DEF NoInput
            <4> QED
                BY <2>4, <4>1, <4>2
        <3>2. GrantedTTL(input[c]) \in 1 .. MaxTTL
              /\ GrantedMemory(input[c]) \in MinMemoryLimit .. Half - 1
            BY <2>4, <3>1, GrantsAreTyped
        <3> QED
            BY <2>1, <2>2, <2>4, <3>2 DEF Grant
    <2>5. CASE Creates(c) \/ Keepalives(c)
        <3>1. /\ input[c].op \in {"create", "keepalive"}
              /\ granted' = granted \/ (TermErrs(input[c]) = {} /\ Grant(c))
            BY <2>5 DEF Creates, Keepalives
        <3> QED
            BY <2>3, <2>4, <3>1
    <2>6. CASE ~(Creates(c) \/ Keepalives(c))
        BY <2>3, <2>6 DEF Handle, OnRow, InContainer, Arrive, DestroyReads, DestroyStops,
            ShowsRows, EnsureRunning, Lookup, Reads, Writes, Execs, Removes
    <2> QED
        BY <2>5, <2>6
<1> QED
    BY <1>2, <1>3, <1>5, <1>6, <1>7 DEF TypeOK, Steps

(* WorldMoves: the row goes where CanTransition lets it, and a container    *)
(* that is gone holds no file.                                              *)
LEMMA WorldKeepsTypes == TypeOK /\ WorldMoves => TypeOK'
<1> SUFFICES ASSUME TypeOK, WorldMoves PROVE TypeOK'
    OBVIOUS
<1>1. UNCHANGED <<at, input, reply, granted, faulted, touched>>
    BY DEF WorldMoves, requestVars
<1>2. /\ row \in TaskState \union {Absent} /\ box \in {"none", "stopped", "running"}
      /\ node \in Node /\ (box = "none" => node = "absent")
    BY DEF TypeOK
<1>3. /\ row' \in TaskState \union {Absent} /\ box' \in {"none", "stopped", "running"}
      /\ node' \in Node /\ (box' = "none" => node' = "absent")
    <2>1. {"absent", "dir"} \subseteq Node
        BY DEF Node, Directory
    <2>2. CASE SandboxMoves
        <3>1. row' \in TaskState \union {Absent} /\ box' \in {"none", "stopped", "running"}
            <4>1. CASE World!Recorded \/ World!RowMoves
                BY <1>2, <4>1 DEF World!Recorded, World!RowMoves, TaskState, World!TaskState
            <4>2. CASE World!ContainerMade \/ World!ContainerStarts
                           \/ World!ContainerExits \/ World!ContainerGoes
                BY <1>2, <4>2
                DEF World!ContainerMade, World!ContainerStarts, World!ContainerExits,
                    World!ContainerGoes
            <4> QED
                BY <2>2, <4>1, <4>2 DEF SandboxMoves, World!Next
        <3>2. node' \in Node /\ (box' = "none" => node' = "absent")
            <4>1. CASE box' = "none"
                BY <2>1, <2>2, <4>1 DEF SandboxMoves
            <4>2. CASE box = "none" /\ box' # "none"
                BY <2>1, <2>2, <4>2 DEF SandboxMoves
            <4>3. CASE box # "none" /\ box' # "none"
                BY <1>2, <2>2, <4>3 DEF SandboxMoves
            <4> QED
                BY <4>1, <4>2, <4>3
        <3> QED
            BY <3>1, <3>2
    <2>3. CASE FilesChange
        BY <1>2, <2>3 DEF FilesChange
    <2> QED
        BY <2>2, <2>3 DEF WorldMoves
<1> QED
    BY <1>1, <1>3 DEF TypeOK

-----------------------------------------------------------------------------
(* What is turned away.                                                     *)

(* ceilSeconds stays below a cap that is a whole number of seconds.         *)
LEMMA CeilStaysCapped ==
    ASSUME LimitsAssumption, NEW d \in Int, 0 < d, d <= MaxTTL
    PROVE  ToDuration(CeilSeconds(d)) <= MaxTTL
<1> DEFINE n == d + Second - 1
           q == n \div Second
           m == MaxTTL \div Second
<1>1. Second \in Nat \ {0} /\ MaxTTL \in Nat /\ Half \in Nat /\ MaxTTL + Second <= Half
      /\ MaxTTL % Second = 0 /\ Half # 0
    BY DEF LimitsAssumption
<1>2. n \in Nat /\ n \in Int64 /\ n <= MaxTTL + Second - 1
    BY <1>1 DEF Int64
<1>3. CeilSeconds(d) = q
    <2>1. Wrap(n) = n
        BY <1>2, WrapKeepsInt64
    <2> QED
        BY <1>2, <2>1 DEF CeilSeconds, Quotient
<1> HIDE DEF n
<1>4. q \in Nat /\ q * Second \in Int /\ q * Second <= n
    BY <1>1, <1>2, DivisionRoundsDown
<1>5. m \in Nat /\ MaxTTL = m * Second
    <2>1. ASSUME NEW a \in Nat, NEW b \in Nat \ {0}, a % b = 0
          PROVE  a \div b \in Nat /\ a = (a \div b) * b
        BY <2>1, SMT
    <2> QED
        BY <1>1, <2>1
<1> HIDE DEF q, m
<1>6. q <= m
    <2> SUFFICES ASSUME m + 1 <= q PROVE FALSE
        BY <1>4, <1>5
    <2>1. ASSUME NEW x \in Nat, NEW y \in Nat, x <= y, NEW s \in Nat
          PROVE  x * s <= y * s
        BY <2>1
    <2>2. (m + 1) * Second <= q * Second
        BY <1>1, <1>4, <1>5, <2>1
    <2>3. (m + 1) * Second = m * Second + Second
        BY <1>1, <1>5
    <2> QED
        BY <1>1, <1>2, <1>4, <1>5, <2>2, <2>3
<1>7. q * Second <= MaxTTL
    <2>1. ASSUME NEW x \in Nat, NEW y \in Nat, x <= y, NEW s \in Nat
          PROVE  x * s <= y * s
        BY <2>1
    <2> QED
        BY <1>1, <1>4, <1>5, <1>6, <2>1
<1>8. q * Second \in Int64 /\ q * Second \in Int
    <2>1. q * Second \in Nat
        BY <1>1, <1>4
    <2> QED
        BY <1>1, <1>7, <2>1 DEF Int64
<1> QED
    BY <1>3, <1>7, <1>8, WrapKeepsInt64 DEF ToDuration

LEMMA RejectedTTLIsBad ==
    ASSUME LimitsAssumption, RequestsAssumption, LifetimesFit,
           NEW i \in Input, i.op \in {"create", "keepalive"}, GrantedTTL(i) = Rejected
    PROVE  Lifetime(i) < 0 \/ (i.op = "create" /\ Lifetime(i) > MaxTTL)
<1> DEFINE d == Lifetime(i)
           sent == Seconds(i)
           r == ToDuration(sent)
<1>1. /\ Second \in Nat \ {0} /\ Half \in Nat /\ MaxTTL \in Nat /\ DefaultTTL \in 1 .. MaxTTL
      /\ Rejected \notin Int /\ Half # 0 /\ 1 .. MaxTTL \subseteq Int
      /\ Lifetimes \subseteq Int64 /\ WireSeconds \subseteq Int64 /\ Int64 \subseteq Int
    BY DEF LimitsAssumption, RequestsAssumption, Int64
<1>2. GrantedTTL(i) = IF i.op = "create" THEN ResolveTTL(r) ELSE ClampTTL(r)
    BY DEF GrantedTTL
<1> HIDE DEF d, sent, r
<1>3. ASSUME r \in Int
      PROVE  r < 0 \/ (i.op = "create" /\ r > MaxTTL)
    <2> SUFFICES ASSUME r >= 0, i.op = "create" => r <= MaxTTL PROVE FALSE
        BY <1>1, <1>3
    <2>1. r # 0
        BY <1>1, <1>2, <1>3, ResolveKeeps
    <2>2. r > 0
        BY <1>3, <2>1
    <2>3. CASE i.op = "create"
        <3>1. r \in 1 .. MaxTTL
            BY <1>1, <1>3, <2>2, <2>3
        <3>2. ResolveTTL(r) = r
            BY <2>1, <3>1 DEF ResolveTTL
        <3> QED
            BY <1>1, <1>2, <1>3, <2>3, <3>2
    <2>4. CASE i.op = "keepalive"
        <3>1. ClampTTL(r) = Smaller(r, MaxTTL)
            BY <1>3, <2>2, ResolveKeeps
        <3>2. Smaller(r, MaxTTL) \in Int
            BY <1>1, <1>3 DEF Smaller
        <3> QED
            BY <1>1, <1>2, <2>4, <3>1, <3>2
    <2> QED
        BY <2>3, <2>4
<1>4. CASE d = 0 /\ sent = 0
    <2>1. 0 \in Int64 /\ 0 * Second = 0
        BY <1>1 DEF Int64
    <2>2. r = 0
        BY <1>4, <2>1, WrapKeepsInt64 DEF ToDuration, r
    <2> QED
        BY <1>1, <1>3, <2>2
<1>5. CASE sent \in WireSeconds /\ d = sent * Second
    <2>1. d \in Int64 /\ d \in Int
        <3>1. sent * Second \in Int64
            BY <1>5 DEF LifetimesFit
        <3> QED
            BY <1>1, <1>5, <3>1
    <2>2. r = d
        BY <1>5, <2>1, WrapKeepsInt64 DEF ToDuration, r
    <2> QED
        BY <1>3, <2>1, <2>2 DEF d
<1>6. CASE d \in Lifetimes /\ sent = IF i.op = "create" THEN CeilSeconds(d) ELSE KeepaliveSeconds(d)
    <2>1. d \in Int /\ d <= Half - Second
        BY <1>1, <1>6 DEF LifetimesFit
    <2>2. CASE d > 0
        <3>1. sent = CeilSeconds(d)
            BY <1>6, <2>1, <2>2 DEF KeepaliveSeconds
        <3>2. r \in d .. d + Second - 1
            BY <2>1, <2>2, <3>1, CeilTravels DEF r
        <3>3. d <= MaxTTL => r <= MaxTTL
            BY <2>1, <2>2, <3>1, CeilStaysCapped DEF r
        <3> QED
            BY <1>1, <1>3, <2>1, <2>2, <3>2, <3>3 DEF d
    <2>3. CASE d = 0
        <3>1. sent = 0
            BY <1>6, <2>3 DEF KeepaliveSeconds, CeilSeconds
        <3> QED
            BY <1>4, <2>3, <3>1
    <2> QED
        BY <2>1, <2>2, <2>3 DEF d
<1> QED
    BY <1>4, <1>5, <1>6, LifetimeOfTerms DEF d, sent

LEMMA RejectedMemoryIsBad ==
    ASSUME LimitsAssumption, NEW k \in Nat, NEW u \in Nat \ {0}, MemoryLimit(k, u) = Rejected
    PROVE  k * u < MinMemoryLimit \/ k * u > Half \div 2
<1> DEFINE h == Half \div 2
           q == h \div u
<1>1. Half \in Nat /\ h \in Nat /\ 2 * h <= Half /\ Half # 0 /\ Rejected \notin Int
    BY DEF LimitsAssumption
<1>2. MemoryLimit(k, u) = IF k > q \/ Wrap(k * u) < MinMemoryLimit THEN Rejected ELSE Wrap(k * u)
    BY DEF MemoryLimit
<1> HIDE DEF h
<1>3. q \in Nat /\ q * u \in Int /\ q * u <= h /\ h < q * u + u
    BY <1>1, DivisionRoundsDown
<1> HIDE DEF q
<1>4. ASSUME NEW x \in Nat, NEW y \in Nat, x <= y
      PROVE  x * u <= y * u
    BY <1>4
<1>5. k * u \in Nat
    OBVIOUS
<1>6. CASE k > q
    <2>1. (q + 1) * u <= k * u
        BY <1>3, <1>4, <1>6
    <2>2. (q + 1) * u = q * u + u
        BY <1>3
    <2> QED
        BY <1>1, <1>3, <1>5, <2>1, <2>2 DEF h
<1>7. CASE ~(k > q)
    <2>1. k * u <= q * u
        BY <1>3, <1>4, <1>7
    <2>2. k * u \in Int64
        BY <1>1, <1>3, <1>5, <2>1 DEF Int64
    <2>3. Wrap(k * u) = k * u
        BY <2>2, WrapKeepsInt64
    <2> QED
        BY <1>1, <1>2, <1>5, <1>7, <2>3
<1> QED
    BY <1>6, <1>7

(* ErrInvalidSpec, of a create and a keepalive: what was asked for is out   *)
(* of its range, and not what became of it on the way.                      *)
LEMMA RejectedTermsAreBad ==
    ASSUME LimitsAssumption, RequestsAssumption, LifetimesFit,
           NEW i \in Input, i.op \in {"create", "keepalive"}, TermErrs(i) # {}
    PROVE  BadTerms(i)
<1>1. GrantedTTL(i) = Rejected \/ GrantedMemory(i) = Rejected
    BY DEF TermErrs
<1>2. i.terms[2][1] \in Int /\ i.terms[2][2] \in Nat \ {0} /\ MinMemoryLimit \in Nat
    BY MemoryOfTerms DEF LimitsAssumption
<1>3. CASE i.terms[2][1] \in Nat
    BY <1>1, <1>2, <1>3, RejectedTTLIsBad, RejectedMemoryIsBad DEF BadTerms, GrantedMemory, Memory
<1>4. CASE i.terms[2][1] \notin Nat
    <2>1. ASSUME NEW k \in Int, k \notin Nat, NEW u \in Nat \ {0}
          PROVE  k * u < 0 /\ k * u \in Int
        BY <2>1
    <2> QED
        BY <1>2, <1>4, <2>1 DEF BadTerms, Memory
<1> QED
    BY <1>3, <1>4

-----------------------------------------------------------------------------
(* What an answer tells.                                                    *)

(* What a request sees of the row, the container and the path.              *)
LEMMA RowIsSeen ==
    ASSUME NEW op \in Inside \union {"keepalive", "events"}
    PROVE  /\ row = Absent => "no row" \in Facts(op)
           /\ row \notin {Absent, "running"} => "row not running" \in Facts(op)
           /\ op \notin Inside /\ row # Absent => "row" \in Facts(op)
           /\ op \notin Inside /\ row \in {"pending", "running"} => "live row" \in Facts(op)
           /\ op \notin Inside /\ row \notin {Absent, "pending", "running"} =>
                  "row past running" \in Facts(op)
<1>1. RowFacts \ {"row", "live row", "row past running"} \subseteq Facts(op)
    <2>1. CASE op \in Inside
        BY <2>1 DEF Facts
    <2>2. CASE op \notin Inside
        BY <2>2 DEF Facts
    <2> QED
        BY <2>1, <2>2
<1>2. op \notin Inside => RowFacts \subseteq Facts(op)
    BY DEF Facts
<1>3. CASE row = Absent
    <2>1. RowFacts = {"no row"} /\ row \notin {"pending", "running"}
        BY <1>3 DEF RowFacts, Absent
    <2> QED
        BY <1>1, <1>3, <2>1
<1>4. CASE row # Absent /\ row = "running"
    <2>1. RowFacts = {"row", "live row", "running row"}
        BY <1>4 DEF RowFacts
    <2> QED
        BY <1>2, <1>4, <2>1
<1>5. CASE row # Absent /\ row = "pending"
    <2>1. RowFacts = {"row", "live row", "row not running"}
        BY <1>5 DEF RowFacts
    <2> QED
        BY <1>1, <1>2, <1>5, <2>1
<1>6. CASE row # Absent /\ row \notin {"pending", "running"}
    <2>1. RowFacts = {"row", "row not running", "row past running"}
        BY <1>6 DEF RowFacts
    <2> QED
        BY <1>1, <1>2, <1>6, <2>1
<1> QED
    BY <1>3, <1>4, <1>5, <1>6
LEMMA BoxIsSeen ==
    ASSUME NEW op \in Inside
    PROVE  /\ box = "none" => "no container" \in Facts(op)
           /\ box = "stopped" => "stopped container" \in Facts(op)
           /\ op \in {"read", "list"} => PathFacts(op) \subseteq Facts(op)
<1>1. BoxFacts \subseteq Facts(op)
    BY DEF Facts
<1>2. op \in {"read", "list"} => PathFacts(op) \subseteq Facts(op)
    BY DEF Facts
<1>3. box = "none" => BoxFacts = {"no container"}
    BY DEF BoxFacts
<1>4. box = "stopped" => BoxFacts = {"stopped container"}
    BY DEF BoxFacts
<1> QED
    BY <1>1, <1>2, <1>3, <1>4

(* ListDir counts the entries of a directory without the directory itself,  *)
(* and turns a listing away when it has seen one more than it may list.     *)
LEMMA ListingCounts ==
    ASSUME RequestsAssumption, node \in Node
    PROVE  (\E i \in DOMAIN Archive : Cardinality(ListedBy(i)) > MaxTotalFiles) <=> node = "crowd"
<1>1. MaxTotalFiles \in Nat \ {0}
    BY DEF RequestsAssumption
<1>2. CASE node \notin DOMAIN Directory
    <2>1. Archive = <<"entry">>
        BY <1>2 DEF Archive
    <2>2. DOMAIN Archive = {1} /\ Archive[1] = "entry"
        BY <2>1
    <2>3. ListedBy(1) = {1}
        BY <2>2 DEF ListedBy
    <2>4. Cardinality(ListedBy(1)) = 1
        BY <2>3, FS_Singleton
    <2>5. node # "crowd"
        BY <1>2 DEF Directory
    <2> QED
        BY <1>1, <2>2, <2>4, <2>5
<1>3. CASE node \in DOMAIN Directory
    <2> DEFINE n == Directory[node]
               entries == [i \in 1 .. n |-> "entry"]
               Kinds == {"itself", "entry"}
    <2>1. n \in Nat /\ (n > MaxTotalFiles <=> node = "crowd")
        BY <1>1, <1>3 DEF Directory
    <2> HIDE DEF n
    <2>2. entries \in Seq(Kinds) /\ Len(entries) = n /\ <<"itself">> \in Seq(Kinds)
          /\ Len(<<"itself">>) = 1
        BY <2>1
    <2>3. \A j \in 1 .. n : entries[j] = "entry"
        OBVIOUS
    <2>4. Archive = <<"itself">> \o entries
        BY <1>3 DEF Archive, n
    <2> HIDE DEF entries
    <2>5. DOMAIN Archive = 1 .. n + 1 /\ Archive[1] = "itself"
          /\ \A j \in 2 .. n + 1 : Archive[j] = "entry"
        <3>1. /\ <<"itself">> \o entries \in Seq(Kinds)
              /\ Len(<<"itself">> \o entries) = n + 1
              /\ \A j \in 1 .. n + 1 : (<<"itself">> \o entries)[j] =
                     IF j <= 1 THEN <<"itself">>[j] ELSE entries[j - 1]
            BY <2>1, <2>2, ConcatProperties
        <3>2. \A j \in 2 .. n + 1 : j - 1 \in 1 .. n /\ ~(j <= 1)
            BY <2>1
        <3>3. <<"itself">>[1] = "itself" /\ 1 \in 1 .. n + 1
            BY <2>1
        <3>4. DOMAIN (<<"itself">> \o entries) = 1 .. n + 1
            BY <3>1, LenProperties
        <3> QED
            BY <2>3, <2>4, <3>1, <3>2, <3>3, <3>4
    <2>6. ASSUME NEW i \in 1 .. n + 1
          PROVE  Cardinality(ListedBy(i)) = i - 1
        <3>1. ListedBy(i) = 2 .. i
            BY <2>1, <2>5 DEF ListedBy
        <3>2. Cardinality(2 .. i) = i - 1
            BY <2>1, FS_Interval
        <3> QED
            BY <3>1, <3>2
    <2>7. (\E i \in 1 .. n + 1 : i - 1 > MaxTotalFiles) <=> n > MaxTotalFiles
        BY <1>1, <2>1
    <2> QED
        BY <2>1, <2>5, <2>6, <2>7
<1> QED
    BY <1>2, <1>3

LEMMA PathFactsOf ==
    ASSUME NEW op
    PROVE  /\ box = "none" \/ node = "absent" => PathFacts(op) = {"no path"}
           /\ ~(box = "none" \/ node = "absent") =>
                  /\ node = (IF op = "read" THEN "large" ELSE "crowd") =>
                         PathFacts(op) = {"over the limit"}
                  /\ node # (IF op = "read" THEN "large" ELSE "crowd") =>
                         PathFacts(op) = IF op = "read" /\ node \in DOMAIN Directory \union {"link"}
                                         THEN {"not a regular file"} ELSE {"fitting path"}
<1> DEFINE Gone == box = "none" \/ node = "absent"
           Over == box # "none" /\ node = (IF op = "read" THEN "large" ELSE "crowd")
           Other == box # "none" /\ op = "read" /\ node \in DOMAIN Directory \union {"link"}
<1>1. /\ Gone => ~Over /\ ~Other
      /\ Over => ~Other
    BY DEF Directory
<1>2. PathFacts(op) = CASE Gone  -> {"no path"}
                        [] Over  -> {"over the limit"}
                        [] Other -> {"not a regular file"}
                        [] OTHER -> {"fitting path"}
    BY Zenon DEF PathFacts
<1> HIDE DEF Gone, Over, Other
<1>3. /\ Gone => PathFacts(op) = {"no path"}
      /\ ~Gone /\ Over => PathFacts(op) = {"over the limit"}
      /\ ~Gone /\ ~Over => PathFacts(op) = IF Other THEN {"not a regular file"}
                                           ELSE {"fitting path"}
    BY <1>1, <1>2
<1> QED
    BY <1>3 DEF Gone, Over, Other

(* readFile and ListDir tell of the path what it was.                       *)
LEMMA PathIsSeen ==
    ASSUME RequestsAssumption, node \in Node, NEW op \in {"read", "list"}
    PROVE  LET errs == IF op = "read" THEN ReadErrs ELSE ListErrs IN
           \/ errs = {} /\ "fitting path" \in PathFacts(op)
           \/ /\ errs = {"path_not_found"}
              /\ "no path" \in PathFacts(op)
                     \/ (op = "read" /\ "not a regular file" \in PathFacts(op))
           \/ /\ errs \in {{"file_too_large"}, {"too_many_files"}}
              /\ "over the limit" \in PathFacts(op)
<1>1. CASE box = "none" \/ node = "absent"
    <2>1. PathFacts(op) = {"no path"}
        BY <1>1, PathFactsOf
    <2>2. ReadErrs = {"path_not_found"} /\ ListErrs = {"path_not_found"}
        BY <1>1, ReadErrsOf, ListErrsOf
    <2> QED
        BY <2>1, <2>2
<1>2. CASE ~(box = "none" \/ node = "absent") /\ op = "read"
    <2>1. CASE node = "large"
        <3>1. PathFacts(op) = {"over the limit"}
            BY <1>2, <2>1, PathFactsOf
        <3> QED
            BY <1>2, <2>1, <3>1, ReadErrsOf
    <2>2. CASE node = "file"
        <3>1. node \notin DOMAIN Directory \union {"link"}
            BY <2>2 DEF Directory
        <3>2. PathFacts(op) = {"fitting path"}
            BY <1>2, <2>2, <3>1, PathFactsOf
        <3> QED
            BY <1>2, <2>2, <3>2, ReadErrsOf
    <2>3. CASE node \notin {"large", "file"}
        <3>1. node \in DOMAIN Directory \union {"link"}
            BY <1>2, <2>3 DEF Node
        <3>2. PathFacts(op) = {"not a regular file"}
            BY <1>2, <2>3, <3>1, PathFactsOf
        <3> QED
            BY <1>2, <2>3, <3>2, ReadErrsOf
    <2> QED
        BY <2>1, <2>2, <2>3
<1>3. CASE ~(box = "none" \/ node = "absent") /\ op = "list"
    <2>1. ListErrs = IF node = "crowd" THEN {"too_many_files"} ELSE {}
        BY <1>3, ListErrsOf, ListingCounts
    <2>2. CASE node = "crowd"
        <3>1. PathFacts(op) = {"over the limit"}
            BY <1>3, <2>2, PathFactsOf
        <3> QED
            BY <1>3, <2>1, <2>2, <3>1
    <2>3. CASE node # "crowd"
        <3>1. PathFacts(op) = {"fitting path"}
            BY <1>3, <2>3, PathFactsOf
        <3> QED
            BY <1>3, <2>1, <2>3, <3>1
    <2> QED
        BY <2>2, <2>3
<1> QED
    BY <1>1, <1>2, <1>3

(* What is enough for each answer.                                          *)
LEMMA Justifying ==
    ASSUME NEW i, NEW w, NEW failed
    PROVE  /\ "no row" \in w \/ (i.op \in Inside /\ "no container" \in w) =>
                  Justifies(Classify({"not_found"}), i, w, failed)
           /\ "no path" \in w \/ (i.op = "read" /\ "not a regular file" \in w) =>
                  Justifies(Classify({"path_not_found"}), i, w, failed)
           /\ i.op # "keepalive" /\ "row not running" \in w =>
                  Justifies(Classify({"not_running"}), i, w, failed)
           /\ i.op = "keepalive" /\ "row past running" \in w =>
                  Justifies(Classify({"invalid_transition"}), i, w, failed)
           /\ "over the limit" \in w \/ i.body = "overlong" =>
                  /\ Justifies(Classify({"file_too_large"}), i, w, failed)
                  /\ Justifies(Classify({"too_many_files"}), i, w, failed)
           /\ PathErrs(i) # {} => Justifies(Classify({"invalid_path"}), i, w, failed)
           /\ BadTerms(i) => Justifies(Classify({"invalid_spec"}), i, w, failed)
           /\ Undecodable(i) => Justifies(DecodeReply(i), i, w, failed)
           /\ i.op \in {"exec", "remove"} =>
                  /\ Justifies(Classify({"exec_timeout"}), i, w, failed)
                  /\ Justifies(Classify({"exec_timeout", "exec_not_killed"}), i, w, failed)
           /\ \/ failed
              \/ "running row" \in w /\ w \cap {"no container", "stopped container"} # {}
              => Justifies(Classify({"other"}), i, w, failed)
           /\ /\ i.op \in Inside => "running row" \in w
              /\ i.op \in {"read", "list"} => "fitting path" \in w
              /\ i.op = "keepalive" => "live row" \in w
              /\ i.op = "events" => "row" \in w
              => \A n : Justifies(Says(n, "result"), i, w, failed)
<1>1. \A n, about : Says(n, about).status = n /\ Says(n, about).about = about
    BY DEF Says
<1>2. DecodeReply(i).about = "input"
    BY <1>1 DEF DecodeReply
<1>3. ASSUME "no row" \in w \/ (i.op \in Inside /\ "no container" \in w)
      PROVE  Justifies(Says(404, "sandbox"), i, w, failed)
    BY <1>3 DEF Justifies
<1>4. ASSUME "no path" \in w \/ (i.op = "read" /\ "not a regular file" \in w)
      PROVE  Justifies(Says(404, "path"), i, w, failed)
    BY <1>4 DEF Justifies
<1>5. ASSUME i.op # "keepalive" /\ "row not running" \in w
      PROVE  Justifies(Says(409, "sandbox"), i, w, failed)
    <2>1. (IF i.op = "keepalive" THEN "row past running" ELSE "row not running") \in w
        BY <1>5
    <2> QED
        BY <2>1 DEF Justifies
<1>6. ASSUME i.op = "keepalive" /\ "row past running" \in w
      PROVE  Justifies(Says(409, "sandbox"), i, w, failed)
    <2>1. (IF i.op = "keepalive" THEN "row past running" ELSE "row not running") \in w
        BY <1>6
    <2> QED
        BY <2>1 DEF Justifies
<1>7. ASSUME "over the limit" \in w \/ i.body = "overlong"
      PROVE  Justifies(Says(413, "path"), i, w, failed)
    BY <1>7 DEF Justifies
<1>8. ASSUME NEW r, r.about = "input", Undecodable(i) \/ PathErrs(i) # {} \/ BadTerms(i)
      PROVE  Justifies(r, i, w, failed)
    BY <1>8 DEF Justifies
<1>9. ASSUME i.op \in {"exec", "remove"}
      PROVE  Justifies(Says(504, "command"), i, w, failed)
    <2>1. Says(504, "command").status = 504
        BY DEF Says
    <2> QED
        BY <1>9, <2>1 DEF Justifies
<1>10. ASSUME \/ failed
              \/ "running row" \in w /\ w \cap {"no container", "stopped container"} # {}
       PROVE  Justifies(Says(500, "server"), i, w, failed)
    <2>1. Says(500, "server").status = 500
        BY DEF Says
    <2> QED
        BY <1>10, <2>1 DEF Justifies
<1>11. ASSUME /\ i.op \in Inside => "running row" \in w
              /\ i.op \in {"read", "list"} => "fitting path" \in w
              /\ i.op = "keepalive" => "live row" \in w
              /\ i.op = "events" => "row" \in w,
              NEW n
       PROVE  Justifies(Says(n, "result"), i, w, failed)
    BY <1>1, <1>11 DEF Justifies
<1>12. PathErrs(i) # {} => Justifies(Classify({"invalid_path"}), i, w, failed)
    BY <1>1, <1>8, Classified
<1>13. BadTerms(i) => Justifies(Classify({"invalid_spec"}), i, w, failed)
    BY <1>1, <1>8, Classified
<1>14. Undecodable(i) => Justifies(DecodeReply(i), i, w, failed)
    BY <1>2, <1>8
<1>15. "no row" \in w \/ (i.op \in Inside /\ "no container" \in w) =>
           Justifies(Classify({"not_found"}), i, w, failed)
    BY <1>3, Classified
<1>16. "no path" \in w \/ (i.op = "read" /\ "not a regular file" \in w) =>
           Justifies(Classify({"path_not_found"}), i, w, failed)
    BY <1>4, Classified
<1>17. "over the limit" \in w \/ i.body = "overlong" =>
           /\ Justifies(Classify({"file_too_large"}), i, w, failed)
           /\ Justifies(Classify({"too_many_files"}), i, w, failed)
    BY <1>7, Classified
<1>18. /\ i.op # "keepalive" /\ "row not running" \in w =>
              Justifies(Classify({"not_running"}), i, w, failed)
       /\ i.op = "keepalive" /\ "row past running" \in w =>
              Justifies(Classify({"invalid_transition"}), i, w, failed)
    <2>1. ASSUME i.op # "keepalive", "row not running" \in w
          PROVE  Justifies(Classify({"not_running"}), i, w, failed)
        BY <1>5, <2>1, Classified
    <2>2. ASSUME i.op = "keepalive", "row past running" \in w
          PROVE  Justifies(Classify({"invalid_transition"}), i, w, failed)
        BY <1>6, <2>2, Classified
    <2> QED
        BY <2>1, <2>2
<1>19. i.op \in {"exec", "remove"} =>
           /\ Justifies(Classify({"exec_timeout"}), i, w, failed)
           /\ Justifies(Classify({"exec_timeout", "exec_not_killed"}), i, w, failed)
    BY <1>9, Classified
<1>20. \/ failed
       \/ "running row" \in w /\ w \cap {"no container", "stopped container"} # {}
       => Justifies(Classify({"other"}), i, w, failed)
    BY <1>10, Classified
<1> QED
    BY <1>11, <1>12, <1>13, <1>14, <1>15, <1>16, <1>17, <1>18, <1>19, <1>20

(* A handler answers nothing it has not seen.                               *)
Ends(c) == \E r : Answer(c, r) /\ Justifies(r, input'[c], witnessed'[c], c \in faulted')

Continues(c) == \E step \in Steps : Proceed(c, step)

(* What is known of a request in the middle of its handler.                 *)
Handling(c) ==
    /\ c \in Call /\ input'[c] = input[c] /\ input[c] \in Input
    /\ Facts(input[c].op) \subseteq witnessed'[c]
    /\ at[c] \in {"stop", "refused"} => input[c].op = "destroy"
    /\ at[c] \in {"gate", "lookup", "perform"} => input[c].op \in Inside
    /\ at[c] \in {"lookup", "perform"} => "running row" \in witnessed'[c]

LEMMA FailuresTell ==
    ASSUME NEW c, Fails(c)
    PROVE  Ends(c)
<1>1. Answer(c, Classify({"other"})) /\ c \in faulted'
    BY DEF Fails
<1> QED
    BY <1>1, Justifying DEF Ends

LEMMA ResultsTell ==
    ASSUME NEW c, NEW n, Answer(c, Says(n, "result")),
           input[c].op \in Inside => "running row" \in witnessed'[c],
           input[c].op \in {"read", "list"} => "fitting path" \in witnessed'[c],
           input[c].op = "keepalive" => "live row" \in witnessed'[c],
           input[c].op = "events" => "row" \in witnessed'[c],
           input'[c] = input[c]
    PROVE  Ends(c)
<1>1. Justifies(Says(n, "result"), input[c], witnessed'[c], c \in faulted')
    BY Justifying
<1> QED
    BY <1>1 DEF Ends

LEMMA OnRowTells ==
    ASSUME LimitsAssumption, RequestsAssumption, LifetimesFit, NEW c, Handling(c), OnRow(c)
    PROVE  Ends(c) \/ Continues(c)
<1> DEFINE i == input[c]
           w == witnessed'[c]
<1>1. /\ input'[c] = i /\ Facts(i.op) \subseteq w /\ i \in Input
    BY DEF Handling
<1>2. /\ \A op \in {"keepalive", "create", "destroy", "events", "index"} : op \notin Inside
    BY DEF Inside
<1>3. ASSUME i.op \in {"create", "keepalive"}, TermErrs(i) # {}, Answer(c, Classify(TermErrs(i)))
      PROVE  Ends(c)
    <2>1. TermErrs(i) = {"invalid_spec"} /\ BadTerms(i)
        BY <1>1, <1>3, RejectedTermsAreBad DEF TermErrs
    <2> QED
        BY <1>1, <1>3, <2>1, Justifying DEF Ends
<1>4. CASE Creates(c)
    <2>1. i.op = "create"
        BY <1>4 DEF Creates
    <2>2. \/ TermErrs(i) # {} /\ Answer(c, Classify(TermErrs(i)))
          \/ Answer(c, Says(202, "result"))
          \/ Fails(c)
        BY <1>4 DEF Creates
    <2>3. Answer(c, Says(202, "result")) => Ends(c)
        BY <1>1, <1>2, <2>1, ResultsTell
    <2> QED
        BY <1>3, <2>1, <2>2, <2>3, FailuresTell
<1>5. CASE Keepalives(c)
    <2>1. i.op = "keepalive"
        BY <1>5 DEF Keepalives
    <2>2. \/ TermErrs(i) # {} /\ Answer(c, Classify(TermErrs(i)))
          \/ row \in {"pending", "running"} /\ Answer(c, Says(200, "result"))
          \/ row = Absent /\ Answer(c, Classify({"not_found"}))
          \/ /\ row \notin {Absent, "pending", "running"}
             /\ Answer(c, Classify({"invalid_transition"}))
          \/ Fails(c)
        BY <1>5 DEF Keepalives
    <2>3. /\ row \in {"pending", "running"} => "live row" \in w
          /\ row = Absent => "no row" \in w
          /\ row \notin {Absent, "pending", "running"} => "row past running" \in w
        BY <1>1, <1>2, <2>1, RowIsSeen
    <2>4. row \in {"pending", "running"} /\ Answer(c, Says(200, "result")) => Ends(c)
        BY <1>1, <1>2, <2>1, <2>3, ResultsTell
    <2>5. row = Absent /\ Answer(c, Classify({"not_found"})) => Ends(c)
        BY <1>1, <2>3, Justifying DEF Ends
    <2>6. row \notin {Absent, "pending", "running"} /\ Answer(c, Classify({"invalid_transition"}))
              => Ends(c)
        BY <1>1, <2>1, <2>3, Justifying DEF Ends
    <2> QED
        BY <1>3, <2>1, <2>2, <2>4, <2>5, <2>6, FailuresTell
<1>6. CASE ShowsRows(c)
    <2>1. i.op \in {"events", "index"}
        BY <1>6 DEF ShowsRows
    <2>2. \/ i.op = "events" /\ row = Absent /\ Answer(c, Classify({"not_found"}))
          \/ (i.op = "index" \/ row # Absent) /\ Answer(c, Says(200, "result"))
          \/ Fails(c)
        BY <1>6 DEF ShowsRows
    <2>3. i.op = "events" => /\ row = Absent => "no row" \in w
                             /\ row # Absent => "row" \in w
        BY <1>1, <1>2, RowIsSeen
    <2>4. i.op = "events" /\ row = Absent /\ Answer(c, Classify({"not_found"})) => Ends(c)
        BY <1>1, <2>3, Justifying DEF Ends
    <2>5. (i.op = "index" \/ row # Absent) /\ Answer(c, Says(200, "result")) => Ends(c)
        BY <1>1, <1>2, <2>1, <2>3, ResultsTell
    <2> QED
        BY <2>2, <2>4, <2>5, FailuresTell
<1>7. CASE DestroyReads(c) \/ DestroyStops(c)
    <2>1. Continues(c) \/ Answer(c, Says(202, "result")) \/ Fails(c)
        BY <1>7 DEF DestroyReads, DestroyStops, Continues, Steps
    <2>2. i.op = "destroy"
        BY <1>7 DEF DestroyReads, DestroyStops, Handling
    <2>3. Answer(c, Says(202, "result")) => Ends(c)
        BY <1>1, <1>2, <2>2, ResultsTell
    <2> QED
        BY <2>1, <2>3, FailuresTell
<1> QED
    BY <1>4, <1>5, <1>6, <1>7 DEF OnRow

LEMMA EnsureRunningTells ==
    ASSUME NEW c, Handling(c), EnsureRunning(c)
    PROVE  Ends(c) \/ Continues(c)
<1> DEFINE i == input[c]
           w == witnessed'[c]
<1>1. i.op \in Inside /\ input'[c] = i /\ Facts(i.op) \subseteq w
    BY DEF Handling, EnsureRunning
<1>2. i.op # "keepalive"
    BY <1>1 DEF Inside
<1>3. \/ Proceed(c, "lookup")
      \/ Gate # {} /\ Answer(c, Classify(Gate))
      \/ Fails(c)
    BY DEF EnsureRunning
<1>4. Proceed(c, "lookup") => Continues(c)
    BY DEF Continues, Steps
<1>5. ASSUME Gate = {"not_found"}, Answer(c, Classify(Gate)) PROVE Ends(c)
    <2>1. "no row" \in w
        BY <1>1, <1>5, GateErrs, RowIsSeen
    <2> QED
        BY <1>1, <1>5, <2>1, Justifying DEF Ends
<1>6. ASSUME Gate = {"not_running"}, Answer(c, Classify(Gate)) PROVE Ends(c)
    <2>1. "row not running" \in w
        BY <1>1, <1>6, GateErrs, RowIsSeen
    <2> QED
        BY <1>1, <1>2, <1>6, <2>1, Justifying DEF Ends
<1> QED
    BY <1>3, <1>4, <1>5, <1>6, GateErrs, FailuresTell

LEMMA LookupTells ==
    ASSUME NEW c, Handling(c), Lookup(c)
    PROVE  Ends(c) \/ Continues(c)
<1> DEFINE i == input[c]
           w == witnessed'[c]
<1>1. i.op \in Inside /\ input'[c] = i /\ Facts(i.op) \subseteq w /\ "running row" \in w
    BY DEF Handling, Lookup
<1>2. \/ PathErrs(i) # {} /\ Answer(c, Classify(PathErrs(i)))
      \/ box = "none" /\ Answer(c, Classify({"not_found"}))
      \/ i.op = "inspect" /\ Answer(c, Says(200, "result"))
      \/ Proceed(c, "perform")
      \/ Fails(c)
      \/ i.op \in {"exec", "remove"} /\ Answer(c, Classify({"exec_timeout"}))
    BY DEF Lookup
<1>3. ASSUME PathErrs(i) # {}, Answer(c, Classify(PathErrs(i))) PROVE Ends(c)
    <2>1. CASE PathErrs(i) = {"invalid_path"}
        BY <1>1, <1>3, <2>1, Justifying DEF Ends
    <2>2. CASE PathErrs(i) = {"file_too_large"} /\ i.body = "overlong"
        BY <1>1, <1>3, <2>2, Justifying DEF Ends
    <2> QED
        BY <1>3, <2>1, <2>2, PathErrsOf
<1>4. ASSUME box = "none", Answer(c, Classify({"not_found"})) PROVE Ends(c)
    <2>1. "no container" \in w
        BY <1>1, <1>4, BoxIsSeen
    <2> QED
        BY <1>1, <1>4, <2>1, Justifying DEF Ends
<1>5. ASSUME i.op = "inspect", Answer(c, Says(200, "result")) PROVE Ends(c)
    BY <1>1, <1>5, Justifying DEF Ends
<1>6. Proceed(c, "perform") => Continues(c)
    BY DEF Continues, Steps
<1>7. ASSUME i.op \in {"exec", "remove"}, Answer(c, Classify({"exec_timeout"})) PROVE Ends(c)
    BY <1>1, <1>7, Justifying DEF Ends
<1> QED
    BY <1>2, <1>3, <1>4, <1>5, <1>6, <1>7, FailuresTell

LEMMA ReadsTell ==
    ASSUME RequestsAssumption, TypeOK, NEW c, Handling(c), Reads(c)
    PROVE  Ends(c) \/ Continues(c)
<1> DEFINE i == input[c]
           w == witnessed'[c]
           errs == IF i.op = "read" THEN ReadErrs ELSE ListErrs
<1>1. /\ i.op \in Inside /\ i.op \in {"read", "list"} /\ input'[c] = i
      /\ Facts(i.op) \subseteq w /\ "running row" \in w
    BY DEF Handling, Reads
<1>2. \/ errs = {} /\ Answer(c, Says(200, "result"))
      \/ errs # {} /\ Answer(c, Classify(errs))
      \/ Fails(c)
    BY DEF Reads
<1>3. PathFacts(i.op) \subseteq w
    BY <1>1, BoxIsSeen
<1>4. \/ errs = {} /\ "fitting path" \in w
      \/ /\ errs = {"path_not_found"}
         /\ "no path" \in w \/ (i.op = "read" /\ "not a regular file" \in w)
      \/ errs \in {{"file_too_large"}, {"too_many_files"}} /\ "over the limit" \in w
    <2>1. node \in Node
        BY DEF TypeOK
    <2> QED
        BY <1>1, <1>3, <2>1, PathIsSeen
<1> HIDE DEF errs
<1>5. ASSUME errs = {}, "fitting path" \in w, Answer(c, Says(200, "result")) PROVE Ends(c)
    BY <1>1, <1>5, Justifying DEF Ends
<1>6. ASSUME errs = {"path_not_found"}, Answer(c, Classify(errs)),
             "no path" \in w \/ (i.op = "read" /\ "not a regular file" \in w)
      PROVE  Ends(c)
    BY <1>1, <1>6, Justifying DEF Ends
<1>7. ASSUME errs \in {{"file_too_large"}, {"too_many_files"}}, Answer(c, Classify(errs)),
             "over the limit" \in w
      PROVE  Ends(c)
    BY <1>1, <1>7, Justifying DEF Ends
<1> QED
    BY <1>2, <1>4, <1>5, <1>6, <1>7, FailuresTell

LEMMA ChangersTell ==
    ASSUME TypeOK, NEW c, Handling(c), Writes(c) \/ Execs(c) \/ Removes(c)
    PROVE  Ends(c) \/ Continues(c)
<1> DEFINE i == input[c]
           w == witnessed'[c]
<1>1. /\ i.op \in Inside /\ i.op \in {"write", "exec", "remove"} /\ input'[c] = i
      /\ Facts(i.op) \subseteq w /\ "running row" \in w
    BY DEF Handling, Writes, Execs, Removes
<1>2. \/ \E n : Answer(c, Says(n, "result"))
      \/ box # "running" /\ Answer(c, Classify({"other"}))
      \/ /\ i.op \in {"exec", "remove"}
         /\ \/ Answer(c, Classify({"exec_timeout"}))
            \/ Answer(c, Classify({"exec_timeout", "exec_not_killed"}))
      \/ Fails(c)
    BY DEF Writes, Execs, Removes
<1>3. ASSUME NEW n, Answer(c, Says(n, "result")) PROVE Ends(c)
    BY <1>1, <1>3, Justifying DEF Ends
<1>4. ASSUME box # "running", Answer(c, Classify({"other"})) PROVE Ends(c)
    <2>1. box \in {"none", "stopped"}
        BY <1>4 DEF TypeOK
    <2>2. w \cap {"no container", "stopped container"} # {}
        BY <1>1, <2>1, BoxIsSeen
    <2> QED
        BY <1>1, <1>4, <2>2, Justifying DEF Ends
<1>5. ASSUME i.op \in {"exec", "remove"},
             \/ Answer(c, Classify({"exec_timeout"}))
             \/ Answer(c, Classify({"exec_timeout", "exec_not_killed"}))
      PROVE  Ends(c)
    BY <1>1, <1>5, Justifying DEF Ends
<1> QED
    BY <1>2, <1>3, <1>4, <1>5, FailuresTell

LEMMA ArriveTells ==
    ASSUME TypeOK, NEW c \in Call, Arrive(c)
    PROVE  Ends(c) \/ Continues(c)
<1>1. PICK i \in Input :
          /\ input' = [input EXCEPT ![c] = i]
          /\ IF Undecodable(i) THEN Answer(c, DecodeReply(i))
             ELSE Proceed(c, IF i.op \in Inside THEN "gate" ELSE "control")
    BY DEF Arrive
<1>2. input'[c] = i
    BY <1>1 DEF TypeOK
<1>3. CASE Undecodable(i)
    BY <1>1, <1>2, <1>3, Justifying DEF Ends
<1>4. CASE ~Undecodable(i)
    BY <1>1, <1>4 DEF Continues, Steps
<1> QED
    BY <1>3, <1>4

LEMMA HandlersTell ==
    ASSUME LimitsAssumption, RequestsAssumption, LifetimesFit,
           TypeOK, AllGated, Observe, NEW c \in Call, Handle(c)
    PROVE  Ends(c) \/ Continues(c)
<1>1. CASE Arrive(c)
    BY <1>1, ArriveTells
<1>2. CASE ~Arrive(c)
    <2>1. /\ at[c] \notin {"idle", "done"} /\ input' = input
          /\ at[c] = "control" => input[c].op \in OnRows
        BY <1>2 DEF Handle, OnRow, OnRows, Creates, Keepalives, DestroyReads, DestroyStops,
            ShowsRows, EnsureRunning, InContainer, Lookup, Reads, Writes, Execs, Removes
    <2>2. Functions /\ Gated(c)
        BY DEF AllGated
    <2>3. witnessed[c] \subseteq witnessed'[c] /\ Facts(input[c].op) \subseteq witnessed'[c]
        BY <2>1, <2>2, SeesMore
    <2>4. input[c].op \in Inside \union OnRows
        BY <2>1, <2>2 DEF TypeOK, Gated, OnRows
    <2>5. input[c] \in Input
        BY <2>4 DEF TypeOK, NoInput, Inside, OnRows
    <2>6. Handling(c)
        BY <2>1, <2>2, <2>3, <2>5 DEF Handling, Gated
    <2> QED
        BY <1>2, <2>6, OnRowTells, EnsureRunningTells, LookupTells, ReadsTell, ChangersTell
           DEF Handle, InContainer
<1> QED
    BY <1>1, <1>2

(* And nothing that comes later takes it back.                              *)
Told(c) == at[c] = "done" => Justified(c)

LEMMA StaysJustified ==
    ASSUME NEW r, NEW i, NEW w, NEW failed, Justifies(r, i, w, failed),
           NEW later, failed => later
    PROVE  Justifies(r, i, w, later)
BY DEF Justifies

LEMMA HandleKeepsTold ==
    ASSUME LimitsAssumption, RequestsAssumption, LifetimesFit,
           TypeOK, AllOwned, AllGated, StatusIsTrue, Observe, NEW c \in Call, Handle(c)
    PROVE  StatusIsTrue'
<1>1. Functions /\ Others(c)
    BY HandlesItsOwn DEF AllGated
<1>2. /\ at = [b \in Call |-> at[b]] /\ input = [b \in Call |-> input[b]]
      /\ reply = [b \in Call |-> reply[b]]
    BY <1>1 DEF Functions, AllOwned
<1>3. ASSUME NEW b \in Call, b # c PROVE Told(b)'
    <2>1. at'[b] = at[b] /\ input'[b] = input[b]
        BY <1>1, <1>2, <1>3 DEF Others
    <2>2. reply'[b] = reply[b]
        BY <1>2, <1>3, AnswersOrGoesOn DEF Answer, Proceed
    <2>3. b \in faulted' <=> b \in faulted
        BY <1>3, HandlesFaults
    <2>4. at[b] = "done" => witnessed'[b] = witnessed[b]
        BY DEF Observe
    <2>5. Told(b)
        BY DEF StatusIsTrue, Told
    <2>6. CASE at[b] = "done"
        <3>1. Justifies(reply[b], input[b], witnessed[b], b \in faulted)
            BY <2>5, <2>6 DEF Told, Justified
        <3>2. Justifies(reply[b], input[b], witnessed[b], b \in faulted')
            BY <2>3, <3>1, StaysJustified
        <3>3. Justifies(reply'[b], input'[b], witnessed'[b], b \in faulted')
            BY <2>1, <2>2, <2>4, <2>6, <3>2
        <3> QED
            BY <3>3 DEF Told, Justified
    <2> QED
        BY <2>1, <2>6 DEF Told
<1>4. Told(c)'
    <2>1. CASE Ends(c)
        <3>1. PICK r : Answer(c, r) /\ Justifies(r, input'[c], witnessed'[c], c \in faulted')
            BY <2>1 DEF Ends
        <3>2. reply'[c] = r
            BY <1>2, <3>1 DEF Answer
        <3> QED
            BY <3>1, <3>2 DEF Told, Justified
    <2>2. CASE Continues(c)
        BY <1>2, <2>2 DEF Continues, Proceed, Steps, Told
    <2> QED
        BY <2>1, <2>2, HandlersTell
<1> QED
    BY <1>3, <1>4 DEF StatusIsTrue, Told

-----------------------------------------------------------------------------
(* The steps of the daemon.                                                 *)

servingVars == <<vars, daemonVars>>

LEMMA ServingKeepsGated ==
    AllGated /\ [ServingNext]_servingVars => AllGated'
<1> SUFFICES ASSUME AllGated, [ServingNext]_servingVars PROVE AllGated'
    OBVIOUS
<1>1. ASSUME WorldMoves, Observe PROVE AllGated'
    <2>1. UNCHANGED requestVars
        BY <1>1 DEF WorldMoves
    <2>2. Functions'
        BY <1>1, <2>1, FunctionsStay DEF AllGated
    <2>3. ASSUME NEW b \in Call PROVE Gated(b)'
        <3>1. witnessed[b] \subseteq witnessed'[b]
            BY <1>1, SeesMore DEF AllGated
        <3> QED
            BY <2>1, <3>1 DEF AllGated, Gated, requestVars
    <2> QED
        BY <2>2, <2>3 DEF AllGated
<1>2. ASSUME NEW c \in Call, Serves(c), Observe PROVE AllGated'
    BY <1>2, HandleKeepsGated DEF Serves
<1>3. CASE UNCHANGED vars
    BY <1>3 DEF AllGated, Gated, Functions, vars, requestVars, worldVars
<1> QED
    BY <1>1, <1>2, <1>3 DEF ServingNext, servingVars

LEMMA ServingKeepsGiven ==
    ASSUME LimitsAssumption, RequestsAssumption, Fits
    PROVE  AllGiven /\ [ServingNext]_servingVars => AllGiven'
<1> SUFFICES ASSUME AllGiven, [ServingNext]_servingVars PROVE AllGiven'
    OBVIOUS
<1>1. ASSUME UNCHANGED <<at, input, granted>>, Functions' PROVE AllGiven'
    <2>1. ASSUME NEW b \in Call PROVE Given(b)'
        BY <1>1 DEF AllGiven, Given, AsAsked, TTLAsAsked, Lifetime, Seconds, Memory
    <2> QED
        BY <1>1, <2>1 DEF AllGiven
<1>2. ASSUME WorldMoves, Observe PROVE AllGiven'
    <2>1. UNCHANGED requestVars
        BY <1>2 DEF WorldMoves
    <2>2. Functions'
        BY <1>2, <2>1, FunctionsStay DEF AllGiven
    <2> QED
        BY <1>1, <2>1, <2>2 DEF requestVars
<1>3. ASSUME NEW c \in Call, Serves(c), Observe PROVE AllGiven'
    BY <1>3, HandleKeepsGiven DEF Serves
<1>4. CASE UNCHANGED vars
    BY <1>1, <1>4 DEF AllGiven, Functions, vars, requestVars
<1> QED
    BY <1>2, <1>3, <1>4 DEF ServingNext, servingVars

LEMMA ServingKeepsOwned ==
    AllOwned /\ [ServingNext]_servingVars => AllOwned'
<1> SUFFICES ASSUME AllOwned, [ServingNext]_servingVars PROVE AllOwned'
    OBVIOUS
<1>1. CASE UNCHANGED <<at, reply, touched>>
    BY <1>1 DEF AllOwned, Owned
<1>2. ASSUME NEW c \in Call, Serves(c) PROVE AllOwned'
    BY <1>2, HandleKeepsOwned DEF Serves
<1> QED
    BY <1>1, <1>2 DEF ServingNext, servingVars, vars, requestVars, WorldMoves

(* A clean drain waits for the last request, and closed the connections     *)
(* another could come by.                                                   *)
LEMMA ServingKeepsServer ==
    ServerInv /\ [ServingNext]_servingVars => ServerInv'
<1> SUFFICES ASSUME ServerInv, [ServingNext]_servingVars PROVE ServerInv'
    OBVIOUS
<1>1. CASE WorldMoves /\ UNCHANGED daemonVars
    BY <1>1 DEF WorldMoves, requestVars, daemonVars, ServerInv, InFlight
<1>2. ASSUME NEW c \in Call, Serves(c), UNCHANGED daemonVars PROVE ServerInv'
    <2>1. ~storeOpen' => server' \in {"returned", "exited"}
        BY <1>2 DEF ServerInv, daemonVars
    <2>2. ~(failure = "none" /\ server \in {"returned", "exited"})
        <3> SUFFICES ASSUME failure = "none", server \in {"returned", "exited"} PROVE FALSE
            OBVIOUS
        <3>1. at[c] \in {"idle", "done"}
            BY DEF ServerInv, InFlight
        <3>2. ~Connected
            BY DEF Connected
        <3>3. at[c] = "done"
            BY <1>2, <3>1, <3>2 DEF Serves
        <3> QED
            BY <1>2, <3>3 DEF Serves, Handle, Arrive, OnRow, Creates, Keepalives,
                DestroyReads, DestroyStops, ShowsRows, EnsureRunning, InContainer,
                Lookup, Reads, Writes, Execs, Removes
    <2> QED
        BY <1>2, <2>1, <2>2 DEF ServerInv, daemonVars
<1>3. CASE Serve /\ UNCHANGED vars
    <2>1. at' = at /\ InFlight' = InFlight
        BY <1>3 DEF vars, requestVars, InFlight
    <2>2. CASE Start \/ ServeFails \/ Stop
        BY <2>1, <2>2 DEF Start, ServeFails, Stop, ServerInv
    <2>3. CASE Drained
        BY <2>1, <2>3 DEF Drained, ServerInv
    <2>4. CASE GivesUp
        BY <2>1, <2>4 DEF GivesUp, ServerInv
    <2>5. CASE Cleanup \/ Exit
        BY <2>1, <2>5 DEF Cleanup, Exit, ServerInv
    <2> QED
        BY <1>3, <2>2, <2>3, <2>4, <2>5 DEF Serve
<1>4. CASE UNCHANGED servingVars
    BY <1>4 DEF servingVars, vars, requestVars, daemonVars, ServerInv, InFlight
<1> QED
    BY <1>1, <1>2, <1>3, <1>4 DEF ServingNext, servingVars

LEMMA ServingKeepsTypes ==
    ASSUME LimitsAssumption, RequestsAssumption
    PROVE  /\ TypeOK /\ AllOwned /\ AllGated /\ [ServingNext]_servingVars => TypeOK'
           /\ ServingTypeOK /\ AllOwned /\ AllGated /\ [ServingNext]_servingVars => ServingTypeOK'
<1>1. ASSUME TypeOK, AllOwned, AllGated, [ServingNext]_servingVars PROVE TypeOK'
    <2>1. CASE WorldMoves
        BY <1>1, <2>1, WorldKeepsTypes
    <2>2. ASSUME NEW c \in Call, Serves(c) PROVE TypeOK'
        BY <1>1, <2>2, HandleKeepsTypes DEF Serves, AllGated
    <2>3. CASE UNCHANGED vars
        BY <1>1, <2>3 DEF TypeOK, vars, worldVars, requestVars
    <2> QED
        BY <1>1, <2>1, <2>2, <2>3 DEF ServingNext, servingVars
<1>2. ASSUME ServingTypeOK, [ServingNext]_servingVars
      PROVE  /\ server' \in {"starting", "listening", "draining", "returned", "exited"}
             /\ failure' \in {"none", "listen", "serve", "shutdown"}
             /\ storeOpen' \in BOOLEAN
    <2>1. CASE UNCHANGED daemonVars
        BY <1>2, <2>1 DEF ServingTypeOK, daemonVars
    <2>2. CASE Serve
        BY <1>2, <2>2 DEF ServingTypeOK, Serve, Start, ServeFails, Stop, Drained, GivesUp,
            Cleanup, Exit
    <2> QED
        BY <1>2, <2>1, <2>2 DEF ServingNext, servingVars
<1> QED
    BY <1>1, <1>2 DEF ServingTypeOK

LEMMA ServingKeepsTold ==
    ASSUME LimitsAssumption, RequestsAssumption, LifetimesFit
    PROVE  TypeOK /\ AllOwned /\ AllGated /\ StatusIsTrue /\ [ServingNext]_servingVars
               => StatusIsTrue'
<1> SUFFICES ASSUME TypeOK, AllOwned, AllGated, StatusIsTrue, [ServingNext]_servingVars
             PROVE  StatusIsTrue'
    OBVIOUS
<1>1. ASSUME UNCHANGED <<at, input, reply, faulted>>,
             \A c \in Call : at[c] = "done" => witnessed'[c] = witnessed[c]
      PROVE  StatusIsTrue'
    BY <1>1 DEF StatusIsTrue, Justified
<1>2. CASE WorldMoves /\ Observe
    <2>1. UNCHANGED <<at, input, reply, faulted>>
        BY <1>2 DEF WorldMoves, requestVars
    <2>2. \A c \in Call : at[c] = "done" => witnessed'[c] = witnessed[c]
        BY <1>2 DEF Observe
    <2> QED
        BY <1>1, <2>1, <2>2
<1>3. ASSUME NEW c \in Call, Serves(c), Observe PROVE StatusIsTrue'
    BY <1>3, HandleKeepsTold DEF Serves
<1>4. CASE UNCHANGED vars
    BY <1>1, <1>4 DEF vars, requestVars
<1> QED
    BY <1>2, <1>3, <1>4 DEF ServingNext, servingVars

-----------------------------------------------------------------------------
(* ensureRunning: however many requests there are and however the row moves *)
(* between the gate and the work, none changes anything in a container      *)
(* without having seen a row that said running.                             *)
THEOREM ChangesAreGated == ServingSpec => []ChangesNeedRunningRow
<1>1. ServingInit => AllGated
    BY InitialRequests DEF ServingInit
<1>2. AllGated /\ [ServingNext]_servingVars => AllGated'
    BY ServingKeepsGated
<1>3. AllGated => ChangesNeedRunningRow
    BY DEF AllGated, Gated, ChangesNeedRunningRow
<1> QED
    BY <1>1, <1>2, <1>3, PTL DEF ServingSpec, servingVars

(* classify and the handlers: a request answered with a 4xx changed neither *)
(* the row nor the container, in whatever order the others came.            *)
THEOREM RejectionsChangeNothing == ServingSpec => []RejectedChangesNothing
<1>1. ServingInit => AllOwned
    BY DEF ServingInit, Init, AllOwned, Owned
<1>2. AllOwned /\ [ServingNext]_servingVars => AllOwned'
    BY ServingKeepsOwned
<1>3. AllOwned => RejectedChangesNothing
    BY DEF AllOwned, Owned, Mistake, RejectedChangesNothing
<1> QED
    BY <1>1, <1>2, <1>3, PTL DEF ServingSpec, servingVars

(* ceilSeconds, TTL, ResolveTTL, KeepaliveSandbox and parseMemory together: *)
(* with any width of an int64, any cap and any default, a lifetime that     *)
(* fits a time.Duration and a memory limit that is not negative are granted *)
(* as they were asked for or turned away.                                   *)
THEOREM GrantsAreAsAsked ==
    ASSUME LimitsAssumption, RequestsAssumption, Fits
    PROVE  ServingSpec => []GrantedAsAsked
<1>1. ServingInit => AllGiven
    BY InitialRequests DEF ServingInit
<1>2. AllGiven /\ [ServingNext]_servingVars => AllGiven'
    BY ServingKeepsGiven
<1>3. AllGiven => GrantedAsAsked
    BY DEF AllGiven, Given, AsAsked, TTLAsAsked, GrantedAsAsked
<1> QED
    BY <1>1, <1>2, <1>3, PTL DEF ServingSpec, servingVars

(* Stop and Cleanup: if Serve returns no error, the store was closed under  *)
(* no request and none begins afterwards, however many are in flight.       *)
THEOREM CleanExitsLoseNothing == ServingSpec => []CleanExitLosesNothing
<1>1. ServingInit => ServerInv
    BY DEF ServingInit, ServerInv
<1>2. ServerInv /\ [ServingNext]_servingVars => ServerInv'
    BY ServingKeepsServer
<1>3. ServerInv => CleanExitLosesNothing
    BY DEF ServerInv, CleanExitLosesNothing
<1> QED
    BY <1>1, <1>2, <1>3, PTL DEF ServingSpec, servingVars

(* The handlers, the control plane's moves and the daemon's own steps keep  *)
(* every variable of its type: no lifetime beyond the cap and no memory     *)
(* below the floor is granted, each request is answered exactly once, and a *)
(* container that is gone holds no file.                                    *)
THEOREM ServingTypesCorrect ==
    ASSUME LimitsAssumption, RequestsAssumption
    PROVE  ServingSpec => []ServingTypeOK
<1> DEFINE Typed == ServingTypeOK /\ AllOwned /\ AllGated
<1>1. ServingInit => Typed
    <2> SUFFICES ASSUME ServingInit PROVE Typed
        OBVIOUS
    <2>1. TypeOK
        BY DEF ServingInit, Init, World!Init, World!Absent, Absent, TypeOK, NoReply, NoGrant, Node
    <2>2. AllOwned /\ AllGated
        BY InitialRequests DEF ServingInit, Init, AllOwned, Owned
    <2> QED
        BY <2>1, <2>2 DEF ServingInit, ServingTypeOK
<1>2. Typed /\ [ServingNext]_servingVars => Typed'
    BY ServingKeepsTypes, ServingKeepsOwned, ServingKeepsGated
<1> QED
    BY <1>1, <1>2, PTL DEF ServingSpec, servingVars

(* classify, writeError and the handlers: whatever a request is answered    *)
(* was so at a moment while it was handled, with any number of requests,    *)
(* and however the row, the container and its files move in between.  It    *)
(* takes lifetimes that fit a time.Duration, or a rejection could blame one *)
(* that was good before it was converted.                                   *)
THEOREM StatusesAreTrue ==
    ASSUME LimitsAssumption, RequestsAssumption, LifetimesFit
    PROVE  ServingSpec => []StatusIsTrue
<1> DEFINE Inv == StatusIsTrue /\ TypeOK /\ AllOwned /\ AllGated
<1>1. ServingInit => Inv
    <2> SUFFICES ASSUME ServingInit PROVE Inv
        OBVIOUS
    <2>1. TypeOK
        BY DEF ServingInit, Init, World!Init, World!Absent, Absent, TypeOK, NoReply, NoGrant, Node
    <2>2. StatusIsTrue
        BY DEF ServingInit, Init, StatusIsTrue
    <2>3. AllOwned /\ AllGated
        BY InitialRequests DEF ServingInit, Init, AllOwned, Owned
    <2> QED
        BY <2>1, <2>2, <2>3
<1>2. Inv /\ [ServingNext]_servingVars => Inv'
    BY ServingKeepsTold, ServingKeepsTypes, ServingKeepsOwned, ServingKeepsGated
<1> QED
    BY <1>1, <1>2, PTL DEF ServingSpec, servingVars

-----------------------------------------------------------------------------
(* The handlers, seen from outside.                                         *)
LEMMA HandlersFollowWorld ==
    ASSUME NEW c \in Call, Handle(c)
    PROVE  World!Next \/ UNCHANGED <<row, box>>
<1>1. ASSUME Untouched \/ \E what \in Node : Leaves(c, what)
      PROVE  UNCHANGED <<row, box>>
    BY <1>1 DEF Untouched, worldVars, Leaves
<1>2. CASE Creates(c)
    <2>1. ASSUME row = Absent, box = "none", Moves(c, "pending") PROVE World!Next
        BY <2>1 DEF Moves, World!Next, World!Recorded, World!Absent, Absent
    <2> QED
        BY <1>1, <1>2, <2>1 DEF Creates
<1>3. CASE Keepalives(c)
    BY <1>1, <1>3 DEF Keepalives, Moves
<1>4. CASE DestroyStops(c)
    <2>1. ASSUME row = "running", Moves(c, "stopping") PROVE World!Next
        <3>1. World!CanTransition(row, "stopping") /\ "stopping" \in World!TaskState
            BY <2>1 DEF World!CanTransition, World!ValidTransitions, World!TaskState
        <3> QED
            BY <2>1, <3>1 DEF Moves, World!Next, World!RowMoves
    <2> QED
        BY <1>1, <1>4, <2>1 DEF DestroyStops
<1>5. CASE Arrive(c) \/ DestroyReads(c) \/ ShowsRows(c) \/ EnsureRunning(c) \/ Lookup(c) \/ Reads(c)
    BY <1>1, <1>5 DEF Arrive, DestroyReads, ShowsRows, EnsureRunning, Lookup, Reads
<1>6. CASE Writes(c) \/ Removes(c)
    BY <1>6 DEF Writes, Removes, Leaves, Untouched, worldVars
<1>7. CASE Execs(c)
    BY <1>1, <1>7 DEF Execs
<1> QED
    BY <1>2, <1>3, <1>4, <1>5, <1>6, <1>7 DEF Handle, OnRow, InContainer

(* control.go and server.go: any number of handlers writes only what each   *)
(* of them, and the daemon around them, takes to be possible.               *)
THEOREM HandlersKeepToTheWorld == ServingSpec => RequestsFollowWorld
<1>1. ServingInit => World!Init
    BY DEF ServingInit, Init
<1>2. [ServingNext]_servingVars => [World!Next]_(World!vars)
    <2>1. CASE WorldMoves
        BY <2>1 DEF WorldMoves, SandboxMoves, FilesChange, World!vars
    <2>2. ASSUME NEW c \in Call, Serves(c)
          PROVE  World!Next \/ UNCHANGED World!vars
        BY <2>2, HandlersFollowWorld DEF Serves, World!vars
    <2>3. CASE UNCHANGED vars
        BY <2>3 DEF vars, worldVars, World!vars
    <2> QED
        BY <2>1, <2>2, <2>3 DEF ServingNext, servingVars
<1> QED
    BY <1>1, <1>2, PTL DEF ServingSpec, servingVars, RequestsFollowWorld, World!Spec
=============================================================================
