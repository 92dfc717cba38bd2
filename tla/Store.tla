------------------------------- MODULE Store -------------------------------
(***************************************************************************)
(* internal/store/sqlite: the three tables and the transactions over them.  *)
(*                                                                          *)
(* The pool holds one connection, so a transaction runs alone: each is one  *)
(* atomic step here.  What a caller does in two calls is two steps, and     *)
(* other callers run in between.  A transaction that fails is rolled back,  *)
(* which is the caller's business: the store's variables do not change.     *)
(*                                                                          *)
(* Nothing here says who calls: StoreNext lets any caller try any write     *)
(* with any observation, however stale, so what is proved of StoreSpec      *)
(* holds for the handlers, the reconciler and writers not yet written.      *)
(***************************************************************************)
EXTENDS Sandbox

CONSTANTS
    Key,            \* idempotency keys
    MaxExpiry,      \* bound: the latest expires_at a row may carry
    MaxVersion      \* bound: the latest version a caller may claim to have read

(* A row's version ends at 4: pending, running, stopping, stopped.          *)
ASSUME StoreAssumption ==
    /\ MaxExpiry \in Nat
    /\ MaxVersion \in Nat /\ MaxVersion >= 4

VARIABLES
    sandboxes,      \* table sandboxes: one row per identifier, or NoRow
    keys,           \* table idempotency_keys: the sandbox each key names,
                    \* or NoSandbox
    events          \* table events

storeVars == <<sandboxes, keys, events>>

State == TaskState \union {Absent}
Expiry == 0 .. MaxExpiry
Version == 0 .. MaxVersion
Row == [state : State, versionID : Nat, expiresAt : Expiry]
NoRow == [state |-> Absent, versionID |-> 0, expiresAt |-> 0]
Event == [sandboxID : SandboxID, versionID : Nat, from : State, to : State]

Exists(s) == sandboxes[s].state # Absent
Live(s) == sandboxes[s].state \in {"pending", "running"}

-----------------------------------------------------------------------------
(* appendEvent, inside the caller's transaction: the unique index on        *)
(* (sandbox_id, version_id) fails the whole transaction on a second event.  *)
CanAppend(s, v) == \A e \in events : ~(e.sandboxID = s /\ e.versionID = v)

AppendEvent(s, v, from, to) ==
    /\ CanAppend(s, v)
    /\ events' = events \union
           {[sandboxID |-> s, versionID |-> v, from |-> from, to |-> to]}

(* The transaction of CreateSandbox: the row, its key and the first event.  *)
(* The key's UNIQUE constraint refuses a key somebody recorded since the    *)
(* caller looked it up.                                                     *)
KeyReplaced(k) == k \in Key          \* faulty variant: INSERT OR REPLACE
CanInsert(k) == keys[k] = NoSandbox

InsertSandbox(k, s, expiresAt) ==
    /\ CanInsert(k)
    /\ sandboxes[s] = NoRow
    /\ sandboxes' = [sandboxes EXCEPT ![s] =
           [state |-> "pending", versionID |-> 1, expiresAt |-> expiresAt]]
    /\ keys' = [keys EXCEPT ![k] = s]
    /\ AppendEvent(s, 1, Absent, "pending")

(* UpdateSandboxState: the WHERE clause restates the state and the version  *)
(* the caller observed; a hit bumps the version and records the event.      *)
MatchesID(s, from, v) == Exists(s)        \* faulty variant: WHERE sandbox_id only

Matches(s, from, v) ==
    /\ sandboxes[s].state = from
    /\ sandboxes[s].versionID = v

UpdateWithoutEvent(s, from, to, v) ==     \* faulty variant: no history
    /\ CanTransition(from, to)
    /\ Matches(s, from, v)
    /\ sandboxes' = [sandboxes EXCEPT ![s] =
           [state |-> to, versionID |-> v + 1, expiresAt |-> sandboxes[s].expiresAt]]
    /\ UNCHANGED <<keys, events>>

UpdateSandboxState(s, from, to, v) ==
    /\ CanTransition(from, to)
    /\ Matches(s, from, v)
    /\ sandboxes' = [sandboxes EXCEPT ![s] =
           [state |-> to, versionID |-> v + 1, expiresAt |-> sandboxes[s].expiresAt]]
    /\ AppendEvent(s, v + 1, from, to)
    /\ UNCHANGED keys

(* The write is refused: an illegal transition, or no row matched.          *)
UpdateRefused(s, from, to, v) == ~CanTransition(from, to) \/ ~Matches(s, from, v)

(* UpdateSandboxExpiry: guarded by the live states only; the version stays. *)
RenewAsVersion(s, expiresAt) ==   \* faulty variant: a renewal is a new version
    /\ Live(s)
    /\ sandboxes' = [sandboxes EXCEPT ![s].expiresAt = expiresAt,
                                      ![s].versionID = @ + 1]
    /\ UNCHANGED <<keys, events>>

UpdateSandboxExpiry(s, expiresAt) ==
    /\ Live(s)
    /\ sandboxes' = [sandboxes EXCEPT ![s].expiresAt = expiresAt]
    /\ UNCHANGED <<keys, events>>

-----------------------------------------------------------------------------
StoreInit ==
    /\ sandboxes = [s \in SandboxID |-> NoRow]
    /\ keys = [k \in Key |-> NoSandbox]
    /\ events = {}

StoreNext ==
    \/ \E k \in Key, s \in SandboxID, x \in Expiry : InsertSandbox(k, s, x)
    \/ \E s \in SandboxID, from, to \in TaskState, v \in Version :
           UpdateSandboxState(s, from, to, v)
    \/ \E s \in SandboxID, x \in Expiry : UpdateSandboxExpiry(s, x)

StoreSpec == StoreInit /\ [][StoreNext]_storeVars

-----------------------------------------------------------------------------
(* Every table holds what its columns may hold. *)
StoreTypeOK ==
    /\ sandboxes \in [SandboxID -> Row]
    /\ keys \in [Key -> SandboxID \union {NoSandbox}]
    /\ events \subseteq Event

(* The row and its history cannot diverge (appendEvent shares the           *)
(* transition's transaction): the events of a sandbox number 1 to the row's *)
(* version without gap or repetition, each starts where the one before      *)
(* ended, the first starts from nothing, and the last ends where the row is.*)
EventsOf(s) == {e \in events : e.sandboxID = s}

NumberedOnce(s) ==
    \A v \in 1 .. sandboxes[s].versionID :
        \E e \in EventsOf(s) :
            /\ e.versionID = v
            /\ \A f \in EventsOf(s) : f.versionID = v => f = e

NothingBeyondRow(s) ==
    \A e \in EventsOf(s) : e.versionID \in 1 .. sandboxes[s].versionID

Chained(s) ==
    \A e \in EventsOf(s) :
        /\ e.versionID = 1 => e.from = Absent /\ e.to = "pending"
        /\ \A f \in EventsOf(s) : f.versionID = e.versionID + 1 => f.from = e.to

EndsAtRow(s) ==
    \A e \in EventsOf(s) :
        e.versionID = sandboxes[s].versionID => e.to = sandboxes[s].state

HistoryReplays ==
    \A s \in SandboxID :
        NumberedOnce(s) /\ NothingBeyondRow(s) /\ Chained(s) /\ EndsAtRow(s)

(* CreateSandbox records the row and its key as one unit: every row is      *)
(* named by exactly one key, and no key names a sandbox that has no row, so *)
(* a retry under the same key can neither make a second sandbox nor be told *)
(* of one that does not exist.                                              *)
OneKeyPerSandbox ==
    /\ \A k \in Key : keys[k] # NoSandbox => Exists(keys[k])
    /\ \A s \in SandboxID : Exists(s) =>
           \E k \in Key : keys[k] = s /\ \A j \in Key : keys[j] = s => j = k

(* Rows go through the abstract life of a sandbox, whatever the callers do. *)
Lifecycle == INSTANCE SandboxLifecycle WITH
    state   <- [s \in SandboxID |-> sandboxes[s].state],
    version <- [s \in SandboxID |-> sandboxes[s].versionID]

ImplementsLifecycle == Lifecycle!Spec

(* A key, once recorded, names the same sandbox for ever. *)
KeysNeverMove ==
    [][\A k \in Key : keys[k] # NoSandbox => keys'[k] = keys[k]]_storeVars
=============================================================================
