------------------------------ MODULE Control ------------------------------
(***************************************************************************)
(* internal/control: the request handlers that write the store.  Each       *)
(* request runs in a goroutine of its own; between two calls to the store   *)
(* everything else may run, and what was read may be stale.                 *)
(*                                                                          *)
(* Requests the handlers turn away before the store (an unresolvable spec,  *)
(* a lifetime outside its limits, an unknown id) change nothing and are not *)
(* steps.                                                                   *)
(***************************************************************************)
EXTENDS Store, Environment

CONSTANTS
    Client,         \* requests in flight at a time
    TTL,            \* lifetimes ResolveTTL may return
    Orphans         \* ids of containers older than this database: a fresh
                    \* random id is never one of them

ASSUME ControlAssumption ==
    /\ TTL \subseteq Nat \ {0}
    /\ Orphans \subseteq SandboxID
    /\ \A d \in TTL : MaxTime + d <= MaxExpiry

VARIABLES
    req,            \* what each request has read and will do next
    answered        \* history: the sandboxes a create was answered with

controlVars == <<req, answered>>

(* A handler between its two calls to the store. *)
Idle == [at |-> "idle"]
Inserting(k, x) == [at |-> "insert", key |-> k, expiresAt |-> x]
Stopping(s, v) == [at |-> "destroy", id |-> s, versionID |-> v]

Request ==
    {Idle}
    \union {Inserting(k, x) : k \in Key, x \in Expiry}
    \union [at : {"destroy"}, id : SandboxID, versionID : Version]

Answer(c) == req' = [req EXCEPT ![c] = Idle]

-----------------------------------------------------------------------------
(* CreateSandbox fixes the lease, then the store looks the key up: a known   *)
(* key answers with its sandbox, untouched.                                  *)
CreateLookup(c, k, ttl) ==
    /\ req[c] = Idle
    /\ NoFault
    /\ UNCHANGED storeVars
    /\ \/ /\ keys[k] # NoSandbox
          /\ answered' = [answered EXCEPT ![k] = @ \union {keys[k]}]
          /\ UNCHANGED req
       \/ /\ keys[k] = NoSandbox
          /\ req' = [req EXCEPT ![c] = Inserting(k, now + ttl)]
          /\ UNCHANGED answered

(* ... an unknown key inserts a pending row under a fresh id.  A key taken   *)
(* since the lookup, or a store that fails, is an internal error.            *)
CreateInsert(c) ==
    /\ req[c].at = "insert"
    /\ LET k == req[c].key IN
       \/ \E s \in SandboxID \ Orphans :
              /\ InsertSandbox(k, s, req[c].expiresAt)
              /\ answered' = [answered EXCEPT ![k] = @ \union {s}]
              /\ NoFault
       \/ /\ ~CanInsert(k)
          /\ NoFault
          /\ UNCHANGED <<storeVars, answered>>
       \/ /\ Fault
          /\ UNCHANGED <<storeVars, answered>>
    /\ Answer(c)

(* DestroySandbox loads the row's version ...                                *)
DestroyRead(c, s) ==
    /\ req[c] = Idle
    /\ Exists(s)
    /\ req' = [req EXCEPT ![c] = Stopping(s, sandboxes[s].versionID)]
    /\ NoFault
    /\ UNCHANGED <<storeVars, answered>>

(* ... and asks for running -> stopping at that version.  A refused write is *)
(* answered as a success, like one that took place.                          *)
DestroyAccepted(c) ==
    LET s == req[c].id
        v == req[c].versionID
    IN  /\ req[c].at = "destroy"
        /\ \/ UpdateSandboxState(s, "running", "stopping", v)
           \/ UpdateRefused(s, "running", "stopping", v) /\ UNCHANGED storeVars
        /\ NoFault
        /\ Answer(c)
        /\ UNCHANGED answered

DestroyErrs(c) ==
    /\ req[c].at = "destroy"
    /\ Fault
    /\ Answer(c)
    /\ UNCHANGED <<storeVars, answered>>

(* KeepaliveSandbox replaces the lease of a live row with one measured from  *)
(* now, shorter or longer.                                                   *)
ExtendLease(s, ttl) ==            \* faulty variant: measured from the old lease
    /\ UpdateSandboxExpiry(s, sandboxes[s].expiresAt + ttl)
    /\ NoFault
    /\ UNCHANGED controlVars

ReviveLease(s, ttl) ==            \* faulty variant: a dead row is renewed too
    /\ Exists(s)
    /\ sandboxes' = [sandboxes EXCEPT ![s].expiresAt = now + ttl]
    /\ NoFault
    /\ UNCHANGED <<keys, events, controlVars>>

Keepalive(s, ttl) ==
    /\ UpdateSandboxExpiry(s, now + ttl)
    /\ NoFault
    /\ UNCHANGED controlVars

ControlInit ==
    /\ req = [c \in Client |-> Idle]
    /\ answered = [k \in Key |-> {}]

ControlNext ==
    \/ \E c \in Client, k \in Key, ttl \in TTL : CreateLookup(c, k, ttl)
    \/ \E c \in Client : CreateInsert(c)
    \/ \E c \in Client, s \in SandboxID : DestroyRead(c, s)
    \/ \E c \in Client : DestroyAccepted(c) \/ DestroyErrs(c)
    \/ \E s \in SandboxID, ttl \in TTL : Keepalive(s, ttl)

ControlTypeOK ==
    /\ req \in [Client -> Request]
    /\ answered \in [Key -> SUBSET SandboxID]
=============================================================================
