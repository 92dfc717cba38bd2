------------------------------ MODULE Serving -------------------------------
(***************************************************************************)
(* internal/daemon and the life of the server around its requests: Serve    *)
(* opens the store, starts the server, and closes the store when the server *)
(* has returned; Stop lets the requests in flight finish, for a while.      *)
(***************************************************************************)
EXTENDS Requests

VARIABLES
    server,         \* where Serve is
    failure,        \* the error it will return with, or "none"
    storeOpen

daemonVars == <<server, failure, storeOpen>>

InFlight == {c \in Call : at[c] \notin {"idle", "done"}}

-----------------------------------------------------------------------------
(* Start binds first: a port in use ends the daemon before any request.     *)
Start ==
    /\ server = "starting"
    /\ \/ server' = "listening" /\ UNCHANGED failure
       \/ server' = "returned" /\ failure' = "listen"
    /\ UNCHANGED storeOpen

(* The listener breaks: Start returns without a drain.                      *)
ServeFails ==
    /\ server = "listening"
    /\ server' = "returned" /\ failure' = "serve"
    /\ UNCHANGED storeOpen

(* SIGTERM: Start calls Stop, which waits for the requests in flight.       *)
Stop ==
    /\ server = "listening"
    /\ server' = "draining"
    /\ UNCHANGED <<failure, storeOpen>>

Drained ==
    /\ server = "draining" /\ InFlight = {}
    /\ server' = "returned"
    /\ UNCHANGED <<failure, storeOpen>>

(* shutdownTimeout: whoever is still running is given up, and reported.     *)
GivesUpQuietly ==               \* faulty variant: the timeout is swallowed
    /\ server = "draining"
    /\ server' = "returned"
    /\ UNCHANGED <<failure, storeOpen>>

NeverGivesUp ==                 \* faulty variant: a drain without a timeout
    /\ server = "draining" /\ InFlight = {}
    /\ server' = "returned" /\ failure' = "shutdown"
    /\ UNCHANGED storeOpen

GivesUp ==
    /\ server = "draining"
    /\ server' = "returned" /\ failure' = "shutdown"
    /\ UNCHANGED storeOpen

(* The deferred Cleanup, and main's exit.                                   *)
Cleanup ==
    /\ server = "returned" /\ storeOpen
    /\ storeOpen' = FALSE
    /\ UNCHANGED <<server, failure>>

Exit ==
    /\ server = "returned" /\ ~storeOpen
    /\ server' = "exited"
    /\ UNCHANGED <<failure, storeOpen>>

Serve == Start \/ ServeFails \/ Stop \/ Drained \/ GivesUp \/ Cleanup \/ Exit

-----------------------------------------------------------------------------
(* A drain closes connections as they fall idle, so one that is open may    *)
(* still bring a request; none is left once it has ended well.              *)
Connected ==
    server \in {"listening", "draining"} \/ (server = "returned" /\ failure \in {"serve", "shutdown"})

CallsStore(c) == at[c] \in {"control", "stop", "refused", "gate"}

(* A goroutine runs until the process is gone.  Of a closed store it gets   *)
(* an error, unless it is turned away before it calls it.                   *)
Serves(c) ==
    /\ server # "exited"
    /\ at[c] = "idle" => Connected
    /\ Handle(c)
    /\ CallsStore(c) /\ ~storeOpen => c \in faulted' \/ reply'[c].about = "input"

ServingInit ==
    /\ Init
    /\ server = "starting" /\ failure = "none" /\ storeOpen = TRUE

ServingNext ==
    \/ /\ WorldMoves \/ \E c \in Call : Serves(c)
       /\ Observe
       /\ UNCHANGED daemonVars
    \/ Serve /\ UNCHANGED vars

(* The timer of a drain fires, and what is left to do after it is done.     *)
(* Nothing is assumed of requests.                                          *)
ServingSpec ==
    /\ ServingInit /\ [][ServingNext]_<<vars, daemonVars>>
    /\ WF_<<vars, daemonVars>>((GivesUp \/ Cleanup \/ Exit) /\ UNCHANGED vars)

-----------------------------------------------------------------------------
ServingTypeOK ==
    /\ TypeOK
    /\ server \in {"starting", "listening", "draining", "returned", "exited"}
    /\ failure \in {"none", "listen", "serve", "shutdown"}
    /\ storeOpen \in BOOLEAN

(* server.go:549 (Stop): "A timeout is returned rather than swallowed": the *)
(* store is closed under a request, or the process exits with one, only if  *)
(* Serve reports an error; and no request begins after a clean drain.       *)
CleanExitLosesNothing == ~storeOpen /\ failure = "none" => InFlight = {}

(* server.go:549: "a long-running exec must not hold the process open       *)
(* forever on exit": a drain ends whatever the requests do.                 *)
ShutdownEnds == server = "draining" ~> server = "exited"
=============================================================================
