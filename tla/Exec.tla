-------------------------------- MODULE Exec --------------------------------
(***************************************************************************)
(* Runtime.Exec of internal/runtime/docker: commands run in one container   *)
(* by concurrent callers.  Each call is a goroutine that talks to the       *)
(* daemon under a deadline, and a second goroutine that copies the          *)
(* command's output from a connection no context can interrupt.  A call     *)
(* that gives up kills its command with pkill, by command line.             *)
(***************************************************************************)
EXTENDS Naturals, FiniteSets

CONSTANTS
    Call,           \* concurrent calls of Exec on one container
    Command,        \* command lines
    MaxOutput,      \* bound: what a command may write
    Cap,            \* runtime.MaxStreamBytes
    PipeSize,       \* what a command may write before somebody reads
    MaxErrors,      \* bound: daemon calls that fail
    IgnoresTerm     \* commands that survive the signal pkill sends

ASSUME ExecAssumption ==
    /\ MaxOutput \in Nat /\ Cap \in Nat /\ MaxErrors \in Nat
    /\ PipeSize \in Nat \ {0}
    /\ IgnoresTerm \subseteq Command

VARIABLES
    pc,             \* where the caller's goroutine is
    ctx,            \* live, deadline (of the exec), cancelled (by the caller)
    cmd,            \* the command line asked for
    proc,           \* the process: none, running, exited
    argv,           \* its command line now: own or other
    out,            \* its output: open (maybe held by a child) or closed
    conn,           \* the attached connection: none, open, closed (by us), lost
    copier,         \* the copying goroutine: none, copying, eof, failed
    written, read,  \* output the process wrote, and the copier took
    captured,       \* length of the capped buffer
    truncated,      \* the buffer's truncated flag
    result,         \* what the call returned
    container,      \* is the container still there?
    errors          \* daemon calls that failed so far

callerVars == <<pc, result>>
copierVars == <<copier, read, captured, truncated>>
procVars == <<proc, argv, out, written>>
vars == <<callerVars, ctx, cmd, procVars, conn, copierVars, container, errors>>

NoResult == [kind |-> "none", killFailed |-> FALSE, length |-> 0, cut |-> FALSE]
Kind == {"none", "ok", "timeout", "cancelled", "error"}

-----------------------------------------------------------------------------
(* Faulty variant: whatever ended the context is called a timeout.          *)
DoneIsTimeout(c) == IF ctx[c] = "live" THEN "error" ELSE "timeout"

(* classifyExecDone: the caller's own cancellation wins over the deadline.  *)
DoneErr(c) == IF ctx[c] = "cancelled" THEN "cancelled" ELSE "timeout"

(* A daemon call that fails is blamed on the context if that is done.       *)
Blame(c) == IF ctx[c] = "live" THEN "error" ELSE DoneErr(c)

(* result() and partial() read the buffers the copier writes.               *)
Return(c, kind, killFailed) ==
    /\ pc' = [pc EXCEPT ![c] = "done"]
    /\ result' = [result EXCEPT ![c] =
           [kind |-> kind, killFailed |-> killFailed,
            length |-> captured[c], cut |-> truncated[c]]]

Goto(c, step) == pc' = [pc EXCEPT ![c] = step] /\ UNCHANGED result

DaemonErrs == errors < MaxErrors /\ errors' = errors + 1

(* A call to the daemon fails: its context is done, the container is gone,  *)
(* or the daemon errs.                                                      *)
CallFails(c) ==
    \/ (ctx[c] # "live" \/ ~container) /\ UNCHANGED errors
    \/ DaemonErrs

CallWorks == container /\ UNCHANGED errors

-----------------------------------------------------------------------------
(* The label lookup and ExecCreate, under the exec's own deadline.          *)
Prepare(c) ==
    /\ pc[c] \in {"lookup", "create"}
    /\ \/ CallWorks /\ Goto(c, IF pc[c] = "lookup" THEN "create" ELSE "attach")
       \/ CallFails(c) /\ Return(c, Blame(c), FALSE)
    /\ UNCHANGED <<ctx, cmd, procVars, conn, copierVars, container>>

(* ExecAttach starts the command and opens the connection; a goroutine      *)
(* copies from then on.  A failed attach returns at once, without a kill,   *)
(* although the daemon may have started the command before it failed.       *)
Attach(c) ==
    /\ pc[c] = "attach"
    /\ \/ /\ CallWorks
          /\ Goto(c, "stream")
          /\ proc' = [proc EXCEPT ![c] = "running"]
          /\ conn' = [conn EXCEPT ![c] = "open"]
          /\ copier' = [copier EXCEPT ![c] = "copying"]
       \/ /\ CallFails(c)
          /\ Return(c, Blame(c), FALSE)
          /\ \/ UNCHANGED proc
             \/ container /\ proc' = [proc EXCEPT ![c] = "running"]
          /\ UNCHANGED <<conn, copier>>
    /\ UNCHANGED <<ctx, cmd, argv, out, written, read, captured, truncated, container>>

(* Faulty variant: the connection is left open, the copier left reading.    *)
SelectWithoutClose(c) ==
    /\ pc[c] = "stream"
    /\ \/ copier[c] = "eof" /\ Goto(c, "await")
       \/ copier[c] = "failed" /\ Goto(c, "kill_error")
       \/ ctx[c] # "live" /\ Goto(c, "drain")
    /\ UNCHANGED <<ctx, cmd, procVars, conn, copierVars, container, errors>>

(* The select: the copy is over, or the context is.  In the second case the *)
(* connection is closed, the only interrupt of a blocked read, and ...      *)
Select(c) ==
    /\ pc[c] = "stream"
    /\ \/ copier[c] = "eof" /\ Goto(c, "await") /\ UNCHANGED conn
       \/ copier[c] = "failed" /\ Goto(c, "kill_error") /\ UNCHANGED conn
       \/ /\ ctx[c] # "live"
          /\ Goto(c, "drain")
          /\ conn' = [conn EXCEPT ![c] = "closed"]
    /\ UNCHANGED <<ctx, cmd, procVars, copierVars, container, errors>>

(* ... the copier is waited for: it writes the buffers the result reads.    *)
DrainWithoutWaiting(c) ==         \* faulty variant: the copier may still write
    /\ pc[c] = "drain"
    /\ Goto(c, "kill_done")
    /\ UNCHANGED <<ctx, cmd, procVars, conn, copierVars, container, errors>>

Drain(c) ==
    /\ pc[c] = "drain"
    /\ copier[c] # "copying"
    /\ Goto(c, "kill_done")
    /\ UNCHANGED <<ctx, cmd, procVars, conn, copierVars, container, errors>>

AwaitOnce(c) ==                   \* faulty variant: the exit code is not waited for
    /\ pc[c] = "await"
    /\ \/ CallWorks /\ proc[c] # "none" /\ Return(c, "ok", FALSE)
       \/ CallFails(c) /\ Goto(c, IF ctx[c] = "live" THEN "kill_error" ELSE "kill_done")
    /\ UNCHANGED <<ctx, cmd, procVars, conn, copierVars, container>>

(* awaitExecExit polls until the process is seen to have exited.            *)
Await(c) ==
    /\ pc[c] = "await"
    /\ \/ CallWorks /\ proc[c] = "exited" /\ Return(c, "ok", FALSE)
       \/ CallFails(c) /\ Goto(c, IF ctx[c] = "live" THEN "kill_error" ELSE "kill_done")
    /\ UNCHANGED <<ctx, cmd, procVars, conn, copierVars, container>>

(* killExec, on a context of its own: pkill signals every process whose     *)
(* command line is exactly the command's, and finding none is a success.    *)
(* No pkill in the image, or no answer (whatever became of the signal): the *)
(* failure is joined to the cause.                                          *)
Victims(c) ==
    {p \in Call : proc[p] = "running" /\ argv[p] = "own" /\ cmd[p] = cmd[c]}

Terminated(c) ==
    [p \in Call |-> IF p \in Victims(c) /\ cmd[p] \notin IgnoresTerm
                   THEN "exited" ELSE proc[p]]

KillAssumed(c) ==                 \* faulty variant: a missing pkill is a success
    LET cause == IF pc[c] = "kill_done" THEN DoneErr(c) ELSE "error" IN
    /\ pc[c] \in {"kill_done", "kill_error"}
    /\ \/ CallWorks /\ proc' = Terminated(c)
       \/ ((~container /\ UNCHANGED errors) \/ DaemonErrs) /\ UNCHANGED proc
    /\ Return(c, cause, FALSE)
    /\ UNCHANGED <<ctx, cmd, argv, out, written, conn, copierVars, container>>

Kill(c) ==
    LET cause == IF pc[c] = "kill_done" THEN DoneErr(c) ELSE "error" IN
    /\ pc[c] \in {"kill_done", "kill_error"}
    /\ \/ CallWorks /\ proc' = Terminated(c) /\ Return(c, cause, FALSE)
       \/ /\ \/ ~container /\ UNCHANGED <<errors, proc>>
             \/ DaemonErrs /\ proc' \in {proc, Terminated(c)}
          /\ Return(c, cause, TRUE)
    /\ UNCHANGED <<ctx, cmd, argv, out, written, conn, copierVars, container>>

-----------------------------------------------------------------------------
(* Faulty variants: a buffer without a limit; one exactly full is called cut.*)
UncappedWrite(c, n) ==
    captured' = [captured EXCEPT ![c] = @ + n] /\ UNCHANGED truncated

CutWhenFull(c, n) ==
    LET room == Cap - captured[c] IN
    /\ captured' = [captured EXCEPT ![c] = @ + (IF n > room THEN room ELSE n)]
    /\ truncated' = [truncated EXCEPT ![c] = @ \/ n >= room]

(* cappedWriter.Write: keep what fits, note what does not, take it all.     *)
CappedWrite(c, n) ==
    LET room == Cap - captured[c] IN
    /\ captured' = [captured EXCEPT ![c] = @ + (IF n > room THEN room ELSE n)]
    /\ truncated' = [truncated EXCEPT ![c] = @ \/ n > room]

(* Faulty variant: the reading side is capped, and stops at the cap.        *)
CopyUpToCap(c) ==
    /\ copier[c] = "copying" /\ conn[c] = "open"
    /\ \E n \in 1 .. (written[c] - read[c]) :
           /\ captured[c] + n <= Cap
           /\ read' = [read EXCEPT ![c] = @ + n]
           /\ CappedWrite(c, n)
    /\ UNCHANGED <<callerVars, ctx, cmd, procVars, conn, copier, container, errors>>

(* StdCopy takes what the pipe holds, until the stream ends ...             *)
CopyChunk(c) ==
    /\ copier[c] = "copying" /\ conn[c] = "open"
    /\ \E n \in 1 .. (written[c] - read[c]) :
           /\ read' = [read EXCEPT ![c] = @ + n]
           /\ CappedWrite(c, n)
    /\ UNCHANGED <<callerVars, ctx, cmd, procVars, conn, copier, container, errors>>

(* ... when all was read, which is a clean end; when the caller closes the  *)
(* connection; or when the connection is lost before.  A read then fails,   *)
(* or finds the end of the stream, and StdCopy calls that a clean end too,  *)
(* in the middle of a frame as well as between two.                         *)
CopyEnds(c) ==
    /\ copier[c] = "copying"
    /\ \/ /\ conn[c] = "open" /\ out[c] = "closed" /\ read[c] = written[c]
          /\ copier' = [copier EXCEPT ![c] = "eof"]
          /\ UNCHANGED <<conn, errors>>
       \/ /\ conn[c] = "closed"
          /\ copier' = [copier EXCEPT ![c] = "failed"]
          /\ UNCHANGED <<conn, errors>>
       \/ /\ conn[c] = "open" /\ DaemonErrs
          /\ conn' = [conn EXCEPT ![c] = "lost"]
          /\ \E end \in {"eof", "failed"} : copier' = [copier EXCEPT ![c] = end]
    /\ UNCHANGED <<callerVars, ctx, cmd, procVars, read, captured, truncated, container>>

-----------------------------------------------------------------------------
(* The surroundings: deadlines, callers that cancel, the processes, and the *)
(* reconciler, which may destroy the container under a running exec.        *)
DeadlinePasses(c) ==
    /\ pc[c] # "done" /\ ctx[c] = "live"
    /\ ctx' = [ctx EXCEPT ![c] = "deadline"]
    /\ UNCHANGED <<callerVars, cmd, procVars, conn, copierVars, container, errors>>

CallerCancels(c) ==
    /\ pc[c] # "done" /\ ctx[c] # "cancelled"
    /\ ctx' = [ctx EXCEPT ![c] = "cancelled"]
    /\ UNCHANGED <<callerVars, cmd, procVars, conn, copierVars, container, errors>>

ProcessWrites(c) ==
    /\ proc[c] # "none" /\ out[c] = "open"
    /\ written[c] < MaxOutput
    /\ written[c] - read[c] < PipeSize
    /\ written' = [written EXCEPT ![c] = @ + 1]
    /\ UNCHANGED <<callerVars, ctx, cmd, proc, argv, out, conn, copierVars, container, errors>>

ProcessExits(c) ==
    /\ proc[c] = "running"
    /\ proc' = [proc EXCEPT ![c] = "exited"]
    /\ UNCHANGED <<callerVars, ctx, cmd, argv, out, written, conn, copierVars, container, errors>>

(* The output ends when its last holder lets go of it: a daemon before it   *)
(* exits, a child left in the background long after.                        *)
OutputCloses(c) ==
    /\ proc[c] # "none" /\ out[c] = "open"
    /\ out' = [out EXCEPT ![c] = "closed"]
    /\ UNCHANGED <<callerVars, ctx, cmd, proc, argv, written, conn, copierVars, container, errors>>

(* The process execs another program: pkill no longer knows it.             *)
ProcessRenames(c) ==
    /\ proc[c] = "running" /\ argv[c] = "own"
    /\ argv' = [argv EXCEPT ![c] = "other"]
    /\ UNCHANGED <<callerVars, ctx, cmd, proc, out, written, conn, copierVars, container, errors>>

ContainerDestroyed ==
    /\ container
    /\ container' = FALSE
    /\ proc' = [c \in Call |-> IF proc[c] = "running" THEN "exited" ELSE proc[c]]
    /\ out' = [c \in Call |-> IF proc[c] # "none" THEN "closed" ELSE out[c]]
    /\ UNCHANGED <<callerVars, ctx, cmd, argv, written, conn, copierVars, errors>>

-----------------------------------------------------------------------------
Init ==
    /\ pc = [c \in Call |-> "lookup"]
    /\ ctx = [c \in Call |-> "live"]
    /\ cmd \in [Call -> Command]
    /\ proc = [c \in Call |-> "none"]
    /\ argv = [c \in Call |-> "own"]
    /\ out = [c \in Call |-> "open"]
    /\ conn = [c \in Call |-> "none"]
    /\ copier = [c \in Call |-> "none"]
    /\ written = [c \in Call |-> 0] /\ read = [c \in Call |-> 0]
    /\ captured = [c \in Call |-> 0] /\ truncated = [c \in Call |-> FALSE]
    /\ result = [c \in Call |-> NoResult]
    /\ container = TRUE
    /\ errors = 0

Caller(c) ==
    Prepare(c) \/ Attach(c) \/ Select(c) \/ Drain(c) \/ Await(c) \/ Kill(c)

Copier(c) == CopyChunk(c) \/ CopyEnds(c)

Surroundings(c) ==
    \/ DeadlinePasses(c) \/ CallerCancels(c)
    \/ ProcessWrites(c) \/ ProcessExits(c)
    \/ OutputCloses(c) \/ ProcessRenames(c)

Next ==
    \/ \E c \in Call : Caller(c) \/ Copier(c) \/ Surroundings(c)
    \/ ContainerDestroyed

Spec == Init /\ [][Next]_vars

(* Goroutines that can run do, and daemon calls return.  Nothing is assumed *)
(* of the commands, of the callers, or of when a deadline passes, and no    *)
(* failure of the daemon is ever bound to happen.                           *)
FairSpec ==
    Spec /\ \A c \in Call : WF_vars(Caller(c) /\ UNCHANGED errors)
                          /\ WF_vars(Copier(c) /\ UNCHANGED errors)

-----------------------------------------------------------------------------
TypeOK ==
    /\ pc \in [Call -> {"lookup", "create", "attach", "stream", "drain", "await",
                        "kill_done", "kill_error", "done"}]
    /\ ctx \in [Call -> {"live", "deadline", "cancelled"}]
    /\ cmd \in [Call -> Command]
    /\ proc \in [Call -> {"none", "running", "exited"}]
    /\ argv \in [Call -> {"own", "other"}]
    /\ out \in [Call -> {"open", "closed"}]
    /\ conn \in [Call -> {"none", "open", "closed", "lost"}]
    /\ copier \in [Call -> {"none", "copying", "eof", "failed"}]
    /\ written \in [Call -> 0 .. MaxOutput] /\ read \in [Call -> 0 .. MaxOutput]
    /\ captured \in [Call -> 0 .. Cap] /\ truncated \in [Call -> BOOLEAN]
    /\ result \in [Call ->
           [kind : Kind, killFailed : BOOLEAN, length : 0 .. Cap, cut : BOOLEAN]]
    /\ container \in BOOLEAN
    /\ errors \in 0 .. MaxErrors

(* docker.go:407: a result is built from the buffers only when the copying  *)
(* goroutine is gone, on every path that had started one: no data race, and *)
(* the partial output a caller gets is all there was.                       *)
NoReadWhileCopying ==
    \A c \in Call : pc[c] = "done" => copier[c] # "copying"

(* A call that succeeds: the process has exited and, unless the connection  *)
(* was lost under the copy, all it wrote up to the cap is returned and the  *)
(* truncation flag is set exactly when something was dropped.  (What is     *)
(* returned over a lost connection: ShortOutputIsFlagged.)                  *)
SuccessIsComplete ==
    \A c \in Call :
        result[c].kind = "ok" =>
            /\ proc[c] = "exited"
            /\ conn[c] # "lost" =>
                   /\ result[c].length = (IF written[c] > Cap THEN Cap ELSE written[c])
                   /\ result[c].cut <=> written[c] > Cap

(* The buffer never lies, also when the call is abandoned half way.         *)
PartialIsHonest ==
    \A c \in Call :
        /\ captured[c] = (IF read[c] > Cap THEN Cap ELSE read[c])
        /\ truncated[c] <=> read[c] > Cap

(* docker.go:379: a command that was attached and given up on does not run  *)
(* on in the container, unless the caller is told that the kill failed, or  *)
(* the command is one that pkill cannot find or end.                        *)
AbandonedStops ==
    \A c \in Call :
        pc[c] = "done" /\ copier[c] # "none" /\ proc[c] = "running" =>
            result[c].killFailed \/ argv[c] = "other" \/ cmd[c] \in IgnoresTerm

(* ErrExecTimeout is for deadlines: a call is reported as timed out only if *)
(* its own deadline passed.                                                 *)
TimeoutMeansDeadline ==
    [][\A c \in Call :
          result[c].kind # "timeout" /\ result'[c].kind = "timeout"
          => ctx[c] = "deadline"]_vars

(* stream.go:5-14: a command whose output exceeds the cap is never blocked  *)
(* on a full pipe.  No deadline is needed for that: somebody reads on until *)
(* the stream ends or the call gives the connection up.                     *)
OutputNeverStalls ==
    \A c \in Call :
        copier[c] = "copying" /\ written[c] - read[c] = PipeSize
        ~> written[c] - read[c] < PipeSize \/ copier[c] # "copying"

(* A call whose deadline has passed or whose caller has cancelled returns,  *)
(* also when its command prints nothing and never ends: closing the         *)
(* connection interrupts the read (docker.go:387).                          *)
ContextEndsExec == \A c \in Call : ctx[c] # "live" ~> pc[c] = "done"

(* runtime.go:129: "Silently returning a short buffer is the failure these  *)
(* [the truncation flags] exist to prevent": a call that succeeds with less *)
(* than its command wrote says so.                                          *)
ShortOutputIsFlagged ==
    \A c \in Call :
        result[c].kind = "ok" /\ result[c].length < written[c] => result[c].cut

(* docker.go:644: pkill finding nothing means "the command exited on its    *)
(* own between the deadline and the kill".                                  *)
NothingMatchedMeansExited ==
    [][\A c \in Call :
          Kill(c) /\ ~result'[c].killFailed /\ Victims(c) = {}
          => proc[c] # "running"]_vars
=============================================================================
