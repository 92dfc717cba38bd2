----------------------------- MODULE ExecProofs ------------------------------
(***************************************************************************)
(* Theorems about Exec for any number of calls, commands and daemon errors, *)
(* any cap, any pipe and any amount of output.  The invariant is about one  *)
(* call: others reach it only by killing the command line they share.       *)
(***************************************************************************)
EXTENDS Exec, TLAPS

(* The copying goroutine lives from the attach to the end of the stream or  *)
(* of the connection, and the caller passes it only when it is gone.        *)
CopierFollows(c) ==
    /\ pc[c] \in {"lookup", "create", "attach"} => copier[c] = "none" /\ proc[c] = "none"
    /\ pc[c] = "stream" => copier[c] # "none"
    /\ pc[c] = "await" => copier[c] = "eof"
    /\ pc[c] \in {"stream", "await"} => conn[c] \in {"open", "lost"}
    /\ pc[c] \in {"kill_done", "kill_error"} => copier[c] \in {"eof", "failed"}
    /\ pc[c] = "kill_done" => ctx[c] # "live"
    /\ pc[c] = "drain" => copier[c] # "none" /\ ctx[c] # "live"
    /\ pc[c] = "done" => copier[c] # "copying"

(* The copier takes what was written, and over a connection that is neither *)
(* closed nor lost its end has taken it all.                                *)
TakesWhatIsWritten(c) ==
    /\ read[c] <= written[c]
    /\ copier[c] = "eof" /\ conn[c] = "open" => out[c] = "closed" /\ read[c] = written[c]

Honest(c) ==
    /\ captured[c] = (IF read[c] > Cap THEN Cap ELSE read[c])
    /\ truncated[c] <=> read[c] > Cap

(* The result of a call that is over.                                       *)
ReturnedBuffers(c) ==
    /\ pc[c] # "done" => result[c].kind = "none"
    /\ result[c].kind = "ok" =>
           /\ copier[c] = "eof" /\ proc[c] = "exited" /\ conn[c] \in {"open", "lost"}
           /\ result[c].length = captured[c] /\ result[c].cut = truncated[c]

Stopped(c) ==
    pc[c] = "done" /\ copier[c] # "none" /\ proc[c] = "running" =>
        result[c].killFailed \/ argv[c] = "other" \/ cmd[c] \in IgnoresTerm

CallInv(c) ==
    /\ CopierFollows(c) /\ TakesWhatIsWritten(c) /\ Honest(c)
    /\ ReturnedBuffers(c) /\ Stopped(c)

ExecInv == TypeOK /\ \A c \in Call : CallInv(c)

-----------------------------------------------------------------------------
(* A call nobody touches, except to end its process.                        *)
Untouched(c) ==
    /\ pc'[c] = pc[c] /\ result'[c] = result[c]
    /\ ctx'[c] = ctx[c] \/ ctx'[c] \in {"deadline", "cancelled"}
    /\ cmd'[c] = cmd[c] /\ argv'[c] \in {argv[c], "other"}
    /\ proc'[c] = proc[c] \/ (proc[c] = "running" /\ proc'[c] = "exited")
    /\ out'[c] \in {out[c], "closed"} /\ written'[c] = written[c]
    /\ conn'[c] = conn[c] /\ copier'[c] = copier[c] /\ read'[c] = read[c]
    /\ captured'[c] = captured[c] /\ truncated'[c] = truncated[c]

LEMMA UntouchedKeeps ==
    ASSUME TypeOK, NEW c \in Call, CallInv(c), Untouched(c)
    PROVE  CallInv(c)'
<1> USE DEF CallInv, Untouched
<1>1. CopierFollows(c)'
    BY DEF CopierFollows, TypeOK
<1>2. TakesWhatIsWritten(c)'
    BY DEF TakesWhatIsWritten
<1>3. Honest(c)'
    BY DEF Honest
<1>4. ReturnedBuffers(c)'
    BY DEF ReturnedBuffers
<1>5. Stopped(c)'
    BY DEF Stopped
<1>. QED BY <1>1, <1>2, <1>3, <1>4, <1>5

LEMMA ErrorsCounted ==
    ASSUME TypeOK, UNCHANGED errors \/ DaemonErrs
    PROVE  errors' \in 0 .. MaxErrors
BY ExecAssumption DEF TypeOK, DaemonErrs

LEMMA BlameTyped == ASSUME NEW c PROVE Blame(c) \in Kind \ {"none", "ok"}
BY DEF Blame, DoneErr, Kind

(* A result is built from typed buffers, and of one call only.              *)
Answers(c, kind) == Return(c, kind, TRUE) \/ Return(c, kind, FALSE)

LEMMA ReturnTyped ==
    ASSUME TypeOK, NEW c \in Call, NEW kind \in Kind, Answers(c, kind)
    PROVE  /\ pc' \in [Call -> {"lookup", "create", "attach", "stream", "drain", "await",
                                "kill_done", "kill_error", "done"}]
           /\ result' \in [Call ->
                  [kind : Kind, killFailed : BOOLEAN, length : 0 .. Cap, cut : BOOLEAN]]
           /\ pc'[c] = "done" /\ result'[c].kind = kind
           /\ result'[c].length = captured[c] /\ result'[c].cut = truncated[c]
           /\ \A r \in Call \ {c} : pc'[r] = pc[r] /\ result'[r] = result[r]
<1>1. PICK failed \in BOOLEAN :
          /\ pc' = [pc EXCEPT ![c] = "done"]
          /\ result' = [result EXCEPT ![c] =
                 [kind |-> kind, killFailed |-> failed,
                  length |-> captured[c], cut |-> truncated[c]]]
    BY DEF Answers, Return
<1>2. /\ pc'[c] = "done"
      /\ result'[c] = [kind |-> kind, killFailed |-> failed,
                       length |-> captured[c], cut |-> truncated[c]]
      /\ \A r \in Call \ {c} : pc'[r] = pc[r] /\ result'[r] = result[r]
    BY <1>1 DEF TypeOK
<1>3. pc' \in [Call -> {"lookup", "create", "attach", "stream", "drain", "await",
                        "kill_done", "kill_error", "done"}]
    BY <1>1 DEF TypeOK
<1>4. result' \in [Call ->
          [kind : Kind, killFailed : BOOLEAN, length : 0 .. Cap, cut : BOOLEAN]]
    BY <1>1 DEF TypeOK
<1>. QED BY <1>2, <1>3, <1>4

LEMMA GotoTyped ==
    ASSUME TypeOK, NEW c \in Call,
           NEW step \in {"create", "attach", "stream", "drain", "await", "kill_done", "kill_error"},
           Goto(c, step)
    PROVE  /\ pc' \in [Call -> {"lookup", "create", "attach", "stream", "drain", "await",
                                "kill_done", "kill_error", "done"}]
           /\ result' = result /\ pc'[c] = step
           /\ \A r \in Call \ {c} : pc'[r] = pc[r]
BY DEF Goto, TypeOK
-----------------------------------------------------------------------------
(* The caller's goroutine.                                                  *)
LEMMA PrepareKeeps == ASSUME ExecInv, NEW c \in Call, Prepare(c) PROVE ExecInv'
<1> USE DEF ExecInv
<1>1. \/ \E step \in {"create", "attach"} : Goto(c, step)
      \/ Answers(c, Blame(c))
    BY DEF Prepare, Answers
<1>2. /\ pc[c] \in {"lookup", "create"} /\ errors' \in 0 .. MaxErrors
      /\ UNCHANGED <<ctx, cmd, procVars, conn, copierVars, container>>
    BY ErrorsCounted DEF Prepare, CallWorks, CallFails
<1>3. TypeOK' /\ \A r \in Call \ {c} : pc'[r] = pc[r] /\ result'[r] = result[r]
    BY <1>1, <1>2, GotoTyped, ReturnTyped, BlameTyped DEF TypeOK, procVars, copierVars
<1>4. \/ pc'[c] \in {"create", "attach"} /\ result' = result
      \/ pc'[c] = "done" /\ result'[c].kind \notin {"none", "ok"}
    BY <1>1, GotoTyped, ReturnTyped, BlameTyped
<1>5. CallInv(c)'
    BY <1>2, <1>4
    DEF CallInv, CopierFollows, TakesWhatIsWritten, Honest, ReturnedBuffers, Stopped,
        procVars, copierVars
<1>6. \A r \in Call \ {c} : CallInv(r)'
    BY <1>2, <1>3, UntouchedKeeps DEF Untouched, procVars, copierVars
<1>. QED BY <1>3, <1>5, <1>6

LEMMA AttachKeeps == ASSUME ExecInv, NEW c \in Call, Attach(c) PROVE ExecInv'
<1> USE DEF ExecInv
<1>1. /\ pc[c] = "attach" /\ errors' \in 0 .. MaxErrors
      /\ UNCHANGED <<ctx, cmd, argv, out, written, read, captured, truncated, container>>
      /\ proc' = proc \/ proc' = [proc EXCEPT ![c] = "running"]
      /\ \/ /\ Goto(c, "stream")
            /\ conn' = [conn EXCEPT ![c] = "open"]
            /\ copier' = [copier EXCEPT ![c] = "copying"]
         \/ Answers(c, Blame(c)) /\ UNCHANGED <<conn, copier>>
    BY ErrorsCounted DEF Attach, Answers, CallWorks, CallFails
<1>2. TypeOK' /\ \A r \in Call \ {c} :
                     /\ pc'[r] = pc[r] /\ result'[r] = result[r]
                     /\ proc'[r] = proc[r] /\ copier'[r] = copier[r]
                     /\ conn'[r] = conn[r]
    <2>1. CASE Goto(c, "stream") /\ copier' = [copier EXCEPT ![c] = "copying"]
                   /\ conn' = [conn EXCEPT ![c] = "open"]
        <3>1. /\ pc' \in [Call -> {"lookup", "create", "attach", "stream", "drain", "await",
                                  "kill_done", "kill_error", "done"}]
              /\ result' = result /\ \A r \in Call \ {c} : pc'[r] = pc[r]
            BY <2>1, GotoTyped
        <3>2. /\ proc' \in [Call -> {"none", "running", "exited"}]
              /\ \A r \in Call \ {c} : proc'[r] = proc[r]
            BY <1>1 DEF TypeOK
        <3>3. /\ copier' \in [Call -> {"none", "copying", "eof", "failed"}]
              /\ conn' \in [Call -> {"none", "open", "closed", "lost"}]
              /\ \A r \in Call \ {c} : copier'[r] = copier[r] /\ conn'[r] = conn[r]
            BY <2>1 DEF TypeOK
        <3>. QED BY <1>1, <3>1, <3>2, <3>3 DEF TypeOK
    <2>2. CASE Answers(c, Blame(c)) /\ UNCHANGED <<conn, copier>>
        BY <1>1, <2>2, ReturnTyped, BlameTyped DEF TypeOK
    <2>. QED BY <1>1, <2>1, <2>2
<1>3. \/ /\ pc'[c] = "stream" /\ result' = result
         /\ copier'[c] = "copying" /\ conn'[c] = "open"
      \/ pc'[c] = "done" /\ result'[c].kind \notin {"none", "ok"} /\ copier' = copier
    BY <1>1, GotoTyped, ReturnTyped, BlameTyped DEF TypeOK
<1>4. CallInv(c)'
    BY <1>1, <1>3
    DEF CallInv, CopierFollows, TakesWhatIsWritten, Honest, ReturnedBuffers, Stopped
<1>5. \A r \in Call \ {c} : CallInv(r)'
    BY <1>1, <1>2, UntouchedKeeps DEF Untouched
<1>. QED BY <1>2, <1>4, <1>5

LEMMA SelectKeeps == ASSUME ExecInv, NEW c \in Call, Select(c) PROVE ExecInv'
<1> USE DEF ExecInv
<1>1. /\ pc[c] = "stream"
      /\ UNCHANGED <<ctx, cmd, procVars, copierVars, container, errors>>
      /\ \/ copier[c] = "eof" /\ Goto(c, "await") /\ UNCHANGED conn
         \/ copier[c] = "failed" /\ Goto(c, "kill_error") /\ UNCHANGED conn
         \/ ctx[c] # "live" /\ Goto(c, "drain") /\ conn' = [conn EXCEPT ![c] = "closed"]
    BY DEF Select
<1>2. TypeOK' /\ result' = result /\ \A r \in Call \ {c} : pc'[r] = pc[r] /\ conn'[r] = conn[r]
    <2>1. \E step \in {"await", "kill_error", "drain"} : Goto(c, step)
        BY <1>1
    <2>2. /\ conn' \in [Call -> {"none", "open", "closed", "lost"}]
          /\ \A r \in Call \ {c} : conn'[r] = conn[r]
        BY <1>1 DEF TypeOK
    <2>3. /\ pc' = [pc EXCEPT ![c] = pc'[c]] /\ result' = result
          /\ pc'[c] \in {"await", "kill_error", "drain"}
        BY <2>1 DEF Goto, TypeOK
    <2>. QED BY <1>1, <2>2, <2>3 DEF TypeOK, procVars, copierVars
<1>3. \/ pc'[c] = "await" /\ copier[c] = "eof" /\ conn' = conn
      \/ pc'[c] = "kill_error" /\ copier[c] = "failed" /\ conn' = conn
      \/ pc'[c] = "drain" /\ ctx[c] # "live" /\ conn'[c] = "closed"
    BY <1>1, GotoTyped DEF TypeOK
<1>4. CallInv(c)'
    BY <1>1, <1>2, <1>3
    DEF CallInv, CopierFollows, TakesWhatIsWritten, Honest, ReturnedBuffers, Stopped,
        procVars, copierVars
<1>5. \A r \in Call \ {c} : CallInv(r)'
    BY <1>1, <1>2, UntouchedKeeps DEF Untouched, procVars, copierVars
<1>. QED BY <1>2, <1>4, <1>5

LEMMA DrainKeeps == ASSUME ExecInv, NEW c \in Call, Drain(c) PROVE ExecInv'
<1> USE DEF ExecInv
<1>1. /\ pc[c] = "drain" /\ copier[c] # "copying" /\ Goto(c, "kill_done")
      /\ UNCHANGED <<ctx, cmd, procVars, conn, copierVars, container, errors>>
    BY DEF Drain
<1>2. TypeOK' /\ result' = result /\ pc'[c] = "kill_done" /\ \A r \in Call \ {c} : pc'[r] = pc[r]
    BY <1>1, GotoTyped DEF TypeOK, procVars, copierVars
<1>3. copier[c] \in {"eof", "failed"}
    BY <1>1 DEF CallInv, CopierFollows, TypeOK
<1>4. CallInv(c)'
    BY <1>1, <1>2, <1>3
    DEF CallInv, CopierFollows, TakesWhatIsWritten, Honest, ReturnedBuffers, Stopped,
        procVars, copierVars
<1>5. \A r \in Call \ {c} : CallInv(r)'
    BY <1>1, <1>2, UntouchedKeeps DEF Untouched, procVars, copierVars
<1>. QED BY <1>2, <1>4, <1>5

LEMMA AwaitKeeps == ASSUME ExecInv, NEW c \in Call, Await(c) PROVE ExecInv'
<1> USE DEF ExecInv
<1>1. /\ pc[c] = "await" /\ errors' \in 0 .. MaxErrors
      /\ UNCHANGED <<ctx, cmd, procVars, conn, copierVars, container>>
      /\ \/ proc[c] = "exited" /\ Answers(c, "ok")
         \/ ctx[c] = "live" /\ Goto(c, "kill_error")
         \/ ctx[c] # "live" /\ Goto(c, "kill_done")
    BY ErrorsCounted DEF Await, Answers, CallWorks, CallFails
<1>2. TypeOK' /\ \A r \in Call \ {c} : pc'[r] = pc[r] /\ result'[r] = result[r]
    BY <1>1, GotoTyped, ReturnTyped DEF TypeOK, Kind, procVars, copierVars
<1>3. \/ /\ proc[c] = "exited" /\ pc'[c] = "done"
         /\ result'[c].length = captured[c] /\ result'[c].cut = truncated[c]
         /\ result'[c].kind = "ok"
      \/ /\ pc'[c] \in {"kill_error", "kill_done"} /\ result' = result
         /\ pc'[c] = "kill_done" => ctx[c] # "live"
    BY <1>1, GotoTyped, ReturnTyped DEF Kind
<1>4. CallInv(c)'
    BY <1>1, <1>3
    DEF CallInv, CopierFollows, TakesWhatIsWritten, Honest, ReturnedBuffers, Stopped,
        procVars, copierVars
<1>5. \A r \in Call \ {c} : CallInv(r)'
    BY <1>1, <1>2, UntouchedKeeps DEF Untouched, procVars, copierVars
<1>. QED BY <1>2, <1>4, <1>5

(* A kill reaches other calls too, and only by ending processes.  Who is    *)
(* still running after a kill that worked has another command line, or      *)
(* ignores the signal.                                                      *)
LEMMA TerminatedMeans ==
    ASSUME TypeOK, NEW c \in Call
    PROVE  /\ Terminated(c) \in [Call -> {"none", "running", "exited"}]
           /\ \A r \in Call : \/ Terminated(c)[r] = proc[r]
                              \/ proc[r] = "running" /\ Terminated(c)[r] = "exited"
           /\ Terminated(c)[c] = "running" => argv[c] = "other" \/ cmd[c] \in IgnoresTerm
BY DEF Terminated, Victims, TypeOK

Cause(c) == IF pc[c] = "kill_done" THEN DoneErr(c) ELSE "error"

LEMMA KillMeans ==
    ASSUME TypeOK, NEW c \in Call, Kill(c)
    PROVE  /\ pc[c] \in {"kill_done", "kill_error"} /\ errors' \in 0 .. MaxErrors
           /\ UNCHANGED <<ctx, cmd, argv, out, written, conn, copierVars, container>>
           /\ proc' \in {proc, Terminated(c)}
           /\ Answers(c, Cause(c)) /\ Cause(c) \in Kind \ {"none", "ok"}
           /\ proc' = Terminated(c) \/ result'[c].killFailed
<1>1. \/ proc' = Terminated(c) /\ Return(c, Cause(c), FALSE)
      \/ proc' \in {proc, Terminated(c)} /\ Return(c, Cause(c), TRUE)
    BY DEF Kill, Cause
<1>2. Answers(c, Cause(c)) /\ proc' \in {proc, Terminated(c)}
    BY <1>1 DEF Answers
<1>3. Return(c, Cause(c), TRUE) => result'[c].killFailed
    BY DEF Return, TypeOK
<1>4. /\ pc[c] \in {"kill_done", "kill_error"}
      /\ UNCHANGED errors \/ DaemonErrs
      /\ UNCHANGED <<ctx, cmd, argv, out, written, conn, copierVars, container>>
    BY DEF Kill, CallWorks
<1>5. Cause(c) \in Kind \ {"none", "ok"}
    BY DEF Cause, DoneErr, Kind
<1>. QED BY <1>1, <1>2, <1>3, <1>4, <1>5, ErrorsCounted

LEMMA KillKeeps == ASSUME ExecInv, NEW c \in Call, Kill(c) PROVE ExecInv'
<1> USE DEF ExecInv
<1>1. /\ pc[c] \in {"kill_done", "kill_error"} /\ errors' \in 0 .. MaxErrors
      /\ UNCHANGED <<ctx, cmd, argv, out, written, conn, copierVars, container>>
      /\ proc' = Terminated(c) \/ (proc' = proc /\ result'[c].killFailed)
    BY KillMeans
<1>2. /\ pc' \in [Call -> {"lookup", "create", "attach", "stream", "drain", "await",
                           "kill_done", "kill_error", "done"}]
      /\ result' \in [Call ->
             [kind : Kind, killFailed : BOOLEAN, length : 0 .. Cap, cut : BOOLEAN]]
      /\ pc'[c] = "done" /\ result'[c].kind \notin {"none", "ok"}
      /\ \A r \in Call \ {c} : pc'[r] = pc[r] /\ result'[r] = result[r]
    BY KillMeans, ReturnTyped
<1>3. /\ proc' \in [Call -> {"none", "running", "exited"}]
      /\ \A r \in Call : proc'[r] = proc[r] \/ (proc[r] = "running" /\ proc'[r] = "exited")
      /\ proc'[c] = "running" =>
             result'[c].killFailed \/ argv[c] = "other" \/ cmd[c] \in IgnoresTerm
    <2>1. CASE proc' = Terminated(c)
        BY <2>1, TerminatedMeans
    <2>2. CASE proc' = proc /\ result'[c].killFailed
        BY <2>2 DEF TypeOK
    <2>. QED BY <1>1, <2>1, <2>2
<1>4. TypeOK'
    BY <1>1, <1>2, <1>3 DEF TypeOK, copierVars
<1>5. CallInv(c)'
    BY <1>1, <1>2, <1>3
    DEF CallInv, CopierFollows, TakesWhatIsWritten, Honest, ReturnedBuffers, Stopped, copierVars
<1>6. \A r \in Call \ {c} : CallInv(r)'
    BY <1>1, <1>2, <1>3, UntouchedKeeps DEF Untouched, copierVars
<1>. QED BY <1>4, <1>5, <1>6

-----------------------------------------------------------------------------
(* The copying goroutine: the buffer is what was read, up to the cap.       *)
LEMMA CappedWriteMeans ==
    ASSUME TypeOK, NEW c \in Call, NEW n \in Nat \ {0}, CappedWrite(c, n), Honest(c)
    PROVE  /\ captured' \in [Call -> 0 .. Cap] /\ truncated' \in [Call -> BOOLEAN]
           /\ captured'[c] = (IF read[c] + n > Cap THEN Cap ELSE read[c] + n)
           /\ truncated'[c] <=> read[c] + n > Cap
           /\ \A r \in Call \ {c} : captured'[r] = captured[r] /\ truncated'[r] = truncated[r]
<1> DEFINE room == Cap - captured[c]
           kept == captured[c] + (IF n > room THEN room ELSE n)
           cut == truncated[c] \/ n > room
<1>1. captured' = [captured EXCEPT ![c] = kept] /\ truncated' = [truncated EXCEPT ![c] = cut]
    BY DEF CappedWrite
<1>2. captured[c] \in 0 .. Cap /\ read[c] \in Nat /\ Cap \in Nat /\ truncated[c] \in BOOLEAN
    BY ExecAssumption DEF TypeOK
<1>3. /\ kept \in 0 .. Cap /\ kept = (IF read[c] + n > Cap THEN Cap ELSE read[c] + n)
      /\ cut \in BOOLEAN
    BY <1>2 DEF Honest
<1>4. cut <=> read[c] + n > Cap
    BY <1>2 DEF Honest
<1> HIDE DEF kept, cut
<1>5. captured' \in [Call -> 0 .. Cap] /\ truncated' \in [Call -> BOOLEAN]
    BY <1>1, <1>3 DEF TypeOK
<1>6. /\ captured'[c] = kept /\ truncated'[c] = cut
      /\ \A r \in Call \ {c} : captured'[r] = captured[r] /\ truncated'[r] = truncated[r]
    BY <1>1 DEF TypeOK
<1>. QED BY <1>3, <1>4, <1>5, <1>6

LEMMA CopyChunkKeeps == ASSUME ExecInv, NEW c \in Call, CopyChunk(c) PROVE ExecInv'
<1> USE DEF ExecInv
<1>1. /\ copier[c] = "copying"
      /\ UNCHANGED <<callerVars, ctx, cmd, procVars, conn, copier, container, errors>>
    BY DEF CopyChunk
<1>2. PICK n \in 1 .. (written[c] - read[c]) :
          read' = [read EXCEPT ![c] = @ + n] /\ CappedWrite(c, n)
    BY DEF CopyChunk
<1>3. /\ n \in Nat \ {0} /\ read[c] \in Nat /\ written[c] \in 0 .. MaxOutput
      /\ read[c] + n <= written[c] /\ read[c] + n \in 0 .. MaxOutput
    BY <1>2, ExecAssumption DEF TypeOK
<1>4. /\ read' \in [Call -> 0 .. MaxOutput] /\ read'[c] = read[c] + n
      /\ \A r \in Call \ {c} : read'[r] = read[r]
    BY <1>2, <1>3 DEF TypeOK
<1>5. /\ captured' \in [Call -> 0 .. Cap] /\ truncated' \in [Call -> BOOLEAN]
      /\ captured'[c] = (IF read[c] + n > Cap THEN Cap ELSE read[c] + n)
      /\ truncated'[c] <=> read[c] + n > Cap
      /\ \A r \in Call \ {c} : captured'[r] = captured[r] /\ truncated'[r] = truncated[r]
    BY <1>2, <1>3, CappedWriteMeans DEF CallInv
<1>6. TypeOK'
    BY <1>1, <1>4, <1>5 DEF TypeOK, callerVars, procVars
<1>7. CallInv(c)'
    <2>1. pc[c] # "done" /\ result[c].kind = "none"
        BY <1>1 DEF CallInv, CopierFollows, ReturnedBuffers
    <2>2. TakesWhatIsWritten(c)' /\ Honest(c)'
        BY <1>1, <1>3, <1>4, <1>5 DEF TakesWhatIsWritten, Honest, procVars
    <2>. QED
        BY <1>1, <2>1, <2>2
        DEF CallInv, CopierFollows, ReturnedBuffers, Stopped, callerVars, procVars
<1>8. \A r \in Call \ {c} : CallInv(r)'
    BY <1>1, <1>4, <1>5, UntouchedKeeps DEF Untouched, callerVars, procVars
<1>. QED BY <1>6, <1>7, <1>8

LEMMA CopyEndsKeeps == ASSUME ExecInv, NEW c \in Call, CopyEnds(c) PROVE ExecInv'
<1> USE DEF ExecInv
<1>1. /\ copier[c] = "copying" /\ errors' \in 0 .. MaxErrors
      /\ UNCHANGED <<callerVars, ctx, cmd, procVars, read, captured, truncated, container>>
    BY ErrorsCounted DEF CopyEnds
<1>2. /\ copier' \in [Call -> {"none", "copying", "eof", "failed"}]
      /\ conn' \in [Call -> {"none", "open", "closed", "lost"}]
      /\ copier'[c] \in {"eof", "failed"}
      /\ conn'[c] = conn[c] \/ conn'[c] = "lost"
      /\ copier'[c] = "eof" /\ conn'[c] = "open" => out[c] = "closed" /\ read[c] = written[c]
      /\ \A r \in Call \ {c} : copier'[r] = copier[r] /\ conn'[r] = conn[r]
    <2>1. /\ copier \in [Call -> {"none", "copying", "eof", "failed"}]
          /\ conn \in [Call -> {"none", "open", "closed", "lost"}]
        BY DEF TypeOK
    <2>2. CASE /\ out[c] = "closed" /\ read[c] = written[c] /\ conn' = conn
               /\ copier' = [copier EXCEPT ![c] = "eof"]
        BY <2>1, <2>2
    <2>3. CASE conn' = conn /\ copier' = [copier EXCEPT ![c] = "failed"]
        BY <2>1, <2>3
    <2>4. CASE /\ conn' = [conn EXCEPT ![c] = "lost"]
               /\ \E end \in {"eof", "failed"} : copier' = [copier EXCEPT ![c] = end]
        BY <2>1, <2>4
    <2>. QED BY <2>2, <2>3, <2>4 DEF CopyEnds
<1>3. TypeOK'
    BY <1>1, <1>2 DEF TypeOK, callerVars, procVars
<1>4. CallInv(c)'
    BY <1>1, <1>2
    DEF CallInv, CopierFollows, TakesWhatIsWritten, Honest, ReturnedBuffers, Stopped,
        callerVars, procVars
<1>5. \A r \in Call \ {c} : CallInv(r)'
    BY <1>1, <1>2, UntouchedKeeps DEF Untouched, callerVars, procVars
<1>. QED BY <1>3, <1>4, <1>5

-----------------------------------------------------------------------------
(* The surroundings.  All but a write leave every call untouched.           *)
LEMMA SurroundingsKeep ==
    ASSUME ExecInv, NEW c \in Call, Surroundings(c) PROVE ExecInv'
<1> USE DEF ExecInv
<1>1. ASSUME DeadlinePasses(c) \/ CallerCancels(c)
      PROVE  ExecInv'
    <2>1. PICK over \in {"deadline", "cancelled"} :
              /\ ctx' = [ctx EXCEPT ![c] = over]
              /\ UNCHANGED <<callerVars, cmd, procVars, conn, copierVars, container, errors>>
        BY <1>1 DEF DeadlinePasses, CallerCancels
    <2>2. TypeOK' /\ \A r \in Call : ctx'[r] = ctx[r] \/ ctx'[r] \in {"deadline", "cancelled"}
        BY <2>1 DEF TypeOK, callerVars, procVars, copierVars
    <2>. QED
        BY <2>1, <2>2, UntouchedKeeps DEF Untouched, callerVars, procVars, copierVars
<1>2. ASSUME ProcessExits(c)
      PROVE  ExecInv'
    <2>1. /\ proc[c] = "running" /\ proc' = [proc EXCEPT ![c] = "exited"]
          /\ UNCHANGED <<callerVars, ctx, cmd, argv, out, written, conn, copierVars,
                         container, errors>>
        BY <1>2 DEF ProcessExits
    <2>2. TypeOK' /\ \A r \in Call :
              proc'[r] = proc[r] \/ (proc[r] = "running" /\ proc'[r] = "exited")
        BY <2>1 DEF TypeOK, callerVars, copierVars
    <2>. QED BY <2>1, <2>2, UntouchedKeeps DEF Untouched, callerVars, copierVars
<1>3. ASSUME OutputCloses(c)
      PROVE  ExecInv'
    <2>1. /\ out' = [out EXCEPT ![c] = "closed"]
          /\ UNCHANGED <<callerVars, ctx, cmd, proc, argv, written, conn, copierVars,
                         container, errors>>
        BY <1>3 DEF OutputCloses
    <2>2. TypeOK' /\ \A r \in Call : out'[r] \in {out[r], "closed"}
        BY <2>1 DEF TypeOK, callerVars, copierVars
    <2>. QED BY <2>1, <2>2, UntouchedKeeps DEF Untouched, callerVars, copierVars
<1>4. ASSUME ProcessRenames(c)
      PROVE  ExecInv'
    <2>1. /\ argv' = [argv EXCEPT ![c] = "other"]
          /\ UNCHANGED <<callerVars, ctx, cmd, proc, out, written, conn, copierVars,
                         container, errors>>
        BY <1>4 DEF ProcessRenames
    <2>2. TypeOK' /\ \A r \in Call : argv'[r] \in {argv[r], "other"}
        BY <2>1 DEF TypeOK, callerVars, copierVars
    <2>. QED BY <2>1, <2>2, UntouchedKeeps DEF Untouched, callerVars, copierVars
<1>5. ASSUME ProcessWrites(c)
      PROVE  ExecInv'
    <2>1. /\ out[c] = "open" /\ written[c] < MaxOutput
          /\ written' = [written EXCEPT ![c] = written[c] + 1]
          /\ UNCHANGED <<callerVars, ctx, cmd, proc, argv, out, conn, copierVars,
                         container, errors>>
        BY <1>5 DEF ProcessWrites
    <2>2. /\ written' \in [Call -> 0 .. MaxOutput] /\ written'[c] = written[c] + 1
          /\ \A r \in Call \ {c} : written'[r] = written[r]
        BY <2>1, ExecAssumption DEF TypeOK
    <2>3. TypeOK'
        BY <2>1, <2>2 DEF TypeOK, callerVars, copierVars
    <2>4. TakesWhatIsWritten(c)'
        <3>1. read[c] \in Nat /\ written[c] \in Nat /\ read[c] <= written[c]
            BY <2>1 DEF TypeOK, CallInv, TakesWhatIsWritten
        <3>2. ~(copier'[c] = "eof" /\ conn'[c] = "open") /\ read' = read
            BY <2>1 DEF CallInv, TakesWhatIsWritten, copierVars
        <3>. QED BY <2>2, <3>1, <3>2 DEF TakesWhatIsWritten
    <2>5. CallInv(c)'
        BY <2>1, <2>4
        DEF CallInv, CopierFollows, Honest, ReturnedBuffers, Stopped, callerVars, copierVars
    <2>6. \A r \in Call \ {c} : CallInv(r)'
        BY <2>1, <2>2, UntouchedKeeps DEF Untouched, callerVars, copierVars
    <2>. QED BY <2>3, <2>5, <2>6
<1>. QED BY <1>1, <1>2, <1>3, <1>4, <1>5 DEF Surroundings

LEMMA DestroyedKeeps == ASSUME ExecInv, ContainerDestroyed PROVE ExecInv'
<1> USE DEF ExecInv
<1>1. /\ container' = FALSE
      /\ proc' = [c \in Call |-> IF proc[c] = "running" THEN "exited" ELSE proc[c]]
      /\ out' = [c \in Call |-> IF proc[c] # "none" THEN "closed" ELSE out[c]]
      /\ UNCHANGED <<callerVars, ctx, cmd, argv, written, conn, copierVars, errors>>
    BY DEF ContainerDestroyed
<1>2. \A r \in Call : /\ out'[r] \in {out[r], "closed"}
                      /\ proc'[r] = proc[r] \/ (proc[r] = "running" /\ proc'[r] = "exited")
    BY <1>1
<1>3. TypeOK'
    BY <1>1 DEF TypeOK, callerVars, copierVars
<1>. QED BY <1>1, <1>2, <1>3, UntouchedKeeps DEF Untouched, callerVars, copierVars

LEMMA ExecStep == ExecInv /\ [Next]_vars => ExecInv'
<1> SUFFICES ASSUME ExecInv, [Next]_vars PROVE ExecInv'
    OBVIOUS
<1>1. CASE UNCHANGED vars
    <2>1. TypeOK'
        BY <1>1 DEF ExecInv, vars, callerVars, procVars, copierVars, TypeOK
    <2>. QED
        BY <1>1, <2>1, UntouchedKeeps
        DEF ExecInv, vars, callerVars, procVars, copierVars, Untouched
<1>. QED
    BY <1>1, PrepareKeeps, AttachKeeps, SelectKeeps, DrainKeeps, AwaitKeeps, KillKeeps,
       CopyChunkKeeps, CopyEndsKeeps, SurroundingsKeep, DestroyedKeeps
    DEF Next, Caller, Copier

LEMMA ExecStart == Init => ExecInv
<1> SUFFICES ASSUME Init PROVE ExecInv
    OBVIOUS
<1>1. TypeOK
    BY ExecAssumption DEF Init, TypeOK, NoResult, Kind
<1>2. \A c \in Call : CallInv(c)
    BY ExecAssumption
    DEF Init, NoResult, CallInv, CopierFollows, TakesWhatIsWritten, Honest, ReturnedBuffers,
        Stopped
<1>. QED BY <1>1, <1>2 DEF ExecInv

LEMMA ExecAlways == Spec => []ExecInv
BY ExecStart, ExecStep, PTL DEF Spec

-----------------------------------------------------------------------------
(* Every variable of a call keeps its type: the buffer never exceeds the    *)
(* cap, and a result's kind is one the handlers classify.                   *)
THEOREM ExecTypeCorrect == Spec => []TypeOK
<1>1. ExecInv => TypeOK
    BY DEF ExecInv
<1>. QED BY <1>1, ExecAlways, PTL

(* No call returns while its copying goroutine may still write the buffers  *)
(* its result was built from: the copy is awaited on every path.            *)
THEOREM NeverReadsWhileCopying == Spec => []NoReadWhileCopying
<1>1. ExecInv => NoReadWhileCopying
    BY DEF ExecInv, CallInv, CopierFollows, NoReadWhileCopying
<1>. QED BY <1>1, ExecAlways, PTL

(* The buffer is the first Cap units of what was read, and the flag says    *)
(* whether there was more (cappedWriter), also while the copy runs.         *)
THEOREM BuffersAreHonest == Spec => []PartialIsHonest
<1>1. ExecInv => PartialIsHonest
    BY DEF ExecInv, CallInv, Honest, PartialIsHonest
<1>. QED BY <1>1, ExecAlways, PTL

(* A call that succeeds over a connection that was not lost returns all its *)
(* command wrote, up to the cap, and says exactly when something was        *)
(* dropped: the command has exited and its output is closed, so nothing is  *)
(* added to either afterwards.  Over a lost one it says only that the       *)
(* command has exited, and what it returns may be short (exec_short).       *)
THEOREM SuccessesAreComplete == Spec => []SuccessIsComplete
<1>1. ExecInv => SuccessIsComplete
    <2> SUFFICES ASSUME ExecInv, NEW c \in Call, result[c].kind = "ok"
                 PROVE  /\ proc[c] = "exited"
                        /\ conn[c] # "lost" =>
                               /\ result[c].length =
                                      (IF written[c] > Cap THEN Cap ELSE written[c])
                               /\ result[c].cut <=> written[c] > Cap
        BY DEF SuccessIsComplete
    <2>1. /\ proc[c] = "exited"
          /\ conn[c] # "lost" => read[c] = written[c]
          /\ result[c].length = captured[c] /\ result[c].cut = truncated[c]
        BY DEF ExecInv, CallInv, ReturnedBuffers, TakesWhatIsWritten
    <2>2. /\ captured[c] = (IF read[c] > Cap THEN Cap ELSE read[c])
          /\ truncated[c] <=> read[c] > Cap
        BY DEF ExecInv, CallInv, Honest
    <2>3. ASSUME conn[c] # "lost"
          PROVE  /\ result[c].length = (IF written[c] > Cap THEN Cap ELSE written[c])
                 /\ result[c].cut <=> written[c] > Cap
        <3>1. read[c] = written[c]
            BY <2>1, <2>3
        <3>. QED BY <2>1, <2>2, <3>1
    <2>. QED BY <2>1, <2>3
<1>. QED BY <1>1, ExecAlways, PTL

(* A command that was given up on is killed, or the caller is told that the *)
(* kill failed, whoever else kills, runs or waits in the same container.    *)
THEOREM AbandonedAreStopped == Spec => []AbandonedStops
<1>1. ExecInv => AbandonedStops
    BY DEF ExecInv, CallInv, Stopped, AbandonedStops
<1>. QED BY <1>1, ExecAlways, PTL

(* A call is reported as timed out only when its own deadline has passed:   *)
(* the deadline is blamed only on a context that is done and not cancelled. *)
THEOREM TimeoutsAreDeadlines == Spec => TimeoutMeansDeadline
<1>1. ASSUME ExecInv, [Next]_vars, NEW c \in Call,
             result[c].kind # "timeout", result'[c].kind = "timeout"
      PROVE  ctx[c] = "deadline"
    <2>1. TypeOK /\ CallInv(c) /\ result' # result
        BY <1>1 DEF ExecInv
    <2>2. PICK r \in Call : Caller(r)
        BY <1>1, <2>1
        DEF Next, Copier, Surroundings, CopyChunk, CopyEnds, DeadlinePasses, CallerCancels,
            ProcessWrites, ProcessExits, OutputCloses, ProcessRenames, ContainerDestroyed,
            vars, callerVars
    <2>3. ASSUME NEW kind \in Kind, Answers(r, kind)
          PROVE  r = c /\ kind = "timeout"
        BY <1>1, <2>1, <2>3, ReturnTyped
    <2>4. CASE Prepare(r) \/ Attach(r)
        <3>1. Answers(r, Blame(r))
            BY <2>1, <2>4 DEF Prepare, Attach, Answers, Goto
        <3>2. r = c /\ Blame(c) = "timeout"
            BY <2>3, <3>1, BlameTyped
        <3>. QED BY <2>1, <3>2 DEF Blame, DoneErr, TypeOK
    <2>5. CASE Await(r)
        <3>1. Answers(r, "ok")
            BY <2>1, <2>5 DEF Await, Answers, Goto
        <3>. QED BY <2>3, <3>1 DEF Kind
    <2>6. CASE Kill(r)
        <3>1. r = c /\ Cause(c) = "timeout"
            BY <2>1, <2>3, <2>6, KillMeans
        <3>2. pc[c] = "kill_done" /\ ctx[c] # "live" /\ ctx[c] # "cancelled"
            BY <2>1, <3>1 DEF Cause, DoneErr, CallInv, CopierFollows
        <3>. QED BY <2>1, <3>2 DEF TypeOK
    <2>. QED BY <2>1, <2>2, <2>4, <2>5, <2>6 DEF Caller, Select, Drain, Goto
<1>2. ExecInv /\ [Next]_vars =>
          [\A c \in Call :
              result[c].kind # "timeout" /\ result'[c].kind = "timeout"
              => ctx[c] = "deadline"]_vars
    BY <1>1
<1>. QED BY <1>2, ExecAlways, PTL DEF Spec, TimeoutMeansDeadline

-----------------------------------------------------------------------------
(* What is left of a call: the steps of its goroutine, and its copier's end. *)
StepsLeft ==
    [lookup |-> 6, create |-> 5, attach |-> 4, stream |-> 3, drain |-> 2, await |-> 2,
     kill_done |-> 1, kill_error |-> 1, done |-> 0]

Left(c) == 2 * StepsLeft[pc[c]] + (IF copier[c] = "copying" THEN 1 ELSE 0)

(* Every step of a call's goroutine brings the call nearer to its return,   *)
(* nobody takes it back, and while it waits for its copier (docker.go:407)  *)
(* so does every step of that: a closed connection leaves it nothing to     *)
(* copy, whatever the command goes on to write.                             *)
CallsAdvance ==
    [][\A c \in Call : /\ Left(c)' <= Left(c)
                       /\ Caller(c) => Left(c)' < Left(c)
                       /\ Copier(c) /\ pc[c] = "drain" => Left(c)' < Left(c)]_vars

(* A call that is drained has closed its connection.                        *)
DrainsClosed == \A c \in Call : pc[c] = "drain" => conn[c] = "closed"

Goes(c, from, to) ==
    pc[c] \in from /\ pc'[c] \in to /\ \A r \in Call \ {c} : pc'[r] = pc[r]

LEMMA CallerGoes ==
    ASSUME ExecInv, NEW c \in Call, Caller(c)
    PROVE  \/ Goes(c, {"lookup"}, {"create", "done"}) /\ UNCHANGED <<copier, conn>>
           \/ Goes(c, {"create"}, {"attach", "done"}) /\ UNCHANGED <<copier, conn>>
           \/ /\ Goes(c, {"attach"}, {"stream", "done"})
              /\ \A r \in Call \ {c} : copier'[r] = copier[r] /\ conn'[r] = conn[r]
           \/ Goes(c, {"stream"}, {"await", "kill_error"}) /\ UNCHANGED <<copier, conn>>
           \/ /\ Goes(c, {"stream"}, {"drain"}) /\ UNCHANGED copier
              /\ conn'[c] = "closed" /\ \A r \in Call \ {c} : conn'[r] = conn[r]
           \/ Goes(c, {"drain"}, {"kill_done"}) /\ UNCHANGED <<copier, conn>>
           \/ Goes(c, {"await"}, {"kill_done", "kill_error", "done"})
                  /\ UNCHANGED <<copier, conn>>
           \/ Goes(c, {"kill_done", "kill_error"}, {"done"}) /\ UNCHANGED <<copier, conn>>
<1>1. TypeOK
    BY DEF ExecInv
<1>2. CASE Prepare(c)
    BY <1>1, <1>2 DEF Prepare, Goto, Return, Goes, TypeOK, copierVars
<1>3. CASE Attach(c)
    BY <1>1, <1>3 DEF Attach, Goto, Return, Goes, TypeOK
<1>4. CASE Select(c)
    BY <1>1, <1>4 DEF Select, Goto, Goes, TypeOK, copierVars
<1>5. CASE Drain(c)
    BY <1>1, <1>5 DEF Drain, Goto, Goes, TypeOK, copierVars
<1>6. CASE Await(c)
    BY <1>1, <1>6 DEF Await, Goto, Return, Goes, TypeOK, copierVars
<1>7. CASE Kill(c)
    BY <1>1, <1>7 DEF Kill, Return, Goes, TypeOK, copierVars
<1>. QED BY <1>2, <1>3, <1>4, <1>5, <1>6, <1>7 DEF Caller

LEMMA CopierGoes ==
    ASSUME ExecInv, NEW c \in Call, Copier(c)
    PROVE  /\ UNCHANGED pc /\ copier[c] = "copying"
           /\ \A r \in Call : conn'[r] = conn[r] \/ conn[r] = "open"
           /\ \/ UNCHANGED copier /\ conn[c] = "open"
              \/ copier'[c] # "copying" /\ \A r \in Call \ {c} : copier'[r] = copier[r]
<1>1. CASE CopyChunk(c)
    BY <1>1 DEF CopyChunk, callerVars
<1>2. CASE CopyEnds(c)
    BY <1>2 DEF CopyEnds, callerVars, ExecInv, TypeOK
<1>. QED BY <1>1, <1>2 DEF Copier

LEMMA OthersGoNowhere ==
    ASSUME \/ \E c \in Call : Surroundings(c)
           \/ ContainerDestroyed
           \/ UNCHANGED vars
    PROVE  UNCHANGED <<pc, conn, copier>>
BY DEF Surroundings, DeadlinePasses, CallerCancels, ProcessWrites, ProcessExits, OutputCloses,
       ProcessRenames, ContainerDestroyed, vars, callerVars, copierVars

LEMMA DrainsStayClosed == ExecInv /\ DrainsClosed /\ [Next]_vars => DrainsClosed'
<1> SUFFICES ASSUME ExecInv, DrainsClosed, [Next]_vars PROVE DrainsClosed'
    OBVIOUS
<1>1. ASSUME NEW c \in Call, Caller(c)
      PROVE  DrainsClosed'
    BY <1>1, CallerGoes DEF DrainsClosed, Goes
<1>2. ASSUME NEW c \in Call, Copier(c)
      PROVE  DrainsClosed'
    BY <1>2, CopierGoes DEF DrainsClosed
<1>. QED BY <1>1, <1>2, OthersGoNowhere DEF Next, DrainsClosed

LEMMA AlwaysDrainsClosed == Spec => [](ExecInv /\ DrainsClosed)
<1>1. Init => DrainsClosed
    BY DEF Init, DrainsClosed
<1>. QED BY <1>1, DrainsStayClosed, ExecAlways, PTL DEF Spec

LEMMA CallerLowers ==
    ASSUME ExecInv, NEW c \in Call, Caller(c)
    PROVE  Left(c)' < Left(c) /\ \A r \in Call \ {c} : Left(r)' = Left(r)
<1>1. \A r \in Call \ {c} : Left(r)' = Left(r)
    BY CallerGoes DEF Goes, Left
<1>2. pc[c] \in {"lookup", "create", "attach", "stream"} => copier[c] # "copying" \/ pc[c] = "stream"
    BY DEF ExecInv, CallInv, CopierFollows
<1>3. Left(c)' < Left(c)
    BY CallerGoes, <1>2 DEF Goes, Left, StepsLeft
<1>. QED BY <1>1, <1>3

LEMMA CopierLowers ==
    ASSUME ExecInv, NEW c \in Call, Copier(c)
    PROVE  /\ \A r \in Call \ {c} : Left(r)' = Left(r)
           /\ Left(c)' = Left(c) \/ Left(c)' < Left(c)
           /\ conn[c] = "closed" => Left(c)' < Left(c)
<1>1. \A r \in Call \ {c} : Left(r)' = Left(r)
    BY CopierGoes DEF Left
<1>2. StepsLeft[pc[c]] \in Nat
    BY DEF ExecInv, TypeOK, StepsLeft
<1>3. \/ Left(c)' = Left(c) /\ conn[c] = "open"
      \/ Left(c)' < Left(c)
    BY <1>2, CopierGoes DEF Left
<1>. QED BY <1>1, <1>3

(* However calls, copiers, commands, kills and failures interleave, nothing *)
(* puts a call back, and the copier that a call drains has one step left,   *)
(* its end: what ContextEndsExec rests on, beside the fairness of the       *)
(* goroutines.                                                              *)
THEOREM EveryCallAdvances == Spec => CallsAdvance
<1>1. ASSUME ExecInv, DrainsClosed, [Next]_vars, NEW c \in Call
      PROVE  /\ Left(c)' <= Left(c)
             /\ Caller(c) => Left(c)' < Left(c)
             /\ Copier(c) /\ pc[c] = "drain" => Left(c)' < Left(c)
    <2>1. Left(c) \in Nat /\ Left(c)' \in Nat
        <3>1. TypeOK /\ TypeOK'
            BY <1>1, ExecStep DEF ExecInv
        <3>. QED BY <3>1 DEF TypeOK, Left, StepsLeft
    <2>2. Caller(c) => Left(c)' < Left(c)
        BY <1>1, CallerLowers
    <2>3. Copier(c) => Left(c)' = Left(c) \/ Left(c)' < Left(c)
        BY <1>1, CopierLowers
    <2>4. Copier(c) /\ pc[c] = "drain" => Left(c)' < Left(c)
        BY <1>1, CopierLowers DEF DrainsClosed
    <2>5. ASSUME NEW r \in Call, r # c, Caller(r) \/ Copier(r)
          PROVE  Left(c)' = Left(c)
        BY <1>1, <2>5, CallerLowers, CopierLowers
    <2>6. ASSUME \/ \E r \in Call : Surroundings(r)
                 \/ ContainerDestroyed
                 \/ UNCHANGED vars
          PROVE  Left(c)' = Left(c)
        BY <2>6, OthersGoNowhere DEF Left
    <2>7. Left(c)' = Left(c) \/ Left(c)' < Left(c)
        <3>1. ASSUME NEW r \in Call, Caller(r) \/ Copier(r)
              PROVE  Left(c)' = Left(c) \/ Left(c)' < Left(c)
            BY <2>2, <2>3, <2>5, <3>1
        <3>. QED BY <1>1, <2>6, <3>1 DEF Next
    <2>8. Left(c)' <= Left(c)
        BY <2>1, <2>7
    <2>. QED BY <2>2, <2>4, <2>8
<1>2. ExecInv /\ DrainsClosed /\ [Next]_vars
      => [\A c \in Call : /\ Left(c)' <= Left(c)
                          /\ Caller(c) => Left(c)' < Left(c)
                          /\ Copier(c) /\ pc[c] = "drain" => Left(c)' < Left(c)]_vars
    BY <1>1
<1>. QED BY <1>2, AlwaysDrainsClosed, PTL DEF Spec, CallsAdvance
=============================================================================
