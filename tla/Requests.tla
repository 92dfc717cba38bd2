------------------------------ MODULE Requests ------------------------------
(***************************************************************************)
(* internal/httpapi: the requests a server handles.  Each is a goroutine    *)
(* that decodes its input and then either asks the control plane for one    *)
(* change of the row, or checks that the row says running, looks the        *)
(* container up and works in it, in that order and with nothing locked in   *)
(* between; every outcome is classified into one status.  The row, the      *)
(* container and its files move meanwhile, as the reconciler and the        *)
(* sandbox's own processes please.                                          *)
(*                                                                          *)
(* One sandbox, and one path that stands for all.                           *)
(***************************************************************************)
EXTENDS Sandbox, Limits, FiniteSetsExt, Sequences

CONSTANTS
    Call,               \* concurrent requests
    Lifetimes,          \* durations a client of the Go package asks for
    WireSeconds,        \* numbers of seconds any client may write
    Digits, Units,      \* memory limits a spec may hold
    MaxTotalFiles       \* the longest listing

ASSUME RequestsAssumption ==
    /\ Lifetimes \subseteq Int64 /\ WireSeconds \subseteq Int64
    /\ Digits \subseteq Int64 /\ Units \subseteq Nat \ {0}
    /\ MaxTotalFiles \in Nat \ {0}

VARIABLES
    row,                \* the state of the row, or Absent
    box,                \* the container: none, stopped, running
    node,               \* what is at the path inside it
    at,                 \* where each request is
    input,              \* what it asks for
    reply,              \* what it was answered
    granted,            \* history: the lifetime and memory it was given
    witnessed,          \* history: facts that held while it was handled
    faulted,            \* history: requests that met a daemon or store error
    touched             \* history: requests that changed the row or container

worldVars == <<row, box, node>>
requestVars == <<at, input, reply, granted, faulted, touched>>
vars == <<worldVars, requestVars, witnessed>>

World == INSTANCE SandboxWorld

(* A large file is above MaxFileSize.  A directory has few entries, just as *)
(* many as may be listed (full), or one more (crowd).                       *)
Directory == [dir |-> MaxTotalFiles - 1, full |-> MaxTotalFiles, crowd |-> MaxTotalFiles + 1]
Node == {"absent", "file", "large", "link"} \union DOMAIN Directory

Inside == {"inspect", "exec", "write", "read", "list", "remove"}
OnRows == {"create", "keepalive", "destroy", "events", "index"}
Op == Inside \union OnRows
Body == {"good", "malformed", "oversized", "overlong"}
Path == {"good", "root", "invalid", "empty"}

(* What a create or a keepalive asks for: a lifetime, as it is meant and as *)
(* it travels, and a memory limit.                                          *)
Terms(op) ==
    LET ToSeconds(d) == IF op = "create" THEN CeilSeconds(d) ELSE KeepaliveSeconds(d)
        Asked == {[lifetime |-> d, seconds |-> ToSeconds(d)] : d \in Lifetimes}
                 \union {[lifetime |-> n * Second, seconds |-> n] : n \in WireSeconds}
        Omitted == [lifetime |-> 0, seconds |-> 0]
        Enough == <<MinMemoryLimit, 1>>
    IN  CASE op = "create" -> (Asked \X {Enough}) \union ({Omitted} \X (Digits \X Units))
          [] op = "keepalive" -> Asked \X {Enough}
          [] OTHER -> {<<Omitted, Enough>>}

(* A body is sent by exec, write, create and keepalive; only a write's      *)
(* content can be over the file limit; inspect and exec have no path.       *)
Input == {i \in [op : Op, body : Body, path : Path, terms : UNION {Terms(op) : op \in Op}] :
              /\ i.body # "good" => i.op \in {"exec", "write", "create", "keepalive"}
              /\ i.body = "overlong" => i.op = "write"
              /\ i.path # "good" => i.op \in Inside \ {"inspect", "exec"}
              /\ i.terms \in Terms(i.op)}

Lifetime(i) == i.terms[1].lifetime
Seconds(i) == i.terms[1].seconds
Memory(i) == i.terms[2][1] * i.terms[2][2]

NoInput == [op |-> "none"]
NoReply == [status |-> 0, about |-> "nothing"]
NoGrant == [ttl |-> 0, memory |-> 0]
Says(status, about) == [status |-> status, about |-> about]

-----------------------------------------------------------------------------
(* Faulty variant: a timeout is the client's (408).                         *)
TimeoutIsClients == <<
    [any |-> {"invalid_path", "invalid_spec"},       reply |-> Says(422, "input")],
    [any |-> {"invalid_transition", "not_running"},  reply |-> Says(409, "sandbox")],
    [any |-> {"path_not_found"},                     reply |-> Says(404, "path")],
    [any |-> {"exec_timeout"},                       reply |-> Says(408, "command")],
    [any |-> {"not_found"},                          reply |-> Says(404, "sandbox")]>>

(* classify: the sentinels of an error chain, tried in this order.          *)
ClassTable == <<
    [any |-> {"internal"},                           reply |-> Says(500, "server")],
    [any |-> {"invalid_spec"},                       reply |-> Says(422, "input")],
    [any |-> {"invalid_transition", "not_running"},  reply |-> Says(409, "sandbox")],
    [any |-> {"invalid_path"},                       reply |-> Says(422, "input")],
    [any |-> {"path_not_found"},                     reply |-> Says(404, "path")],
    [any |-> {"file_too_large", "too_many_files"},   reply |-> Says(413, "path")],
    [any |-> {"exec_timeout"},                       reply |-> Says(504, "command")],
    [any |-> {"not_found"},                          reply |-> Says(404, "sandbox")]>>

Classify(sentinels) ==
    LET rows == {i \in DOMAIN ClassTable : ClassTable[i].any \cap sentinels # {}}
    IN  IF rows = {} THEN Says(500, "server") ELSE ClassTable[Min(rows)].reply

(* What the handler turns away before it asks anything of the sandbox.      *)
Undecodable(i) ==
    \/ i.body \in {"malformed", "oversized"}
    \/ i.path = "empty" /\ i.op \in {"read", "list", "remove"}

DecodeReply(i) == IF i.body = "oversized" THEN Says(413, "input") ELSE Says(400, "input")

(* RequireRunning: the sentinels for the row as it is read.                 *)
GateExistsOnly == IF row = Absent THEN {"not_found"} ELSE {}    \* faulty variant

Gate == CASE row = Absent    -> {"not_found"}
          [] row = "running" -> {}
          [] OTHER           -> {"not_running"}

(* ValidatePath, ValidateRead, ValidateWrite, ValidateRemove: an absolute   *)
(* and clean path; only a listing may be of the root.                       *)
Invalid(i) ==
    \/ i.path \in {"invalid", "empty"}
    \/ i.path = "root" /\ i.op # "list"

PathErrs(i) ==
    CASE Invalid(i)                           -> {"invalid_path"}
      [] ~Invalid(i) /\ i.body = "overlong"   -> {"file_too_large"}
      [] OTHER                                -> {}

(* CreateSandbox and KeepaliveSandbox resolve what was asked before they    *)
(* touch the store.                                                         *)
GrantedTTL(i) ==
    IF i.op = "create" THEN ResolveTTL(ToDuration(Seconds(i)))
                       ELSE ClampTTL(ToDuration(Seconds(i)))

GrantedMemory(i) == MemoryLimit(i.terms[2][1], i.terms[2][2])

TermErrs(i) ==
    IF Rejected \in {GrantedTTL(i), GrantedMemory(i)} THEN {"invalid_spec"} ELSE {}

Grant(c) ==
    granted' = [granted EXCEPT ![c] =
        [ttl |-> GrantedTTL(input[c]), memory |-> GrantedMemory(input[c])]]

-----------------------------------------------------------------------------
Answer(c, r) ==
    /\ at' = [at EXCEPT ![c] = "done"]
    /\ reply' = [reply EXCEPT ![c] = r]

Proceed(c, step) == at' = [at EXCEPT ![c] = step] /\ UNCHANGED reply

Fails(c) ==
    /\ Answer(c, Classify({"other"}))
    /\ faulted' = faulted \union {c}

Works == UNCHANGED faulted

(* A request that goes on to change the row counts as one that changed it.  *)
Moves(c, to) ==
    /\ row' = to
    /\ touched' = touched \union {c}
    /\ UNCHANGED <<box, node>>

(* What a request does to the container counts even if it is lost sight of. *)
Leaves(c, what) ==
    /\ node' = what
    /\ touched' = touched \union {c}
    /\ UNCHANGED <<row, box>>

Untouched == UNCHANGED <<worldVars, touched>>

Arrive(c) ==
    /\ at[c] = "idle"
    /\ \E i \in Input :
           /\ input' = [input EXCEPT ![c] = i]
           /\ IF Undecodable(i) THEN Answer(c, DecodeReply(i))
              ELSE Proceed(c, IF i.op \in Inside THEN "gate" ELSE "control")
    /\ Works
    /\ Untouched
    /\ UNCHANGED granted

-----------------------------------------------------------------------------
(* CreateSandbox: a new row, under an id no container carries, or one that  *)
(* was there: that of another sandbox or of a key used before.              *)
Creates(c) ==
    LET errs == TermErrs(input[c]) IN
    /\ at[c] = "control" /\ input[c].op = "create"
    /\ \/ errs # {} /\ Works /\ Untouched /\ Answer(c, Classify(errs)) /\ UNCHANGED granted
       \/ /\ errs = {} /\ Works /\ Answer(c, Says(202, "result"))
          /\ \/ row = Absent /\ box = "none" /\ Moves(c, "pending") /\ Grant(c)
             \/ Untouched /\ UNCHANGED granted
       \/ errs = {} /\ Untouched /\ Fails(c) /\ UNCHANGED granted
    /\ UNCHANGED input

(* KeepaliveSandbox renews a pending or running row.                        *)
Keepalives(c) ==
    LET errs == TermErrs(input[c]) IN
    /\ at[c] = "control" /\ input[c].op = "keepalive"
    /\ \/ errs # {} /\ Works /\ Untouched /\ Answer(c, Classify(errs)) /\ UNCHANGED granted
       \/ /\ errs = {} /\ row \in {"pending", "running"}
          /\ Works /\ Moves(c, row) /\ Grant(c) /\ Answer(c, Says(200, "result"))
       \/ /\ errs = {} /\ row \notin {"pending", "running"}
          /\ Works /\ Untouched /\ UNCHANGED granted
          /\ Answer(c, Classify(IF row = Absent THEN {"not_found"} ELSE {"invalid_transition"}))
       \/ errs = {} /\ Untouched /\ Fails(c) /\ UNCHANGED granted
    /\ UNCHANGED input

(* DestroySandbox reads the row and then stops it if it was running at that *)
(* version; to find nothing to stop is a success, at either call.           *)
DestroyReads(c) ==
    /\ at[c] = "control" /\ input[c].op = "destroy"
    /\ \/ row = Absent /\ Works /\ Answer(c, Says(202, "result"))
       \/ row # Absent /\ Works /\ Proceed(c, IF row = "running" THEN "stop" ELSE "refused")
       \/ Fails(c)
    /\ Untouched
    /\ UNCHANGED <<input, granted>>

StopsWhateverItIs(c) ==         \* faulty variant: the write restates nothing
    /\ at[c] \in {"stop", "refused"}
    /\ \/ row # Absent /\ Moves(c, "stopping")
          /\ Works /\ Answer(c, Says(202, "result"))
       \/ row = Absent /\ Untouched /\ Works /\ Answer(c, Says(202, "result"))
       \/ Untouched /\ Fails(c)
    /\ UNCHANGED <<input, granted>>

DestroyStops(c) ==
    /\ at[c] \in {"stop", "refused"}
    /\ \/ at[c] = "stop" /\ row = "running" /\ Moves(c, "stopping")
          /\ Works /\ Answer(c, Says(202, "result"))
       \/ ~(at[c] = "stop" /\ row = "running") /\ Untouched
          /\ Works /\ Answer(c, Says(202, "result"))
       \/ Untouched /\ Fails(c)
    /\ UNCHANGED <<input, granted>>

(* GetSandboxEvents checks that the row is there first; ListSandboxes needs *)
(* none.                                                                    *)
ShowsRows(c) ==
    /\ at[c] = "control" /\ input[c].op \in {"events", "index"}
    /\ \/ /\ input[c].op = "events" /\ row = Absent
          /\ Works /\ Answer(c, Classify({"not_found"}))
       \/ /\ input[c].op = "index" \/ row # Absent
          /\ Works /\ Answer(c, Says(200, "result"))
       \/ Fails(c)
    /\ Untouched
    /\ UNCHANGED <<input, granted>>

(* Faulty variant: the handler goes on after the gate has answered.         *)
GateAnswersAndGoesOn(c) ==
    /\ at[c] = "gate"
    /\ \/ Gate = {} /\ UNCHANGED reply
       \/ Gate # {} /\ reply' = [reply EXCEPT ![c] = Classify(Gate)]
    /\ at' = [at EXCEPT ![c] = "lookup"]
    /\ Works
    /\ UNCHANGED <<input, granted>>
    /\ Untouched

EnsureRunning(c) ==
    /\ at[c] = "gate"
    /\ \/ Gate = {} /\ Works /\ Proceed(c, "lookup")
       \/ Gate # {} /\ Works /\ Answer(c, Classify(Gate))
       \/ Fails(c)
    /\ UNCHANGED <<input, granted>>
    /\ Untouched

(* The runtime validates, then finds the container by its label.  Inspect   *)
(* is that lookup; the other calls go on to the container.                  *)
Lookup(c) ==
    LET i == input[c] IN
    /\ at[c] = "lookup"
    /\ \/ PathErrs(i) # {} /\ Works /\ Answer(c, Classify(PathErrs(i)))
       \/ /\ PathErrs(i) = {}
          /\ \/ box = "none" /\ Works /\ Answer(c, Classify({"not_found"}))
             \/ /\ box # "none" /\ Works
                /\ IF i.op = "inspect" THEN Answer(c, Says(200, "result"))
                   ELSE Proceed(c, "perform")
             \/ Fails(c)
             \/ /\ i.op \in {"exec", "remove"}      \* its deadline covers the lookup
                /\ Works /\ Answer(c, Classify({"exec_timeout"}))
    /\ UNCHANGED <<input, granted>>
    /\ Untouched

-----------------------------------------------------------------------------
(* ReadFile: the daemon reports a path, or a container, that is not there;  *)
(* the archive of anything but a regular file holds no file of that name.   *)
ReadErrs ==
    CASE box = "none" \/ node = "absent"    -> {"path_not_found"}
      [] box # "none" /\ node = "large"     -> {"file_too_large"}
      [] box # "none" /\ node = "file"      -> {}
      [] OTHER                              -> {"path_not_found"}

(* ListDir: the archive of a directory holds the directory itself before    *)
(* its entries, that of anything else the one entry.                        *)
Archive ==
    IF node \in DOMAIN Directory
    THEN <<"itself">> \o [i \in 1 .. Directory[node] |-> "entry"]
    ELSE <<"entry">>

(* The entries are taken one by one, all but the directory itself, and      *)
(* counted against the limit after each.                                    *)
ListedWithItself(i) == 1 .. i     \* faulty variant: the directory counts

ListedBy(i) == {j \in 1 .. i : Archive[j] # "itself"}

ListErrs ==
    CASE box = "none" \/ node = "absent" -> {"path_not_found"}
      [] OTHER -> IF \E i \in DOMAIN Archive : Cardinality(ListedBy(i)) > MaxTotalFiles
                  THEN {"too_many_files"} ELSE {}

Reads(c) ==
    LET errs == IF input[c].op = "read" THEN ReadErrs ELSE ListErrs IN
    /\ at[c] = "perform" /\ input[c].op \in {"read", "list"}
    /\ \/ errs = {} /\ Works /\ Answer(c, Says(200, "result"))
       \/ errs # {} /\ Works /\ Answer(c, Classify(errs))
       \/ Fails(c)
    /\ UNCHANGED <<input, granted>>
    /\ Untouched

(* WriteFile: the archive replaces whatever is at the path.  A container    *)
(* that is gone by now is an error like any other.                          *)
Writes(c) ==
    /\ at[c] = "perform" /\ input[c].op = "write"
    /\ \/ box # "none" /\ Leaves(c, "file") /\ Works /\ Answer(c, Says(204, "result"))
       \/ box = "none" /\ Untouched /\ Works /\ Answer(c, Classify({"other"}))
       \/ box # "none" /\ Leaves(c, "file") /\ Fails(c)
       \/ Untouched /\ Fails(c)
    /\ UNCHANGED <<input, granted>>

(* Exec needs a running container, does what it likes in it, and may be     *)
(* ended by its deadline, with its process killed or not.                   *)
Execs(c) ==
    /\ at[c] = "perform" /\ input[c].op = "exec"
    /\ \/ /\ box = "running"
          /\ \E what \in Node : Leaves(c, what)
          /\ \/ Works /\ Answer(c, Says(200, "result"))
             \/ Works /\ Answer(c, Classify({"exec_timeout"}))
             \/ Works /\ Answer(c, Classify({"exec_timeout", "exec_not_killed"}))
             \/ Fails(c)
       \/ box # "running" /\ Untouched /\ Works /\ Answer(c, Classify({"other"}))
       \/ Untouched /\ Fails(c)
    /\ UNCHANGED <<input, granted>>

(* RemovePath is an exec of rm -rf, for which a missing path is no error.   *)
(* One that fails, is cut short or lost sight of may have removed a part.   *)
Remains ==
    {node, "absent"} \union
        {d \in DOMAIN Directory : node \in DOMAIN Directory /\ Directory[d] <= Directory[node]}

Removes(c) ==
    /\ at[c] = "perform" /\ input[c].op = "remove"
    /\ \/ /\ box = "running"
          /\ \/ Leaves(c, "absent") /\ Works /\ Answer(c, Says(204, "result"))
             \/ /\ \E what \in Remains : Leaves(c, what)
                /\ \/ Fails(c)                      \* rm exited non-zero, or no answer
                   \/ Works /\ Answer(c, Classify({"exec_timeout"}))
                   \/ Works /\ Answer(c, Classify({"exec_timeout", "exec_not_killed"}))
       \/ box # "running" /\ Untouched /\ Works /\ Answer(c, Classify({"other"}))
       \/ Untouched /\ Fails(c)
    /\ UNCHANGED <<input, granted>>

-----------------------------------------------------------------------------
(* The control plane and the Docker daemon move the row and the container,  *)
(* and what runs inside changes files.  A new container may come with a     *)
(* directory at the path.                                                   *)
SandboxMoves ==
    /\ World!Next
    /\ CASE box' = "none"                 -> node' = "absent"
         [] box = "none" /\ box' # "none" -> node' \in {"absent", "dir"}
         [] OTHER                         -> UNCHANGED node

FilesChange ==
    /\ box = "running"
    /\ node' \in Node \ {node}
    /\ UNCHANGED <<row, box>>

(* Nobody looks any more when every request is done.                        *)
WorldMoves ==
    /\ \E c \in Call : at[c] # "done"
    /\ SandboxMoves \/ FilesChange
    /\ UNCHANGED requestVars

-----------------------------------------------------------------------------
(* What can justify an answer: facts of the row, and for work inside the    *)
(* sandbox of the container and of the path that is read.                   *)
RowFacts ==
    CASE row = Absent    -> {"no row"}
      [] row = "running" -> {"row", "live row", "running row"}
      [] row = "pending" -> {"row", "live row", "row not running"}
      [] OTHER           -> {"row", "row not running", "row past running"}

BoxFacts ==
    CASE box = "none"   -> {"no container"}
      [] box = "stopped" -> {"stopped container"}
      [] OTHER          -> {}

PathFacts(op) ==
    CASE box = "none" \/ node = "absent" -> {"no path"}
      [] box # "none" /\ node = (IF op = "read" THEN "large" ELSE "crowd") -> {"over the limit"}
      [] box # "none" /\ op = "read" /\ node \in DOMAIN Directory \union {"link"} ->
             {"not a regular file"}
      [] OTHER -> {"fitting path"}

Facts(op) == UNION {
    CASE op \in Inside                   -> RowFacts \ {"row", "live row", "row past running"}
      [] op \in {"keepalive", "events"} -> RowFacts
      [] OTHER                          -> {},
    IF op \in Inside THEN BoxFacts ELSE {},
    IF op \in {"read", "list"} THEN PathFacts(op) ELSE {}}

Init ==
    /\ World!Init
    /\ node = "absent"
    /\ at = [c \in Call |-> "idle"]
    /\ input = [c \in Call |-> NoInput]
    /\ reply = [c \in Call |-> NoReply]
    /\ granted = [c \in Call |-> NoGrant]
    /\ witnessed = [c \in Call |-> {}]
    /\ faulted = {}
    /\ touched = {}

OnRow(c) == Creates(c) \/ Keepalives(c) \/ DestroyReads(c) \/ DestroyStops(c) \/ ShowsRows(c)

InContainer(c) == Lookup(c) \/ Reads(c) \/ Writes(c) \/ Execs(c) \/ Removes(c)

Handle(c) == Arrive(c) \/ OnRow(c) \/ EnsureRunning(c) \/ InContainer(c)

(* A request sees every state a step of its own or of others starts from.   *)
Observe ==
    witnessed' = [c \in Call |->
        IF at[c] \in {"idle", "done"} THEN witnessed[c]
        ELSE witnessed[c] \union Facts(input[c].op)]

Next == (WorldMoves \/ \E c \in Call : Handle(c)) /\ Observe

Spec == Init /\ [][Next]_vars

-----------------------------------------------------------------------------
TypeOK ==
    /\ row \in TaskState \union {Absent}
    /\ box \in {"none", "stopped", "running"}
    /\ node \in Node
    /\ box = "none" => node = "absent"
    /\ at \in [Call -> {"idle", "control", "stop", "refused",
                        "gate", "lookup", "perform", "done"}]
    /\ input \in [Call -> Input \union {NoInput}]
    /\ \A c \in Call : reply[c] # NoReply <=> at[c] = "done"
    /\ \A c \in Call : granted[c] # NoGrant =>
           granted[c].ttl \in 1 .. MaxTTL /\ granted[c].memory \in MinMemoryLimit .. Half - 1
    /\ faulted \subseteq Call /\ touched \subseteq Call

(* What the handlers write is no other move than those they must expect of  *)
(* everybody else (control.go: a fresh id, running to stopping), so that    *)
(* one request may stand for any number of them.                            *)
RequestsFollowWorld == World!Spec

(* What is enough for an answer, of an input and of what was witnessed.     *)
BadTerms(i) ==
    \/ Lifetime(i) < 0 \/ (i.op = "create" /\ Lifetime(i) > MaxTTL)
    \/ Memory(i) < MinMemoryLimit \/ Memory(i) > Half \div 2

Justifies(r, i, w, failed) ==
    \/ r = Says(404, "sandbox") /\ ("no row" \in w \/ (i.op \in Inside /\ "no container" \in w))
    \/ r = Says(404, "path") /\ ("no path" \in w \/ (i.op = "read" /\ "not a regular file" \in w))
    \/ /\ r = Says(409, "sandbox")
       /\ (IF i.op = "keepalive" THEN "row past running" ELSE "row not running") \in w
    \/ r = Says(413, "path") /\ ("over the limit" \in w \/ i.body = "overlong")
    \/ r.about = "input" /\ (Undecodable(i) \/ PathErrs(i) # {} \/ BadTerms(i))
    \/ r.status = 504 /\ i.op \in {"exec", "remove"}
    \/ r.status = 500 /\ failed
    \/ r.status = 500 /\ "running row" \in w /\ w \cap {"no container", "stopped container"} # {}
    \/ /\ r.about = "result"
       /\ i.op \in Inside => "running row" \in w
       /\ i.op \in {"read", "list"} => "fitting path" \in w
       /\ i.op = "keepalive" => "live row" \in w
       /\ i.op = "events" => "row" \in w

Justified(c) == Justifies(reply[c], input[c], witnessed[c], c \in faulted)

(* classify's promise: each status names something that was so at a moment  *)
(* while the request was handled, however the sandbox moved meanwhile: a    *)
(* path that is read or listed was there and within its limit, one refused  *)
(* was above it, and nobody is told 500 unless a call failed or the         *)
(* container had stopped or gone after the gate.                            *)
StatusIsTrue == \A c \in Call : at[c] = "done" => Justified(c)

(* server.go:83: a 4xx is the client's mistake, to be corrected and sent    *)
(* again: a request rejected so has changed nothing, in row or container.   *)
RejectedChangesNothing ==
    \A c \in Call : reply[c].status \in 400 .. 499 => c \notin touched

(* ensureRunning: nothing is changed in a container unless its row said     *)
(* running while the request was handled; a row that has left running by    *)
(* then is all the race can amount to.                                      *)
ChangesNeedRunningRow ==
    \A c \in Call :
        c \in touched /\ input[c].op \in Inside => "running row" \in witnessed[c]

(* What a request is granted is what it asked for, through every conversion *)
(* on the way: the memory exactly, the lifetime rounded up to a second and  *)
(* cut at the cap, and the default only if none was asked for (which is how *)
(* a client's negative create travels).                                     *)
GrantedAsAsked ==
    \A c \in Call :
        LET i == input[c]
            d == Lifetime(i)
        IN  granted[c] # NoGrant =>
                /\ granted[c].memory = Memory(i)
                /\ \/ d > 0 /\ granted[c].ttl \in
                           Smaller(d, MaxTTL) .. Smaller(d + Second - 1, MaxTTL)
                   \/ d = 0 /\ granted[c].ttl = DefaultTTL
                   \/ d < 0 /\ i.op = "create" /\ Seconds(i) = 0 /\ granted[c].ttl = DefaultTTL
=============================================================================
