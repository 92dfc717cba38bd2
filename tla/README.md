# quickspin in TLA+

quickspin is a control plane for sandboxes. A daemon records what clients ask
for in SQLite, and a reconciler makes the containers of one Docker daemon follow
those rows. This directory holds a model of that program in TLA+, the TLC runs
that check it on small instances, and the theorems TLAPS proves about it for
every instance. Paths below are relative to the repository root; `docker.go`
stands for `internal/runtime/docker/docker.go`, `sqlite.go` for
`internal/store/sqlite/sqlite.go`, and so on.

## 1. Inventory

| Part | State it keeps | Operations | What makes it correct |
|---|---|---|---|
| `internal/sandbox` | none: states, transitions, limits, specs | `CanTransition`, `ResolveTTL`, `Resolve` | terminal states have no successor; limits are what was asked for |
| `internal/store/sqlite` | tables `sandboxes`, `idempotency_keys`, `events` | `CreateSandbox`, `UpdateSandboxState`, `UpdateSandboxExpiry`, reads | the history replays to the row; a row and its key are one unit; no write by a stale observer takes a row off the state machine |
| `internal/control` | none between requests | create, keepalive, destroy, `RequireRunning` | a key creates one sandbox however often it is retried; a destroy that is acknowledged is carried out |
| `internal/reconciler` | the pass: two snapshots and one clock reading | `ReconcileOnce`, `handleAction`, `mark` | rows never claim what containers are not; drift of any origin is repaired; no running sandbox is killed by mistake |
| `internal/runtime/docker`, lifecycle | the daemon's labelled containers | `Create`, `Destroy`, `List`, `cleanupFailed` | nothing that was created is lost for good |
| `internal/runtime/docker`, exec | one goroutine pair per call, capped buffers | `Exec`, `killExec`, `cappedWriter` | every call returns; output is complete, or declared cut at the cap, unless the connection ends early; an abandoned command does not run on |
| `internal/runtime/docker`, files | none | `WriteFile`, `ReadFile`, `ListDir`, `RemovePath` | what was written is read; a miss is told from an absent sandbox |
| `internal/httpapi` | the server: listening, draining, closed | routes, `ensureRunning`, `classify`, `Start`, `Stop` | each failure has one status; a request is answered or its loss reported |
| `internal/daemon` | none | `Serve`: opens, starts, closes | the store outlives its users; a restart resumes from the rows |
| `internal/api`, `client`, `cli`, `errs` | none | conversions and single calls | conversions keep their value at the edges of their width |
| `docs/src`, the reader of the roadmaps | location, fetched chunks, mounted text, preferences; promises that outlive what asked for them | navigation, history, outline, hints, search, settings, Mermaid diagrams | what is shown is what the address says; a diagram shows its own drawing; what was saved is found |

How the parts meet. Handlers run concurrently, one goroutine per request, and
call control, which calls the store once or twice: between two calls everything
else may run. The reader is a program of its own, in a browser, and meets the
rest nowhere. The reconciler ticks in a goroutine of its own, one pass at a time
(`TryLock`); it lists rows, then containers, decides, and then acts sandbox by
sandbox, with seconds to minutes between its calls. The two sides share only the
store, whose single connection serializes transactions, and the guards of its
UPDATEs. Exec and file calls go from a handler to the Docker daemon directly,
gated by one read of the row. The daemon process may die at any instruction; the
rows and the containers stay.

What is hard, and therefore what the properties are about: a handler and the
pass deciding from reads that went stale; the two-call actions (container, then
row) cut by an error or a crash; creates repeated under a key; containers the
rows know nothing of, and rows whose container is gone; a lease that runs out in
every state; a call to Docker without a deadline, on which the one loop of the
reconciler waits for everybody; in exec, a deadline racing output, exit and kill
over a connection no context can interrupt, and whose early end looks like the
end of the output; and in the reader, promises that are shared, cached and
cancelled, beside a location that others move.
`PROJECT.json` lists each hazard at its
line with the properties that watch it.

## 2. Modules

| Module | Models | State | Actions |
|---|---|---|---|
| `Sandbox` | `sandbox.go` | none | `ValidTransitions`, `CanTransition` |
| `SandboxLifecycle` | abstract: the life of a record | `state`, `version` | `Record`, `Transition` |
| `Store` | `sqlite.go`, the migration | the three tables | `InsertSandbox`, `UpdateSandboxState`, `UpdateSandboxExpiry` |
| `StoreProofs` | theorems about `Store` | | |
| `Environment` | clock, faults, crashes, calls that hang | `now`, `faults`, `crashes`, `hung` | `ClockTick`, `Fault`, `CrashAllowed`, `CallHangs`, `CallReturns` |
| `Docker` | the runtime's calls, and the daemon (external) | `containers`, `inflight`, `started` (history) | `ContainerCreate`, `ContainerStart`, `RemoveContainer`, `Destroy`, `ContainerExits`, `ContainerRestarts`, `ContainerVanishes`, `LateCreate` |
| `Control` | `control.go` | `req`, `answered` (history) | `CreateLookup`, `CreateInsert`, `DestroyRead`, `DestroyAccepted`, `DestroyErrs`, `Keepalive` |
| `Reconciler` | `reconciler.go`, `Runtime.Create` call by call | the pass, `unresolvable`, `missing` | `ListRows`, `ListContainers`, `ListFails`, `StartItem`, `CreateContainer`, `StartContainer`, `CleanupFailed`, `WriteBack`, `Compensate`, `DestroyContainer`, `Mark`, `FinishPass` |
| `ControlPlane` | `daemon.go`: all of the above together | theirs | `HandlerStep`, `ReconcilerStep`, `DaemonHangs`, `DockerStep`, `TimePasses`, `CrashAndRestart` |
| `SandboxWorld` | abstract: one sandbox as its requests find it | `row`, `box` | `Recorded`, `RowMoves`, `ContainerMade`, `ContainerStarts`, `ContainerExits`, `ContainerGoes` |
| `Exec` | `Runtime.Exec`, `killExec`, `stream.go` | per call: goroutines, context, process, connection, buffer | `Prepare`, `Attach`, `Select`, `Drain`, `Await`, `Kill`, `CopyChunk`, `CopyEnds`, and the surroundings |
| `Limits` | seconds in `api.go`, `ResolveTTL`, the clamp of keepalive, `parseMemory`: int64, which wraps | none | `ToDuration`, `CeilSeconds`, `KeepaliveSeconds`, `ResolveTTL`, `ClampTTL`, `MemoryLimit` |
| `Requests` | every route of `server.go` on one sandbox, `RequireRunning`, the file operations, `classify` | the row, the container and what is at a path; per request: step, input, reply, grant | `Arrive`, `Creates`, `Keepalives`, `DestroyReads`, `DestroyStops`, `ShowsRows`, `EnsureRunning`, `Lookup`, `Reads`, `Writes`, `Execs`, `Removes`, and the surroundings |
| `Serving` | `Serve`, the server's `Start` and `Stop`, around `Requests` | `server`, `failure`, `storeOpen` | `Start`, `ServeFails`, `Stop`, `Drained`, `GivesUp`, `Cleanup`, `Exit`, `Serves` |
| `Outline` | `documents.tsx`: the order of the roadmaps, `headingsFor`, `slugify`; github-slugger (external) | none | `documents`, `resolveDocument`, `slugify`, `GithubSlug`, `Unused`, `PageIds`, `JumpsTo` |
| `Diagrams` | `mdx-components.tsx`: `Mermaid` and its two module variables | `library`, `renders`, `source`, `shown`, `waiting` | `Mount`, `Edit`, `LibrarySettles`, `RenderSettles`, `Deliver` |
| `Reader` | `App.tsx` around both: one page in a browser | location and history, chunks, text, panel, preferences and their storage | `Sidebar`, `TurnPage`, `FollowHash`, `RevealHints`, `Controls`, `Keys`, `BackOrForward`, `Reload`, `ChunkSettles`, `PageFails`, `OtherTabSaves`, `AnimationFrame` |
| `ControlPlaneProofs`, `PassProofs`, `ContainerProofs` | theorems about `ControlPlane` | | |
| `ExecProofs`, `ServingProofs` | theorems about `Exec`, about `Requests` and `Serving` | | |
| `OutlineProofs`, `ReaderProofs` | lemmas about `Outline`, theorems about `Reader` | | |
| `MC*` | TLC instances | | |

Correspondence. A transaction of the store is one step, because the pool holds
one connection; what a caller does in two calls is two steps. A refused write
(no row matched, illegal transition) leaves the tables alone and takes the
caller down its own path. Every call of the reconciler to the store or the
daemon is a step, with a branch for its error; a call that fails after it took
effect is a branch too where the code can meet it (create, start, destroy). A
call to the daemon may also not be answered at all: while `hung` holds the pass
takes no step, and everything else goes on. An
id is a model value, `Absent` and `NoRow` stand for "no row", and a version is a
natural number. A container has an identity of its own, and its sandbox id is a
label that two containers may carry; `Sightings` is what a listing may show of
an id then. `started` and `answered` are history variables that only the
properties read. The containers have a restart policy: the Docker daemon may
bring one back that had exited, while the pass still holds it for exited
(`restarted` is a state of its own for the properties). Definitions commented
"faulty variant" are not part of any specification: each is a plausible mistake
in the code, and replacing the definition it varies makes TLC find the
corresponding property violated, which shows that the property can fail.

Most of the program is Go. The reader is its only TypeScript that is not a copy
of a component library, and `Outline`, `Diagrams` and `Reader` model it.

## 3. Runs

| Run | What it checks | Bounds |
|---|---|---|
| `safety` | `TypeOK`, `RunningWasStarted`, `TerminalRunsOnlyRestarted`, `OneContainerPerSandbox`, `KillsRunningOnlyToReap`, `ItemsDoTheirWork`, `WritesYieldToStopsOnly`, `SameKeySameSandbox`, `UsesStore`; of the store under the daemon `HistoryReplays`, `ImplementsLifecycle`; for the requests `SandboxesFollowWorld` | two sandbox ids, one key, two clients, two containers, two lifetimes, one fault, one crash |
| `liveness` | `OneRunningPerSandbox`, `EverySandboxConverges`, `ExpiredSandboxesEnd`, `StopsComplete`, `LeftoversRemoved` | one sandbox and one orphan, an image that may be missing, creates that land late, one fault (an error, or a call that hangs for a while or for ever), one crash |
| `exec` | `TypeOK`, `NoReadWhileCopying`, `SuccessIsComplete`, `PartialIsHonest`, `AbandonedStops`, `TimeoutMeansDeadline` | two calls, two commands (one ignores SIGTERM), output of 0 to 2 units over a cap of 1, one daemon call that fails or connection that is lost |
| `exec_returns` | `OutputNeverStalls`, `ContextEndsExec` | one call, output of 0 to 3 units over a cap of 1 and a pipe of 2 |
| `serving` | `ServingTypeOK`, `StatusIsTrue`, `RejectedChangesNothing`, `ChangesNeedRunningRow`, `GrantedAsAsked`, `CleanExitLosesNothing`, `RequestsFollowWorld`, `ShutdownEnds` | one request of any kind; row, container and path move freely; int64 of six bits, a second of three units, lifetimes that fit a duration, memory limits that are not negative; listings of up to 3 entries around a limit of 2 |
| `reader` | `ReaderTypeOK`, `LocationShowsActive`, `HistoryLeadsBack`, `PlainOutlineArrives`, `DiagramShowsItsOwn`, `DiagramsSettle`, `SavedIsFound` | two roadmaps, two places for diagrams and three sources (one faulty), the development server, two steps on the texts, or one there and two on the rest of the page with two kinds of stored preferences; 112 titles of three characters, and seven headings with repeated titles and a title that asks for the id a repeated one was given |

Six runs look for something the repository says and the code does not do, and
find it:

* `destroy_pending`. `control.go:102` takes a refused running -> stopping write
  for "an absent row or one already past Running". A pending row is refused as
  well: the DELETE is acknowledged, the sandbox starts and runs.
* `crash_loss`. `docs/plans/closed/06-reconciler-leases-events.mdx:233` says a
  crash costs "one tick of latency, never a lost sandbox". A crash between
  ContainerCreate and ContainerStart leaves a container that reads as stopped,
  and the next pass marks the pending row failed.
* `reap_race`. `docs/reference/package-boundaries.mdx:54` rests the safety of
  two writers on the WHERE clause that restates what was read. A reap is decided
  on the lease, which the clause does not restate and a keepalive does not
  version: a renewal accepted during the pass is answered, and reaped.
* `exec_rename`. `docker.go:644` reads "nothing matched" as "the command
  exited". A command that replaced its command line (the last command of a
  shell's `-c`) is not matched either and runs on.
* `exec_short`. `runtime.go:129` says of the truncation flags that "silently
  returning a short buffer is the failure these exist to prevent". When the
  hijacked connection ends before the output does, StdCopy reports a clean end
  (`docker.go:395`), and `Exec` returns a success with a short buffer and no flag.
* `outline_misses`. `docs/reader-guide.mdx:22` has the reader use "the right
  outline to jump within the current document". The outline and the page make
  their ids apart from each other: an entry with a dash between spaces, an
  underscore or an apostrophe leads nowhere (17 of the 363 entries of the plans),
  and one whose title was used before leads to the earlier heading. The id of a
  repeated title may also be the one a later title asks for: of Foo, Foo and
  Foo 1 the entries lead to the first, the first and the second.

Why the bounds are enough. The hazards involve at most two actors on one row: a
handler and the pass, two creates under one key, or the pass before and after a
crash. Different sandboxes meet only in the order of a pass and in the key
table: `safety` has two rows and two creates that meet on one key, `liveness` an
orphan beside the row; what holds of two keys is proved (section 4). One fault
and one crash reach every pairing the code handles (an error and the failure of
its compensation counts as two; the crash can be the second). A row's version
never passes 4. `MaxTime`, `MaxExpiry`, `MaxFaults`, `MaxCrashes`, `MaxErrors`,
`MaxOutput`, `PipeSize` and the sizes of the sets are bounds of the model;
`ContainerID` doubles as the room of the daemon, which refuses a create beyond
it. `Cap` scales `MaxStreamBytes` down: one unit is as much as the cap holds.
`Requests` has one request: another could do to it nothing that `FilesChange`
and the moves of row and container do not do already (`RequestsFollowWorld`).
`Half`, `Second`, `MaxTTL`, `DefaultTTL` and `MinMemoryLimit` scale int64 down
with everything that is measured in it, and `Lifetimes`, `WireSeconds`, `Digits`
and `Units` hold values on both sides of each edge. The world of a request stops
moving when every request is done, and the daemon starts once. `MaxTotalFiles`
scales the limit of a listing down. In the reader, `MaxHistory` bounds the
session history, `Hints` the hints of a text, and `Starts` how many steps a
reader takes on texts and on the rest: its hazards need a navigation, an edit or
a reload, one after the other, beside one import and two drawings under way,
which two steps give. A chunk that is asked for keeps its outcome for the life
of the page. Symmetry (of sandboxes, keys, clients, containers, calls) is used
in runs without liveness only. Deadlock is checked in the runs of
`ControlPlane`, where the ticker always has a next pass; an exec ends when its
call has returned, the daemon of `Serving` exits, and a reader that has used up
its steps is left alone.

Fairness. `FairSpec` of `ControlPlane` assumes that the reconciler's steps are
not postponed for ever while no call of the pass hangs: its goroutine ticks
until the context ends, and its store is a local database. It does not assume
that the daemon answers. The pass runs on the context of `Serve`, which has no
deadline (`daemon.go:52`, `reconciler.go:369`), and listing, pulling, creating,
starting, looking up and removing set none (`docker.go:223`, `263`, `267`,
`285`, `712`, `775`); only `cleanupFailed` does, 30 seconds. So one hung call,
for whichever sandbox, stops the only loop there is. The model lets a call hang
(`DaemonHangs`) and return, or never return: fairness is of `ReconcilerStep`,
which `hung` disables, and nothing forces `CallReturns`. The four liveness
properties of `liveness` therefore hold unless the loop hangs for ever, and say
so (`\/ hung`: since `MaxFaults` bounds how often a call hangs, to be hung again
and again is to be hung for ever). The mutants show that the rest of each
property still bites. Nothing is assumed of clients (a client that renews a
lease for ever may), of Docker's own moves, or of crashes, which the bound ends.
A step that fails is never forced: fairness is of the reconciler's steps without
a fault. `FairSpec` of `Exec` assumes that a goroutine that can run does and
that daemon calls return. It assumes nothing about commands, and does not need
deadlines to pass. `ServingSpec` assumes that the timer of a drain fires and
that the rest of `Serve` then runs; it assumes nothing of requests, which may
take for ever. In `Reader` the import of the library and a drawing are settled
some day, well or not, and a callback that waits for a settled promise runs,
which is what the browser's event loop does; readers, other tabs, fetches and
the storage are not forced.

Some properties are conditional on purpose. `OneContainerPerSandbox` and
`TerminalRunsOnlyRestarted` are checked without creates that land late; with
them two containers may carry one id for a while (`List` keeps one, `Destroy`
removes one). `OneRunningPerSandbox` holds there too, and is checked there, and
`LeftoversRemoved` shows that both go in the end. `ItemsDoTheirWork` speaks of
actions whose calls meet no fault; a create is left out of it, for an image that
is missing fails it without one. `AbandonedStops` excludes commands pkill cannot
end: one that ignores SIGTERM, one that renamed itself, and one whose attach
failed after it started, which the code does not try to kill.
`SuccessIsComplete` is about connections that do not end early (`exec_short`
shows what the others give), and `PlainOutlineArrives` about titles on which
both slug functions agree and whose id no earlier heading was given
(`outline_misses`). `DiagramShowsItsOwn` lets a diagram fail whose source is
well formed, because the library fetches parts of itself when it needs them.
`GrantedAsAsked` is checked for lifetimes that fit a `time.Duration` and for
memory limits that are not negative (section 5 says what becomes of the others).

## 4. Proofs

All theorems hold for arbitrary sets and bounds; the assumptions on the
constants are the named `ASSUME`s of the modules, and a theorem that needs more
says so.

| Module | Theorem | Property |
|---|---|---|
| `StoreProofs` | `StoreTypeCorrect`, `HistoryAlwaysReplays`, `OneKeyPerSandboxAlways`, `KeysAreStable`, `StoreImplementsLifecycle` | `StoreTypeOK` (a conjunct of `TypeOK`), `HistoryReplays`, `OneKeyPerSandbox` *, `KeysNeverMove` *, `ImplementsLifecycle` |
| `ControlPlaneProofs` | `DaemonUsesStore`, `StoreHoldsInDaemon`, `OneAnswerPerKey` | `UsesStore`, `ImplementsLifecycle` and the store's others, `SameKeySameSandbox` |
| `PassProofs` | `DaemonTypeCorrect`, `RunningAlwaysStarted`, `NeverTwoRunning`, `GuardsMissForStopsOnly`, `EveryPassEnds` | `TypeOK`, `RunningWasStarted`, `OneRunningPerSandbox`, `WritesYieldToStopsOnly`, `PassesEnd` * |
| `ContainerProofs` | `NeverTwoContainers`, `EndedRunsNothing`, `StopsAreComplete`, `OnlyReapsRunning`, `PassRestsWhenConverged`, `ActionsDoTheirWork`, `DaemonKeepsToTheWorld` | `OneContainerPerSandbox`, `TerminalRunsOnlyRestarted`, `StoppedMeansRemoved` *, `KillsRunningOnlyToReap`, `PassSeesWhatIsLeft` *, `ItemsDoTheirWork`, `SandboxesFollowWorld` |
| `ExecProofs` | `ExecTypeCorrect`, `NeverReadsWhileCopying`, `BuffersAreHonest`, `SuccessesAreComplete`, `AbandonedAreStopped`, `TimeoutsAreDeadlines`, `EveryCallAdvances` | `TypeOK`, `NoReadWhileCopying`, `PartialIsHonest`, `SuccessIsComplete`, `AbandonedStops`, `TimeoutMeansDeadline`, `CallsAdvance` * |
| `ServingProofs` | `ServingTypesCorrect`, `StatusesAreTrue`, `ChangesAreGated`, `RejectionsChangeNothing`, `GrantsAreAsAsked`, `CleanExitsLoseNothing`, `HandlersKeepToTheWorld` | `ServingTypeOK`, `StatusIsTrue`, `ChangesNeedRunningRow`, `RejectedChangesNothing`, `GrantedAsAsked`, `CleanExitLosesNothing`, `RequestsFollowWorld` |
| `ReaderProofs` | `ReaderTypeCorrect`, `LocationAlwaysShowsActive`, `BackLeadsToWhatWasShown`, `SavedPreferencesAreFound`, `PlainOutlineAlwaysArrives`, `DiagramsShowTheirOwn` | `ReaderTypeOK`, `LocationShowsActive`, `HistoryLeadsBack`, `SavedIsFound`, `PlainOutlineArrives`, `DiagramShowsItsOwn` |

So every invariant and every action property that a passing run checks is the
statement of a theorem too. Those marked * are stated and proved, and no run of
section 3 names them: `OneKeyPerSandbox` and `KeysNeverMove` are the store's own
and come to the daemon by `UsesStore`, `StoppedMeansRemoved` is part of what
`SandboxesFollowWorld` says of a stop, and `PassSeesWhatIsLeft`, `PassesEnd` and
`CallsAdvance` are steps behind `EverySandboxConverges` and `ContextEndsExec`,
which runs check whole.

The store. `HistoryReplays` is inductive with the type invariant and one
addition: the row's absence coincides with version 0, so that "no events" and
"no row" are the same state. An insert writes version 1 on a row without events.
An update matches on the version it was given, so the event it appends has a
number no event of that sandbox has, and starts where the last one ended. The
key invariant is separate, and uses that an insert needs an unused key and an
absent row. The refinement needs only the type invariant and that a row exists
exactly when its version is not 0.

The daemon. `StoreNext` lets any caller try any write with any observation, and
`DaemonUsesStore` shows that every step of `ControlPlane` is one of its steps or
leaves the tables alone: the theorems about the store hold of the daemon.
It needs `VersionsFollowStates`: a row in a given state has one of few versions,
which ties the versions that handlers and the pass carry to the bound of the
store's specification. `SameKeySameSandbox` is inductive beside it, because an
answer repeats what the key table says and keys never move. `RunningWasStarted`
needs to know what the pass is about to write: `PassInv` says that containers
which ran are remembered, that what a plan calls running was seen running, and
that the write back follows the start of a container of its own.

The guards. The comment at `reconciler.go:206` expects the guarded write after a
start to miss for a DELETE, and `compensateCreate` to pick up the rest.
`GuardInv` says what can still match: a pending or stopping row that the pass
read is, under the same version, the row there is, for handlers only insert
rows, move running ones, and renew under the same version (`ReadRowsYield`); a
plan names a move out of the state it was made from (`PlansFitRows`), and so
does the mark it comes to (`MarksFit`). `GuardsMissForStopsOnly` follows for
every write of the pass: without a fault of the store, one misses only over a
row that was read running and is stopping: a mark of failure or a reap that a
DELETE came before. The write back after a create therefore never misses, and
compensation is for a store that fails.

Two at once. A second container under one id is possible once creates land late,
a second running one is not. `RanInv` tells why, whatever `LateCreates` is: at most
one container of an id has ever been started (`RanOnce`), the pass creates only
on a plan to create (`CreatesOnPlan`), and while that plan stands none had been
started before (`NoneRanYet`); Docker restarts what had been started only.
`NeverTwoRunning` needs no assumption.

What convergence is made of. Liveness is for TLC, its safety steps are not.
`PassRestsWhenConverged`: a pass that saw the rows there are plans an action for
a sandbox exactly if it is not converged or its lease has passed, so it neither
misses what is left nor touches what is done. `ActionsDoTheirWork`: an action
(other than a create) that ends without a fault leaves its row adopted, ended or
stopping, and nothing in the daemon after a destroy. `EveryPassEnds`: each call
of a pass lowers `PassWork`, seven for each sandbox still planned and the calls
left of the current one, or ends the pass; nobody else adds to it. It assumes
that the set of ids is finite, as a listing is. With the fairness of section 3,
and calls that return, these give the next pass, a fresh view and a finished
action; that the three compose to `EverySandboxConverges` is what the run
`liveness` checks.

The containers. The invariant `Alone` of `ContainerProofs` relates the pass to
what it read: a row that was pending still is, for only the pass moves it, and
none comes back from its end (`ReadRows`); each plan fits what it was made from
(`PlansFit`); and what it saw absent is absent and what it saw stopped runs only
if the Docker daemon restarted it, when its turn comes (`SeenIsStillSo`). With
that, the pass never makes a second container, and `OneContainerPerSandbox` and
`TerminalRunsOnlyRestarted` are kept (`WorldInv`). It holds under `LateCreates =
FALSE`: a create that its dead caller sent may otherwise be carried out at any
time after the restart and add a second container; the run `liveness` has such
creates and shows that they go in the end.

The exec. `ExecInv` is the type invariant and, per call, what each of its two
goroutines knows of the other: at which steps of the call a copier exists, runs
or has ended (`CopierFollows`), that a clean end over a connection that was not
lost has taken all that was written (`TakesWhatIsWritten`), that the buffer is
what was read up to the cap (`Honest`), that a result was built when nothing
could add to it (`ReturnedBuffers`), and that a command runs on after its call
only with an excuse (`Stopped`). Other calls and the container only ever end a
call's process. `EveryCallAdvances` gives each call a measure, two for each step
its goroutine has left and one for a copier: every step of the goroutine lowers
it, nobody raises it, and while a call drains so does every step of its copier,
because a drained connection is closed (`DrainsClosed`).

The two halves meet in `SandboxWorld`. `Requests` lets the row and the container
move by its actions, and `ControlPlane` moves them by far more, and smaller,
ones. `DaemonKeepsToTheWorld` shows, sandbox by sandbox, that what handlers,
passes, crashes and Docker do is a step of `SandboxWorld` or none that shows:
a listing, a decision or a lease is a stutter, a container that is created and
one that exited look the same (`BoxOf`). It rests on `Alone`: a container is made
only while the row is pending and nothing is there (`CreatorsRowIsPending`), and
a stop is complete over nothing (`MarkMeans`). `HandlersKeepToTheWorld` shows the
other direction: what any number of handlers writes is such a step as well. The
world is wide where the daemon is (a row may become running over a container
that vanished since it was started). Two containers of one id, which a late
create can leave behind, are outside it.

The requests. A request that is past the gate has seen a running row, one that
has not arrived has touched nothing, and what it changes it changes in its last
step: `TypeOK`, `AllOwned` (whoever has changed something is done, and was not
told of a mistake) and `AllGated` are inductive together. `StatusIsTrue` is
inductive beside them. An answer is given from the state before the step, whose
facts the step adds to `witnessed`; and facts are never taken back, so an answer
stays justified. For each handler one lemma (`EnsureRunningTells`,
`LookupTells`, `ReadsTell`, `ChangersTell`, `ArriveTells`) names the fact behind
each of its replies, through `Classify`. What a client is told of its own input
is true only where the number on the wire is the one that was meant, so
`StatusesAreTrue` assumes `LifetimesFit`: lifetimes of at most 2^63 - 10^9 ns,
and seconds that fit a `time.Duration`. `GrantsAreAsAsked` rests on lemmas about
wrapping, division and rounding, for any width of an int64, and assumes `Fits`,
which adds memory limits that are not negative.

The reader. `ReaderInv` joins an invariant of each part. `LocationInv`: the page's
place is in its history, and while the page is up it shows what the entry there
resolves to. `TextsTypeOK`: no more hints are revealed than there are.
`PreferencesInv`: what is stored, by whichever tab or release, is something
`loadReaderPreferences` makes preferences of, and it is the page's own if that
was the last to save. `DiagramInv`: a callback that is not cancelled is about
the source its diagram has now, and whatever is kept, waits or is shown is true
of its source in the state the library is in. Navigation and the diagrams meet in
`Somewhere`: a step leads to a roadmap, whose diagrams are then mounted.

The outline. That the roadmaps can be sorted, and so have a first, is shown by the
function that counts what comes before each. That both slug functions give a
plain title the same id is an induction over its prefixes: after each, both have
made the same, which ends in a dash just when the last character is no letter.
The library's induction theorems take an operator; `SetInduction` takes a set of
numbers instead, and is proved from the well-foundedness of `<`. A fold is given
as the function that defines it (`FoldExists`), so that its values at the
prefixes can be named. Ids in the page are given heading by heading, each the slug
or the slug with the first number that makes it new, so the ids given so far are
a recursion over the text (`GivenExists`, `GivenStepByStep`). A slug that no
earlier heading was given is given as it is (`UnusedSlug`), and the heading that
has it is then the first that does (`PlainEntriesArrive`).

Only model-checked: the liveness properties (`EverySandboxConverges`,
`ExpiredSandboxesEnd`, `StopsComplete`, `LeftoversRemoved`, `OutputNeverStalls`,
`ContextEndsExec`, `ShutdownEnds`, `DiagramsSettle`), since fairness and ENABLED
are out of the prover's reach.

## 5. What is left out, and why

* `Control` has no step for a request a handler turns away before the store (an
  unresolvable spec, a lifetime outside its limits): it changes nothing.
  `Requests` has them, with their answers.
* `Serve` does not wait for the pass when it returns, and the store closes under
  it: for `ControlPlane` that is a crash at that instruction, and modelled as one.
* Keepalive reads nothing and is one store call, hence one step; a create fixes
  its lease with the key lookup, the call that follows at once.
* A commit that takes effect and still returns an error is not modelled: SQLite
  commits in the process's own file.
* Reasons and times of events, labels, logging, the text of errors.
* Ids are random, so the order of a pass, sorted by id, may be any order.
* `pullImage` is part of the create call; an image that is in no registry makes
  it fail every time, without counting as a fault.
* In `Requests` the row and the container move as `SandboxWorld` lets them, more
  freely than `ControlPlane` does. A path is one of six kinds; contents are
  compared with their limits only.
* In `Reader` the text before stays mounted and hidden while the next is fetched,
  as React's Suspense does; the effect that saves the preferences is one step
  with the change it saves, as nothing of the page runs in between. A chunk that
  cannot be fetched stays failed, and blanks the page, since no error boundary
  catches it. Scroll positions, the document's title, the copy buttons and the
  components without state are left out.
* `docs/src/components/ui` holds copies of the shadcn registry, which no
  file of the site imports.
* Numbers that do not fit wrap, in `Limits` as in the code, and no property is about
  them. `TTL` (`api.go:57`) multiplies seconds by `time.Second` in int64 before
  control "clamps values above the platform cap" (`api.go:39`): a keepalive of
  9223372037 s turns negative and is answered 422, one of 18446744074 s is granted
  0.29 s. `parseMemory` (`spec_resolve.go:90`) bounds the digits from above only:
  -17179869183g wraps, and is granted as 1 GiB.
* `Removes` answers 204 for a path that is missing, as `rm -rf` reports none;
  `server.go:425` says 404, "because the runtime reports it".
* A diagram that was not drawn is captioned as one whose "source has a syntax error"
  (`mdx-components.tsx:402`), also when the library could not be loaded, or the part
  of it that draws such diagrams.
* A title in `Outline` is a word over the kinds of character on which the two slug
  functions differ or agree, and the digits, which number repeated ids.
* A transaction of the store is atomic in the model, so a failure between two of
  its statements is not looked at: that is SQLite's to undo, by the deferred
  `Rollback` of each.
* A standard error stream is like the standard output, and exec has one stream.

## 6. Plan

1. Done: the daemon (`Sandbox`, `SandboxLifecycle`, `Store`, `Environment`,
   `Docker`, `Control`, `Reconciler`, `ControlPlane`), `Exec`, the requests and
   the server (`Limits`, `Requests`, `Serving`), the reader (`Outline`,
   `Diagrams`, `Reader`), with their runs and the proofs of section 4.
2. Done: theorems for every invariant and action property of the passing runs;
   `SandboxWorld`, which both `ControlPlane` and `Requests` implement.
3. Done: the steps that convergence rests on, as theorems: what a pass plans, what
   its actions do, that it ends; which guarded writes can miss.
4. Open: `SandboxWorld` with late creates: two containers under one id, of which a
   lookup returns either.
5. Open: `Limits`: CPU and process limits, the timeout of an exec on the wire.
6. Open: a measure for the shutdown of `Serving`, like those of the pass and the
   exec.
