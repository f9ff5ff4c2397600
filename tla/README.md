# burnrate in TLA+

burnrate is a daemon that spends a Claude subscription's idle quota: it keeps a
queue of tasks, launches `claude` on them while the usage window allows, and
resumes what was interrupted. This directory holds a model of the daemon's core
and of the machines around it, the TLC instances that check them, an abstract
specification the core is shown to implement, and theorems proved with TLAPS. Paths
below are relative to the repository; `internal/` is short for its Go packages.

- [What the system is made of](#inventory)
- [The modules](#modules)
- [The runs](#runs)
- [What is proved](#proofs)
- [Where code and documentation part](#findings)
- [What is not modelled](#plan)

## Inventory
<a name="inventory"></a>

| Component | State it keeps | Operations | What makes it correct |
|---|---|---|---|
| `internal/scheduling` | none (a pure function) | `Decide`, `globalGate`, `TaskStatusAfterInterruption` | never more launches than free workers, priority order, one truthful explanation |
| `internal/scheduling/reset.go` | last utilization, last reset time | `Observe` | one edge per new session |
| `internal/scheduler` | in-flight registry and mutex `s.mu`, last reading, weekly backoff, 429 delay | `tick` = poll, `reconcile`, `evaluate`; `launch`, `suspend`, `fail`, `RunNow`, `CancelTask`, shutdown | worker budget, one worker per task, leftover runs buried before planning, no worker or lock blocks the exit |
| `internal/runner` (with `internal/claude`) | one goroutine per task in flight, its context's cause, the claude process | `Run`, `invokeWithAutoContinue`, `preflightError`, `classify` | every end settles run and task; a session is resumed, never restarted; tries stay within `max_attempts` |
| `internal/store` | SQLite rows; they survive a crash | one SQL statement per method, serialized by a single connection | each statement is atomic, a sequence of them is not |
| `internal/service` (tasks, runs, comments) | none | create, edit, delete, reorder, pause, resume, set status, complete, dismiss, comment, run now, cancel | check-then-act without a lock must not strand a row |
| `internal/service/request_service.go`, `internal/mcp` | the `live` flag, run grants | `ask_human`, `request_demo`, `await_request`; respond, approve, deny | a reply is delivered once, by tool result or by prompt; a parked task can be woken |
| `cmd/burnrate/serve.go` | the process | start, SIGTERM, exit | order of start-up steps; an orderly exit loses no scheduled run |
| `internal/usage` | memo of the last refresh and its mutex, keychain or file credentials | `BundleForAccount`, `EnsureFresh`, `Fetch` | a refreshed token is stored before use, belongs to the account asked for, and no login is lost to concurrency |
| `internal/git` | worktrees, branches, agents' own workdirs | `AddWorktree`, `AddWorktreeFromBranch`, `CheckpointAndRemove`, `RemoveAgentWorkdir` | work is committed before its tree goes; a live run's tree stays |
| `internal/recovery` | none | push of interrupted branches, removal of stale trees | the same, from another process |
| `internal/prstatus` | rows of `task_prs` | periodic sweep, forced refresh | a state belongs to the URL it stands by; a merge is learned and broadcast in the end |
| `internal/daemon/lock.go` | lock file | `Acquire`, `Release` | one daemon per data directory |
| `internal/retention`, captures | capture rows, video files, the retention setting | create, finish, fail; `SweepOnce` | only aged videos go; a row without its video is put right |
| `internal/caffeinate` | one child process, the manual flag | `SetAutomatic`, `Toggle`, `Shutdown` | no child outlives what started it |
| `internal/config`, config and account handlers | settings table, the scheduler's copy | `Load`, PUT, select an account | memory is what a restart would load; one whole account |
| `internal/ble` | recording in progress, watchdogs, the link | START, STOP, watchdog, start and end of the bridge | one task per recording; no recorder is left running |
| `internal/whisper` | state, the install in progress | `Init`, `Install`, `Close` | one download; whoever waits gets an answer |
| `internal/server` | SSE subscribers | routes, broadcasts | what changed is given to the hub |
| `internal/checkout` | a clone | git commands on demand | bounded side effects |
| claude stream, prompts, analytics, notifications, desktop, web, landing | — | I/O, text and reporting around the core | not part of the run lifecycle |

How they interact: the scheduler's loop calls the store and the policy and
starts runner goroutines; a runner writes rows and starts claude; claude calls
back into the daemon over MCP (the human loop); HTTP handlers read rows and the
registry and then write rows or signal a worker's context. Everything shared is
either a row or the registry. The mutex guards the registry only, so every
sequence "query, decide, write" can be interleaved with every other one. That,
and a crash between any two statements, is where the difficulty of the core lies.

Around the core stand machines that it starts and then hardly talks to: the usage
poll hands it a reading, the token refresh a token, git a directory, and the
prober, the sweep, caffeinate, the voice button and the settings work on state of
their own. Each of them has several processes of its own (a timer, handlers,
goroutines that outlive their caller, another process of the same program) and the
same shape of difficulty: state read, then a network call, a child process or a
second lock, then a write. The full list, by line, is under `hazards` in
`PROJECT.json`.

## Modules
<a name="modules"></a>

The core is a stack of layers, each `EXTENDS` the one before and adds variables:

```
Policy          internal/scheduling          no variables
Store           internal/store               status, resetAt, runs, comments, requests
Runner          internal/runner              worker, alive, heard     (on Store, Policy)
Scheduler       internal/scheduler           sched, mode
Services        internal/service             op
HumanLoop       request_service.go, mcp      call, told
Daemon          cmd/burnrate/serve.go        lives; Spec, FairSpec, fairness
Leases          what the core promises       held, row, log, agents, up
Correctness     the properties; Daemon as an implementation of Leases
MCDaemon        instances, symmetry
```

The machines around it are modules of their own, composed in `Parts`:

```
PolicyCheck     Policy against the loop of Decide
UsagePoll       first half of tick, rate-limit delay, weekly latch, reset detector
Credentials     internal/usage: bundles, refresh, write-back
DaemonLock      internal/daemon/lock.go
Caffeinate      internal/caffeinate and its callers
Prober          internal/prstatus, task_prs rows
Worktree        internal/git, its callers in runner, services and recovery
Workdir         git.RemoveAgentWorkdir
Voice           internal/ble, the recording
Whisper         internal/whisper
Settings        internal/config, config and account handlers
Captures        internal/retention, capture handlers
Parts           PartsSpec, FairPartsSpec;  MCParts its instance
*Proofs, DaemonTypes                         theorems and their lemmas
```

**Policy.** The sets a plan consists of (`Scheduled`, `ByHand`, `Failures`,
`Suspends`), the reason of every candidate, and the global explanation, stated
declaratively over the sequence of candidates. `PolicyCheck` writes the same
decision as `Decide` does, a loop with a counter of free workers folded over the
candidates, builds arbitrary queues one candidate at a time and compares the two.
A reason is its code; its text is left out. `MaxAttempts` is assumed positive:
its default is 20, and with 0 every resume is given up at once.

**Store.** A task is its status and the run id of its last reset; a run is a
record with its id as position, whether a session id and a pid are on record,
attempt and status. Operators bear the names of the Go methods and are one SQL
statement each; an update of a missing row changes nothing. Agents' own comments
are left out: `userComments` drops them from every prompt. A run row refers to its
task without cascade (001_initial.sql:15) and foreign keys are on, so a task that
ever ran cannot be deleted and a run of a deleted task cannot be created.

**Runner.** `worker[t]` is the registry entry of a task and its goroutine;
`pc = "idle"` means not in flight. Its program counter stops before every
statement that another component can see or a crash can separate:

| pc | code |
|---|---|
| start, workspace | comments read; worktree or workdir prepared (runner.go:139-254) |
| preflight, prefinish, presettle | `preflightError` (1405-1427) |
| carry, mark | session id and status carried over, task marked running |
| token, tokensettle | token resolution and its failure (335-346) |
| invoke, spawned, working, exited | claude started, pid recorded, session named, exit |
| finish, consume, settle, reset | the statements of the branch of `classify` taken |
| done | the deferred function of `launch`, still to run |

`cause` is the context's cancellation cause; the first one stays. The exit a
process may have depends on it as in `Invoke`: a rate limit and a timeout win over
a cancelled context, everything else does not. `alive` is the set of runs whose
claude process exists, apart from the worker, because it may outlive the daemon.
`heard` and `told` are ghosts: the comments that reached an agent by prompt and by
tool result.

**Scheduler.** One action per statement of `reconcile`, `plan` and `evaluate`.
`LockHeld` is true where the code holds `s.mu` over more than one of the model's
steps, that is in `reconcile` except while an orphan is being killed; operations that
take the mutex once are single actions guarded by `~LockHeld`. `RunsByStatus` runs
before the lock; the two candidate queries and the decision are three steps; then
suspends, failures and launches one at a time. Candidates come in any order: users
reorder at will. The usage reading is any answer in `Gates`. A tick that finds no
candidates and no worker may return early in the code; here it goes through its
steps, which change nothing in that case. `Start`'s first reconcile is the first
tick's, since nothing comes between them but that tick's usage fetch.

**Services, HumanLoop.** `op[c]` is an HTTP request between its check and its
writes. `call[r]` is the MCP call the agent of run r is in: read, `live` set, waiting,
and the deferred clearing of `live`. The wait may end at any time (budget, agent
gone, answer seen).

**Daemon.** Composition, `Crash` (memory goes, rows and claude stay), `Exit`, `Restart` (with
`ClearHumanRequestLive`), orphans ending by themselves. The orderly end has three steps: the loop
cancels everything in the registry (`CancelAll`), waits (`Drained`, `LoopEnds`), and some time
after that the process is gone (`Exit`). The wait is for the wait group, not the registry: `launch` enters a
run under the mutex and counts it only later (plan.go:129, 162), so that a run of a handler that
is still at its start (`Uncounted`) holds nobody up; a scheduled one is launched by the
loop itself, which does not wait before it has counted. Handlers go on until the process ends, since
nobody awaits the HTTP server's shutdown (server.go:246-252): they launch, write and wait after
the loop's end, and `Exit` cuts them off wherever they are.

**Leases.** What the core promises about tasks and agents, without how: a task is
leased to one holder at a time; a lease writes one row of an append-only log and starts
agents for that row only; it is given back when its agent is gone; a crash forgets all
leases and leaves agents behind. `Correctness` instantiates it with the registry as
`held`, the worker's run as `row`, the task column of the runs table as `log`, and
`ImplementsLeases` says that every behaviour of the daemon is one of leases.

**Parts.** The twelve machines share no state, so one behaviour of `Parts` is a
behaviour of one of them: `part` says which and never changes, the others rest in
their initial state. A property of a part is checked in all of its behaviours, and one
run covers them all at the sum, not the product, of their states. `Subjects` selects
the parts of an instance.

- *UsagePoll.* One action per statement group of the tick's first half; the request in
  flight is a place of its own, so an account switch, which takes two locks one after
  the other, falls anywhere around it. Times are flags that are up until their time has
  passed (fetched within three seconds, within the minute, in backoff), which go down in
  any order. The delay's arithmetic is exact, jitter included.
- *Credentials.* Callers of one process share a mutex and a memo; `burnrate token` is
  another process. A refresh is four steps: ask, persist, verify, hand out; the process
  may die, the write may fail, the server may replace the refresh token.
- *DaemonLock.* Files are apart from the name: a lock belongs to an open file, the
  unlink to whatever bears the name by then.
- *Caffeinate.* The count of running tasks is read in one step and passed on in another;
  the goroutine that waits for a child takes the mutex whenever it gets there.
- *Prober.* A pass works from rows it read at its start; between question and write
  lies a network call, and the write goes by row id. Ages count sweeps. When something moved, or a
  user asked, the rows are read again (`Lists`) and handed to the hub in a later step (`Sends`); a refresh
  that moved something does so twice. GitHub closes, reopens and hides pull requests at will; only a
  merge is final, while the code takes CLOSED for final as well.
- *Worktree.* A branch is the set of edits committed on it, an ancestor a subset. A
  clean-up is checkpoint, then remove; it runs in the worker after an interruption, in a
  goroutine after a success or when the task is filed away, and in `recover`. Filing away is two
  steps: the task is seen not to run (`FilingDecided`), the clean-up starts (`Filed`), and a run may begin
  in between. The set-up of a run is several: a tree that stands in the way is removed by force, the local
  branch is deleted, the worktree is added; it may fail between any two of them, after the
  tree is gone. (`AddWorktree` tries once before it clears anything; that is the case in which nothing stands in
  the way.)
- *Workdir.* Look at every worktree, then detach all, then look for files, then delete;
  the next iteration's agent may come at any moment.
- *Voice.* STOP, watchdog and shutdown are goroutines that take the recording under a
  mutex and then work on it without. A crash leaves the recorder process alive.
- *Whisper.* Init, Install, its waiters, and Close; the disk is looked at and the
  download runs without the mutex.
- *Settings.* PUT writes key after key and then loads; a select writes its three keys in
  any order and then hands over what it chose. Restarts and failed writes in between.
- *Captures.* Stat, then write the row; remove the file, then clear the row.

### Abstractions that matter

- *LongRuns.* Nothing in the code keeps a whole claude session from fitting between
  a plan's query and the launch it leads to, or between a handler's check and its
  write. In reality one takes milliseconds, the other starts a process and talks to a
  model. With `LongRuns = TRUE` claude does not end while a plan or a handler that
  has read the task is pending (`TooSoon` in `Daemon`); everything else interleaves.
  Without it a stale plan restarts a task that was interrupted a moment ago. Every
  passing run of `MCDaemon` has it on; `RunningIsRecoverable` and `EndedRunsStay` need no
  such timing to fail and run without it; `WorkerCap`, `LiveMeansWaiting`, `TypeOK` and the
  leases are proved for both values.
- *Short runs and the cap.* A token that does not resolve ends a run as fast as a plan and
  never counts as a try. With a launch by hand beside it a planned row may carry the
  attempt of the run before, and the cap is passed by one. `TriesWithinCap` is checked in
  `human`, where tokens resolve.
- *Restarts from scratch through another door.* A user's resume or comment after a crash
  and before the first reconcile decides "queued" from a row that still says running. It
  breaks `ResumeNotRestart`, as listed under `hazards`; the run that checks it has no such
  requests.
- *Git and files in the core.* In `Runner` only that the preparation of a workspace may fail; a
  cancelled managed launch may fail there too. What becomes of the work is asked in
  `Worktree` and `Workdir`, whose runs begin and end at will.
- *Excuses that are ghosts.* Where the code promises something only as long as nothing
  overtakes it, the property says so by a ghost variable (`overtaken`, `overlap`, `passed`,
  `swapped`, `spoiled`, `met`, `lost`) that is set by exactly that overtaking and by nothing
  else. What happens after it is described [below](#findings). Two ghosts say what a step lost or owes rather than
  who overtook whom: `kept`, edits that a failed commit or the daemon's death left in a tree, and
  `untold`, merges no list sent since shows.
- *Left out of the parts:* environment variables that pin settings other than the account's;
  the several default credential entries are one; a draft is an open pull request; slugs,
  default branches and diff statistics; the display's payload and the radio; keyframes, notes
  and transcripts. One set (`Boxed`) says both which accounts are found with a keychain beside them
  (accounts.go:49-51) and for which one the daemon derives it (config.go:263-274); the code looks twice, and
  may see different files. Captures lie under the captures directory: a path outside it, which a finish
  accepts and the sweep refuses (retention.go:132-136) before it would clear the row, does not occur.
- *Not reached:* capture approvals, run grants and expiry (no live caller today,
  request_service.go:403-405).

### Fairness

`FairSpec` is used by the `live` run:

| Conjunct | Why the code owes it |
|---|---|
| WF of the tick's steps | the ticker fires, every step ends |
| SF of `Stops` | `select` picks at random among ready cases: it cannot pass over a closed `ctx.Done()` for ever while ticks come and go |
| WF of the loop's end and of `Exit`, of workers, of awaits | goroutines are scheduled, claude has a wall-clock limit (`params.Timeout`), a long poll has a budget |
| SF of `Releases` and of handlers | they need the mutex, which is free again and again; Go's mutex does not starve a waiter |

`FairPartsSpec` is used by the `alive` run. Three of its conjuncts also assume
something of the world, as their rows say:

| Conjunct | Why the code owes it |
|---|---|
| WF of the poll's tick, fetch, observation, and of the minute and the backoff running out | timers fire. That a request ends one way or another is assumed of the network: `http.DefaultClient` has no timeout (client.go:73), only the daemon's context ends a hung one |
| WF of `SetClientAccount` | the second half of a handler that has begun |
| WF of sweeps, their intervals, and each step of a pass | tickers and goroutines. That `gh` ends is assumed of the child process: it runs under the daemon's context, without a timeout of its own |
| WF of the clock and the watchdogs of recordings | `time.After` and goroutines |
| WF of a download's end and of what follows | goroutines. That a download ends is assumed of the child process: its context has no deadline, it is cancelled by Close only |
| WF of the retention sweep's steps | a ticker and a loop over a finite list |
| SF of `Fetched`, of the sweep's `Answers`, of the removal and the clearing of each row | an assumption about the world, not the code: what is tried again and again succeeds some time |

Users, agents and signals owe nothing; nor does a crash.

## Runs
<a name="runs"></a>

Deadlock checking is off everywhere: a bounded instance stops when its rows are used up, and
a daemon may stay down for good. Whether anything waits for ever is asked by `live` and `alive`.
Every bound is a constant: in the core `MaxRuns` rows of runs, `MaxComments`, `MaxRequests`, `Lives`
starts of the daemon, `MaxContinue`; in the parts those whose comment says "bound".

| Run | Instance | Checks | States |
|---|---|---|---|
| byhand | 2 agent tasks, 1 worker, 2 runs, launches by hand, SIGTERM; failing spawn, session | `WorkerCap`, `OneClaude`, `ExitLosesNoScheduledRun`, `ResumeNotRestart` | 3.5 M |
| users | 1 repository task, 1 client with every request of the services but launches by hand; 2 runs, 1 comment, a cap of one attempt; failing token | `NothingStranded`, `OneClaude` | 4.6 M |
| live | agent and repository task, 1 worker, SIGTERM, one auto-continue; `FairSpec` | `StopsEventually`, `ComesToRest` | 85 k |
| human | 1 agent task, 2 lives, crash, 3 runs, one question, one reply; respond, deny | `TypeOK`, `LiveMeansWaiting`, `TriesWithinCap`, `PlansOnCleanSlate`, `ImplementsLeases` | 3.0 M |
| parts | all twelve parts | 16 invariants and 4 action properties beside `PartsTypeOK` | 1.6 M |
| alive | poll, prober, voice, whisper, captures; `FairPartsSpec` | `SwitchTakesHold`, `LearnsMergeUnlessSettled`, `MergeIsBroadcast`, `RecordingEnds`, `WaitersReturn`, `PathHeals` | 57 k |
| stranded, overwritten, parked, swallowed | 1 task, 1 run, 1 client | one property each, violated: see [below](#findings) | — |
| lostwork, wrongtoken | one part | one property each, violated: see [below](#findings) | — |

Why the bounds are enough for what they ask, in the core:

- *byhand*: two tasks are the least at which a manual launch and a scheduled one can be in
  flight together over a budget of one, and both sides can go for the same task; two rows
  let a run follow an interrupted one. The one client can launch by hand at every moment of a shutdown, so
  exits with such a run still active occur; the property is about what else is left.
- *users*: one client with a five-place handler is already interleaved with a ticker and a
  worker; two runs let a second claude follow a first. Two clients racing each other are left
  out, and launches by hand are *byhand*'s.
- *live*: the second task waits for the first one's worker; two run rows let each run
  once, so nothing is explained by an exhausted bound.
- *human*: two lives and one question give a long poll that dies with its daemon, and a second
  life that finds every row the first could leave at any statement; three runs under a cap of
  two attempts allow parked, woken, interrupted again and given up.

In the parts:

- *policy*: two workers and three candidates are the least at which a worker can be free,
  taken by the queue, and missing; names may repeat, so a task that is both resumable and
  queued occurs, and only queues in the order the two queries give are built. The loop's value is
  built up candidate by candidate in the variable `plan`, where `LoopAgrees` compares it with `Decide`. `running` ranges over all subsets, so it also exceeds the budget. The gates
  are told apart by readings exactly at and one beyond a threshold.
- *poll*: two accounts with two sessions each, reset times in alternation, readings with and
  without one; one switch; delays 1 and 2 with a Retry-After beyond both reach every branch of
  the arithmetic.
- *credentials*: two callers in one process and one in another, the account's entry and the
  default, one of them rotating.
- *lock*: three starters, as an overtaking takes two and the second owner a third; one file more
  than can be open.
- *caffeinate*: two runs, three children, so that one is waited for while another lives.
- *prober*: one row, two URLs, the sweep and a user's refresh overlapping on it; in `alive` one
  URL, as what is asked there is about one pull request.
- *worktree*: two clean-ups, `recover` and a run at once; two edits put one on the branch and
  one in the tree, or one in the tree and one after; a commit that fails and a later run that
  clears the tree it left.
- *workdir*: three worktrees, so that the last one looked at is the one that fails.
- *voice*: two recordings, so that a watchdog of the first meets the second.
- *whisper*: three installers: one that downloads, one that waits, one that comes between.
- *settings*: two handlers, two accounts of which one has a keychain beside it.
- *captures*: two captures, one finisher, windows 0 (keep everything) and 1.

What the properties say, in short (each is stated in a comment where it is defined):

- `WorkerCap`, `OneClaude`, `NothingStranded`: resources and rows under interleaving.
- `TriesWithinCap`, `ResumeNotRestart`: the history of a task over many runs.
- `PlansOnCleanSlate`, `LiveMeansWaiting`, `ExitLosesNoScheduledRun`: what one daemon leaves to the next.
- `ImplementsLeases`: all of it together, against the abstract specification.
- `StopsEventually`, `ComesToRest`: nothing waits for ever.
- `LoopAgrees`, `SlotsRespected`, `NoOvertaking`, `GlobalExplains`: a plan.
- `DelayBounded`, `MissesNoSession`, `SwitchTakesHold`: the poll.
- `UsedIsStored`, `LoginKept`: no crash or race costs a login.
- `OneDaemonUnlessOvertaken`, `NoStrayChild`, `NoStrayRecorder`, `OneDownloadUnlessPassed`: one of a kind.
- `KeepsItsTree`, `RemovesOnlyCommitted`, `OnlyBackedWorkGoes`, `PrunesOnlyAged`: what may be deleted, and when.
- `SettledIsTrueUnlessSwapped`, `LearnsMergeUnlessSettled`, `MergeIsBroadcast`, `MemoryAgrees`,
  `OneWholeAccount`, `PathHeals`: a copy agrees with what it is a copy of, now or in the end.
- `OneTaskPerRecording`, `RecordingEnds`, `WaitersReturn`: what a user has asked for is done once.

Each property of a passing run has a mutant in `PROJECT.json`: an operator beside the
real one, marked `Mistake:` in a comment, that a plausible slip would have produced.
With it in place of the original TLC finds the property violated.

## Proofs
<a name="proofs"></a>

| Theorem | Statement | Module |
|---|---|---|
| `ScheduledWithinFree` | a plan schedules at most the free workers, and nothing when none is free | `PolicyProofs` |
| `DecideIsPolicy` | `CheckSpec => []LoopAgrees` | `PolicyCheckProofs` |
| `DecideRespectsSlots` | `CheckSpec => []SlotsRespected` | `PolicyCheckProofs` |
| `DecideKeepsOrder`, `DecideExplains` | `CheckSpec => []NoOvertaking`, `[]GlobalExplains` | `PolicyCheckProofs` |
| `TypeCorrect` | `Spec => []TypeOK` | `DaemonProofs` |
| `CapHolds` | `Spec => []WorkerCap` | `DaemonProofs` |
| `LiveHolds` | `Spec => []LiveMeansWaiting` | `DaemonProofs` |
| `LeasesImplemented` | `Spec => ImplementsLeases` | `LeaseProofs` |
| `NothingStrandedHolds`, `OneClaudeHolds`, `ExitHolds` | no crash, no late launch: `Spec => []NothingStranded`, `[]OneClaude`, `ExitLosesNoScheduledRun` | `OwnershipProofs` |
| `PlansOnCleanSlateHolds` | no crash and no late launch, or no "run_now" and no "cancel" among the requests: `Spec => []PlansOnCleanSlate` | `OwnershipProofs` |
| `TriesHold` | steady, and no signals or no faults and no refiling: `Spec => []TriesWithinCap` | `TriesProofs` |
| `ResumesHold` | steady, no refiling: `Spec => ResumeNotRestart` | `TriesProofs` |
| `OneDaemonHolds` | `PartsSpec => []OneDaemonUnlessOvertaken` | `PartProofs` |
| `DelayHolds`, `NoSessionMissed` | `PartsSpec => []DelayBounded`, `MissesNoSession` | `PartProofs` |
| `UsedIsStoredHolds`, `LoginKeptHolds` | `PartsSpec => []UsedIsStored`, `[]LoginKept` | `PartProofs` |
| `OnlyBackedWorkHolds` | `PartsSpec => OnlyBackedWorkGoes` | `PartProofs` |
| `MemoryAgreesHolds`, `OneWholeAccountHolds` | `PartsSpec => []MemoryAgrees`, `[]OneWholeAccount` | `PartProofs` |
| `TreeKept`, `OnlyCommittedGoes` | `PartsSpec => []KeepsItsTree`, `RemovesOnlyCommitted` | `PartProofs` |
| `SettledHolds` | `PartsSpec => []SettledIsTrueUnlessSwapped` | `PartProofs` |
| `OneTaskHolds`, `NoStrayRecorderHolds` | `PartsSpec => []OneTaskPerRecording`, `[]NoStrayRecorder` | `PartProofs` |
| `OneDownloadHolds` | `PartsSpec => []OneDownloadUnlessPassed` | `PartProofs` |
| `NoStrayChildHolds` | `PartsSpec => []NoStrayChild`, for a finite set of slots | `PartProofs` |
| `PartsTypesHold` | `PartsSpec => []PartsTypeOK`, for a finite set of slots | `PartProofs` |
| `OnlyAgedPruned` | `PartsSpec => PrunesOnlyAged` | `PartProofs` |

They hold for every value of the constants that meets the named assumptions of the modules
(`PolicyAssumption`, `StoreAssumption`, ... , `DaemonAssumption`): finite sets of tasks,
natural bounds, a positive `MaxAttempts`. TLC evaluates the assumptions on every run.
Only `TriesHold` and `ResumesHold` assume anything about timing; for the others `LongRuns` may
have either value. "No crash", "no late launch" (`NoLateLaunch`: one life, or no launches by hand) and
"no run_now and no cancel" are conditions without which the
property is false; the paragraphs below say which behaviour refutes it. "Steady" and "no
refiling" are defined with `TriesHold`, with what is known without them.

*ScheduledWithinFree.* A position is scheduled if fewer than `free` contenders stand before
it. Take the last scheduled position, which exists because the positions are a finite set
of naturals (`LargestNatural`): all others scheduled are contenders ahead of it, of which
there are fewer than `free`. With none free there is none.

*DecideIsPolicy.* The code decides in one loop that carries the free workers and the first reason
along (policy.go); `Policy` says which positions are launched, failed and held as sets. The queue
grows by one candidate at a step, so that induction over the list is induction over the behaviour, which
temporal logic can do. `LoopInv`: the workers the loop has left are the free ones less those the
sets schedule, its decisions are those of the sets, its reason is that of the first one held. A
further candidate changes none of the sets below itself (`Scheduled`, `Held` look only at earlier
positions). The proof found two arms of `Reason`'s CASE overlapping, where TLC takes the first and
the semantics leaves it open; they are now disjoint. `DecideKeepsOrder` and `DecideExplains` follow
from the sets: who waits for a worker has all of them taken before it, and so has everybody later.

*TypeCorrect.* `TypeOK` is not inductive: a worker at "finish" writes row `worker[t].run`,
which keeps `runs` well-typed only if that row exists; a plan at "act" indexes
`sched.cands`; a handler writes a request it has read. The invariant `TypeInv` adds

- `WorkerOK`: a worker past its launch owns an existing run row of its own task;
- `SchedOK`: the list reconcile walks names existing rows, is not empty where its head is
  used, and a plan's positions lie in its candidates;
- `ServicesInv`: a handler names a task, run, request or comment that exists, at the places
  that use it;
- `CallOK`: a call refers to an existing request.

`DaemonTypes` proves what each statement does to the types of the rows and has one lemma per
action; `DaemonProofs` adds up the disjuncts of `Next`.

*CapHolds.* `WorkerCap` alone is not inductive either, for a plan may be half carried out.
`CapInv` counts the scheduled workers together with the launches the plan still holds: their
number is at most `Workers`. `Decide` establishes it by `ScheduledWithinFree`; each launch moves one
from the plan to the registry; manual launches do not count; only the loop adds scheduled
workers, and it has one plan at a time. This is the argument by which deciding on one
look at the registry and launching on later ones is safe: in between it can only shrink.

*LiveHolds.* With `TypeInv` at hand the property is inductive by itself: the flag of a request
is set only by the call that then waits, that call clears it before it leaves, and a restart
clears all of them before anything else runs.

*LeasesImplemented.* Each disjunct of `Next` is shown to be a step of `Leases` or a stutter. Most
are `Quiet`: registry, rows of workers and log stay, agents at most end. The five that are not are
`Take` (a launch, by plan or by hand), `Write` (`CreateRun`), `Employ` (a spawn), `Give` (the
deferred release) and `Down`. That the guards of those hold needs the invariant `LeaseInv`: a
worker before `CreateRun` has no row (`RowsOK`), a row it has is its own task's, its claude
lives only between its spawn and its exit, and a daemon that is down holds and plans nothing
(`DownIdle`). What lets a launch happen at most once is the second look at the registry, under
the mutex, in `launch`.

*NothingStrandedHolds, OneClaudeHolds, ExitHolds.* `HeldInv` says who owns what: an active row
and a living claude are the row of a worker (`Owned`), a worker that has ended its run has no
active row (`ClosedAt`), and a task reads "running" only while its worker stands between the
write of "running" and the write that ends it (`RunningAt`). The runner's steps are classified once
(`WorkerEffect`: what a worker does to its own task and row, and that it leaves others'
alone), handlers and the loop by what they leave in place (`HeldKept`). The buried runs of a
reconcile are no exception: in a life without a crash it may bury only rows whose worker has been released, which
are not active. With a crash `NothingStranded` and `OneClaude` fail, as they should: its claudes
outlive the daemon. The same goes for an orderly exit under a run launched by hand, once another life follows:
hence `NoLateLaunch`, and the invariant carried is `HeldOrGone`, `HeldInv` or the last life over.
Where no request launches by hand, `ByHandInv` (no worker is a manual one) makes `Drained` an empty
registry, so that the exit leaves nothing and `HeldInv` survives the restart. That is the subject of the
next one.

*PlansOnCleanSlateHolds.* `SlateInv` carries the argument across restarts. A daemon that has not
planned is `Fresh`: it holds no worker, and each active row is on the list its reconcile has yet to
walk, or will be listed, with the pid the row has. Each entry leaves the list only after its row
is ended and its orphan, if a pid was recorded, killed; at the end of the list every active row
has its goroutine (`Clean`), and from then on workers keep it so (`OpenAt`, `ClosedAt`). The
theorem holds without crashes and late launches, and with crashes when nobody uses "run_now" or
"cancel". TLC refutes it with either of these: both work on rows before the first reconcile of a
new daemon. A launch by hand then gives a task a worker, whose rows the reconcile leaves alone,
leftover ones included; a cancel ends the row an orphan still works for, and the
reconcile does not list it.

*TriesHold, ResumesHold.* Both properties are about the history of a task over many runs, and
both are at risk because a plan, a launch by hand and a worker before its `CreateRun` go by a session
and an attempt they read earlier (`Known`, and the worker's `resume` and `attempt`). The argument is that
what they have read is out of date only while the task has a worker whose claude has not ended,
and by `LongRuns` such a worker outlasts whoever has read the task. `MemoryInv` says this in four parts:

- `Ground`: which handlers may be where, what a plan's positions refer to, that a life without
  signals stays up;
- `TasksOK`: no one knows of a task that is not there, and every worker is at a place of a run
  that ends with its claude;
- `FreshInv`: a queued task's newest run has no session; a candidate without one either has none still,
  or its task has a worker at work; a worker about to start afresh has nothing to continue;
- `CapsInv`: the newest row's attempt is within the cap and counts more tries than there were before it;
  so does that of a worker about to write the next row; a candidate's counts all tries there are, or its
  task has a worker at work; what stands in the queue has none.

Every step of the system is first put into one of a few kinds by what it does to a task and to
what is known of it (`StepKind`, proved for each action by `EveryKind`): the rows stay and at most the
status is written (`Keeps`), its worker goes on (`Advances`), is launched for a known candidate
(`Launched`) or released (`Leaves`), its tries are forgotten (`Resets`); and nothing new becomes known but by
a query. `FreshInv` and `CapsInv` are then shown to survive each kind.

The hypotheses. `Steady`: `LongRuns`, tasks in managed workdirs, no fault but a missing session, so that a
run, once begun, ends only with its claude. Without it a run can be over as fast as a plan, before
the plan that still lists the task is carried out, and the attempt is then passed on from an old row
(see "Short runs and the cap"). `NoRefiling`: none of "resume", "set", "comment", "respond", by which users
put a task back into the queue and give up its session, on purpose or, across a crash, from a row
that still says running. For the cap refiling is allowed as long as the daemon is not ended:
a crash between that write and the reset that follows it loses the reset. TLC goes beyond
the hypotheses at two points, on small instances: `ResumeNotRestart` with failing spawns
(`byhand`), `TriesWithinCap` with a crash and a reply (`human`).

*OneDaemonHolds.* A file is flocked by exactly the starter that has it open and owns it
(`LockInv`); until a release overtakes a start, all open files are the one under the name.

*The parts.* A behaviour of `Parts` is one of each part (the `...Turns` lemmas), so an invariant
is proved from the part's own `Init` and `Next`. In each, the property is strengthened by what the
processes have in hand:

- `PollInv`: the detector's last reset time is positive and not later than the latest read, once
  one was read since the switch; the delay's arithmetic is a lemma of its own (`JitterBounded`,
  `BaseDelayBounded`).
- `CredInv`: every token that could be handed out next is stored, those of entries, of
  fresh memos and of callers past their write.
- `WtInv`: a run that was set up while no clean-up was under way or decided on has its tree and no
  clean-up beside it (`Undisturbed`); where a clean-up is about to remove, nothing is uncommitted
  (`SavedFirst`); and what is uncommitted where neither a run nor a checkpoint has it in hand was left by
  a failed commit or a death (`LeftIsKept`), which is all that a set-up can destroy.
- `ProberInv`: what a pass has in hand for a row names the row's URL unless it was swapped; a
  MERGED on its way is true and stays so, because a merge is never taken back.
- `VoiceInv`: a recording is in the bridge's hands, or in one goroutine's, or a task.
- `WhisperInv`: the state says whether an install is under way, and it is the recorded one.
- `LoginInv`: for each entry, where its only good refresh token is: in the store, or with the one
  caller about to write it, unless that write is known to be lost.
- `WorkdirInv`: a teardown that no agent met has looked at every tree before it detaches the
  first, and has detached all before it deletes.
- `SettingsInv`: a request knows whether it met another of its kind; one that did not has, of what
  it has loaded or written, what the table has; a selection's writes are all of one account.
- `CaffInv`, `CapturesInv`: what is alive is what `m.cmd` names; what is on a sweep's list is
  older than its window, since ages only grow.

- `PartsTypeOK` takes what those invariants leave out: `CredBounds` (the refresh mutex of a process
  has at most one holder), `ProberBounds` (a pass has at most one row in hand), `WtBounds`
  (uncommitted edits were made, and are in a tree that is there), `PollBounds` (a reading on its way
  is one the API answers for some account), `CaffBounds` (a count is at most the number of slots,
  which is why they must be finite), `DirNamed` (the directory in memory, or in a request's hands, is
  one of an account, even where the table's row is empty).

Only model-checked: `TriesWithinCap` and `ResumeNotRestart` outside the hypotheses of
their theorems, and all liveness. Liveness and `ENABLED` are beyond the proof system.

## Where code and documentation part
<a name="findings"></a>

| Run | What happens | What is written |
|---|---|---|
| stranded | a crash between `FinishRun` and `SetTaskStatus` (runner.go:763-764 and the other branches) leaves a task "running" with no active run: reconcile does not see it, handlers refuse it | docs/architecture.md:19-21, "Resume, never restart. If a run dies — rate limit, crash, timeout, laptop sleep —" the next window continues |
| overwritten | `reconcile` lists runs before it locks (scheduler.go:580-596); one that ends and is released in between is buried as errored | scheduler.go:571, "adopts or buries runs the previous daemon left behind" |
| parked | a reply between `RequestCountsForRun` and the write of awaiting_human (runner.go:596-633) wakes nobody | runner.go:587-590 and ai.md:145-146, the state the check is meant to prevent |
| swallowed | a reply to a request with no live long poll, written before the sweep of the run that is ending (runner.go:617, 657, 688), is consumed unread | ai.md:375-376 and runner.go:611-613 |
| lostwork | `Checkpoint` discards the result of its push (git.go:291); the tree goes, and a resume deletes the local branch and checks out the remote's, which lacks the work | runner.go:115-118, "so the work is safe in Git and the worktree can be recreated on resume"; ai.md:420-423 |
| wrongtoken | the memo of the last refresh does not say of which bundle it is (refresh.go:58): within half a minute another account's caller is given its token | refresh.go:56-57, "if we just refreshed for this same bundle" |

Seen while modelling and without a run of their own. Some go against a sentence in the repository;
the property that holds in their place is in brackets:

- A release of the lock unlocks and then unlinks: a start in between owns a file without a name,
  and the next one a second file (lock.go:45; ai.md:388). [`OneDaemonUnlessOvertaken`]
- Init writes over the state of an install in progress, so that a second download may start
  (whisper.go:121-122 says one at a time). [`OneDownloadUnlessPassed`]
- An answer of the prober is written by row id over a URL that changed meanwhile; "merged" then
  stays (task_prs.go:32-33). [`SettledIsTrueUnlessSwapped`]
- A count of zero that is passed on late lets the machine sleep under a run
  (docs/architecture.md:54). [`NoStrayChild`]
- A pull request that was seen CLOSED is never asked about again, also when it is reopened and merged
  (models.go:171-177 takes it for settled). A list read before the merge may be handed to the hub after the one
  that shows it, and a full queue drops either. [`SettledIsTrueUnlessSwapped`, `LearnsMergeUnlessSettled`,
  `MergeIsBroadcast`]
- A launch by hand that comes between the registry and the wait group, or after the loop has ended, is cut
  off by the exit: a claude at work, a row that reads active (scheduler.go:768-770, "Shutdown still
  reaches it via cancelAll()+wg.Wait()"). One that comes just before holds the exit up for a whole session, as
  nobody cancels it. The next daemon's reconcile ends what was left. [`ExitLosesNoScheduledRun`]
- A clean-up keeps a tree whose edits it could not commit (runner.go:44-47, "uncommitted changes would be
  lost"); the next fresh or follow-up run of the task removes it by force (git.go:72, 260), edits
  included, and deletes the local branch. [`RemovesOnlyCommitted`]
- Filing a task away looks for a run and then starts the clean-up, without a lock (task_service.go:115, 121):
  a run that begins in between loses its tree. [`KeepsItsTree`]
- RemoveAgentWorkdir goes by committed, not pushed, work (git.go:119-121). [`OnlyBackedWorkGoes`]
- The weekly latch of one account stays in force after a switch to another, until its time or
  a new session. [`MissesNoSession`]
- The watchdog of a recording that was stopped in time cuts a later one short (ble.go:644).
  [`OneTaskPerRecording`]
- Approve and deny leave a parked task in awaiting_human; a cancel during worktree preparation
  queues the task instead of pausing it; a token failure never counts towards the cap. No
  document says otherwise.

## What is not modelled
<a name="plan"></a>

- *HTTP layer and event stream*: decoding and routing. That a merge is given to the hub is in `Prober`; the
  hub's queues are not modelled. A full one drops events, and lists may overtake each other on their way
  to it; clients fetch the lists again by themselves, and nothing promises them events that are complete or in order.
- *Checkout*: git commands one after the other on a user's demand, with no state of their own.
- *Claude's stream, prompts and output parsing*: recognition and composition of text. The
  verdicts (denied, rate limited, session missing, pull request named) are inputs of `Runner`.
- *Analytics, notifications*: reporting over finished rows, calls nobody waits for.
- *Desktop, web, landing*: users of the HTTP interface.
- *Capture approvals, run grants, expiry of requests*: no live caller (request_service.go:403-405).
- *Pull requests opened by `recover`, wording of PRs, diff statistics*: text.

Between the modelled parts two seams are not composed: `Scheduler` takes any usage gate where
`UsagePoll` would give it one, and `Runner` takes any outcome of a workspace's preparation where
`Worktree` has a tree. Both are over-approximations: what holds of the core holds with the
part in place. `PROJECT.json` lists every component with its status.

What would come next: two clients of the services at once, and users across a crash; the step
from `Scheduler` to `UsagePoll` as one composition; `TriesHold` and
`ResumesHold` with failing spawns and tokens and with repository tasks, whose runs may end before a
plan that lists them is carried out.
