# Zeno-Agent: TLA+ models, model checking and proofs

Zeno-Agent is the monitoring agent of a Zeno Controller. It reports heartbeats,
host data and metrics, takes a list of probe targets from the Controller, runs
the probes and delivers their results. This directory models the Go program:
the pipeline that persists and delivers results, the agreement with the
Controller about the configuration, the probes themselves, and the process with
its reports, counters and caches. TLC checks the models on small instances;
TLAPS proves all safety properties of the passing runs for every instance.

Paths below are relative to the repository (`src/` in `PROJECT.json`).

## 1. Inventory

### Components, their state and their operations

| Component | Source | State | Operations |
|---|---|---|---|
| Probe spool | `internal/agent/probe_spool.go`, `probe_spool_fs_*.go` | pending and quarantine directories, mutex, one-slot wake-up channel | `NewProbeSpool`, `Enqueue`, `Next`, `Load`, `ScheduleRetry`, `Ack`, `Quarantine`, cleanup, pruning |
| Probe uploader | `internal/agent/probe_uploader.go`, `runProbeUploader` in `cmd/zeno-agent/main.go` | the batch in hand, its attempt counter, the clock it read | `Run`, `uploadOne`, `postBody`, `scheduleRetry`, `OnRejected` |
| Probe configuration manager | `cmd/zeno-agent/main.go` (385-614), `client.go` | target list, version, generation, scheduler, refresh gate, run gate | `refreshProbeTargets`, `update`, `due`, `isCurrent`, `markCompleted` |
| Probe scheduler and run budget | `probe_scheduler.go`, `probe.go` (28-125) | last completion per target | `Due`, `MarkCompleted`, `LimitProbeTargetsForRun`, `ProbeRunTimeout`, `SanitizeProbeTargets` |
| Probe execution | `probe.go` | samples of one run, resolved addresses | TCP, ICMP and HTTP probes |
| Presence connection | `presence.go` | websocket, reconnect backoff, read deadline | connect, read notices, refresh, acknowledge, reconnect |
| Reports and supervision | `main.go`, `client.go`, `state_sample_id.go` | context, wait group | initial and periodic heartbeat, state and host reports, one-shot mode, stop |
| Install receipt | `cmd/zeno-agent/install_receipt.go` | which first reports were accepted | mark, write once |
| Network identity | `network_identity.go` | cached addresses and country | lookup per address family, cache |
| Metrics collector | `metrics.go` | counter baselines, last connection counts | sample, rates, shares |
| Platform back ends | `platform_*.go`, `darwin_metrics_parse.go` | none | system calls and the parsing of their output |
| Service wrapper, signals | `service_windows.go`, `main.go` | context, service status | start, stop, limit on the stop |
| Log file | `log_file.go` | none | append a record |
| Installers | `install.sh`, `install.ps1` | staged files, backups, service state | enroll, stage, commit, roll back |

### How they interact

The probe loop takes a batch of due targets from the manager, probes them,
stamps the results with the batch's configuration version, checks that the
configuration is still the same, calls `Enqueue` and then marks the targets
completed. The uploader is woken through the spool's channel (or by its poll
timer), asks `Next` for a due batch, posts it and settles it with `Ack`,
`ScheduleRetry` or `Quarantine`. Both goroutines share the spool's mutex, and
`Enqueue` cleans up the directory in which the uploader's batch lies. The
configuration is refreshed by the poller, by the presence connection when the
Controller announces a version, and by the uploader when the Controller rejects
a batch as stale; a gate of one token serialises the three. All workers stop on
one context and the process waits for them.

### What is hard, and what makes each component correct

* **Spool.** Crashes and I/O errors between any two file system steps; a rename
  that lands although the sync after it fails; a decision about a batch that
  another goroutine's cleanup has removed meanwhile; limits checked against a
  directory that also holds leftovers. Correct: limits hold, a removed batch
  never returns, damaged files end up in a bounded quarantine.
* **Uploader.** Lost answers, requests that arrive late, a stop during a request,
  a stale clock, retry gates, a wake-up that must not be missed, a local failure
  that ends `Run`. Correct: no persisted batch disappears without a reason,
  every batch is settled at last, retries are bounded in distance and counted
  once.
* **Configuration.** Overlapping refreshes, answers out of order, a replacement
  between three critical sections of the probe loop, ACKs about a configuration
  that another goroutine applied, lost notices. Correct: versions advance, ACKs
  are truthful, results carry the version that was probed, completions belong to
  the running configuration, and the agent comes to run what is published.
* **Scheduler and budget.** A prefix of the due list is run; starvation of the
  rest; counts cut by two budgets at once; a deadline computed before the run
  and spent by goroutines that wait for two slots. Correct: what is selected
  fits, is probed, and only that is marked; a list that fits is probed on time.
* **Probe execution.** The deadline, a stop or a failing setup in the middle of a
  round; lookups of attempts that have timed out and return later; redirect
  chains. Correct: every round carries each of its samples once, every
  connection of one HTTP probe uses one checked answer, HTTPS is never left.
* **Reports, receipt, supervision.** A stop in any phase, lost answers, failed
  writes, a crash between two acceptances. Correct: the receipt proves what the
  installer takes it for and is written at last; an exit without error leaves
  nothing in flight; a stop ends the process.
* **Presence connection.** A Controller that accepts and drops, a dial that
  hangs. Correct: the delay grows to its limit and only a stable connection ends
  the series.
* **Identity and metrics.** Providers, interfaces, tables and counters that fail,
  vanish, restart or wrap between two readings. Correct: nothing is invented,
  mixed or forgotten.
* **Installers.** Interruption between replacing binary, configuration and
  service.

`PROJECT.json` lists every component and, under `hazards`, the places where the
code is exposed, with the properties that watch them.

## 2. Modules

| Module | Models | Lines of code behind it |
|---|---|---|
| `ProbeSpool` | the spool under arbitrary callers | `probe_spool.go` |
| `ProbeUploader` | composes `ProbeSpool` with the uploader, the probe loop's use of the spool, the process and an external Controller and network | `probe_uploader.go`, `main.go` |
| `DurableOutbox` | the abstract promise of the pipeline | none: it is the specification |
| `ProbeConfig` | configuration manager, refreshers, presence notices and ACKs, probe loop | `main.go`, `presence.go`, `client.go`, `probe_scheduler.go` |
| `ProbeBudget` | what a configuration may make the agent do: normalisation, selection, deadlines (operators only) | `probe.go` |
| `ProbeRun` | one run: goroutines, semaphore, attempts, safe resolution, HTTP client | `probe.go` |
| `ProbeScheduler` | composes both with the schedule and the probe loop's ticker | `probe_scheduler.go`, `main.go` |
| `Metrics` | the counters behind a state sample | `metrics.go` |
| `NetworkIdentity` | lookups and the cache | `network_identity.go` |
| `AgentReports` | composes both with the reports, the presence connection, the receipt, the service and the process | `main.go`, `presence.go`, `install_receipt.go`, `service_windows.go` |
| `ProbeSpoolProofs`, `ProbeUploaderProofs`, `ProbeRetryProofs` | the theorems about the spool, the pipeline, and its retries and wake-ups | |
| `ProbeConfigProofs`, `AgentReportsProofs` | the theorems about the configuration and the process | |
| `ProbeBudgetProofs`, `ProbeRunProofs` | what selection, schedule and deadlines compute, and the theorems about the probe cycle | |
| `FiniteFolds` | lemmas about sums and folds over finite sets and about powers of two | |
| `MCProbeSpool`, `MCProbeUploader`, `MCProbeConfig`, `MCProbeScheduler`, `MCAgentReports` | the instances for TLC | |

The definitions whose comment begins with `Mutant` are deliberate faults (a
dropped guard, a missing removal, an early return without cleanup). No
specification uses them; `PROJECT.json` says which property each one must break.

### ProbeSpool

`pending` and `quarantine` are the directories, `notify` the channel's token and
`call` the frame of the method that holds `s.mu`. A method begins (`BeginEnqueue`,
`BeginNext`, ...), performs its file system mutations one step at a time and
returns, so a crash (`SpoolCrash`) or an I/O error (`Fault`) can fall between any
two of them.

| Code | Actions |
|---|---|
| `cleanupPendingLocked`, one directory entry at a time | `CleanupEntry`, `CleanupError` |
| `Enqueue` | `BeginEnqueue`, cleanup, `Admit` or `Refuse`, `CommitWrite` or `AbortWrite` |
| `Next` | `BeginNext`, cleanup, `SelectUnreadable`, `SelectDue` |
| `ScheduleRetry` | `BeginRetry`, `Reschedule` or `RescheduleError`, `CommitWrite` or `AbortWrite` |
| `Ack`, `Quarantine` | `BeginAck`/`Ack`, `BeginQuarantine`/`Quarantine` |
| `quarantinePathLocked`, `pruneQuarantineLocked` | `QuarantinePath`, `PrunedOnly`, `PruneQuarantine` |

Abstractions. A batch file keeps its creation time, attempt counter, retry gate,
the length of its body and one flag for checksum, schema and JSON together. Its
encoded length is the body plus one byte per digit of the attempt counter, the
only part of an envelope that a retry makes longer. The names
`<created>-<random>.json` are increasing integers, the temporary names
(`.probe-spool-*.tmp`, which sort first) negative ones. A lack of free disk space
is an error that may happen. `Load` changes nothing and no part of the agent
calls it; it has no action.

### ProbeUploader

`up` is the uploader goroutine: `start` (top of `Run`), `next`, `post`, then
`ack`, `retry` or `quarantine`, `rejected` (`OnRejected`), `wait` (the `select`),
`failed` (the five seconds of `runProbeUploader`), `stopped`. `prober` is the
probe loop as the spool sees it, `ctx` the context that all workers share.
`accepted`, `refused`, `answered` and `persisted` are history; a batch leaves
`answered` when the removal that follows its answer returns an error or is cut
short by a crash, and for no other reason. The Controller
(`ControllerAccepts`, `ControllerBusy`, `ControllerRefuses`) and the network
(`TransportFails`, `StrayArrives`) are external: a request may be lost, stored
without an answer, answered as busy although it was stored, or arrive after the
uploader gave up.

`uploadOne` reads its clock once, before it waits for the mutex; the model keeps
that stale value in `up.now`, and the retry gate counts from it. A delay is any
value the code can produce: a valid `Retry-After` clamped to the cap, or a jitter
between zero and the exponential backoff.

### DurableOutbox and the refinement

The outbox holds batches and may drop one only if it was delivered, refused, is
unreadable or is older than its TTL; a batch is never held twice and never gets
a new age. `ProbeUploader` maps its batch files to the held batches
(`Outbox == INSTANCE DurableOutbox WITH ...`).

### ProbeConfig

`manager` is `probeTargetManager`, `gate` the token of `refreshGate`, `refresher`
one record per refreshing goroutine (`idle`, `gate`, `fetch`, `update`, `ack`),
`conn` the presence connection with its unread notices, `run` the probe loop
inside `runDueProbes`. `acked`, `stored` and `applied` are history of the current
process; `order` numbers the Controller's publications and is seen by no guard.
Every access to the manager is under its mutex and is one step; the request is
not, so `due`, `isCurrent`, `Enqueue` and `markCompleted` are separate steps with
anything in between. `runGate` has one user in this program, the probe loop, and
shows as `run.pc = "idle"`.

With `AnyAnswer = TRUE` the Controller answers and announces anything, negative
and repeated versions with other content included; with `FALSE` it answers what
it publishes at that moment. A list of targets is a set, and which of them are
due and fit the budget of a run is left open, so the properties hold for any
schedule.

### ProbeBudget, ProbeRun, ProbeScheduler

`ProbeBudget` holds the pure functions, with the code's numbers as constants so
that a small instance reaches every boundary; `LimitProbeTargetsForRun` folds one
round of the code's loop (`TakeTarget`) over the sanitized list, the loop's
`break` being the field `full`.

`ProbeRun` is `ProbeTargets`. `worker` has a record per target: `new` (waiting for
the semaphore), `resolve` (TCP and ping look their host up once), `loop` (the top
of the sample loop), `attempt` (a connection or a ping), and for HTTP `dial`,
`request` and `check` (the redirect policy). `cache` is the pinned resolver of an
HTTP target, `lingering` the lookups whose attempt has gone, `dialled` the history
of its connections. `via` are the requests of a redirect chain so far. An IP
literal is judged without a lookup, that of a TCP or ping target and that of a
redirect alike. Steps take no time unless they wait for the network; `RunTick`
passes one tick while all wait, and the context expires with the last one.

`ProbeScheduler` adds `runProbeLoop`: a ticker, `StartRun` (`due`), the run,
`FinishRun`, and `Persist`, which is `Enqueue` with `markCompleted`, or a failed
write after which the targets are still due. A target without an ID is always due.
The configuration is fixed in a behaviour; `ProbeConfig` models its replacement.

Abstractions. Addresses are classes (two public ones, a loopback one, an unsafe
one); hosts are the kinds the code tells apart, a name, `localhost` and literals
of each class, the unsafe one included; a URL is scheme, host and whether
it names a port. Error texts and latencies other than against the timeout are
left out.

### Metrics, NetworkIdentity, AgentReports

`Metrics` has the machine (`counter`, `listed`, `times`, `tables`), the collector's
baselines (`net`, `cpu`, `conns`) and, as history, what really happened since the
last valid reading (`traffic`, `load`). `CollectState` is one step, because one
goroutine reads everything and the kernel's values are whatever they are then; it
may fail in each of its parts. Processor times wrap at `Word`, sums of interfaces
fail beyond `MaxTotal`. The interfaces are read as on Windows: from the interface
table, or, when that call fails, from the legacy table, whose counters are the
same modulo `LegacyWord` and which names the interfaces alike. It is taken to
select the same rows; where it selects others, its source differs and the rate
begins anew, as after any change of the interfaces. The readings of Linux and
macOS are those without the legacy table. The connection tables are those of Linux;
one that cannot be read spoils all counts, and the last ones are repeated.

`NetworkIdentity` keeps the cache and the lookup under way, one request per step,
in the order `Discover` makes them.

`AgentReports` is the process. `process` is where `runAgent` is (`start`, the
three initial reports, `once` or `running`, `returned`) and its exit code;
`worker` what every goroutine does; a report is collected, sent, accepted by the
Controller or not, and answered or not. `receipt` is the marker in memory, `file`
the receipt on disk with the reports that had been accepted when it was written.
`presence` is the reconnection loop. `Stop`, `StopTimesOut`, `Crash` and
`CrashStopping` come from outside; a process that dies while it stops is not
started again.

The parts of one process share only its context and the Controller. A behaviour
therefore has a `focus`, a set of the tickers that fire, the parts of the machine
that change and the parties that fail; the initial reports and the structure of
the process are in all of them. State spaces add up instead of multiplying, and
combinations that meet in the code (reports, receipt, failing writes and crashes;
stop and everything in flight) are one focus. The theorems hold for any set of
focuses, so also for one with everything in it.

## 3. Runs

| Run | Instance | Shows |
|---|---|---|
| `spool` | 3 batches, 2 temporary names, 2 sizes, 1 pending item, 2 quarantined, 1 fault | limits and `NoResurrection` under arbitrary callers |
| `spool_bytes` (violation) | binary attempt counter, no faults | the pending byte limit can be exceeded, see Findings |
| `pipeline` | 2 batches, TTL 1, clock to 1, 1 fault | `PipelineInv`, `NoSilentLoss`, `NoLostWakeup`, `AnsweredNotResent`, `ImplementsOutbox` |
| `pipeline_aging` | 1 batch, TTL 1, clock to 2, 2 faults | `DeferralBounded`, `AttemptsAdvanceByOne`; `EventuallySettled` through failures, a stop, a crash |
| `pipeline_live` | 2 batches, TTL beyond the clock, no faults | `EventuallySettled` through retry gates |
| `config` | poller and presence, arbitrary answers, versions -1..2, 2 generations | `ConfigInv` and its four parts |
| `config_live` | poller and presence, honest Controller, 2 publications, 1 restart | `NeverOlder`, `EventuallyCurrent` |
| `probe_cycle` | 5 configurations: 3 targets for 2 slots; more than a run affords, one without an ID; a target that is cut although a later, cheaper one fits; a round cut by the sample limit beside HTTP; HTTP from plain localhost | a run and the schedule: `RoundsComplete`, `DeadlineLeavesRoom`, `ConnectionsPinned`, `RedirectChains`, `SelectionSound`, `OnTime`, `RunsEnd` |
| `starvation` (violation) | 3 targets, a run affords one, interval 2 | targets at the end of the list are never probed, see Findings |
| `reports` | 9 focuses, 2 interfaces, 1 crash | the process: `ReceiptProven`, `ReceiptWritten`, `CleanExit`, `StopEnds`, `BackoffGrows`, `KnownIdentityKept`, `ProvidersSpared`, `ProcessorShare`; `TrafficCounted`, with interfaces that come, go and start again and readings of all three kinds |
| `counter_spike` (violation) | 2 interfaces, 1 monitored | a reading without interfaces becomes a baseline of zero, see Findings |
| `legacy_spike` (violation) | the same with the legacy table | a legacy reading becomes the baseline of a full one, see Findings |

### Bounds, and why they are enough

* `BatchNames`, `TempNames`. Two batches are needed for a cleanup, triggered by
  the enqueue of one, to meet the upload of the other. The spool run has three,
  so that the quarantine can overflow while one is pending. Two temporary names
  allow a leftover of a crash beside the file being written.
* `Horizon`, `TTL`, `MaxBackoff`. Only differences of times matter. The pipeline
  run lets a batch expire while it is in flight; the aging run lets a batch be
  gated, retried and expire, with a clock that moves during a request.
* `MaxFaults`. One fault anywhere, or two for one batch: an error together with
  a crash in the recovery from it.
* `MaxAttempt` stands for 2^32 - 1, so saturation is reached; `Radix` is 2 in the
  spool runs so that a counter gains a digit within the bound, and 10 elsewhere.
* `Contents` with an empty list and a list of one target already gives one
  version with two contents and the replacement of either by the other. The
  theorems have no such bound.
* `MaxVersion`, `MaxPublications`, `MaxGeneration`, `MaxNotices`, `MaxRestarts`
  bound counters only; in `config_live` the generations are more than the
  publications can use, so no update is cut off by the bound. The uploader
  refreshes exactly as the poller does (`Poll`), so one of them stands for both
  beside the presence connection; the theorems hold for any set `Background`.
* Budgets of `probe_cycle`: four samples, five ticks for a run and four for a
  target, so that each of the two limits is the one that cuts in some
  configuration, also inside a target; the ping grace and the run grace are one
  tick. Two slots for three targets make one wait. Three requests per chain give
  a redirect to HTTPS and one back; one redirect leads to an unsafe address, as do
  a TCP target and an answer. Answers: none, two safe ones that differ, one
  with an unsafe address, a loopback one. `AgeCap` lies above every bound that
  `OnTime` states, so capped ages hide nothing.
* Interface counters. In `reports` each goes up to 1 and `MaxTotal` is 1, so that
  the sum of two may fail to fit; legacy counters modulo 1 have lost everything, so
  that they differ from the full ones. The violation runs have counters up to 2 and
  legacy ones modulo 2, so that one also wraps between two readings. `TrafficCounted`
  is proved for every bound.
* `reports`: processor times modulo 4 with up to 3 units
  between readings, so that they wrap; `InitialBackoff` 4 and `MaxBackoff` 12, so
  that the doubling meets the limit between two powers and jitter passes it;
  `DialTimeout` below `Stable`, as the dialer's 45 seconds are below the 75 of a stable
  connection;
  `IdentityTTL` longer than two lookups. One crash separates two processes.

Deadlock is checked in every run. In the pipeline and the configuration there is
none, because a stopped process can be started again and the poller can always
ask. A probe loop that has returned and a process that has exited stay as they
are (`Stopped`, `Exited`); every other state has a step.

### Fairness

`FairSpec` (pipeline): weak fairness of the uploader's steps, of the file system
call in progress, of the end of a probe run, of the stop and restart, and of the
clock: runnable goroutines run, system calls return, and `RunsEnd` shows that a
probe run ends. Strong fairness of acceptance and of its answer: a
Controller that is asked for ever accepts at last and its answer gets through.
Without it nothing could be promised, since the agent retries until the TTL. In
`pipeline_live` the TTL lies beyond the horizon, so a batch does not leave by
expiring; in `pipeline_aging` an early batch may, one of the last tick cannot.

`ConfigFairSpec`: a refresh that has begun makes progress (every request has a
timeout); a poll happens again and again, and not only at moments when another
refresh holds the gate (the holder gives it back within its own timeout, the
ticker has no relation to it); a goroutine that waits for the token is served
(receivers of a Go channel queue up); a request repeated for ever is answered at
last. No fairness is assumed of notices or of the presence connection.

`CycleFairSpec`: weak fairness of the whole next-state relation. The process does
not freeze: a goroutine that can run does, and time passes while all wait. A run
has finitely many steps, so no more is needed for it to end, and the
counterexample of `starvation` needs no unfair scheduler either.

`ReportsFairSpec`: weak fairness of the main goroutine and of each report's
goroutine (tickers fire, calls return within their timeouts); strong fairness of
the acceptance and the answer of heartbeat and state reports and of a write of
the receipt (without it a Controller that always refuses or a disk that always
fails refutes `ReceiptWritten`); strong fairness of `WorkerStops`: a loop whose
`select` finds its ticker and the cancelled context ready at the same time picks
either, so it sees the cancellation at last. None is assumed of the machine, of
time, of the presence connection or of the stop.

## 4. Proofs

Every invariant and action property that a passing run checks is also a theorem;
TLC checked each inductive invariant before it was proved. The theorems hold for
every value of the constants that satisfies the named assumptions, which TLC
evaluates in the runs:

* `SpoolAssumption`, `BackoffAssumption`: positive limits, as
  `validateProbeSpoolLimits` demands, integer names, and an attempt counter that
  can count at least one attempt (it is a `uint32`).
* `ConfigAssumption`: any finite or infinite set of target lists.
* `BudgetAssumption`, `RunAssumption`, `SchedulerAssumption`: positive budgets, at
  least one slot; configurations are finite lists of targets with the fields of
  `ProbeTarget`, any values in them; and the run budget with its grace fits into the
  timeout of the loop's call (`main.go:590-592` computes the latter from the former).
* `ReportsAssumption`, `MetricsAssumption`, `IdentityAssumption`: a first delay of at
  least two ticks, a dial that ends before a connection counts as stable, finitely
  many interfaces, legacy counters that hold something, and less processor time
  between two readings than a counter holds. Any set of focuses.

**Spool.** `SpoolInvariant`, `SpoolTypes`, `PendingItems`, `QuarantineItems`. The item
limit is not inductive by itself: between the check in `Enqueue` and the rename
the file is a temporary one. `CallInv` carries the check across: while a write is
open its name is either still pending, or new and there is room for it. The
quarantine needs that pruning leaves room for one file (`PruneKeeps`).
`QuarantineSize` (`QuarantineBytesBounded`) is the same argument about a sum:
pruning leaves room for a file of the size that comes, removals only lower the sum
and one file adds its own size. `Resurrection` (`NoResurrection`): the only step that
adds a batch publishes a new name or rewrites one that is still there, again by
`CallInv`.

**Pipeline.** `PipelineInvariant` and `NothingLost`. `NoSilentLoss` needs to know why
a batch is removed, hence `AnswerInv` (a batch is acknowledged only if it was
stored, quarantined by the uploader only if it was refused), `CallerInv` (the
method that runs belongs to the goroutine that waits for it and to its batch),
`WriteInv` and `AgeInv` (a rewrite keeps the creation time). The proof reduces the
spool's dozen steps to four effects (nothing, a justified drop, a spoiled file, a
publication) and both theorems follow from those. `Refinement`: the initial states
map to initial states, and each effect to one step of the outbox or to a stutter.

**Retries.** `RetryInvariant` adds five facts to `PipelineInv`. `HandInv`: the counter
in the uploader's hand is the one on disk until its own rewrite, from which
`AttemptsAdvance` follows. `GateInv`: no gate, on disk or about to be written, lies
beyond the cap, and an untried batch has no gate in the future
(`RetriesStayNear`). `SettledInv`: a batch in `answered` is gone, or
in the hands of the uploader, which is about to remove it or to hear that it could
not; a search of the spool never returns one (`AnswersSettle`). `WakeInv`: without a token
in the channel, the uploader is on its way to every promised and untried batch: it
is not parked, the clock it searches with is not before the batch, and its search
has not come out empty. With `SweptInv` (what a cleanup has passed is not expired)
this gives `WakeupsArrive`.

**Configuration.** `ConfigInvariant` and from it `VersionsNeverBack`, `AcksTruthful`,
`StampsRight`, `CompletionsRight`. What makes them inductive is `AppliedInv` (what
runs, and what is about to be acknowledged, has been applied), `RunInv` (an open
batch whose generation is still current consists of the manager's targets; older
generations can never become current again) and the gate. `OrderKept`
(`NeverOlder`) needs `OrderInv`: the answer that the holder of the gate carries is no
older than what the manager runs, because nobody else can update before it does.

**Probe cycle.** `CycleInvariant`, and from it `CycleTypes`, `RoundsAreComplete`,
`DeadlinesLeaveRoom`, `AnswersStayPinned`, `TargetsOnTime`, and beside it
`SelectionsSound` and `ChainsStaySafe`.
`ProbeBudgetProofs` first shows what the folds compute, for lists of any length: the
selection is a prefix of the due targets within both budgets, selecting it again
changes nothing, and of a list that fits all due targets are selected.
`RoomInv` is the heart of `DeadlineLeavesRoom`: as long as lookups have not used up
the grace, the time left and the time spent on them is at least the attempts still
to be made by all targets together, plus the grace. That is a sum over the targets,
larger than what any schedule of the slots needs, and every tick in which all wait
takes one from it. `TimeInv` is that of `OnTime`: the time since a target's results
were stored is at most its interval and one longest run, with one more for every
run whose results were lost, and one more while a run is under way. `PinInv`: what
was dialled for a host is the checked answer in its cache. `WorkersInv`: the
samples of a worker are numbered without a gap, and one that has ended has all.

The attempt to prove an earlier form of `SelectionSound` failed for a good reason.
It said that only the last selected target has its count cut; the code also cuts
one in the middle, when a later target with a shorter timeout still fits
(`probe.go:99-107`). The property now says what is meant, that where samples were
cut not one more of that target would have fitted beside those before it, and
`probe_cycle` has a configuration for it.

**Process.** `ReportsInvariant` and from it `ReceiptIsProof`, `ExitsClean`,
`IdentityIsKept`, `ProvidersLeftAlone`. `CleanExit`
needs `ControlInv` (the initial reports run one at a time, loops exist only while
the process is running, and when `runAgent` returns every worker is `none` or
`ended`) and `FlightInv` (a pending sample or lookup belongs to a report that is
under way). `ReceiptProven` needs `AcceptedInv`: what is marked, or about to be, was
accepted by this process. The identity needs `CacheInv`: the cache is what the last
successful lookup found, and its age is at most the time since the providers were
asked.

`MeasureInvariant` is about the rest: `ReportsTypes`, `ReconnectsSlowDown`,
`RatesCountTraffic`, `SharesCountTime`. `PresenceInv` ties the delay to the number of
unstable connections, also where the doubling meets the limit; a dial ends before
`Stable`, so no failed dial resets it. `TrafficInv`: the interfaces of the last valid
reading now count at most its total and what they carried since, and exactly that
unless a counter began again. After a legacy reading only the legacy counters are
bounded like that, which still covers the next legacy reading: a counter modulo
`LegacyWord` grows by at most one with every byte (`LegacyCounts`). `LoadInv`: a processor time is the last one read plus
what passed, with at most one overflow missing, from which the unsigned difference
is what passed.

**Induction over data.** The library's induction theorems take an operator, which
the provers cannot instantiate. `FiniteFolds` does without: it takes the set of the
subsets (or of the lengths) for which a claim fails and looks at a smallest one,
which exists because the subsets of a finite set are well-founded. What a sum or a
fold computes, that it is a number, monotone, additive in its elements, is proved
that way. Powers of two are numbers of subsets (`PowerCounts`, `PowerDoubles`).

Only model-checked: the liveness properties `EventuallySettled`, `EventuallyCurrent`,
`RunsEnd`, `ReceiptWritten` and `StopEnds`, because the prover knows neither fairness
nor `ENABLED`; and the four counterexamples under Findings.

## 5. Findings

* **The pending byte limit is not a limit.** `ProbeSpoolLimits` "centralizes
  every on-disk backlog bound" (`internal/agent/probe_spool.go:22`). `Enqueue`
  refuses a batch that would exceed `MaxPendingBytes`, but `ScheduleRetry`
  (273-302) rewrites an envelope with a longer attempt counter and checks
  `MaxItemBytes` only. A spool that is exactly full exceeds the limit by a byte
  per batch whose counter gains a digit. Run `spool_bytes` shows it. The effect
  is small, at most nine bytes per batch, and it delays further `Enqueue` calls.

* **A list too large for one run starves its tail.** The comment at
  `internal/agent/probe.go:80` says the limit on a run is kept separate "so a
  large valid config can be spread across intervals". `LimitProbeTargetsForRun`
  (83-112) takes the first due targets that fit, in the order of the
  configuration, and a target counts as completed when its run has ended. When a run
  lasts as long as the interval, the first target is due again by the end of the
  run of the second: the two leading targets alternate and the rest is never
  reached. Run `starvation` shows it with three targets of which a run affords
  one, under fairness. Lists that fit one run are probed on time (`OnTime`).
* **A reading without interfaces causes a spike.** `CollectState`
  (`internal/agent/metrics.go:96`) compares two readings unless both have a
  source and the sources differ. A reading while no monitored interface is listed
  is valid, with sum zero and no source; it becomes the baseline, and the next
  reading reports the whole counter of the interface as traffic. On Windows rows
  that are not up are skipped (`internal/agent/platform_windows.go:198`), so a
  link that goes down and comes back does it. A test calls this an error:
  "source change produced a synthetic speed spike"
  (`internal/agent/metrics_test.go:232`). Run `counter_spike` shows it; when
  both readings have a source and come from the same table the collector is right
  (`TrafficCounted`).
* **A fallback reading causes a spike.** When `GetIfTable2Ex` fails, Windows
  readings come from the legacy table
  (`internal/agent/platform_windows.go:125-131`, 153-185). Its octet counters have 32
  bits, its interfaces are named exactly as in the full table (`if:%d`, 148 and
  182), so the next full reading counts as one of the same source and reports every
  byte above 2^32 as traffic of one interval. The comment in `CollectState` says "A
  transient platform read failure is not a zero counter sample"
  (`internal/agent/metrics.go:108`) and keeps the baseline for that reason; here the
  failure replaces it. Run `legacy_spike` shows it. The other direction, and two
  legacy readings in a row, only lose traffic (`TrafficCounted`).

## 6. Not modelled, and the plan

Components that are not modelled:

* **Installers** (`install.sh`, `install.ps1`): shell transactions over files,
  users and service managers, outside the Go program. Their hazard, an
  interruption between two replacements, is listed without a property.
* **Platform back ends**: system calls and the parsing of their text, without
  state. `Metrics` takes from them what changes a baseline: the interfaces that are
  listed, readings that fail, the legacy table of Windows, processor times that wrap
  or go back. Other differences between the platforms are not modelled.
* **Log file**: opens, appends and closes under a mutex and keeps no state.

Outside the models: power loss (the disk keeps what a completed system call
wrote; the agent's syncs are steps that may fail), steps of the wall clock
(time is monotone), byte layouts, JSON, checksums, TLS, the gauges of a sample
(memory, load, disks), the way the legacy table of Windows filters its rows, the
identifiers of state samples and the wording of logs.

What is left is the safety side of the liveness properties, as theorems:

1. a measure that every step of a run lowers, so that `RunsEnd` rests on fairness
   alone;
2. the same for a stop: the workers that have not ended, and for the uploader the
   attempts a batch has before its TTL;
3. an abstract specification of the probe cycle (a target is idle, due, probed or
   stored) that `ProbeScheduler` refines, as the pipeline refines the outbox.
