--------------------------- MODULE ProbeScheduler ---------------------------
(***************************************************************************)
(* The probe loop in time (ProbeScheduler of                               *)
(* internal/agent/probe_scheduler.go with due, runDueProbes and            *)
(* runProbeLoop of cmd/zeno-agent/main.go): every tick the loop asks which *)
(* targets are due, takes those one run can afford, probes them            *)
(* (ProbeRun), persists the rounds and notes the completion.               *)
(*                                                                         *)
(* The configuration does not change here: ProbeConfig covers that.  The   *)
(* spool is a step that succeeds or fails: ProbeSpool covers it.           *)
(***************************************************************************)
EXTENDS ProbeRun

CONSTANTS
    Configs,      \* the target lists a Controller may hand out: sequences
    LoopTimeout,  \* maxProbeRunLoopTimeout
    AgeCap,       \* bound: ages are counted up to here
    MaxFailures   \* bound: failing writes of the spool

(* A target as the configuration describes it: the address of an HTTP      *)
(* target is a URL, that of the others a host.                             *)
TargetOK(target) ==
    target \in [id : STRING, type : STRING, count : Int, timeout : Int, interval : Int,
                address : IF target.type = "http" THEN URL ELSE Hosts \cup {"invalid"}]

ASSUME SchedulerAssumption ==
    /\ LoopTimeout \in Nat /\ AgeCap \in Nat /\ MaxFailures \in Nat
    /\ NodeBudget + RunGrace =< LoopTimeout
    /\ \A config \in Configs :
         /\ Len(config) \in Nat /\ DOMAIN config = 1..Len(config)
         /\ \A k \in DOMAIN config : TargetOK(config[k])

VARIABLES
    targets,   \* manager.targets
    seen,      \* the IDs in lastCompleted
    age,       \* ticks since the completion, or since the start, by ID
    since,     \* history: ticks since results of the target were last stored
    loop,      \* the probe loop
    ticker,    \* a tick waits in the ticker's channel
    stopping,  \* the agent's context is cancelled
    failures   \* failing writes so far

schedulerVars == <<targets, seen, age, since, loop, ticker, stopping, failures>>
cycleVars == <<schedulerVars, runVars>>

IDs == {targets[k].id : k \in DOMAIN targets} \ {""}

-----------------------------------------------------------------------------
TargetIntervalElapsed(target) == age[target.id] >= target.interval

IsDue(target) == target.id \notin seen \/ TargetIntervalElapsed(target)

AppendIfDue(due, target) == IF IsDue(target) THEN Append(due, target) ELSE due

Due == FoldLeft(AppendIfDue, << >>, targets)

(* runDueProbes, up to the probes.  Nothing due is the end of it; with the *)
(* agent stopping, a tick and the free gate may still win the select.      *)
StartRun ==
    /\ loop = "wait" /\ ticker
    /\ ticker' = FALSE
    /\ LET due == LimitProbeTargetsForRun(Due)
       IN  IF due = << >>
           THEN UNCHANGED <<loop, runVars>>
           ELSE /\ loop' = "probing"
                /\ BeginRun(due, IF stopping THEN "cancelled" ELSE "live")
    /\ UNCHANGED <<targets, seen, age, since, stopping, failures>>

(* wg.Wait returns.                                                        *)
FinishRun ==
    /\ loop = "probing" /\ AllDone
    /\ loop' = "persist"
    /\ UNCHANGED <<targets, seen, age, since, ticker, stopping, failures, runVars>>

Reset(ages, ids) == [id \in DOMAIN ages |-> IF id \in ids THEN 0 ELSE ages[id]]

(* Mutant: every target of the configuration is marked. *)
CompletedWithAll(done) ==
    /\ seen' = seen \cup IDs
    /\ age' = Reset(age, IDs)

(* MarkCompleted: a target without an ID is never marked.                  *)
Completed(done) ==
    LET ids == {done[k].id : k \in DOMAIN done} \ {""}
    IN  /\ seen' = seen \cup ids
        /\ age' = Reset(age, ids)

(* Enqueue, then the completion; a failed write leaves the targets due.    *)
Persist ==
    /\ loop = "persist"
    /\ loop' = "wait"
    /\ \/ /\ Completed(batch)
          /\ since' = Reset(since, {batch[k].id : k \in DOMAIN batch})
          /\ UNCHANGED failures
       \/ /\ failures < MaxFailures /\ failures' = failures + 1
          /\ UNCHANGED <<seen, age, since>>
    /\ batch' = << >> /\ ctx' = "live" /\ left' = 0 /\ worker' = << >> /\ cache' = << >>
    /\ lingering' = {} /\ dialled' = {} /\ resolving' = 0
    /\ UNCHANGED <<targets, ticker, stopping>>

Stop ==
    /\ ~stopping
    /\ stopping' = TRUE
    /\ ctx' = IF loop = "probing" /\ ctx = "live" THEN "cancelled" ELSE ctx
    /\ UNCHANGED <<targets, seen, age, since, loop, ticker, failures>>
    /\ UNCHANGED <<batch, left, worker, cache, lingering, dialled, resolving>>

StopLoop ==
    /\ loop = "wait" /\ stopping
    /\ loop' = "stopped"
    /\ UNCHANGED <<targets, seen, age, since, ticker, stopping, failures, runVars>>

(* The loop has returned; the process ends when the other workers have.    *)
Stopped == loop = "stopped" /\ UNCHANGED cycleVars

RunStep ==
    /\ loop = "probing"
    /\ (\E i \in Workers : WorkerStep(i)) \/ LateLookupReturns
    /\ UNCHANGED schedulerVars

Older(ages) == [id \in DOMAIN ages |-> IF ages[id] < AgeCap THEN ages[id] + 1 ELSE AgeCap]

(* Time passes while the loop waits for its ticker or for the network.     *)
Tick ==
    /\ \/ loop = "wait" /\ ~ticker /\ ~stopping /\ UNCHANGED runVars
       \/ loop = "probing" /\ RunTick
    /\ ticker' = TRUE
    /\ age' = Older(age) /\ since' = Older(since)
    /\ UNCHANGED <<targets, seen, loop, stopping, failures>>

CycleInit ==
    /\ \E config \in Configs : targets = SanitizeProbeTargets(config)
    /\ seen = {} /\ age = [id \in IDs |-> 0] /\ since = age
    /\ loop = "wait" /\ ticker = TRUE /\ stopping = FALSE /\ failures = 0
    /\ NoRun

CycleNext ==
    \/ Stop \/ StopLoop \/ Stopped
    \/ RunStep \/ Tick
    \/ StartRun \/ FinishRun \/ Persist

CycleSpec == CycleInit /\ [][CycleNext]_cycleVars

(* Fairness: the process does not freeze.  Goroutines that can run do, and *)
(* time passes while everybody waits; runs have finitely many steps.       *)
CycleFairSpec == CycleSpec /\ WF_cycleVars(CycleNext)

-----------------------------------------------------------------------------
(* Every variable of the scheduler stays in its type, and so does the run. *)
CycleTypeOK ==
    /\ seen \subseteq IDs
    /\ age \in [IDs -> 0..AgeCap] /\ since \in [IDs -> 0..AgeCap]
    /\ loop \in {"wait", "probing", "persist", "stopped"}
    /\ ticker \in BOOLEAN /\ stopping \in BOOLEAN
    /\ failures \in 0..MaxFailures
    /\ RunTypeOK

(* One more sample of the target would fit beside the selection.           *)
Affords(selection, target) ==
    /\ TotalSamples(selection) < MaxSamples
    /\ TotalCost(selection) + ProbeAttemptBudget(target) =< NodeBudget

(* What one run takes is what a run probes and marks: selecting twice, in  *)
(* due and in ProbeTargets, selects the same.  It stays within both        *)
(* budgets, and its deadline within that of the loop's call.  It is a      *)
(* beginning of the due targets with at least one sample of each, and it   *)
(* is as long as it can be: where samples were cut, and at its end, not    *)
(* one more would have fitted.                                             *)
SelectionSound ==
    [][loop = "wait" /\ loop' = "probing" =>
         LET due == Due
             n == Len(batch')
         IN  /\ batch' = LimitProbeTargetsForRun(due)
             /\ TotalCost(batch') =< NodeBudget /\ TotalSamples(batch') =< MaxSamples
             /\ ProbeRunTimeout(batch') =< LoopTimeout
             /\ n \in 1..Len(due)
             /\ \A k \in 1..n :
                  /\ batch'[k].count \in 1..due[k].count
                  /\ batch'[k] = [due[k] EXCEPT !.count = batch'[k].count]
                  /\ batch'[k].count < due[k].count =>
                       ~Affords(SubSeq(batch', 1, k), due[k])
             /\ n < Len(due) => ~Affords(batch', due[n + 1])]_cycleVars

(* A configuration that one run can afford is probed on time: between two  *)
(* completions of a target lie its interval, the run that was under way    *)
(* when it became due, its own, and those whose results were not stored.   *)
OnTime ==
    LimitProbeTargetsForRun(targets) = targets =>
        \A k \in DOMAIN targets :
            targets[k].id \in IDs =>
                since[targets[k].id] =<
                    targets[k].interval + (2 + failures) * (ProbeRunTimeout(targets) + 1)

ConfigIDs == UNION {{config[k].id : k \in DOMAIN config} : config \in Configs}

(* Every run ends, whatever the network does and whenever the agent stops, *)
(* and after a stop the loop returns.                                      *)
RunsEnd ==
    /\ loop = "probing" ~> loop \in {"wait", "stopped"}
    /\ stopping ~> loop = "stopped"

(* Every configured target is probed again and again, until the agent      *)
(* stops, also when one run cannot afford them all.                        *)
EveryTargetProbed ==
    \A id \in ConfigIDs : []<>(stopping \/ id \notin IDs \/ since[id] = 0)
=============================================================================
