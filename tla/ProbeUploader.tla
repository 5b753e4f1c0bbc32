--------------------------- MODULE ProbeUploader ---------------------------
(***************************************************************************)
(* The upload pipeline: the probe loop persists batches into the spool     *)
(* (ProbeSpool), the uploader of internal/agent/probe_uploader.go drains   *)
(* it to the Controller, and both are workers of one process that can be   *)
(* stopped (context cancellation), can crash and is started again.  The    *)
(* Controller and the network are external: a request may be lost, may     *)
(* arrive after the uploader gave up on it, may be accepted although its   *)
(* answer never comes back.                                                *)
(***************************************************************************)
EXTENDS ProbeSpool

CONSTANT MaxBackoff      \* maxProbeUploadBackoff, in clock ticks

ASSUME BackoffAssumption == MaxBackoff \in Nat \ {0}

VARIABLES
    up,         \* the uploader goroutine
    prober,     \* the probe loop goroutine
    ctx,        \* the context all workers share
    stray,      \* abandoned requests the network may still deliver
    accepted,   \* history: batches the Controller has stored
    refused,    \* history: batches the Controller has terminally rejected
    answered,   \* history: batches whose final answer arrived and whose removal
                \* neither failed nor was cut short by a crash
    persisted   \* history: batch -> creation time, once Enqueue returned nil

uploadVars == <<up, prober, ctx, stray, accepted, refused, answered, persisted>>
vars == <<spoolVars, uploadVars>>

(* "resp" is the answer on the wire of the open request.                   *)
Uploader == [pc      : {"start", "next", "post", "ack", "retry", "quarantine",
                        "rejected", "wait", "failed", "stopped"},
             now     : Times,
             name    : BatchNames \cup {NoName},
             attempt : Attempts,
             resp    : {"none", "2xx", "retryable", "stale", "terminal"}]

StartedUploader == [pc |-> "start", now |-> 0, name |-> NoName,
                    attempt |-> 0, resp |-> "none"]

UploaderAt(pc) == [StartedUploader EXCEPT !.pc = pc]

(* Mutant: The attempt counter wraps around. *)
NextAttemptWrapped(a) == (a + 1) % (MaxAttempt + 1)

(* scheduleRetry: the counter saturates, the delay is a valid Retry-After  *)
(* clamped to the cap, or a jitter between zero and the backoff.           *)
NextAttempt(a) == IF a = MaxAttempt THEN a ELSE a + 1

ProbeUploadBackoff[a \in Nat] ==
    IF a =< 1 THEN 1
    ELSE IF 2 * ProbeUploadBackoff[a - 1] >= MaxBackoff THEN MaxBackoff
    ELSE 2 * ProbeUploadBackoff[a - 1]

(* Mutant: The delay is not clamped to the cap. *)
RetryDelaysUncapped(attempt, resp) ==
    {d \in 0..(2 * MaxBackoff) : resp = "retryable" \/ d =< ProbeUploadBackoff[attempt]}

RetryDelays(attempt, resp) ==
    {d \in 0..MaxBackoff : resp = "retryable" \/ d =< ProbeUploadBackoff[attempt]}

-----------------------------------------------------------------------------
(* The probe loop, as far as the spool sees it: runDueProbes runs the due  *)
(* probes and hands their rounds to Enqueue.  A stop during the probes     *)
(* cuts them short, but their rounds are still persisted.                  *)

ProberRun ==
    /\ prober = "idle"
    /\ ctx = "running"
    /\ BatchNames \ issued # {}        \* bound: a round only while names are left
    /\ prober' = "probing"
    /\ UNCHANGED <<spoolVars, up, ctx, stray, accepted, refused, answered, persisted>>

ProberEnqueue ==
    /\ prober = "probing"
    /\ \E body \in BodySizes : BeginEnqueue(body)
    /\ prober' = "enqueue"
    /\ UNCHANGED <<up, ctx, stray, accepted, refused, answered, persisted>>

(* The configuration changed during the probes: the rounds are discarded.  *)
ProberDiscard ==
    /\ prober = "probing"
    /\ prober' = "idle"
    /\ UNCHANGED <<spoolVars, up, ctx, stray, accepted, refused, answered, persisted>>

ProberReturn ==
    /\ prober = "enqueue" /\ call.op = "enqueue"
    /\ Return
    /\ prober' = "idle"
    /\ persisted' = IF call.result = "ok"
                    THEN Put(persisted, call.name, call.file.created)
                    ELSE persisted
    /\ UNCHANGED <<up, ctx, stray, accepted, refused, answered>>

ProberStop ==
    /\ prober = "idle" /\ ctx = "cancelled"
    /\ prober' = "stopped"
    /\ UNCHANGED <<spoolVars, up, ctx, stray, accepted, refused, answered, persisted>>

-----------------------------------------------------------------------------
(* ProbeUploader.Run and uploadOne.                                        *)

(* The top of the loop: a cancelled context ends it, else uploadOne reads  *)
(* its clock, once, before it asks for the spool's lock.                   *)
UploadOne ==
    /\ up.pc = "start"
    /\ up' = IF ctx = "cancelled" THEN UploaderAt("stopped")
             ELSE [UploaderAt("next") EXCEPT !.now = clock]
    /\ UNCHANGED <<spoolVars, prober, ctx, stray, accepted, refused, answered, persisted>>

CallNext ==
    /\ up.pc = "next"
    /\ BeginNext(up.now)
    /\ UNCHANGED uploadVars

(* Next returned: post the batch, or wait, or stop after a local failure.  *)
NextReturns ==
    /\ up.pc = "next" /\ call.op = "next"
    /\ Return
    /\ up' = CASE call.result = "item" ->
                    [up EXCEPT !.pc = "post", !.name = call.name,
                               !.attempt = call.file.attempt]
               [] call.result # "item" /\ ctx = "cancelled" -> UploaderAt("stopped")
               [] call.result = "empty" /\ ctx = "running" -> UploaderAt("wait")
               [] OTHER -> UploaderAt("failed")
    /\ UNCHANGED <<prober, ctx, stray, accepted, refused, answered, persisted>>

(* No complete answer: connection failure, timeout, or an answer cut off.  *)
(* A cancellation consumes no attempt.  The request may still be under way.*)
TransportFails ==
    /\ up.pc = "post"
    /\ stray' \in {stray, IF up.resp = "none" THEN stray \cup {up.name} ELSE stray}
    /\ up' = IF ctx = "cancelled" THEN UploaderAt("stopped")
             ELSE [up EXCEPT !.pc = "retry", !.resp = "none"]
    /\ UNCHANGED <<spoolVars, prober, ctx, accepted, refused, answered, persisted>>

(* Mutant: A conflict is acknowledged as if it were a success. *)
AnswerArrivesAckingConflicts ==
    /\ up.pc = "post" /\ up.resp # "none"
    /\ up' = CASE up.resp \in {"2xx", "stale"} -> [UploaderAt("ack") EXCEPT !.name = up.name]
               [] up.resp = "retryable" -> [up EXCEPT !.pc = "retry"]
               [] OTHER -> [UploaderAt("quarantine") EXCEPT !.name = up.name]
    /\ answered' = IF up.resp = "retryable" THEN answered
                   ELSE answered \cup {up.name}
    /\ UNCHANGED <<spoolVars, prober, ctx, stray, accepted, refused, persisted>>

(* The answer arrives and its status decides what happens to the batch.    *)
AnswerArrives ==
    /\ up.pc = "post" /\ up.resp # "none"
    /\ up' = CASE up.resp = "2xx" -> [UploaderAt("ack") EXCEPT !.name = up.name]
               [] up.resp = "retryable" -> [up EXCEPT !.pc = "retry"]
               [] OTHER -> [UploaderAt("quarantine") EXCEPT !.name = up.name]
    /\ answered' = IF up.resp = "retryable" THEN answered
                   ELSE answered \cup {up.name}
    /\ UNCHANGED <<spoolVars, prober, ctx, stray, accepted, refused, persisted>>

CallAck ==
    /\ up.pc = "ack"
    /\ BeginAck(up.name)
    /\ UNCHANGED uploadVars

(* The retry gate counts from the clock read before the request.           *)
CallScheduleRetry ==
    /\ up.pc = "retry"
    /\ \E d \in RetryDelays(NextAttempt(up.attempt), up.resp) :
         /\ up.now + d =< Horizon
         /\ BeginRetry(up.name, NextAttempt(up.attempt), up.now + d)
    /\ UNCHANGED uploadVars

CallQuarantine ==
    /\ up.pc = "quarantine"
    /\ BeginQuarantine(up.name)
    /\ UNCHANGED uploadVars

(* The spool method returned.  A local failure ends Run; a cancelled       *)
(* context does too; only a quarantined rejection reaches OnRejected.      *)
SettleReturns ==
    /\ up.pc = call.op /\ call.op \in {"ack", "retry", "quarantine"}
    /\ Return
    /\ up' = CASE ctx = "cancelled" -> UploaderAt("stopped")
               [] ctx = "running" /\ call.result = "error" -> UploaderAt("failed")
               [] ctx = "running" /\ call.result = "ok" /\ call.op = "quarantine" ->
                    UploaderAt("rejected")
               [] OTHER -> UploaderAt("start")
    /\ answered' = answered \ (IF call.result = "error" THEN {up.name} ELSE {})
    /\ UNCHANGED <<prober, ctx, stray, accepted, refused, persisted>>

(* OnRejected: a stale batch refreshes the probe configuration first.      *)
OnRejected ==
    /\ up.pc = "rejected"
    /\ up' = UploaderAt("start")
    /\ UNCHANGED <<spoolVars, prober, ctx, stray, accepted, refused, answered, persisted>>

(* The select at the end of the loop: token, poll timer, cancellation.     *)
Woken ==
    /\ up.pc = "wait"
    /\ TakeNotify
    /\ up' = UploaderAt("start")
    /\ UNCHANGED <<prober, ctx, stray, accepted, refused, answered, persisted>>

(* Mutant: The select waits for the token only. *)
PollTimerWithoutTimer ==
    /\ up.pc = "wait" /\ notify
    /\ up' = UploaderAt("start")
    /\ UNCHANGED <<spoolVars, prober, ctx, stray, accepted, refused, answered, persisted>>

PollTimer ==
    /\ up.pc = "wait"
    /\ up' = UploaderAt("start")
    /\ UNCHANGED <<spoolVars, prober, ctx, stray, accepted, refused, answered, persisted>>

(* Mutant: A local failure ends the uploader for good. *)
RestartRunGivesUp ==
    /\ up.pc = "failed"
    /\ up' = UploaderAt("stopped")
    /\ UNCHANGED <<spoolVars, prober, ctx, stray, accepted, refused, answered, persisted>>

(* runProbeUploader starts Run again five seconds after a local failure.   *)
RestartRun ==
    /\ up.pc = "failed"
    /\ up' = UploaderAt(IF ctx = "cancelled" THEN "stopped" ELSE "start")
    /\ UNCHANGED <<spoolVars, prober, ctx, stray, accepted, refused, answered, persisted>>

CancelledWait ==
    /\ up.pc = "wait" /\ ctx = "cancelled"
    /\ up' = UploaderAt("stopped")
    /\ UNCHANGED <<spoolVars, prober, ctx, stray, accepted, refused, answered, persisted>>

-----------------------------------------------------------------------------
(* The Controller and the network (external).                              *)

ControllerAccepts ==
    /\ up.pc = "post" /\ up.resp = "none"
    /\ accepted' = accepted \cup {up.name}
    /\ up' = [up EXCEPT !.resp = "2xx"]
    /\ UNCHANGED <<spoolVars, prober, ctx, stray, refused, answered, persisted>>

(* 408, 429 or 5xx: a gateway may say so although the batch was stored.    *)
ControllerBusy ==
    /\ up.pc = "post" /\ up.resp = "none"
    /\ accepted' \in {accepted, accepted \cup {up.name}}
    /\ up' = [up EXCEPT !.resp = "retryable"]
    /\ UNCHANGED <<spoolVars, prober, ctx, stray, refused, answered, persisted>>

ControllerRefuses ==
    /\ up.pc = "post" /\ up.resp = "none"
    /\ refused' = refused \cup {up.name}
    /\ \E resp \in {"stale", "terminal"} : up' = [up EXCEPT !.resp = resp]
    /\ UNCHANGED <<spoolVars, prober, ctx, stray, accepted, answered, persisted>>

StrayArrives ==
    /\ \E n \in stray :
         /\ stray' = stray \ {n}
         /\ accepted' \in {accepted, accepted \cup {n}}
    /\ UNCHANGED <<spoolVars, up, prober, ctx, refused, answered, persisted>>

-----------------------------------------------------------------------------
(* The process.                                                            *)

Cancel ==
    /\ ctx = "running"
    /\ Fault
    /\ ctx' = "cancelled"
    /\ UNCHANGED <<clock, pending, quarantine, notify, call, issued, damaged>>
    /\ UNCHANGED <<up, prober, stray, accepted, refused, answered, persisted>>

(* A new process: nothing but the directories survives.                    *)
NewProcess ==
    /\ up' = StartedUploader
    /\ prober' = "idle"
    /\ ctx' = "running"
    /\ SpoolCrash
    /\ UNCHANGED <<accepted, refused, persisted>>

(* runAgent waits for every worker before the process ends.                *)
Restart ==
    /\ up.pc = "stopped" /\ prober = "stopped"
    /\ NewProcess
    /\ UNCHANGED <<stray, answered, faults>>

Crash ==
    /\ Fault
    /\ stray' \in {stray, IF up.pc = "post" /\ up.resp = "none"
                          THEN stray \cup {up.name} ELSE stray}
    /\ answered' = answered \ (IF up.pc \in {"ack", "quarantine"}
                                THEN {up.name} ELSE {})
    /\ NewProcess

DiskStep == SpoolStep /\ UNCHANGED uploadVars
ClockTick == Tick /\ UNCHANGED uploadVars
Damage == (\E n \in issued : Corrupt(n)) /\ UNCHANGED uploadVars

UploaderStep ==
    \/ UploadOne \/ CallNext \/ NextReturns
    \/ TransportFails \/ AnswerArrives
    \/ CallAck \/ CallScheduleRetry \/ CallQuarantine \/ SettleReturns
    \/ OnRejected \/ Woken \/ PollTimer \/ RestartRun \/ CancelledWait

ProberStep == ProberRun \/ ProberDiscard \/ ProberEnqueue \/ ProberReturn \/ ProberStop

ControllerStep ==
    ControllerAccepts \/ ControllerBusy \/ ControllerRefuses \/ StrayArrives

Init ==
    /\ SpoolInit
    /\ up = StartedUploader
    /\ prober = "idle"
    /\ ctx = "running"
    /\ stray = {} /\ accepted = {} /\ refused = {} /\ answered = {}
    /\ persisted = << >>

Next ==
    \/ UploaderStep \/ ProberStep \/ ControllerStep
    \/ DiskStep \/ ClockTick \/ Damage
    \/ Cancel \/ Restart \/ Crash

Spec == Init /\ [][Next]_vars

-----------------------------------------------------------------------------
(* Every variable of the pipeline stays in its type.                       *)
TypeOK ==
    /\ SpoolTypeOK
    /\ up \in Uploader
    /\ prober \in {"idle", "probing", "enqueue", "stopped"}
    /\ ctx \in {"running", "cancelled"}
    /\ stray \subseteq BatchNames
    /\ accepted \subseteq BatchNames
    /\ refused \subseteq BatchNames
    /\ answered \subseteq BatchNames
    /\ DOMAIN persisted \subseteq BatchNames
    /\ persisted \in [DOMAIN persisted -> Times]

(* No batch that Enqueue reported as persisted is lost silently: it is     *)
(* still pending, or the Controller stored it, or the Controller rejected  *)
(* it for good, or it outlived its TTL, or the file could not be read.     *)
NoSilentLoss ==
    \A n \in DOMAIN persisted :
        \/ n \in DOMAIN pending
        \/ n \in accepted \cup refused \cup damaged
        \/ clock - persisted[n] >= TTL

(* The mutex has one owner, and a method works on the caller's batch.      *)
CallerInv ==
    /\ call.op = "none" <=> call.phase = "idle"
    /\ call.phase # "done" => call.result = "none"
    /\ call.op = "enqueue" => prober = "enqueue" /\ call.file.created = call.now
    /\ call.op \in {"next", "ack", "retry", "quarantine"} => up.pc = call.op
    /\ call.op \in {"ack", "retry", "quarantine"} => call.name = up.name
    /\ call.op = "next" /\ call.result = "item" => call.name \in issued

(* What the uploader knows about the batch it is working on.               *)
AnswerInv ==
    /\ up.now =< clock
    /\ stray \subseteq issued
    /\ up.pc \in {"post", "ack", "retry", "quarantine"} => up.name \in issued
    /\ up.pc = "next" => up.resp = "none"
    /\ up.pc = "ack" => up.name \in accepted
    /\ up.pc = "quarantine" => up.name \in refused
    /\ up.pc = "post" /\ up.resp = "2xx" => up.name \in accepted
    /\ up.pc = "post" /\ up.resp \in {"stale", "terminal"} => up.name \in refused

(* The TTL of a persisted batch counts from its Enqueue.                   *)
AgeInv ==
    /\ DOMAIN persisted \subseteq issued
    /\ \A n \in DOMAIN persisted \cap Batches : pending[n].created = persisted[n]

(* A write publishes a new batch or rewrites one without touching its age. *)
WriteInv ==
    /\ call.phase = "temp" /\ call.op = "enqueue" => call.name \notin issued
    /\ call.phase = "temp" /\ call.op # "enqueue" =>
         /\ call.op = "retry" /\ call.name \in Batches
         /\ call.file.created = pending[call.name].created
    /\ call.op = "enqueue" /\ call.result = "ok" =>
         /\ call.name \in Batches
         /\ call.file.created = pending[call.name].created

(* The inductive invariant of the pipeline.                                *)
PipelineInv ==
    /\ TypeOK /\ SpoolInv
    /\ CallerInv /\ AnswerInv /\ WriteInv /\ AgeInv
    /\ NoSilentLoss

(* The pipeline implements the outbox: what it holds are its batch files.  *)
Outbox == INSTANCE DurableOutbox WITH
    Batch <- BatchNames,
    now <- clock,
    held <- [n \in Batches |-> pending[n].created],
    known <- issued,
    delivered <- accepted

(* The whole pipeline, crashes and lost answers included, only ever does   *)
(* what the outbox may do.                                                 *)
ImplementsOutbox == Outbox!OutboxSpec

(* The attempt counter of a pending batch moves by one step at a time and  *)
(* never back, through crashes, stale clocks and cancelled requests.       *)
AttemptsAdvanceByOne ==
    [][\A n \in BatchNames \cap DOMAIN pending \cap DOMAIN pending' :
          pending'[n].attempt \in {pending[n].attempt, pending[n].attempt + 1}]_vars

(* A batch whose final answer, accepted or rejected, reached the uploader  *)
(* is never sent again, unless the Ack or Quarantine that followed that    *)
(* very answer returned an error or the process died in it.  A stop, a     *)
(* fault of another step, a retry or an expiry in between is no excuse.    *)
AnsweredNotResent == up.pc = "post" => up.name \notin answered

(* No batch is put off further than the backoff cap from now.              *)
DeferralBounded ==
    \A n \in Batches : pending[n].nextAt =< clock + MaxBackoff

(* No lost wake-up: while the uploader is parked without a token in the    *)
(* channel, no freshly persisted batch sits in the spool unattempted.      *)
NoLostWakeup ==
    up.pc = "wait" /\ ~notify =>
        \A n \in Batches \cap DOMAIN persisted : pending[n].attempt > 0

-----------------------------------------------------------------------------
(* Fairness: a goroutine that can run does, so does the file system call   *)
(* it is in, and the clock advances.  A probe run ends (ProbeScheduler's   *)
(* RunsEnd), and the mutex is free again and again because the probe loop  *)
(* adds finitely many batches.  A Controller that is asked again and again *)
(* accepts at last, and its answer gets through.                           *)
AcceptanceArrives == AnswerArrives /\ up.resp = "2xx"

FairSpec ==
    /\ Spec
    /\ WF_vars(UploaderStep)
    /\ WF_vars(DiskStep \/ ProberReturn)
    /\ WF_vars(ProberEnqueue \/ ProberDiscard)
    /\ WF_vars(ProberStop \/ Restart)
    /\ WF_vars(ClockTick)
    /\ SF_vars(ControllerAccepts)
    /\ SF_vars(AcceptanceArrives)

(* Every persisted batch eventually leaves the spool.                      *)
EventuallySettled ==
    \A n \in BatchNames : n \in DOMAIN persisted ~> n \notin DOMAIN pending
=============================================================================
