---------------------------- MODULE AgentReports ----------------------------
(***************************************************************************)
(* One agent process, from its start to its exit (runAgent and its loops   *)
(* in cmd/zeno-agent/main.go): the initial heartbeat, host and state       *)
(* reports, the periodic reports after them, the presence connection with  *)
(* its reconnection delays (internal/agent/presence.go), the receipt for   *)
(* the installer (install_receipt.go), the stop of the process by a signal *)
(* or by the Windows service manager (service_windows.go), and crashes.    *)
(*                                                                         *)
(* The probe loop, the configuration poller and the uploader have modules  *)
(* of their own; here "prober" stands for them, as a worker that must have *)
(* ended before the process returns.  The parts share nothing but the      *)
(* context and the Controller, so a behaviour has a focus: how the process *)
(* is started, the workers whose tickers fire, the parts of the machine    *)
(* that change and the parties that fail.                                  *)
(***************************************************************************)
EXTENDS Metrics, NetworkIdentity

CONSTANTS
    Focuses,         \* bound: what one behaviour exercises
    InitialBackoff,  \* ticks: presenceInitialReconnectBackoff
    MaxBackoff,      \* ticks: presenceMaxReconnectBackoff
    Stable,          \* ticks: presenceStableConnectionDuration
    DialTimeout,     \* ticks: the handshake timeout of the default dialer
    StopLimit,       \* ticks: the service waits this long for the agent
    MaxStreak,       \* bound: unstable connections are counted up to here
    MaxCrashes       \* bound: of the crashes of a behaviour

ASSUME ReportsAssumption ==
    /\ InitialBackoff \in Nat /\ InitialBackoff >= 2
    /\ MaxBackoff \in Nat /\ MaxBackoff >= InitialBackoff
    /\ Stable \in Nat \ {0} /\ DialTimeout \in 0..(Stable - 1)
    /\ StopLimit \in Nat /\ MaxStreak \in Nat /\ MaxCrashes \in Nat

VARIABLES
    focus,      \* what this behaviour exercises
    process,    \* progress of the process, how it ended, ticks since its stop
    cancelled,  \* the context of runAgent is cancelled
    worker,     \* what every worker does; the initial reports use the slots too
    outgoing,   \* the identity in the host report
    receipt,    \* heartbeatOK, stateOK, written
    accepted,   \* history: reports of this process that the Controller accepted
    file,       \* the receipt, with the reports accepted when it was written
    presence,   \* the presence loop, and history: unstable connections in a row
    crashes

agentVars == <<focus, process, cancelled, worker, outgoing, receipt, accepted, file,
               presence, crashes>>
reportVars == <<agentVars, metricsVars, identityVars>>

Reports == {"heartbeat", "host", "state"}
Workers == Reports \cup {"presence", "prober"}
Calling == {"discover", "post", "refused", "accepted", "busy"}

NoReceipt == [heartbeatOK |-> FALSE, stateOK |-> FALSE, written |-> FALSE]
NewPresence == [pc |-> "dial", age |-> 0, backoff |-> InitialBackoff, wait |-> 0,
                streak |-> 0]
NotStarted == [w \in Workers |-> "none"]

-----------------------------------------------------------------------------
(* The reports.                                                            *)

NextPhase ==
    CASE process.phase = "heartbeat" -> "host"
      [] process.phase = "host" -> "state"
      [] process.phase = "state" -> IF "once" \in focus THEN "once" ELSE "running"

(* A report call returns: to its loop, or to runAgent, which goes on with  *)
(* the next report and after the last one starts the workers.              *)
Returns(w) ==
    IF process.phase = w
    THEN /\ process' = [process EXCEPT !.phase = NextPhase]
         /\ worker' = IF NextPhase = "running"
                      THEN [v \in Workers |-> IF v \in Reports THEN "idle" ELSE "busy"]
                      ELSE NotStarted
    ELSE /\ worker' = [worker EXCEPT ![w] = "idle"]
         /\ UNCHANGED process

(* The ticker fires, also when the context is cancelled at the same time.  *)
Due(w) ==
    \/ process.phase = w /\ worker[w] = "none"
    \/ w \in focus /\ worker[w] = "idle"

(* A request with a cancelled context is never sent.                       *)
Send(w) == worker' = [worker EXCEPT ![w] = IF cancelled THEN "refused" ELSE "post"]

ReportHeartbeat ==
    /\ process.exit < 0 /\ Due("heartbeat")
    /\ Send("heartbeat")
    /\ UNCHANGED <<focus, process, cancelled, outgoing, receipt, accepted, file, presence,
                   crashes, metricsVars, identityVars>>

ReportState ==
    /\ process.exit < 0 /\ Due("state")
    /\ \E reading \in Readings, cpuFails \in {FALSE, "cpu" \in focus},
          broken \in SUBSET (IF "tables" \in focus THEN Tables ELSE {}) :
         /\ reading = "failed" => "network" \in focus
         /\ reading = "legacy" => "legacy" \in focus
         /\ CollectState(reading, cpuFails, broken)
    /\ Send("state")
    /\ UNCHANGED <<focus, process, cancelled, outgoing, receipt, accepted, file, presence,
                   crashes, identityVars>>

ReportHost ==
    /\ process.exit < 0 /\ Due("host")
    /\ \/ /\ Fresh
          /\ outgoing' = identity.cached
          /\ Send("host")
          /\ UNCHANGED identityVars
       \/ /\ ~Fresh
          /\ StartLookup
          /\ worker' = [worker EXCEPT !["host"] = "discover"]
          /\ UNCHANGED outgoing
    /\ UNCHANGED <<focus, process, cancelled, receipt, accepted, file, presence, crashes,
                   metricsVars>>

DiscoverStep ==
    /\ process.exit < 0 /\ worker["host"] = "discover"
    /\ Fetch(~cancelled /\ "providers" \in focus)
    /\ UNCHANGED <<agentVars, metricsVars>>

DiscoverReturns ==
    /\ process.exit < 0 /\ worker["host"] = "discover"
    /\ EndLookup
    /\ outgoing' = identity'.cached
    /\ Send("host")
    /\ UNCHANGED <<focus, process, cancelled, receipt, accepted, file, presence, crashes,
                   metricsVars>>

(* The Controller stores the report.                                       *)
ControllerAccepts(w) ==
    /\ worker[w] = "post"
    /\ worker' = [worker EXCEPT ![w] = "accepted"]
    /\ accepted' = accepted \cup {w}
    /\ UNCHANGED <<focus, process, cancelled, outgoing, receipt, file, presence, crashes,
                   metricsVars, identityVars>>

Forget(w) ==
    /\ IF w = "state" THEN DropSample ELSE UNCHANGED sample
    /\ outgoing' = IF w = "host" THEN {} ELSE outgoing
    /\ UNCHANGED <<counter, listed, times, tables, net, cpu, conns, traffic, load>>

-----------------------------------------------------------------------------
(* The receipt.                                                            *)

Noted(w) ==
    [receipt EXCEPT !.heartbeatOK = @ \/ w = "heartbeat", !.stateOK = @ \/ w = "state"]

(* Mutant: one of the two reports is enough. *)
ReadyAfterEither(r) == ~r.written /\ (r.heartbeatOK \/ r.stateOK)

Ready(r) == ~r.written /\ r.heartbeatOK /\ r.stateOK

(* Mutant: the receipt counts as written when the write was tried. *)
MarkedTried(w, writes) ==
    IF Ready(Noted(w)) THEN [Noted(w) EXCEPT !.written = TRUE] ELSE Noted(w)

Marked(w, writes) ==
    IF Ready(Noted(w)) THEN [Noted(w) EXCEPT !.written = writes] ELSE Noted(w)

(* mark: the receipt is published by a rename, or the write fails and the  *)
(* next report tries again.                                                *)
Mark(w, writes) ==
    /\ receipt' = Marked(w, writes)
    /\ file' = IF Ready(Noted(w)) /\ writes THEN [there |-> TRUE, proof |-> accepted]
               ELSE file

(* The answer reaches the agent.                                           *)
Answered(w, writes) ==
    /\ process.exit < 0 /\ worker[w] = "accepted"
    /\ writes \/ "disk" \in focus
    /\ IF w \in {"heartbeat", "state"} THEN Mark(w, writes) ELSE UNCHANGED <<receipt, file>>
    /\ Returns(w)
    /\ Forget(w)
    /\ UNCHANGED <<focus, cancelled, accepted, presence, crashes, identityVars>>

(* The request was not sent, not delivered, refused, or its answer lost.   *)
ReportFails(w) ==
    /\ process.exit < 0
    /\ \/ worker[w] = "refused"
       \/ worker[w] \in {"post", "accepted"} /\ ("controller" \in focus \/ cancelled)
    /\ Returns(w)
    /\ Forget(w)
    /\ UNCHANGED <<focus, cancelled, receipt, accepted, file, presence, crashes,
                   identityVars>>

-----------------------------------------------------------------------------
(* The presence loop.                                                      *)

Least(m, n) == IF m < n THEN m ELSE n

Connect ==
    /\ presence.pc = "dial"
    /\ presence' = [presence EXCEPT !.pc = "up"]

(* Mutant: every connection that was established ends the series. *)
BackoffAfterConnected(connected) == IF connected THEN InitialBackoff ELSE presence.backoff

(* The attempt counts from the start of the dial.                          *)
BackoffAfter(connected) ==
    IF presence.age >= Stable THEN InitialBackoff ELSE presence.backoff

Disconnect ==
    LET connected == presence.pc = "up"
        backoff == BackoffAfter(connected)
    IN  /\ presence.pc \in {"dial", "up"}
        /\ \E jitter \in 0..(backoff \div 2 - 1) :
             presence' = [pc |-> "sleep", age |-> 0, backoff |-> backoff,
                          wait |-> Least(backoff + jitter, MaxBackoff),
                          streak |-> IF connected /\ presence.age >= Stable THEN 0
                                     ELSE presence.streak]

(* Mutant: the delay doubles without a limit. *)
ReconnectUncapped ==
    /\ presence.pc = "sleep" /\ presence.age >= presence.wait
    /\ presence' = [pc |-> "dial", age |-> 0, backoff |-> 2 * presence.backoff, wait |-> 0,
                    streak |-> Least(presence.streak + 1, MaxStreak)]

Reconnect ==
    /\ presence.pc = "sleep" /\ presence.age >= presence.wait
    /\ presence' = [pc |-> "dial", age |-> 0,
                    backoff |-> Least(2 * presence.backoff, MaxBackoff), wait |-> 0,
                    streak |-> Least(presence.streak + 1, MaxStreak)]

PresenceStep ==
    /\ process.exit < 0 /\ worker["presence"] = "busy" /\ ~cancelled
    /\ "presence" \in focus
    /\ Connect \/ Disconnect \/ Reconnect
    /\ UNCHANGED <<focus, process, cancelled, worker, outgoing, receipt, accepted, file,
                   crashes, metricsVars, identityVars>>

(* Time to the end of a dial, to a stable connection, to the end of a wait.*)
PresenceLimit ==
    CASE presence.pc = "dial" -> DialTimeout
      [] presence.pc = "up" -> Stable
      [] presence.pc = "sleep" -> presence.wait

PresenceTick == presence' = [presence EXCEPT !.age = Least(@ + 1, PresenceLimit)]

-----------------------------------------------------------------------------
(* The process.                                                            *)

(* The configuration is refused, or the spool cannot be opened.            *)
StartFails ==
    /\ process.phase = "start"
    /\ process' = [process EXCEPT !.phase = "returned", !.err = "failed"]
    /\ UNCHANGED <<focus, cancelled, worker, outgoing, receipt, accepted, file, presence,
                   crashes, metricsVars, identityVars>>

Starts ==
    /\ process.phase = "start"
    /\ process' = [process EXCEPT !.phase = "heartbeat"]
    /\ UNCHANGED <<focus, cancelled, worker, outgoing, receipt, accepted, file, presence,
                   crashes, metricsVars, identityVars>>

(* One round of probes and one upload, in the main goroutine.              *)
OnceReturns ==
    /\ process.phase = "once"
    /\ process' = [process EXCEPT !.phase = "returned"]
    /\ UNCHANGED <<focus, cancelled, worker, outgoing, receipt, accepted, file, presence,
                   crashes, metricsVars, identityVars>>

(* Mutant: a loop that waits for a timer does not look at the context. *)
WorkerEndsUnlessWaiting(w) ==
    /\ process.exit < 0 /\ cancelled
    /\ worker[w] = "idle" \/ (w = "prober" /\ worker[w] = "busy")
    /\ worker' = [worker EXCEPT ![w] = "ended"]
    /\ UNCHANGED <<focus, process, cancelled, outgoing, receipt, accepted, file, presence,
                   crashes, metricsVars, identityVars>>

(* A loop sees that its context is cancelled; the calls of the presence    *)
(* connection and of the probe workers return early on it.                 *)
WorkerEnds(w) ==
    /\ process.exit < 0 /\ cancelled
    /\ worker[w] \in {"idle", "busy"}
    /\ worker' = [worker EXCEPT ![w] = "ended"]
    /\ UNCHANGED <<focus, process, cancelled, outgoing, receipt, accepted, file, presence,
                   crashes, metricsVars, identityVars>>

(* Mutant: runAgent does not wait for its workers. *)
RunAgentReturnsEarly ==
    /\ process.phase = "running" /\ cancelled
    /\ process' = [process EXCEPT !.phase = "returned", !.err = "canceled"]
    /\ UNCHANGED <<focus, cancelled, worker, outgoing, receipt, accepted, file, presence,
                   crashes, metricsVars, identityVars>>

RunAgentReturns ==
    /\ process.phase = "running" /\ cancelled
    /\ \A w \in Workers : worker[w] = "ended"
    /\ process' = [process EXCEPT !.phase = "returned", !.err = "canceled"]
    /\ UNCHANGED <<focus, cancelled, worker, outgoing, receipt, accepted, file, presence,
                   crashes, metricsVars, identityVars>>

(* A signal on the console, Stop or Shutdown of the service.               *)
Stop ==
    /\ "stop" \in focus /\ process.exit < 0 /\ ~cancelled
    /\ cancelled' = TRUE
    /\ UNCHANGED <<focus, process, worker, outgoing, receipt, accepted, file, presence,
                   crashes, metricsVars, identityVars>>

(* run has returned: a cancellation is not an error.                       *)
ProcessExits ==
    /\ process.exit < 0 /\ process.phase = "returned"
    /\ process' = [process EXCEPT !.exit = IF process.err = "failed" THEN 1 ELSE 0]
    /\ UNCHANGED <<focus, cancelled, worker, outgoing, receipt, accepted, file, presence,
                   crashes, metricsVars, identityVars>>

(* The service gives up waiting and reports an error.                      *)
StopTimesOut ==
    /\ process.exit < 0 /\ "service" \in focus /\ cancelled
    /\ process.stopAge >= StopLimit
    /\ process' = [process EXCEPT !.exit = 1]
    /\ UNCHANGED <<focus, cancelled, worker, outgoing, receipt, accepted, file, presence,
                   crashes, metricsVars, identityVars>>

NewProcess == [phase |-> "start", err |-> "none", exit |-> -1, stopAge |-> 0]

(* The process dies and the service manager starts the next one; only the  *)
(* receipt is kept.                                                        *)
Crash ==
    /\ "crash" \in focus /\ process.exit < 0 /\ ~cancelled /\ crashes < MaxCrashes
    /\ crashes' = crashes + 1
    /\ process' = NewProcess
    /\ worker' = NotStarted /\ outgoing' = {}
    /\ receipt' = NoReceipt /\ accepted' = {}
    /\ presence' = NewPresence
    /\ NewCollector /\ NewDiscoverer
    /\ UNCHANGED <<focus, cancelled, file>>

(* The process dies while it stops; nothing starts another one.            *)
CrashStopping ==
    /\ "crash" \in focus /\ process.exit < 0 /\ cancelled /\ crashes < MaxCrashes
    /\ crashes' = crashes + 1
    /\ process' = [process EXCEPT !.exit = 1]
    /\ UNCHANGED <<focus, cancelled, worker, outgoing, receipt, accepted, file, presence,
                   metricsVars, identityVars>>

Exited == process.exit >= 0 /\ UNCHANGED reportVars

Tick ==
    /\ process.exit < 0
    /\ IF "network" \in focus THEN MetricsTick ELSE UNCHANGED metricsVars
    /\ IF "providers" \in focus THEN IdentityTick ELSE UNCHANGED identityVars
    /\ IF "presence" \in focus /\ worker["presence"] = "busy" THEN PresenceTick
       ELSE UNCHANGED presence
    /\ process' = IF "service" \in focus /\ cancelled
                  THEN [process EXCEPT !.stopAge = Least(@ + 1, StopLimit)] ELSE process
    /\ UNCHANGED <<focus, cancelled, worker, outgoing, receipt, accepted, file, crashes>>

Machine ==
    /\ process.exit < 0
    /\ \/ "network" \in focus /\ \E i \in Interfaces : Carry(i) \/ Link(i)
       \/ "tables" \in focus /\ \E t \in Tables : Connections(t)
       \/ "cpu" \in focus /\ (Work(1, 0) \/ Work(0, 1) \/ Work(0, -1))
    /\ UNCHANGED <<agentVars, identityVars>>


ReportsInit ==
    /\ MetricsInit /\ IdentityInit
    /\ focus \in Focuses
    /\ process = NewProcess
    /\ cancelled = FALSE
    /\ worker = NotStarted /\ outgoing = {}
    /\ receipt = NoReceipt /\ accepted = {} /\ file = [there |-> FALSE, proof |-> {}]
    /\ presence = NewPresence
    /\ crashes = 0

(* The steps of a report's goroutine and of its request.                   *)
CallStep(w) ==
    \/ w = "heartbeat" /\ ReportHeartbeat
    \/ w = "state" /\ ReportState
    \/ w = "host" /\ (ReportHost \/ DiscoverStep \/ DiscoverReturns)
    \/ ControllerAccepts(w) \/ ReportFails(w)
    \/ \E writes \in BOOLEAN : Answered(w, writes)

MainStep ==
    /\ process.exit < 0
    /\ \/ Starts \/ StartFails \/ OnceReturns
       \/ RunAgentReturns \/ ProcessExits \/ StopTimesOut

WorkerStops == \E w \in Workers : WorkerEnds(w)

ReportsNext ==
    \/ MainStep \/ Exited
    \/ \E w \in Reports : CallStep(w)
    \/ PresenceStep
    \/ WorkerStops
    \/ Stop \/ Crash \/ CrashStopping
    \/ Tick \/ Machine

ReportsSpec == ReportsInit /\ [][ReportsNext]_reportVars

(* Fairness: tickers fire, a call returns within its timeout, a loop whose *)
(* context is cancelled sees it; a Controller asked for ever accepts a     *)
(* report and its answer arrives, and a write tried for ever succeeds.     *)
ReportsFairSpec ==
    /\ ReportsSpec
    /\ WF_reportVars(MainStep)
    /\ \A w \in Reports : WF_reportVars(CallStep(w))
    /\ \A w \in {"heartbeat", "state"} :
         SF_reportVars(ControllerAccepts(w)) /\ SF_reportVars(Answered(w, TRUE))
    /\ SF_reportVars(WorkerStops)

-----------------------------------------------------------------------------
(* Every variable of the process stays in its type.                        *)
ReportsTypeOK ==
    /\ process.phase \in Reports \cup {"start", "once", "running", "returned"}
    /\ process.exit \in -1..1 /\ process.stopAge \in 0..StopLimit
    /\ worker \in [Workers -> Calling \cup {"none", "idle", "ended"}]
    /\ outgoing \subseteq Fields
    /\ receipt \in [heartbeatOK : BOOLEAN, stateOK : BOOLEAN, written : BOOLEAN]
    /\ accepted \subseteq Reports
    /\ file \in [there : BOOLEAN, proof : SUBSET Reports]
    /\ presence \in [pc : {"dial", "up", "sleep"}, age : Nat,
                     backoff : InitialBackoff..MaxBackoff, wait : 0..MaxBackoff,
                     streak : 0..MaxStreak]
    /\ identity.cached \subseteq Fields /\ found \subseteq Fields
    /\ listed \subseteq Interfaces /\ net.total \in 0..MaxTotal /\ net.age \in Ticks

(* The receipt proves what the installer reads from it: the process that   *)
(* wrote it had both a heartbeat and a state report accepted; acceptances  *)
(* of a process that died before do not count.                             *)
ReceiptProven == file.there => {"heartbeat", "state"} \subseteq file.proof

(* A process that keeps running gets its receipt written, whatever reports *)
(* and writes failed before.                                               *)
ReceiptWritten ==
    {"heartbeat", "state"} \subseteq focus /\ <>[](process.phase = "running" /\ ~cancelled)
        => <>file.there

(* A process that exits without an error leaves nothing in flight: no      *)
(* report, connection, probe or upload, and no sample half reported.       *)
CleanExit ==
    process.exit = 0 =>
        /\ \A w \in Workers : worker[w] \in {"none", "ended"}
        /\ ~sample.pending /\ lookup.pc = "none"

(* A stop ends the process, whatever its workers are doing.                *)
StopEnds == cancelled ~> process.exit >= 0

(* A Controller that refuses or drops connections is not dialled faster:   *)
(* the n-th wait in a row is the initial one doubled n times, up to the    *)
(* limit and never past it.  Only a stable connection ends the series,     *)
(* never a slow dial that failed.                                          *)
BackoffGrows ==
    presence.pc = "sleep" =>
        presence.wait \in Least(MaxBackoff, InitialBackoff * 2 ^ presence.streak)..MaxBackoff

(* A host report shows one lookup as a whole, the last that found anything:*)
(* a total failure does not clear what is known, and fields of different   *)
(* lookups are never combined.                                             *)
KnownIdentityKept == worker["host"] \in {"post", "refused", "accepted"} => outgoing = found
=============================================================================
