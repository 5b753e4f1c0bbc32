------------------------- MODULE AgentReportsProofs -------------------------
(***************************************************************************)
(* Proofs about AgentReports, for every set of focuses, all limits and all *)
(* timings.                                                                *)
(***************************************************************************)
EXTENDS AgentReports, FiniteFolds

Phases == Reports \cup {"start", "once", "running", "returned"}
Sending == {"post", "refused", "accepted"}
WorkerStates == Sending \cup {"discover", "busy", "none", "idle", "ended"}

(* Where the process is, and what its workers may do there: the initial    *)
(* reports run one at a time, loops only while the process is running, and *)
(* runAgent returns when none of them is left.                             *)
ControlInv ==
    /\ process \in [phase : Phases, err : {"none", "failed", "canceled"},
                    exit : -1..1, stopAge : Int]
    /\ worker \in [Workers -> WorkerStates]
    /\ process.phase \in {"start", "once"} => \A w \in Workers : worker[w] = "none"
    /\ process.phase \in Reports =>
         /\ worker[process.phase] \in Sending \cup {"none", "discover"}
         /\ \A w \in Workers \ {process.phase} : worker[w] = "none"
    /\ process.phase = "returned" => \A w \in Workers : worker[w] \in {"none", "ended"}
    /\ process.phase = "running" => \A w \in Workers : worker[w] # "none"
    /\ process.exit = 0 => process.phase = "returned"

(* What stands for a report in flight: a sample for the state report, a    *)
(* lookup for the host report.                                             *)
FlightInv ==
    /\ sample.pending => worker["state"] \in Sending
    /\ lookup.pc # "none" => worker["host"] = "discover"

(* What is marked was accepted by the process that marks it.               *)
AcceptedInv ==
    /\ receipt \in [heartbeatOK : BOOLEAN, stateOK : BOOLEAN, written : BOOLEAN]
    /\ \A w \in {"heartbeat", "state"} : worker[w] = "accepted" => w \in accepted
    /\ receipt.heartbeatOK => "heartbeat" \in accepted
    /\ receipt.stateOK => "state" \in accepted
    /\ ReceiptProven

(* The cache holds what the last successful lookup found, and its age is   *)
(* never more than the time since the providers were asked.                *)
CacheInv ==
    /\ identity \in [has : BOOLEAN, cached : SUBSET Fields, age : Nat]
    /\ lookup \in [pc : {"none", "ipv4", "ipv6", "country4", "country6", "done"},
                   got : SUBSET Fields, age : Nat]
    /\ quiet \in 0..IdentityTTL
    /\ identity.cached = found
    /\ KnownIdentityKept
    /\ lookup.pc = "none" /\ identity.has => quiet >= identity.age
    /\ lookup.pc # "none" => quiet = lookup.age

ReportsInv == ControlInv /\ FlightInv /\ AcceptedInv /\ CacheInv

-----------------------------------------------------------------------------
(* The initial states satisfy the invariant.                               *)
LEMMA InitReportsInv == ReportsInit => ReportsInv
<1> SUFFICES ASSUME ReportsInit PROVE ReportsInv
  OBVIOUS
<1> USE DEF ReportsInit, NotStarted, Workers, Reports
<1>1. ControlInv
  BY DEF ControlInv, NewProcess, Phases, WorkerStates
<1>2. FlightInv
  BY DEF FlightInv, MetricsInit, NoSample, IdentityInit, NoLookup
<1>3. AcceptedInv
  BY DEF AcceptedInv, NoReceipt, ReceiptProven
<1>4. CacheInv
  BY IdentityAssumption
  DEF CacheInv, IdentityInit, NoLookup, NoIdentity, KnownIdentityKept, Sending
<1> QED
  BY <1>1, <1>2, <1>3, <1>4 DEF ReportsInv

-----------------------------------------------------------------------------
(* What a step leaves alone stays true.                                    *)
LEMMA ControlSame ==
    ASSUME ControlInv, UNCHANGED <<process, worker>>
    PROVE  ControlInv'
  BY DEF ControlInv

LEMMA FlightSame ==
    ASSUME FlightInv, UNCHANGED <<worker, sample, lookup>>
    PROVE  FlightInv'
  BY DEF FlightInv

LEMMA AcceptedSame ==
    ASSUME AcceptedInv, UNCHANGED <<receipt, accepted, file>>,
           \A w \in {"heartbeat", "state"} : worker'[w] = "accepted" => worker[w] = "accepted"
    PROVE  AcceptedInv'
  BY DEF AcceptedInv, ReceiptProven

LEMMA CacheSame ==
    ASSUME CacheInv, UNCHANGED identityVars,
           worker'["host"] \in Sending =>
               outgoing' = outgoing /\ worker["host"] \in Sending
    PROVE  CacheInv'
  BY DEF CacheInv, identityVars, KnownIdentityKept, Sending

(* A request is sent, or not, by a report that is due.                     *)
LEMMA SendControl ==
    ASSUME ControlInv, NEW w \in Reports, UNCHANGED process,
           Due(w) \/ worker[w] = "discover",
           NEW s \in Sending \cup {"discover"},
           worker' = [worker EXCEPT ![w] = s]
    PROVE  ControlInv'
  BY DEF ControlInv, Due, Sending, Reports, Workers, WorkerStates

(* A report that has ended gives its slot back, to its loop or to runAgent.*)
LEMMA ReturnsControl ==
    ASSUME ControlInv, NEW w \in Reports, worker[w] \in Sending, Returns(w)
    PROVE  ControlInv' /\ worker'[w] \notin Calling
           /\ \A v \in Reports \ {w} : worker'[v] = worker[v] \/ worker'[v] \in {"none", "idle"}
<1>1. CASE process.phase = w
  <2>1. NextPhase \in Phases \ {"start", "returned"} /\ (NextPhase \in Reports => NextPhase # w)
    BY <1>1 DEF NextPhase, Phases, Reports
  <2>2. CASE NextPhase = "running"
    BY <1>1, <2>1, <2>2 DEF Returns, ControlInv, Reports, Workers, WorkerStates, Calling, Phases
  <2>3. CASE NextPhase # "running"
    BY <1>1, <2>1, <2>3
    DEF Returns, ControlInv, Reports, Workers, WorkerStates, Calling, NotStarted, Phases, Sending
  <2> QED
    BY <2>2, <2>3
<1>2. CASE process.phase # w
  <2>1. process.phase = "running"
    BY <1>2 DEF ControlInv, Sending, Phases, Reports, Workers
  <2> QED
    BY <1>2, <2>1 DEF Returns, ControlInv, Reports, Workers, WorkerStates, Calling, Sending
<1> QED
  BY <1>1, <1>2

-----------------------------------------------------------------------------
(* A report begins.                                                        *)
LEMMA BeginsInv ==
    ASSUME ReportsInv, ReportHeartbeat \/ ReportState
    PROVE  ReportsInv'
<1> USE DEF ReportsInv
<1>1. CASE ReportHeartbeat
  <2>1. \E s \in {"post", "refused"} : worker' = [worker EXCEPT !["heartbeat"] = s]
    BY <1>1 DEF ReportHeartbeat, Send
  <2>2. ControlInv'
    BY <1>1, <2>1, SendControl DEF ReportHeartbeat, Reports, Sending
  <2>3. FlightInv'
    BY <1>1, <2>1 DEF ReportHeartbeat, FlightInv, ControlInv, Workers, Reports, metricsVars,
                      identityVars
  <2>4. AcceptedInv'
    BY <1>1, <2>1, AcceptedSame DEF ReportHeartbeat, ControlInv, Workers, Reports
  <2>5. CacheInv'
    BY <1>1, <2>1, CacheSame DEF ReportHeartbeat, ControlInv, Workers, Reports
  <2> QED
    BY <2>2, <2>3, <2>4, <2>5
<1>2. CASE ReportState
  <2>1. \E s \in {"post", "refused"} : worker' = [worker EXCEPT !["state"] = s]
    BY <1>2 DEF ReportState, Send
  <2>2. ControlInv'
    BY <1>2, <2>1, SendControl DEF ReportState, Reports, Sending
  <2>3. FlightInv'
    BY <1>2, <2>1 DEF ReportState, FlightInv, ControlInv, Workers, Reports, identityVars,
                      Sending
  <2>4. AcceptedInv'
    BY <1>2, <2>1, AcceptedSame DEF ReportState, ControlInv, Workers, Reports
  <2>5. CacheInv'
    BY <1>2, <2>1, CacheSame DEF ReportState, ControlInv, Workers, Reports
  <2> QED
    BY <2>2, <2>3, <2>4, <2>5
<1> QED
  BY <1>1, <1>2

(* The host report begins, with the cached identity or with a lookup.      *)
LEMMA HostInv ==
    ASSUME ReportsInv, ReportHost
    PROVE  ReportsInv'
<1> USE DEF ReportsInv
<1>1. PICK s \in {"post", "refused", "discover"} :
        /\ worker' = [worker EXCEPT !["host"] = s]
        /\ \/ s # "discover" /\ outgoing' = identity.cached /\ UNCHANGED identityVars
           \/ s = "discover" /\ StartLookup
  BY DEF ReportHost, Send
<1>2. worker["host"] \in {"none", "idle"} /\ lookup.pc = "none"
  BY DEF ReportHost, Due, FlightInv
<1>3. ControlInv'
  BY <1>1, SendControl DEF ReportHost, Reports, Sending
<1>4. FlightInv'
  BY <1>1, <1>2 DEF ReportHost, FlightInv, ControlInv, Workers, Reports, metricsVars,
                    identityVars
<1>5. AcceptedInv'
  BY <1>1, AcceptedSame DEF ReportHost, ControlInv, Workers, Reports
<1>6. CacheInv'
  <2>1. CASE s # "discover"
    BY <1>1, <2>1 DEF CacheInv, identityVars, KnownIdentityKept, ControlInv, Workers, Reports
  <2>2. CASE s = "discover"
    BY <1>1, <2>2, IdentityAssumption
    DEF CacheInv, StartLookup, KnownIdentityKept, ControlInv, Workers, Reports
  <2> QED
    BY <2>1, <2>2
<1> QED
  BY <1>3, <1>4, <1>5, <1>6

(* A lookup goes on and ends.                                              *)
LEMMA DiscoverInv ==
    ASSUME ReportsInv, DiscoverStep \/ DiscoverReturns
    PROVE  ReportsInv'
<1> USE DEF ReportsInv
<1>1. CASE DiscoverStep
  <2>1. PICK got : /\ got \in SUBSET Fields
                   /\ lookup' = [lookup EXCEPT !.pc = NextRequest(@, got), !.got = got]
    BY <1>1 DEF DiscoverStep, Fetch, CacheInv, FieldOf, Fields
  <2>2. \A pc : NextRequest(pc, got) \in {"ipv6", "country4", "country6", "done"}
    BY DEF NextRequest
  <2>3. ControlInv'
    BY <1>1, ControlSame DEF DiscoverStep, agentVars
  <2>4. FlightInv'
    BY <1>1 DEF DiscoverStep, FlightInv, agentVars, metricsVars
  <2>5. AcceptedInv'
    BY <1>1, AcceptedSame DEF DiscoverStep, agentVars
  <2>6. CacheInv'
    BY <1>1, <2>1, <2>2
    DEF DiscoverStep, Fetch, CacheInv, KnownIdentityKept, agentVars
  <2> QED
    BY <2>3, <2>4, <2>5, <2>6
<1>2. CASE DiscoverReturns
  <2>1. \E s \in {"post", "refused"} : worker' = [worker EXCEPT !["host"] = s]
    BY <1>2 DEF DiscoverReturns, Send
  <2>2. ControlInv'
    BY <1>2, <2>1, SendControl DEF DiscoverReturns, Reports, Sending
  <2>3. FlightInv'
    BY <1>2, <2>1 DEF DiscoverReturns, FlightInv, ControlInv, Workers, Reports, metricsVars,
                      EndLookup, NoLookup
  <2>4. AcceptedInv'
    BY <1>2, <2>1, AcceptedSame DEF DiscoverReturns, ControlInv, Workers, Reports
  <2>5. identity' \in [has : BOOLEAN, cached : SUBSET Fields, age : Nat]
        /\ identity'.age = lookup.age /\ identity'.cached = found'
    BY <1>2 DEF DiscoverReturns, EndLookup, CacheInv, CacheAfter
  <2>6. CacheInv'
    BY <1>2, <2>5
    DEF DiscoverReturns, EndLookup, CacheInv, KnownIdentityKept, NoLookup
  <2> QED
    BY <2>2, <2>3, <2>4, <2>6
<1> QED
  BY <1>1, <1>2

(* The Controller accepts a report.                                        *)
LEMMA AcceptsInv ==
    ASSUME ReportsInv, NEW w \in Reports, ControllerAccepts(w)
    PROVE  ReportsInv'
<1> USE DEF ReportsInv, ControllerAccepts
<1>1. ControlInv'
  BY DEF ControlInv, Reports, Workers, Sending, WorkerStates
<1>2. FlightInv'
  BY DEF FlightInv, ControlInv, Reports, Workers, Sending, metricsVars, identityVars
<1>3. AcceptedInv'
  BY DEF AcceptedInv, ControlInv, Reports, Workers, ReceiptProven
<1>4. CacheInv'
  BY CacheSame DEF ControlInv, Reports, Workers, Sending
<1> QED
  BY <1>1, <1>2, <1>3, <1>4

(* A report ends, with whatever it does to the receipt.                    *)
LEMMA EndsInv ==
    ASSUME ReportsInv, NEW w \in Reports, worker[w] \in Sending, Returns(w), Forget(w),
           UNCHANGED identityVars
    PROVE  /\ ControlInv' /\ FlightInv' /\ CacheInv'
           /\ \A v \in Reports : worker'[v] = "accepted" => worker[v] = "accepted"
<1> USE DEF ReportsInv
<1>1. /\ ControlInv' /\ worker'[w] \notin Calling
      /\ \A v \in Reports \ {w} : worker'[v] = worker[v] \/ worker'[v] \in {"none", "idle"}
  BY ReturnsControl
<1>2. \A v \in Reports \ {w} : worker[v] \in Calling => worker'[v] = worker[v]
  BY DEF Returns, ControlInv, Reports, Workers, Calling
<1>3. FlightInv'
  BY <1>1, <1>2 DEF FlightInv, Forget, DropSample, NoSample, identityVars, Reports, Sending,
                    Calling
<1>4. CacheInv'
  BY <1>1, <1>2, CacheSame DEF Forget, Reports, Sending, Calling
<1>5. \A v \in Reports : worker'[v] = "accepted" => worker[v] = "accepted"
  BY <1>1 DEF Calling
<1> QED
  BY <1>1, <1>3, <1>4, <1>5

(* The answer arrives and is marked, or the report fails.                  *)
LEMMA ReportEndsInv ==
    ASSUME ReportsInv, NEW w \in Reports,
           ReportFails(w) \/ \E writes \in BOOLEAN : Answered(w, writes)
    PROVE  ReportsInv'
<1> USE DEF ReportsInv
<1>1. CASE ReportFails(w)
  <2>1. worker[w] \in Sending
    BY <1>1 DEF ReportFails, Sending
  <2>2. /\ ControlInv' /\ FlightInv' /\ CacheInv'
        /\ \A v \in Reports : worker'[v] = "accepted" => worker[v] = "accepted"
    BY <1>1, <2>1, EndsInv DEF ReportFails
  <2>3. AcceptedInv'
    BY <1>1, <2>2, AcceptedSame DEF ReportFails, Reports
  <2> QED
    BY <2>2, <2>3
<1>2. ASSUME NEW writes \in BOOLEAN, Answered(w, writes) PROVE ReportsInv'
  <2>1. worker[w] = "accepted"
    BY <1>2 DEF Answered
  <2>2. /\ ControlInv' /\ FlightInv' /\ CacheInv'
        /\ \A v \in Reports : worker'[v] = "accepted" => worker[v] = "accepted"
    BY <1>2, <2>1, EndsInv DEF Answered, Sending
  <2>3. CASE w \notin {"heartbeat", "state"}
    BY <1>2, <2>2, <2>3, AcceptedSame DEF Answered, Reports
  <2>4. CASE w \in {"heartbeat", "state"}
    <3>1. /\ Noted(w) \in [heartbeatOK : BOOLEAN, stateOK : BOOLEAN, written : BOOLEAN]
          /\ Noted(w).heartbeatOK => "heartbeat" \in accepted
          /\ Noted(w).stateOK => "state" \in accepted
      BY <2>1, <2>4 DEF Noted, AcceptedInv
    <3>2. /\ receipt' \in [heartbeatOK : BOOLEAN, stateOK : BOOLEAN, written : BOOLEAN]
          /\ receipt'.heartbeatOK = Noted(w).heartbeatOK
          /\ receipt'.stateOK = Noted(w).stateOK
      BY <1>2, <2>4, <3>1 DEF Answered, Mark, Marked
    <3>3. ReceiptProven'
      BY <1>2, <2>4, <3>1 DEF Answered, Mark, Ready, ReceiptProven, AcceptedInv
    <3>4. accepted' = accepted
      BY <1>2 DEF Answered
    <3>5. AcceptedInv'
      BY <2>2, <3>1, <3>2, <3>3, <3>4 DEF AcceptedInv, Reports
    <3> QED
      BY <2>2, <3>5
  <2> QED
    BY <2>3, <2>4
<1> QED
  BY <1>1, <1>2

-----------------------------------------------------------------------------
(* The main goroutine: nothing is in flight when runAgent returns, and a   *)
(* death while stopping is no exit without an error.                       *)
LEMMA MainInv ==
    ASSUME ReportsInv, MainStep \/ CrashStopping
    PROVE  ReportsInv'
<1> USE DEF ReportsInv
<1>1. UNCHANGED <<worker, outgoing, receipt, accepted, file, sample, identityVars>>
  BY DEF MainStep, Starts, StartFails, OnceReturns, RunAgentReturns, ProcessExits,
         StopTimesOut, CrashStopping, metricsVars
<1>2. ControlInv'
  <2>1. CASE Starts \/ StartFails \/ OnceReturns
    BY <2>1 DEF MainStep, Starts, StartFails, OnceReturns, ControlInv, Phases, Reports, Workers
  <2>2. CASE RunAgentReturns
    BY <2>2 DEF MainStep, RunAgentReturns, ControlInv, Phases, Reports, Workers
  <2>3. CASE ProcessExits \/ StopTimesOut
    BY <2>3 DEF MainStep, ProcessExits, StopTimesOut, ControlInv, Phases, Reports, Workers
  <2>4. CASE CrashStopping
    BY <2>4 DEF CrashStopping, ControlInv, Phases, Reports, Workers
  <2> QED
    BY <2>1, <2>2, <2>3, <2>4 DEF MainStep
<1>3. FlightInv' /\ AcceptedInv' /\ CacheInv'
  BY <1>1, FlightSame, AcceptedSame, CacheSame DEF identityVars
<1> QED
  BY <1>2, <1>3

(* A worker sees that the context is cancelled.                            *)
LEMMA WorkerEndsInv ==
    ASSUME ReportsInv, NEW w \in Workers, WorkerEnds(w)
    PROVE  ReportsInv'
<1> USE DEF ReportsInv, WorkerEnds
<1>1. ControlInv'
  BY DEF ControlInv, Phases, Reports, Workers, WorkerStates, Sending
<1>2. FlightInv'
  BY DEF FlightInv, ControlInv, Workers, Reports, Sending, metricsVars, identityVars
<1>3. AcceptedInv'
  BY AcceptedSame DEF ControlInv, Workers, Reports
<1>4. CacheInv'
  BY CacheSame DEF ControlInv, Workers, Reports, Sending
<1> QED
  BY <1>1, <1>2, <1>3, <1>4

(* A crash loses everything but the receipt.                               *)
LEMMA CrashInv ==
    ASSUME ReportsInv, Crash
    PROVE  ReportsInv'
<1> USE DEF ReportsInv, Crash, NotStarted, Workers, Reports
<1>1. ControlInv'
  BY DEF ControlInv, NewProcess, Phases, WorkerStates
<1>2. FlightInv'
  BY DEF FlightInv, NewCollector, NoSample, NewDiscoverer, NoLookup
<1>3. AcceptedInv'
  BY DEF AcceptedInv, NoReceipt, ReceiptProven
<1>4. CacheInv'
  BY IdentityAssumption
  DEF CacheInv, NewDiscoverer, NoLookup, NoIdentity, KnownIdentityKept
<1> QED
  BY <1>1, <1>2, <1>3, <1>4

(* Time passes.                                                            *)
LEMMA TickInv ==
    ASSUME ReportsInv, Tick
    PROVE  ReportsInv'
<1> USE DEF ReportsInv
<1>1. UNCHANGED <<worker, outgoing, receipt, accepted, file, sample>>
  BY DEF Tick, MetricsTick, metricsVars
<1>2. ControlInv'
  BY ReportsAssumption DEF Tick, ControlInv, Least
<1>3. lookup' = lookup \/ (lookup.pc # "none" /\ lookup' = [lookup EXCEPT !.age = @ + 1])
  BY DEF Tick, IdentityTick, identityVars
<1>4. FlightInv'
  BY <1>1, <1>3 DEF FlightInv, CacheInv
<1>5. AcceptedInv'
  BY <1>1, AcceptedSame
<1>6. CacheInv'
  <2>1. CASE UNCHANGED identityVars
    BY <1>1, <2>1, CacheSame
  <2>2. CASE IdentityTick
    <3>1. KnownIdentityKept' /\ identity'.cached = found'
      BY <1>1, <2>2 DEF IdentityTick, CacheInv, KnownIdentityKept
    <3>2. CASE lookup.pc = "none"
      BY <2>2, <3>1, <3>2, IdentityAssumption DEF IdentityTick, CacheInv, Older
    <3>3. CASE lookup.pc # "none"
      BY <2>2, <3>1, <3>3, IdentityAssumption DEF IdentityTick, CacheInv, Older
    <3> QED
      BY <3>2, <3>3
  <2> QED
    BY <2>1, <2>2 DEF Tick
<1> QED
  BY <1>2, <1>4, <1>5, <1>6

(* The steps that concern neither reports nor the identity.                *)
LEMMA OtherInv ==
    ASSUME ReportsInv,
           PresenceStep \/ Stop \/ Exited \/ Machine \/ UNCHANGED reportVars
    PROVE  ReportsInv'
<1>1. UNCHANGED <<process, worker, outgoing, receipt, accepted, file, sample, identityVars>>
  BY DEF PresenceStep, Stop, Exited, Machine, Carry, Link, Connections, Work, reportVars,
         agentVars, metricsVars
<1> QED
  BY <1>1, ControlSame, FlightSame, AcceptedSame, CacheSame DEF ReportsInv, identityVars

(* Every step keeps the invariant.                                         *)
LEMMA NextReportsInv ==
    ASSUME ReportsInv, [ReportsNext]_reportVars
    PROVE  ReportsInv'
<1>1. CASE MainStep \/ CrashStopping
  BY <1>1, MainInv
<1>2. ASSUME NEW w \in Reports, CallStep(w) PROVE ReportsInv'
  BY <1>2, BeginsInv, HostInv, DiscoverInv, AcceptsInv, ReportEndsInv DEF CallStep
<1>3. CASE WorkerStops
  BY <1>3, WorkerEndsInv DEF WorkerStops
<1>4. CASE Crash
  BY <1>4, CrashInv
<1>5. CASE Tick
  BY <1>5, TickInv
<1>6. CASE PresenceStep \/ Stop \/ Exited \/ Machine \/ UNCHANGED reportVars
  BY <1>6, OtherInv
<1> QED
  BY <1>1, <1>2, <1>3, <1>4, <1>5, <1>6 DEF ReportsNext

(* The invariant holds in every behaviour of the process.                  *)
THEOREM ReportsInvariant == ReportsSpec => []ReportsInv
<1>1. ReportsInv /\ [ReportsNext]_reportVars => ReportsInv'
  BY NextReportsInv
<1> QED
  BY InitReportsInv, <1>1, PTL DEF ReportsSpec

-----------------------------------------------------------------------------
(* A receipt for the installer proves that the process that wrote it had   *)
(* both a heartbeat and a state report accepted (mark in                   *)
(* install_receipt.go), through lost answers, failed writes and crashes.   *)
THEOREM ReceiptIsProof == ReportsSpec => []ReceiptProven
<1>1. ReportsInv => ReceiptProven
  BY DEF ReportsInv, AcceptedInv
<1> QED
  BY ReportsInvariant, <1>1, PTL

(* An exit without an error leaves nothing in flight: runAgent waits for   *)
(* its workers, and no initial report is abandoned.                        *)
THEOREM ExitsClean == ReportsSpec => []CleanExit
<1>1. ReportsInv => CleanExit
  BY DEF ReportsInv, ControlInv, FlightInv, CleanExit, Sending, Workers, Reports
<1> QED
  BY ReportsInvariant, <1>1, PTL

(* A host report shows the last successful lookup as a whole (Discover of  *)
(* the cached discoverer in network_identity.go).                          *)
THEOREM IdentityIsKept == ReportsSpec => []KnownIdentityKept
<1>1. ReportsInv => KnownIdentityKept
  BY DEF ReportsInv, CacheInv
<1> QED
  BY ReportsInvariant, <1>1, PTL

(* Only the host report starts a lookup, and only when the cache is old:   *)
(* then the time since the providers were asked is at least the interval.  *)
LEMMA LookupStarts ==
    ASSUME ReportsInv, [ReportsNext]_reportVars,
           lookup.pc = "none", lookup'.pc # "none", identity.has
    PROVE  quiet >= IdentityTTL
<1> USE DEF ReportsInv
<1>1. CASE ReportHost
  BY <1>1, IdentityAssumption DEF ReportHost, Fresh, CacheInv, identityVars
<1>2. CASE ~ReportHost
  <2>1. lookup' = lookup \/ lookup'.pc = "none"
    <3>1. CASE MainStep \/ WorkerStops
      BY <3>1 DEF MainStep, Starts, StartFails, OnceReturns, RunAgentReturns, ProcessExits,
                  StopTimesOut, WorkerStops, WorkerEnds, identityVars
    <3>2. ASSUME NEW w \in Reports, CallStep(w)
          PROVE  lookup' = lookup \/ lookup'.pc = "none"
      BY <1>2, <3>2 DEF CallStep, ReportHeartbeat, ReportState, DiscoverStep, Fetch,
                        DiscoverReturns, EndLookup, NoLookup, ControllerAccepts, ReportFails,
                        Answered, identityVars
    <3>3. CASE Crash
      BY <3>3 DEF Crash, NewDiscoverer, NoLookup
    <3>4. CASE Tick
      BY <3>4 DEF Tick, IdentityTick, identityVars
    <3>5. CASE PresenceStep \/ Stop \/ CrashStopping \/ Exited \/ Machine
               \/ UNCHANGED reportVars
      BY <3>5 DEF PresenceStep, Stop, CrashStopping, Exited, Machine, reportVars, identityVars
    <3> QED
      BY <3>1, <3>2, <3>3, <3>4, <3>5 DEF ReportsNext
  <2> QED
    BY <2>1
<1> QED
  BY <1>1, <1>2

(* The providers are asked at most once per refresh interval after they    *)
(* have told anything, also while they fail.                               *)
THEOREM ProvidersLeftAlone == ReportsSpec => ProvidersSpared
<1>1. ReportsInv /\ [ReportsNext]_reportVars =>
        [lookup.pc = "none" /\ lookup'.pc # "none" /\ identity.has =>
            quiet >= IdentityTTL]_identityVars
  BY LookupStarts
<1> QED
  BY ReportsInvariant, <1>1, PTL DEF ReportsSpec, ProvidersSpared

(* Only CollectState makes a sample.                                       *)
LEMMA OnlyCollected ==
    ASSUME [ReportsNext]_reportVars, Collected
    PROVE  ReportState
<1> SUFFICES ASSUME ~ReportState PROVE sample' = sample \/ ~sample'.pending
  BY DEF Collected
<1>1. CASE MainStep \/ WorkerStops
  BY <1>1 DEF MainStep, Starts, StartFails, OnceReturns, RunAgentReturns, ProcessExits,
              StopTimesOut, WorkerStops, WorkerEnds, metricsVars
<1>2. ASSUME NEW w \in Reports, CallStep(w) PROVE sample' = sample \/ ~sample'.pending
  BY <1>2 DEF CallStep, ReportHeartbeat, ReportHost, DiscoverStep, DiscoverReturns,
              ControllerAccepts, ReportFails, Answered, Forget, DropSample, NoSample,
              metricsVars
<1>3. CASE Crash
  BY <1>3 DEF Crash, NewCollector, NoSample
<1>4. CASE Tick
  BY <1>4 DEF Tick, MetricsTick, metricsVars
<1>5. CASE PresenceStep \/ Stop \/ CrashStopping \/ Exited \/ Machine \/ UNCHANGED reportVars
  BY <1>5 DEF PresenceStep, Stop, CrashStopping, Exited, Machine, Carry, Link, Connections, Work,
              reportVars, metricsVars
<1> QED
  BY <1>1, <1>2, <1>3, <1>4, <1>5 DEF ReportsNext

-----------------------------------------------------------------------------
(* The presence loop: a delay is never below the initial one doubled for   *)
(* every unstable connection in a row; a dial ends before a connection     *)
(* would count as stable, so only a connection that was up resets it.      *)
PresenceInv ==
    /\ presence \in [pc : {"dial", "up", "sleep"}, age : Nat,
                     backoff : InitialBackoff..MaxBackoff, wait : 0..MaxBackoff,
                     streak : 0..MaxStreak]
    /\ presence.pc = "dial" => presence.age =< DialTimeout
    /\ presence.pc = "sleep" => presence.wait >= presence.backoff
    /\ presence.backoff >= Least(MaxBackoff, InitialBackoff * 2 ^ presence.streak)

(* The interfaces of the last valid reading now count at most what they    *)
(* counted then and have carried since, and exactly that when no counter   *)
(* began again.  After a reading of the legacy table, which lacks the      *)
(* upper part of every counter, this holds of the legacy counters only,    *)
(* and only as a bound.                                                    *)
TrafficInv ==
    /\ counter \in [Interfaces -> Nat] /\ listed \subseteq Interfaces
    /\ net \in [has : BOOLEAN, total : 0..MaxTotal, source : SUBSET Monitored, age : Ticks]
    /\ traffic \in [carried : [Interfaces -> Nat], ticks : Ticks, restarted : BOOLEAN,
                   legacy : BOOLEAN]
    /\ net.age = traffic.ticks
    /\ net.has =>
         /\ Sum(LegacyOf(counter), net.source) =< net.total + Sum(traffic.carried, net.source)
         /\ ~traffic.legacy =>
              Sum(counter, net.source) =< net.total + Sum(traffic.carried, net.source)
         /\ ~traffic.legacy /\ ~traffic.restarted =>
              Sum(counter, net.source) = net.total + Sum(traffic.carried, net.source)

(* A processor time is the last one read and what has passed since, of     *)
(* which at most one overflow is missing.                                  *)
Passed(now, before, time) == now \in {before + time, before + time - Word}

LoadInv ==
    /\ times \in [total : 0..(Word - 1), idle : 0..(Word - 1)]
    /\ cpu \in [has : BOOLEAN, total : 0..(Word - 1), idle : 0..(Word - 1)]
    /\ load \in [busy : Nat, idle : Nat, back : BOOLEAN]
    /\ load.busy + load.idle =< MaxLoad
    /\ cpu.has /\ ~load.back =>
         /\ Passed(times.total, cpu.total, load.busy + load.idle)
         /\ Passed(times.idle, cpu.idle, load.idle)

(* The rest of what a process keeps, beside what ReportsInv says of it.    *)
KeptInv ==
    /\ process.stopAge \in 0..StopLimit
    /\ outgoing \subseteq Fields
    /\ accepted \subseteq Reports
    /\ file \in [there : BOOLEAN, proof : SUBSET Reports]

MeasureInv == PresenceInv /\ TrafficInv /\ LoadInv /\ KeptInv

-----------------------------------------------------------------------------
(* The steps that change the presence loop.                                *)
LEMMA PresenceSteps ==
    ASSUME [ReportsNext]_reportVars
    PROVE  Connect \/ Disconnect \/ Reconnect \/ PresenceTick \/ presence' = NewPresence
           \/ UNCHANGED presence
<1>1. CASE MainStep \/ WorkerStops
  BY <1>1 DEF MainStep, Starts, StartFails, OnceReturns, RunAgentReturns, ProcessExits,
              StopTimesOut, WorkerStops, WorkerEnds
<1>2. ASSUME NEW w \in Reports, CallStep(w) PROVE UNCHANGED presence
  BY <1>2 DEF CallStep, ReportHeartbeat, ReportState, ReportHost, DiscoverStep,
              DiscoverReturns, ControllerAccepts, ReportFails, Answered, agentVars
<1>3. CASE Tick \/ PresenceStep
  BY <1>3 DEF Tick, PresenceStep
<1>4. CASE Stop \/ Crash \/ CrashStopping \/ Exited \/ Machine \/ UNCHANGED reportVars
  BY <1>4 DEF Stop, Crash, CrashStopping, Exited, Machine, reportVars, agentVars
<1> QED
  BY <1>1, <1>2, <1>3, <1>4 DEF ReportsNext

(* The variables that a reading compares, and the steps that change them.  *)
readVars == <<counter, listed, times, net, cpu, traffic, load>>

LEMMA ReadingSteps ==
    ASSUME [ReportsNext]_reportVars
    PROVE  \/ UNCHANGED readVars
           \/ ReportState
           \/ MetricsTick \/ NewCollector
           \/ \E i \in Interfaces : Carry(i) \/ Link(i)
           \/ Work(1, 0) \/ Work(0, 1) \/ Work(0, -1)
<1> USE DEF readVars
<1>1. CASE MainStep \/ WorkerStops
  BY <1>1 DEF MainStep, Starts, StartFails, OnceReturns, RunAgentReturns, ProcessExits,
              StopTimesOut, WorkerStops, WorkerEnds, metricsVars
<1>2. ASSUME NEW w \in Reports, CallStep(w) PROVE UNCHANGED readVars \/ ReportState
  BY <1>2 DEF CallStep, ReportHeartbeat, ReportHost, DiscoverStep, DiscoverReturns,
              ControllerAccepts, ReportFails, Answered, Forget, metricsVars
<1>3. CASE Tick \/ Crash
  BY <1>3 DEF Tick, Crash, metricsVars
<1>4. CASE Machine
  BY <1>4 DEF Machine, Connections
<1>5. CASE PresenceStep \/ Stop \/ CrashStopping \/ Exited \/ UNCHANGED reportVars
  BY <1>5 DEF PresenceStep, Stop, CrashStopping, Exited, reportVars, metricsVars
<1> QED
  BY <1>1, <1>2, <1>3, <1>4, <1>5 DEF ReportsNext

-----------------------------------------------------------------------------
(* The least delay after n unstable connections, and after one more.       *)
LeastBackoff(n) == Least(MaxBackoff, InitialBackoff * 2 ^ n)

LEMMA BackoffDoubles ==
    ASSUME NEW n \in Nat, NEW backoff \in Int, backoff >= LeastBackoff(n)
    PROVE  Least(2 * backoff, MaxBackoff) >= LeastBackoff(n + 1)
<1> DEFINE power == 2 ^ n
           delay == InitialBackoff * power
<1>1. power \in Nat /\ 2 ^ (n + 1) = 2 * power
  BY PowerCounts, PowerDoubles, Zenon
<1>2. backoff >= Least(MaxBackoff, delay)
  BY Zenon DEF LeastBackoff
<1>3. LeastBackoff(n + 1) = Least(MaxBackoff, InitialBackoff * (2 * power))
  BY <1>1, Zenon DEF LeastBackoff
<1> HIDE DEF power
<1>4. delay \in Nat /\ InitialBackoff * (2 * power) = 2 * delay
  BY <1>1, ReportsAssumption
<1> HIDE DEF delay
<1>5. LeastBackoff(n + 1) = Least(MaxBackoff, 2 * delay)
  BY <1>3, <1>4, Zenon
<1>6. Least(2 * backoff, MaxBackoff) >= Least(MaxBackoff, 2 * delay)
  BY <1>2, <1>4, ReportsAssumption DEF Least
<1> QED
  BY <1>5, <1>6, Zenon

(* No delay need be longer than the initial one at the start of a series.  *)
LEMMA BackoffStarts == LeastBackoff(0) = InitialBackoff
<1>1. 2 ^ 0 = 1
  OBVIOUS
<1>2. LeastBackoff(0) = Least(MaxBackoff, InitialBackoff * 1)
  BY <1>1, Zenon DEF LeastBackoff
<1> QED
  BY <1>2, ReportsAssumption DEF Least

(* The presence loop keeps its invariant.                                  *)
LEMMA PresenceKept ==
    ASSUME PresenceInv, [ReportsNext]_reportVars
    PROVE  PresenceInv'
<1> DEFINE Type == [pc : {"dial", "up", "sleep"}, age : Nat,
                    backoff : InitialBackoff..MaxBackoff, wait : 0..MaxBackoff,
                    streak : 0..MaxStreak]
<1>1. /\ presence \in Type
      /\ presence.pc = "dial" => presence.age =< DialTimeout
      /\ presence.pc = "sleep" => presence.wait >= presence.backoff
      /\ presence.backoff >= LeastBackoff(presence.streak)
  BY DEF PresenceInv, LeastBackoff
<1> SUFFICES /\ presence' \in Type
             /\ presence'.pc = "dial" => presence'.age =< DialTimeout
             /\ presence'.pc = "sleep" => presence'.wait >= presence'.backoff
             /\ presence'.backoff >= LeastBackoff(presence'.streak)
  BY DEF PresenceInv, LeastBackoff
<1>2. CASE Connect
  BY <1>1, <1>2 DEF Connect
<1>3. CASE Disconnect
  <2> DEFINE connected == presence.pc = "up"
             backoff == BackoffAfter(connected)
             streak == IF connected /\ presence.age >= Stable THEN 0 ELSE presence.streak
  <2>1. backoff \in InitialBackoff..MaxBackoff /\ streak \in 0..MaxStreak
    BY <1>1, ReportsAssumption DEF BackoffAfter
  <2>2. backoff >= LeastBackoff(streak)
    <3>1. CASE presence.age >= Stable
      <4>1. connected
        BY <1>1, <1>3, <3>1, ReportsAssumption DEF Disconnect
      <4>2. backoff = InitialBackoff /\ streak = 0
        BY <3>1, <4>1 DEF BackoffAfter
      <4> QED
        BY <4>2, BackoffStarts, ReportsAssumption
    <3>2. CASE ~(presence.age >= Stable)
      BY <1>1, <3>2 DEF BackoffAfter
    <3> QED
      BY <3>1, <3>2
  <2>3. PICK jitter \in 0..(backoff \div 2 - 1) :
          presence' = [pc |-> "sleep", age |-> 0, backoff |-> backoff,
                       wait |-> Least(backoff + jitter, MaxBackoff), streak |-> streak]
    BY <1>3, Zenon DEF Disconnect
  <2> HIDE DEF connected, backoff, streak
  <2>4. jitter \in Nat
    BY <2>1, ReportsAssumption
  <2>5. /\ Least(backoff + jitter, MaxBackoff) \in 0..MaxBackoff
        /\ Least(backoff + jitter, MaxBackoff) >= backoff
    BY <2>1, <2>4, ReportsAssumption DEF Least
  <2> QED
    BY <2>1, <2>2, <2>3, <2>5
<1>4. CASE Reconnect
  <2> DEFINE backoff == Least(2 * presence.backoff, MaxBackoff)
             streak == Least(presence.streak + 1, MaxStreak)
  <2>1. presence' = [pc |-> "dial", age |-> 0, backoff |-> backoff, wait |-> 0,
                     streak |-> streak]
    BY <1>4 DEF Reconnect
  <2>2. /\ backoff \in InitialBackoff..MaxBackoff /\ streak \in 0..MaxStreak
        /\ backoff >= presence.backoff
        /\ streak = presence.streak \/ streak = presence.streak + 1
    BY <1>1, ReportsAssumption DEF Least
  <2>3. backoff >= LeastBackoff(presence.streak + 1)
    BY <1>1, BackoffDoubles
  <2>4. LeastBackoff(presence.streak) \in Int
    <3>1. presence.streak \in Nat
      BY <1>1
    <3>2. 2 ^ presence.streak \in Nat
      BY <3>1, PowerCounts, Zenon
    <3> QED
      BY <3>2, ReportsAssumption DEF LeastBackoff, Least
  <2> HIDE DEF backoff, streak
  <2>5. backoff >= LeastBackoff(streak)
    <3>1. CASE streak = presence.streak
      <4>1. backoff >= LeastBackoff(presence.streak)
        BY <1>1, <2>2, <2>4
      <4> QED
        BY <3>1, <4>1, Zenon
    <3>2. CASE streak = presence.streak + 1
      BY <2>3, <3>2, Zenon
    <3> QED
      BY <2>2, <3>1, <3>2
  <2>6. 0 \in Nat /\ 0 \in 0..MaxBackoff /\ 0 =< DialTimeout
    BY ReportsAssumption
  <2> QED
    BY <2>1, <2>2, <2>5, <2>6
<1>5. CASE PresenceTick
  <2>1. presence' = [presence EXCEPT !.age = Least(@ + 1, PresenceLimit)]
    BY <1>5 DEF PresenceTick
  <2>2. PresenceLimit \in Nat /\ (presence.pc = "dial" => PresenceLimit = DialTimeout)
    BY <1>1, ReportsAssumption DEF PresenceLimit
  <2>3. /\ Least(presence.age + 1, PresenceLimit) \in Nat
        /\ Least(presence.age + 1, PresenceLimit) =< PresenceLimit
    BY <1>1, <2>2 DEF Least
  <2> QED
    BY <1>1, <2>1, <2>2, <2>3
<1>6. CASE presence' = NewPresence
  <2>1. InitialBackoff >= LeastBackoff(0)
    BY BackoffStarts, ReportsAssumption
  <2> QED
    BY <1>6, <2>1, ReportsAssumption DEF NewPresence
<1>7. CASE UNCHANGED presence
  BY <1>1, <1>7
<1> QED
  BY <1>2, <1>3, <1>4, <1>5, <1>6, <1>7, PresenceSteps

-----------------------------------------------------------------------------
(* The total of a reading is a number, and so is what was carried.         *)
LEMMA TotalsAreNat ==
    ASSUME NEW f \in [Interfaces -> Nat], NEW S, S \subseteq Interfaces
    PROVE  Sum(f, S) \in Nat /\ IsFiniteSet(S)
<1>1. IsFiniteSet(S)
  BY FS_Subset, MetricsAssumption
<1>2. \A x \in S : f[x] \in Nat
  OBVIOUS
<1>3. SumOf(f, S) \in Nat
  BY <1>1, <1>2, SumNat
<1> QED
  BY <1>1, <1>3, Zenon DEF Sum, SumOf

(* Sum is the sum of the lemmas about folds.                               *)
LEMMA SumIsSumOf ==
    ASSUME NEW f, NEW S
    PROVE  Sum(f, S) = SumOf(f, S)
  BY Zenon DEF Sum, SumOf

(* A legacy counter counts less than the counter it is the lower part of,  *)
(* and grows by at most one with it.                                       *)
LEMMA LegacyCounts ==
    ASSUME NEW c \in Nat
    PROVE  /\ c % LegacyWord \in Nat /\ c % LegacyWord =< c
           /\ (c + 1) % LegacyWord =< (c % LegacyWord) + 1
<1> DEFINE W == LegacyWord
<1> USE DEF W
<1>1. W \in Nat \ {0}
  BY MetricsAssumption
<1> HIDE DEF W
<1>2. c % W \in Nat /\ c % W =< c
  BY <1>1
<1>3. (c + 1) % W =< (c % W) + 1
  <2>1. PICK q \in Int, r \in 0..(W - 1) : r = c % W /\ c = W * q + r
    <3>1. c % W \in 0..(W - 1) /\ c \div W \in Int /\ c = W * (c \div W) + (c % W)
      BY <1>1
    <3> QED
      BY <3>1, Zenon
  <2>2. PICK d \in Int, t \in 0..(W - 1) : t = (c + 1) % W /\ c + 1 = W * d + t
    <3>1. /\ (c + 1) % W \in 0..(W - 1) /\ (c + 1) \div W \in Int
          /\ c + 1 = W * ((c + 1) \div W) + ((c + 1) % W)
      BY <1>1
    <3> QED
      BY <3>1, Zenon
  <2> SUFFICES ASSUME t > r + 1 PROVE FALSE
    BY <1>1, <2>1, <2>2
  <2> DEFINE k == q - d
  <2>3. k \in Int /\ W * k = t - r - 1
    BY <1>1, <2>1, <2>2
  <2> HIDE DEF k
  <2>4. CASE k =< 0
    BY <1>1, <2>3, <2>4
  <2>5. CASE k >= 1
    <3>1. W * k >= W
      BY <1>1, <2>3, <2>5
    <3> QED
      BY <1>1, <2>3, <3>1
  <2> QED
    BY <2>3, <2>4, <2>5
<1> QED
  BY <1>2, <1>3 DEF W

(* The total of the legacy counters is a number and at most the total.     *)
LEMMA LegacyTotals ==
    ASSUME NEW c \in [Interfaces -> Nat], NEW S, S \subseteq Interfaces
    PROVE  /\ Sum(LegacyOf(c), S) \in Nat /\ Sum(c, S) \in Nat
           /\ Sum(LegacyOf(c), S) =< Sum(c, S) /\ IsFiniteSet(S)
<1> DEFINE f == LegacyOf(c)
<1>1. \A x \in S : c[x] \in Nat /\ f[x] = c[x] % LegacyWord
  BY DEF LegacyOf
<1>2. IsFiniteSet(S)
  BY FS_Subset, MetricsAssumption
<1> HIDE DEF f
<1>3. \A x \in S : f[x] \in Nat /\ c[x] \in Nat /\ f[x] =< c[x]
  BY <1>1, LegacyCounts
<1>4. SumOf(f, S) \in Nat /\ SumOf(c, S) \in Nat /\ SumOf(f, S) =< SumOf(c, S)
  <2>1. SumOf(f, S) \in Nat
    BY <1>2, <1>3, SumNat
  <2>2. SumOf(c, S) \in Nat
    BY <1>2, <1>3, SumNat
  <2>3. SumOf(f, S) =< SumOf(c, S)
    BY <1>2, <1>3, SumPointwise
  <2> QED
    BY <2>1, <2>2, <2>3
<1> QED
  BY <1>2, <1>4, SumIsSumOf DEF f

(* One more byte adds at most one to the total of the legacy counters.     *)
LEMMA LegacyGrows ==
    ASSUME NEW c \in [Interfaces -> Nat], NEW S, S \subseteq Interfaces,
           NEW i \in Interfaces
    PROVE  Sum(LegacyOf([c EXCEPT ![i] = @ + 1]), S) =<
               IF i \in S THEN Sum(LegacyOf(c), S) + 1 ELSE Sum(LegacyOf(c), S)
<1> DEFINE d == [c EXCEPT ![i] = @ + 1]
           f == LegacyOf(c)
           g == LegacyOf(d)
           h == [x \in Interfaces |-> IF x = i THEN f[x] + 1 ELSE f[x]]
<1>1. d \in [Interfaces -> Nat] /\ IsFiniteSet(S) /\ Sum(f, S) \in Nat
  BY LegacyTotals
<1>2. /\ \A x \in S : c[x] \in Nat /\ f[x] = c[x] % LegacyWord
      /\ \A x \in S : d[x] = IF x = i THEN c[x] + 1 ELSE c[x]
      /\ \A x \in S : h[x] = IF x = i THEN f[x] + 1 ELSE f[x]
  BY DEF LegacyOf
<1>3. \A x \in S : g[x] = d[x] % LegacyWord
  BY <1>1 DEF LegacyOf
<1> HIDE DEF d, f, g, h
<1>4. /\ \A x \in S : f[x] \in Nat
      /\ \A x \in S : g[x] \in Nat /\ h[x] \in Nat /\ g[x] =< h[x]
  <2> SUFFICES ASSUME NEW x \in S
               PROVE  f[x] \in Nat /\ g[x] \in Nat /\ h[x] \in Nat /\ g[x] =< h[x]
    OBVIOUS
  <2>1. c[x] \in Nat /\ f[x] = c[x] % LegacyWord /\ g[x] = d[x] % LegacyWord
    BY <1>2, <1>3
  <2>2. CASE x = i
    <3>1. d[x] = c[x] + 1 /\ h[x] = f[x] + 1
      BY <1>2, <2>2
    <3>2. /\ f[x] \in Nat /\ (c[x] + 1) % LegacyWord \in Nat
          /\ (c[x] + 1) % LegacyWord =< f[x] + 1
      BY <2>1, LegacyCounts
    <3> QED
      BY <2>1, <3>1, <3>2
  <2>3. CASE x # i
    <3>1. d[x] = c[x] /\ h[x] = f[x]
      BY <1>2, <2>3
    <3>2. f[x] \in Nat
      BY <2>1, LegacyCounts
    <3> QED
      BY <2>1, <3>1, <3>2
  <2> QED
    BY <2>2, <2>3
<1>5. SumOf(h, S) = IF i \in S THEN SumOf(f, S) + 1 ELSE SumOf(f, S)
  BY <1>1, <1>2, <1>4, SumBump
<1>6. SumOf(g, S) =< SumOf(h, S)
  BY <1>1, <1>4, SumPointwise
<1>7. Sum(g, S) =< IF i \in S THEN Sum(f, S) + 1 ELSE Sum(f, S)
  BY <1>5, <1>6, SumIsSumOf
<1> QED
  BY <1>7 DEF d, f, g

(* A valid reading becomes the baseline, with nothing carried since.       *)
LEMMA ReadingTraffic ==
    ASSUME TrafficInv, NEW reading, NEW cpuFails, NEW broken,
           CollectState(reading, cpuFails, broken)
    PROVE  TrafficInv'
<1>1. counter' = counter /\ listed' = listed
  BY DEF CollectState
<1>2. CASE net' = net /\ traffic' = traffic
  BY <1>1, <1>2 DEF TrafficInv
<1> DEFINE total == TotalRead(reading)
           zeros == [i \in Interfaces |-> 0]
<1>3. CASE /\ ~(total > MaxTotal)
           /\ traffic' = [NoTraffic EXCEPT !.legacy = (reading = "legacy")]
           /\ net' = [has |-> TRUE, total |-> total, source |-> Source, age |-> 0]
  <2>1. counter \in [Interfaces -> Nat] /\ Source \subseteq Interfaces
        /\ Source \subseteq Monitored
    BY MetricsAssumption DEF TrafficInv, Source
  <2>2. /\ Sum(LegacyOf(counter), Source) \in Nat /\ Sum(counter, Source) \in Nat
        /\ Sum(LegacyOf(counter), Source) =< Sum(counter, Source) /\ IsFiniteSet(Source)
    BY <2>1, LegacyTotals
  <2>3. /\ reading = "legacy" => total = Sum(LegacyOf(counter), Source)
        /\ reading # "legacy" => total = Sum(counter, Source)
    BY DEF TotalRead, Total
  <2>4. Sum(zeros, Source) = 0
    <3>1. \A x \in Source : zeros[x] = 0
      BY <2>1
    <3> HIDE DEF zeros
    <3> QED
      BY <2>2, <3>1, SumZero, SumIsSumOf
  <2> HIDE DEF total
  <2>5. total \in 0..MaxTotal /\ 0 \in Ticks /\ zeros \in [Interfaces -> Nat]
    BY <1>3, <2>2, <2>3, MetricsAssumption DEF Ticks
  <2>6. /\ net' \in [has : BOOLEAN, total : 0..MaxTotal, source : SUBSET Monitored,
                     age : Ticks]
        /\ traffic' \in [carried : [Interfaces -> Nat], ticks : Ticks, restarted : BOOLEAN,
                         legacy : BOOLEAN]
        /\ net'.age = traffic'.ticks
        /\ net'.total = total /\ net'.source = Source /\ traffic'.carried = zeros
        /\ traffic'.legacy = (reading = "legacy")
    <3> DEFINE legacy == reading = "legacy"
    <3>1. /\ traffic' = [carried |-> zeros, ticks |-> 0, restarted |-> FALSE, legacy |-> legacy]
          /\ legacy \in BOOLEAN
      BY <1>3, Zenon DEF NoTraffic
    <3> HIDE DEF zeros, legacy
    <3>2. /\ traffic' \in [carried : [Interfaces -> Nat], ticks : Ticks, restarted : BOOLEAN,
                           legacy : BOOLEAN]
          /\ traffic'.ticks = 0 /\ traffic'.carried = zeros
      BY <2>5, <3>1
    <3>3. traffic'.legacy = legacy
      BY <3>1, Zenon
    <3> QED
      BY <1>3, <2>1, <2>5, <3>2, <3>3 DEF legacy
  <2> HIDE DEF zeros
  <2>7. /\ Sum(LegacyOf(counter'), net'.source) = Sum(LegacyOf(counter), Source)
        /\ Sum(counter', net'.source) = Sum(counter, Source)
        /\ Sum(traffic'.carried, net'.source) = 0
    BY <1>1, <2>4, <2>6, Zenon
  <2>8. /\ Sum(LegacyOf(counter'), net'.source) =< net'.total + Sum(traffic'.carried, net'.source)
        /\ ~traffic'.legacy =>
             Sum(counter', net'.source) = net'.total + Sum(traffic'.carried, net'.source)
    BY <2>2, <2>3, <2>5, <2>6, <2>7
  <2>9. Sum(counter', net'.source) \in Nat
    BY <2>2, <2>7, Zenon
  <2> QED
    BY <1>1, <2>1, <2>6, <2>8, <2>9 DEF TrafficInv
<1> QED
  BY <1>2, <1>3 DEF CollectState, NetAfterFailure

(* An interface carries a byte: the counter and the history grow together. *)
LEMMA CarryTraffic ==
    ASSUME TrafficInv, NEW i \in Interfaces, Carry(i)
    PROVE  TrafficInv'
<1>1. /\ counter \in [Interfaces -> Nat] /\ traffic.carried \in [Interfaces -> Nat]
      /\ net.source \subseteq Interfaces /\ net.total \in Nat
  BY MetricsAssumption DEF TrafficInv
<1>2. /\ counter' = [counter EXCEPT ![i] = @ + 1] /\ net' = net /\ listed' = listed
      /\ traffic'.carried = [traffic.carried EXCEPT ![i] = @ + 1]
      /\ traffic'.ticks = traffic.ticks /\ traffic'.restarted = traffic.restarted
      /\ traffic'.legacy = traffic.legacy
  BY DEF Carry, TrafficInv
<1>3. traffic' \in [carried : [Interfaces -> Nat], ticks : Ticks, restarted : BOOLEAN,
                    legacy : BOOLEAN]
  <2> DEFINE more == [traffic.carried EXCEPT ![i] = @ + 1]
  <2>1. more \in [Interfaces -> Nat]
    BY <1>1
  <2>2. traffic' = [traffic EXCEPT !.carried = more]
    BY DEF Carry
  <2> HIDE DEF more
  <2> QED
    BY <2>1, <2>2 DEF TrafficInv
<1> DEFINE S == net.source
           carried == traffic.carried
           more == traffic'.carried
           low == Sum(LegacyOf(counter), S)
           lowNext == Sum(LegacyOf(counter'), S)
<1>4. /\ \A x \in S : counter[x] \in Nat /\ carried[x] \in Nat
      /\ \A x \in S : counter'[x] = IF x = i THEN counter[x] + 1 ELSE counter[x]
      /\ \A x \in S : more[x] = IF x = i THEN carried[x] + 1 ELSE carried[x]
  BY <1>1, <1>2
<1>5. IsFiniteSet(S) /\ Sum(counter, S) \in Nat /\ Sum(carried, S) \in Nat
  BY <1>1, TotalsAreNat
<1>6. counter' \in [Interfaces -> Nat]
  BY <1>1, <1>2
<1>7. low \in Nat /\ lowNext \in Nat
  BY <1>1, <1>6, LegacyTotals
<1>8. lowNext =< IF i \in S THEN low + 1 ELSE low
  BY <1>1, <1>2, LegacyGrows
<1> HIDE DEF S, carried, more, low, lowNext
<1>9. /\ Sum(counter', S) = IF i \in S THEN Sum(counter, S) + 1 ELSE Sum(counter, S)
      /\ Sum(more, S) = IF i \in S THEN Sum(carried, S) + 1 ELSE Sum(carried, S)
  BY <1>4, <1>5, SumBump, SumIsSumOf
<1>10. net.has =>
         /\ low =< net.total + Sum(carried, S)
         /\ ~traffic.legacy => Sum(counter, S) =< net.total + Sum(carried, S)
         /\ ~traffic.legacy /\ ~traffic.restarted =>
              Sum(counter, S) = net.total + Sum(carried, S)
  BY DEF TrafficInv, S, carried, low
<1>11. net.has =>
         /\ lowNext =< net.total + Sum(more, S)
         /\ ~traffic.legacy => Sum(counter', S) =< net.total + Sum(more, S)
         /\ ~traffic.legacy /\ ~traffic.restarted =>
              Sum(counter', S) = net.total + Sum(more, S)
  BY <1>1, <1>5, <1>7, <1>8, <1>9, <1>10
<1> QED
  BY <1>2, <1>3, <1>6, <1>11 DEF TrafficInv, S, more, lowNext

(* An interface comes or goes; a counter that begins again only loses.     *)
LEMMA LinkTraffic ==
    ASSUME TrafficInv, NEW i \in Interfaces, Link(i)
    PROVE  TrafficInv'
<1>1. /\ counter \in [Interfaces -> Nat] /\ traffic.carried \in [Interfaces -> Nat]
      /\ net.source \subseteq Interfaces /\ net.total \in Nat /\ net' = net
  BY MetricsAssumption DEF TrafficInv, Link
<1>2. listed' \subseteq Interfaces
  BY DEF Link, TrafficInv
<1>3. CASE UNCHANGED <<counter, traffic>>
  BY <1>1, <1>2, <1>3 DEF TrafficInv
<1>4. CASE /\ counter' = [counter EXCEPT ![i] = 0]
           /\ traffic' = [traffic EXCEPT !.restarted = TRUE]
  <2> DEFINE S == net.source
             f == LegacyOf(counter)
             g == LegacyOf(counter')
  <2>1. counter' \in [Interfaces -> Nat] /\ \A x \in Interfaces : counter'[x] =< counter[x]
    BY <1>1, <1>4
  <2>2. /\ traffic' \in [carried : [Interfaces -> Nat], ticks : Ticks, restarted : BOOLEAN,
                         legacy : BOOLEAN]
        /\ traffic'.carried = traffic.carried /\ traffic'.ticks = traffic.ticks
        /\ traffic'.restarted /\ traffic'.legacy = traffic.legacy
    BY <1>4 DEF TrafficInv
  <2>3. /\ IsFiniteSet(S) /\ Sum(counter, S) \in Nat /\ Sum(counter', S) \in Nat
        /\ Sum(traffic.carried, S) \in Nat
    BY <1>1, <2>1, TotalsAreNat
  <2>4. Sum(f, S) \in Nat /\ Sum(g, S) \in Nat
    BY <1>1, <2>1, LegacyTotals
  <2>5. Sum(counter', S) =< Sum(counter, S)
    <3>1. \A x \in S : counter[x] \in Nat /\ counter'[x] \in Nat /\ counter'[x] =< counter[x]
      BY <1>1, <2>1
    <3> HIDE DEF S
    <3> QED
      BY <2>3, <3>1, SumPointwise, SumIsSumOf
  <2>6. Sum(g, S) =< Sum(f, S)
    <3>1. \A x \in S : f[x] = counter[x] % LegacyWord /\ counter[x] \in Nat
      BY <1>1 DEF LegacyOf
    <3>2. \A x \in S : g[x] = counter'[x] % LegacyWord
      BY <1>1, <2>1 DEF LegacyOf
    <3>3. \A x \in S : counter'[x] = IF x = i THEN 0 ELSE counter[x]
      BY <1>1, <1>4
    <3> HIDE DEF S, f, g
    <3>4. 0 % LegacyWord = 0
      BY MetricsAssumption
    <3>5. \A x \in S : f[x] \in Nat
      BY <3>1, LegacyCounts
    <3>6. \A x \in S : g[x] = IF x = i THEN 0 ELSE f[x]
      BY <3>1, <3>2, <3>3, <3>4, Zenon
    <3>7. \A x \in S : f[x] \in Nat /\ g[x] \in Nat /\ g[x] =< f[x]
      BY <3>5, <3>6
    <3> QED
      BY <2>3, <3>7, SumPointwise, SumIsSumOf
  <2> HIDE DEF S, f, g
  <2>7. net.has => /\ Sum(f, S) =< net.total + Sum(traffic.carried, S)
                   /\ ~traffic.legacy =>
                        Sum(counter, S) =< net.total + Sum(traffic.carried, S)
    BY DEF TrafficInv, S, f
  <2>8. net.has => /\ Sum(g, S) =< net.total + Sum(traffic.carried, S)
                   /\ ~traffic.legacy =>
                        Sum(counter', S) =< net.total + Sum(traffic.carried, S)
    BY <1>1, <2>3, <2>4, <2>5, <2>6, <2>7
  <2> QED
    BY <1>1, <1>2, <2>1, <2>2, <2>8 DEF TrafficInv, S, g
<1> QED
  BY <1>3, <1>4 DEF Link

(* Every step keeps what is known of the traffic.                          *)
LEMMA TrafficKept ==
    ASSUME TrafficInv, [ReportsNext]_reportVars
    PROVE  TrafficInv'
<1>1. CASE UNCHANGED readVars
  BY <1>1 DEF readVars, TrafficInv
<1>2. CASE ReportState
  BY <1>2, ReadingTraffic DEF ReportState
<1>3. CASE MetricsTick
  <2>1. Capped(net.age + 1) \in Ticks
    BY MetricsAssumption DEF TrafficInv, Ticks, Capped
  <2> QED
    BY <1>3, <2>1 DEF MetricsTick, TrafficInv
<1>4. CASE NewCollector
  <2>1. /\ net' = [has |-> FALSE, total |-> 0, source |-> {}, age |-> 0]
        /\ traffic' = NoTraffic /\ counter' = counter /\ listed' = listed
    BY <1>4 DEF NewCollector
  <2>2. 0 \in Ticks /\ 0 \in 0..MaxTotal
    BY MetricsAssumption DEF Ticks
  <2> QED
    BY <2>1, <2>2 DEF TrafficInv, NoTraffic
<1>5. ASSUME NEW i \in Interfaces, Carry(i) \/ Link(i) PROVE TrafficInv'
  BY <1>5, CarryTraffic, LinkTraffic
<1>6. CASE Work(1, 0) \/ Work(0, 1) \/ Work(0, -1)
  BY <1>6 DEF Work, TrafficInv
<1> QED
  BY <1>1, <1>2, <1>3, <1>4, <1>5, <1>6, ReadingSteps

-----------------------------------------------------------------------------
(* Unsigned arithmetic: a sum or a difference of two times, reduced.       *)
LEMMA Reduced ==
    ASSUME NEW n \in Int, -Word =< n, n < 2 * Word
    PROVE  /\ n % Word \in 0..(Word - 1)
           /\ n % Word \in {n, n - Word, n + Word}
<1>1. Word \in Nat /\ Word > 0
  BY MetricsAssumption
<1>2. CASE 0 =< n /\ n < Word
  BY <1>1, <1>2
<1>3. CASE n < 0
  BY <1>1, <1>3
<1>4. CASE Word =< n
  BY <1>1, <1>4
<1> QED
  BY <1>1, <1>2, <1>3, <1>4

(* A time that went on by k.                                               *)
LEMMA PassedOn ==
    ASSUME NEW now \in 0..(Word - 1), NEW before \in 0..(Word - 1), NEW time \in Nat,
           NEW k \in 0..1, time + k =< MaxLoad, Passed(now, before, time)
    PROVE  Passed((now + k) % Word, before, time + k)
<1>1. Word \in Nat /\ Word > MaxLoad /\ MaxLoad \in Nat
  BY MetricsAssumption
<1>2. /\ (now + k) % Word \in 0..(Word - 1)
      /\ (now + k) % Word \in {now + k, (now + k) - Word, (now + k) + Word}
  <2> DEFINE n == now + k
  <2>1. n \in Int /\ -Word =< n /\ n < 2 * Word
    BY <1>1
  <2> HIDE DEF n
  <2>2. n % Word \in 0..(Word - 1) /\ n % Word \in {n, n - Word, n + Word}
    BY <2>1, Reduced
  <2> QED
    BY <2>2, Zenon DEF n
<1> DEFINE new == (now + k) % Word
<1> HIDE DEF new
<1>3. new \in 0..(Word - 1) /\ new \in {now + k, (now + k) - Word, (now + k) + Word}
  BY <1>2, Zenon DEF new
<1>4. now = before + time \/ now = before + time - Word
  BY DEF Passed
<1>5. new = before + (time + k) \/ new = before + (time + k) - Word
  BY <1>1, <1>3, <1>4
<1> QED
  BY <1>5 DEF Passed, new

(* The unsigned difference of two times is what passed between them.       *)
LEMMA PassedSince ==
    ASSUME NEW now \in 0..(Word - 1), NEW before \in 0..(Word - 1), NEW time \in 0..MaxLoad,
           Passed(now, before, time)
    PROVE  (now - before) % Word = time
<1>1. Word \in Nat /\ Word > MaxLoad /\ MaxLoad \in Nat
  BY MetricsAssumption
<1>2. /\ (now - before) % Word \in 0..(Word - 1)
      /\ (now - before) % Word \in {now - before, (now - before) - Word, (now - before) + Word}
  <2> DEFINE n == now - before
  <2>1. n \in Int /\ -Word =< n /\ n < 2 * Word
    BY <1>1
  <2> HIDE DEF n
  <2>2. n % Word \in 0..(Word - 1) /\ n % Word \in {n, n - Word, n + Word}
    BY <2>1, Reduced
  <2> QED
    BY <2>2, Zenon DEF n
<1> DEFINE difference == (now - before) % Word
<1> HIDE DEF difference
<1>3. /\ difference \in 0..(Word - 1)
      /\ difference \in {now - before, (now - before) - Word, (now - before) + Word}
  BY <1>2, Zenon DEF difference
<1>4. now = before + time \/ now = before + time - Word
  BY DEF Passed
<1>5. difference = time
  BY <1>1, <1>3, <1>4
<1> QED
  BY <1>5 DEF difference

(* The processor works, idles, or its idle time goes back.                 *)
LEMMA WorkLoad ==
    ASSUME LoadInv, NEW busy \in 0..1, NEW idle \in -1..1, busy + idle =< 1,
           idle < 0 => busy = 0, Work(busy, idle)
    PROVE  LoadInv'
<1>1. /\ times.total \in 0..(Word - 1) /\ times.idle \in 0..(Word - 1)
      /\ cpu \in [has : BOOLEAN, total : 0..(Word - 1), idle : 0..(Word - 1)]
      /\ load \in [busy : Nat, idle : Nat, back : BOOLEAN]
      /\ load.busy + load.idle =< MaxLoad
      /\ Word \in Nat /\ Word > MaxLoad /\ MaxLoad \in Nat
  BY MetricsAssumption DEF LoadInv
<1>2. /\ times' = [total |-> (times.total + busy + idle) % Word,
                   idle |-> (times.idle + idle) % Word]
      /\ cpu' = cpu /\ load.busy + load.idle < MaxLoad
  BY DEF Work
<1>3. /\ (times.total + busy + idle) % Word \in 0..(Word - 1)
      /\ (times.idle + idle) % Word \in 0..(Word - 1)
  BY <1>1
<1>4. times' \in [total : 0..(Word - 1), idle : 0..(Word - 1)]
  BY <1>2, <1>3
<1>5. CASE idle < 0
  <2>1. load' = [load EXCEPT !.back = TRUE]
    BY <1>5 DEF Work
  <2>2. load' \in [busy : Nat, idle : Nat, back : BOOLEAN] /\ load'.back
        /\ load'.busy = load.busy /\ load'.idle = load.idle
    BY <1>1, <2>1
  <2> QED
    BY <1>1, <1>2, <1>4, <2>2 DEF LoadInv
<1>6. CASE ~(idle < 0)
  <2>1. load' = [load EXCEPT !.busy = @ + busy, !.idle = @ + idle]
    BY <1>6 DEF Work
  <2>2. /\ load' \in [busy : Nat, idle : Nat, back : BOOLEAN] /\ load'.back = load.back
        /\ load'.busy = load.busy + busy /\ load'.idle = load.idle + idle
    <3>1. load.busy + busy \in Nat /\ load.idle + idle \in Nat
      BY <1>1, <1>6
    <3>2. load' = [busy |-> load.busy + busy, idle |-> load.idle + idle, back |-> load.back]
      BY <1>1, <2>1
    <3> QED
      BY <1>1, <3>1, <3>2
  <2>3. ASSUME cpu.has, ~load.back
        PROVE  /\ Passed(times'.total, cpu.total, load'.busy + load'.idle)
               /\ Passed(times'.idle, cpu.idle, load'.idle)
    <3>1. /\ Passed(times.total, cpu.total, load.busy + load.idle)
          /\ Passed(times.idle, cpu.idle, load.idle)
      BY <2>3 DEF LoadInv
    <3>2. busy + idle \in 0..1 /\ idle \in 0..1 /\ load.busy + load.idle \in Nat
          /\ (load.busy + load.idle) + (busy + idle) =< MaxLoad
          /\ load.idle + idle =< MaxLoad
          /\ load.idle \in Nat /\ cpu.total \in 0..(Word - 1) /\ cpu.idle \in 0..(Word - 1)
      BY <1>1, <1>2, <1>6
    <3> DEFINE k == busy + idle
               time == load.busy + load.idle
    <3>3. k \in 0..1 /\ time \in Nat /\ time + k =< MaxLoad /\ Passed(times.total, cpu.total, time)
      BY <3>1, <3>2
    <3> HIDE DEF k, time
    <3>4. Passed((times.total + k) % Word, cpu.total, time + k)
      BY <1>1, <3>2, <3>3, PassedOn
    <3>5. Passed((times.idle + idle) % Word, cpu.idle, load.idle + idle)
      BY <1>1, <3>1, <3>2, PassedOn
    <3>6. /\ times.total + busy + idle = times.total + k
          /\ load'.busy + load'.idle = time + k
      BY <1>1, <2>2 DEF k, time
    <3>7. /\ times'.total = (times.total + k) % Word
          /\ times'.idle = (times.idle + idle) % Word
      <4>1. /\ times'.total = (times.total + busy + idle) % Word
            /\ times'.idle = (times.idle + idle) % Word
        BY <1>2, Zenon
      <4> QED
        BY <3>6, <4>1, Zenon
    <3> QED
      BY <2>2, <3>4, <3>5, <3>6, <3>7, Zenon
  <2>4. load'.busy + load'.idle =< MaxLoad
    BY <1>1, <1>2, <1>6, <2>2
  <2> QED
    BY <1>1, <1>2, <1>4, <2>2, <2>3, <2>4 DEF LoadInv
<1> QED
  BY <1>5, <1>6

(* A reading becomes the baseline; a failed one leaves the one before it.  *)
LEMMA ReadingLoad ==
    ASSUME LoadInv, NEW reading, NEW cpuFails, NEW broken,
           CollectState(reading, cpuFails, broken)
    PROVE  LoadInv'
<1>1. times' = times
  BY DEF CollectState
<1>2. CASE cpu' = cpu /\ load' = load
  BY <1>1, <1>2 DEF LoadInv, Passed
<1>3. CASE /\ cpu' = [has |-> TRUE, total |-> times.total, idle |-> times.idle]
           /\ load' = NoLoad
  <2>1. /\ cpu' \in [has : BOOLEAN, total : 0..(Word - 1), idle : 0..(Word - 1)]
        /\ cpu'.total = times.total /\ cpu'.idle = times.idle
        /\ load' \in [busy : Nat, idle : Nat, back : BOOLEAN]
        /\ load'.busy = 0 /\ load'.idle = 0
    BY <1>3 DEF LoadInv, NoLoad
  <2>2. times.total = times.total + (0 + 0) /\ times.idle = times.idle + 0 /\ 0 + 0 =< MaxLoad
    BY MetricsAssumption DEF LoadInv
  <2>3. times' \in [total : 0..(Word - 1), idle : 0..(Word - 1)]
    BY <1>1 DEF LoadInv
  <2> QED
    BY <1>1, <2>1, <2>2, <2>3 DEF LoadInv, Passed
<1> QED
  BY <1>2, <1>3 DEF CollectState, CpuAfterFailure

(* Every step keeps what is known of the processor times.                  *)
LEMMA LoadKept ==
    ASSUME LoadInv, [ReportsNext]_reportVars
    PROVE  LoadInv'
<1>1. CASE UNCHANGED readVars
  BY <1>1 DEF readVars, LoadInv, Passed
<1>2. CASE ReportState
  BY <1>2, ReadingLoad DEF ReportState
<1>3. CASE MetricsTick
  BY <1>3 DEF MetricsTick, LoadInv, Passed
<1>4. CASE NewCollector
  <2>1. /\ cpu' = [has |-> FALSE, total |-> 0, idle |-> 0]
        /\ load' = NoLoad /\ times' = times
    BY <1>4 DEF NewCollector
  <2> QED
    BY <2>1, MetricsAssumption DEF LoadInv, NoLoad
<1>5. ASSUME NEW i \in Interfaces, Carry(i) \/ Link(i) PROVE LoadInv'
  <2>1. times' = times /\ cpu' = cpu /\ load' = load
    BY <1>5 DEF Carry, Link
  <2> QED
    BY <2>1 DEF LoadInv, Passed
<1>6. CASE Work(1, 0) \/ Work(0, 1) \/ Work(0, -1)
  BY <1>6, WorkLoad
<1> QED
  BY <1>1, <1>2, <1>3, <1>4, <1>5, <1>6, ReadingSteps

-----------------------------------------------------------------------------
(* Every step keeps the types of the rest.                                 *)
LEMMA KeptKept ==
    ASSUME KeptInv, ReportsInv, [ReportsNext]_reportVars
    PROVE  KeptInv'
<1> USE DEF KeptInv
<1>1. CASE MainStep \/ WorkerStops
  <2>1. UNCHANGED <<outgoing, accepted, file>>
    BY <1>1 DEF MainStep, Starts, StartFails, OnceReturns, RunAgentReturns, ProcessExits,
                StopTimesOut, WorkerStops, WorkerEnds
  <2>2. process'.stopAge = process.stopAge
    BY <1>1 DEF MainStep, Starts, StartFails, OnceReturns, RunAgentReturns, ProcessExits,
                StopTimesOut, WorkerStops, WorkerEnds, ReportsInv, ControlInv
  <2> QED
    BY <2>1, <2>2
<1>2. ASSUME NEW w \in Reports, CallStep(w) PROVE KeptInv'
  <2>1. CASE ReportHeartbeat \/ ReportState \/ DiscoverStep
    BY <2>1 DEF ReportHeartbeat, ReportState, DiscoverStep, agentVars
  <2>2. CASE ReportHost \/ DiscoverReturns
    <3>1. UNCHANGED <<process, accepted, file>>
      BY <2>2 DEF ReportHost, DiscoverReturns
    <3>2. outgoing' \subseteq Fields
      BY <2>2 DEF ReportHost, DiscoverReturns, EndLookup, CacheAfter, ReportsInv, CacheInv
    <3> QED
      BY <3>1, <3>2
  <2>3. CASE ControllerAccepts(w)
    BY <2>3 DEF ControllerAccepts
  <2>4. CASE ReportFails(w) \/ \E writes \in BOOLEAN : Answered(w, writes)
    <3>1. Returns(w) /\ Forget(w) /\ accepted' = accepted
      BY <2>4 DEF ReportFails, Answered
    <3>2. process'.stopAge = process.stopAge
      BY <3>1 DEF Returns, ReportsInv, ControlInv
    <3>3. outgoing' \subseteq Fields
      BY <3>1 DEF Forget
    <3>4. file' = file \/ file' = [there |-> TRUE, proof |-> accepted]
      BY <2>4 DEF ReportFails, Answered, Mark
    <3>5. file' \in [there : BOOLEAN, proof : SUBSET Reports]
      <4>1. [there |-> TRUE, proof |-> accepted] \in [there : BOOLEAN, proof : SUBSET Reports]
        OBVIOUS
      <4> QED
        BY <3>4, <4>1, Zenon
    <3> QED
      BY <3>1, <3>2, <3>3, <3>5
  <2> QED
    BY <1>2, <2>1, <2>2, <2>3, <2>4 DEF CallStep
<1>3. CASE Crash
  BY <1>3, ReportsAssumption DEF Crash, NewProcess
<1>4. CASE Tick
  <2>1. UNCHANGED <<outgoing, accepted, file>>
    BY <1>4 DEF Tick
  <2>2. process' = process \/ process' = [process EXCEPT !.stopAge = Least(@ + 1, StopLimit)]
    BY <1>4 DEF Tick
  <2>3. Least(process.stopAge + 1, StopLimit) \in 0..StopLimit
    BY ReportsAssumption DEF Least
  <2>4. process'.stopAge \in 0..StopLimit
    BY <2>2, <2>3 DEF ReportsInv, ControlInv
  <2> QED
    BY <2>1, <2>4
<1>5. CASE CrashStopping
  BY <1>5 DEF CrashStopping, ReportsInv, ControlInv
<1>6. CASE PresenceStep \/ Stop \/ Exited \/ Machine \/ UNCHANGED reportVars
  BY <1>6 DEF PresenceStep, Stop, Exited, Machine, reportVars, agentVars
<1> QED
  BY <1>1, <1>2, <1>3, <1>4, <1>5, <1>6 DEF ReportsNext

(* The initial states.                                                     *)
LEMMA InitMeasureInv == ReportsInit => MeasureInv
<1> SUFFICES ASSUME ReportsInit PROVE MeasureInv
  OBVIOUS
<1>1. PresenceInv
  <2>1. InitialBackoff >= LeastBackoff(0)
    BY BackoffStarts, ReportsAssumption
  <2>2. presence = NewPresence
    BY DEF ReportsInit
  <2> QED
    BY <2>1, <2>2, ReportsAssumption DEF PresenceInv, NewPresence, LeastBackoff
<1>2. TrafficInv
  <2>1. 0 \in Ticks /\ 0 \in 0..MaxTotal
    BY MetricsAssumption DEF Ticks
  <2> QED
    BY <2>1 DEF ReportsInit, MetricsInit, TrafficInv, NoTraffic
<1>3. LoadInv
  BY MetricsAssumption DEF ReportsInit, MetricsInit, LoadInv, NoLoad
<1>4. KeptInv
  BY ReportsAssumption DEF ReportsInit, KeptInv, NewProcess
<1> QED
  BY <1>1, <1>2, <1>3, <1>4 DEF MeasureInv

(* The readings, the delays and the rest of the state keep their invariant *)
(* in every behaviour of the process.                                      *)
THEOREM MeasureInvariant == ReportsSpec => []MeasureInv
<1>1. MeasureInv /\ ReportsInv /\ [ReportsNext]_reportVars => MeasureInv'
  BY PresenceKept, TrafficKept, LoadKept, KeptKept DEF MeasureInv
<1> QED
  BY InitMeasureInv, ReportsInvariant, <1>1, PTL DEF ReportsSpec

-----------------------------------------------------------------------------
(* Every variable of the process stays in its type, the delays and the     *)
(* total of the interfaces within their limits.                            *)
THEOREM ReportsTypes == ReportsSpec => []ReportsTypeOK
<1>1. ASSUME ReportsInv, MeasureInv PROVE ReportsTypeOK
  <2>1. WorkerStates = Calling \cup {"none", "idle", "ended"}
    BY DEF WorkerStates, Sending, Calling
  <2>2. /\ process.phase \in Reports \cup {"start", "once", "running", "returned"}
        /\ process.exit \in -1..1
        /\ worker \in [Workers -> Calling \cup {"none", "idle", "ended"}]
    BY <1>1, <2>1 DEF ReportsInv, ControlInv, Phases
  <2>3. /\ receipt \in [heartbeatOK : BOOLEAN, stateOK : BOOLEAN, written : BOOLEAN]
        /\ identity.cached \subseteq Fields /\ found \subseteq Fields
    BY <1>1 DEF ReportsInv, AcceptedInv, CacheInv
  <2>4. listed \subseteq Interfaces /\ net.total \in 0..MaxTotal /\ net.age \in Ticks
    BY <1>1 DEF MeasureInv, TrafficInv
  <2> QED
    BY <1>1, <2>2, <2>3, <2>4 DEF MeasureInv, PresenceInv, KeptInv, ReportsTypeOK
<1> QED
  BY ReportsInvariant, MeasureInvariant, <1>1, PTL

(* A Controller that refuses or drops connections is not dialled faster:   *)
(* the n-th wait in a row is at least the initial delay doubled n times,   *)
(* up to the limit (the reconnection loop of presence.go).                 *)
THEOREM ReconnectsSlowDown == ReportsSpec => []BackoffGrows
<1>1. ASSUME MeasureInv PROVE BackoffGrows
  <2> SUFFICES ASSUME presence.pc = "sleep"
               PROVE  presence.wait \in LeastBackoff(presence.streak)..MaxBackoff
    BY DEF BackoffGrows, LeastBackoff
  <2>1. /\ presence.wait \in 0..MaxBackoff /\ presence.wait >= presence.backoff
        /\ presence.backoff \in InitialBackoff..MaxBackoff /\ presence.streak \in Nat
        /\ presence.backoff >= LeastBackoff(presence.streak)
    BY <1>1 DEF MeasureInv, PresenceInv, LeastBackoff
  <2>2. LeastBackoff(presence.streak) \in Int
    <3>1. 2 ^ presence.streak \in Nat
      BY <2>1, PowerCounts, Zenon
    <3> QED
      BY <3>1, ReportsAssumption DEF LeastBackoff, Least
  <2> QED
    BY <2>1, <2>2, ReportsAssumption
<1> QED
  BY MeasureInvariant, <1>1, PTL

(* What a reading reports of the traffic since the last valid one.         *)
LEMMA ReadingCounts ==
    ASSUME TrafficInv, NEW reading, NEW cpuFails, NEW broken,
           CollectState(reading, cpuFails, broken),
           sample'.netValid, net.has, net.source # {}, Source # {}
    PROVE  /\ (traffic.legacy => traffic'.legacy) =>
                sample'.bytes =< Sum(traffic.carried, Monitored)
           /\ Source = net.source /\ ~traffic.restarted /\ traffic.ticks > 0
              /\ ~traffic.legacy /\ ~traffic'.legacy =>
                /\ sample'.bytes = Sum(traffic.carried, Source)
                /\ sample'.elapsed = traffic.ticks
<1> DEFINE carried == traffic.carried
           S == net.source
           total == TotalRead(reading)
           low == Sum(LegacyOf(counter), S)
<1>1. sample'.bytes = Increase(total) /\ sample'.elapsed = net.age
  BY DEF CollectState
<1>2. /\ counter \in [Interfaces -> Nat] /\ carried \in [Interfaces -> Nat]
      /\ S \subseteq Monitored /\ Monitored \subseteq Interfaces
      /\ net.total \in Nat /\ net.age = traffic.ticks /\ net.age \in Nat
      /\ low =< net.total + Sum(carried, S)
      /\ ~traffic.legacy => Sum(counter, S) =< net.total + Sum(carried, S)
      /\ ~traffic.legacy /\ ~traffic.restarted =>
           Sum(counter, S) = net.total + Sum(carried, S)
  BY MetricsAssumption DEF TrafficInv, Ticks
<1>3. /\ Sum(carried, S) \in Nat /\ Sum(carried, Monitored) \in Nat
      /\ Sum(counter, S) \in Nat /\ low \in Nat
  BY <1>2, TotalsAreNat, LegacyTotals
<1>4. Sum(carried, S) =< Sum(carried, Monitored)
  <2>1. IsFiniteSet(Monitored) /\ S \in SUBSET Monitored
        /\ \A x \in Monitored : carried[x] \in Nat
    BY <1>2, TotalsAreNat
  <2> HIDE DEF S, carried
  <2> QED
    BY <2>1, SumMonotone, SumIsSumOf
<1>5. traffic'.legacy = (reading = "legacy")
  BY DEF CollectState, NoTraffic
<1>6. CASE Source = S
  <2>1. total = IF reading = "legacy" THEN low ELSE Sum(counter, S)
    BY <1>6 DEF TotalRead, Total
  <2>2. Increase(total) =
          IF net.age > 0 /\ total > net.total THEN total - net.total ELSE 0
    BY <1>6 DEF Increase, Comparable
  <2>3. /\ (traffic.legacy => reading = "legacy") => Increase(total) =< Sum(carried, Monitored)
        /\ ~traffic.restarted /\ traffic.ticks > 0 /\ ~traffic.legacy /\ reading # "legacy" =>
             Increase(total) = Sum(carried, S)
    <3> HIDE DEF S, carried, total, low
    <3> QED
      BY <1>2, <1>3, <1>4, <2>1, <2>2
  <2> QED
    BY <1>1, <1>2, <1>5, <1>6, <2>3
<1>7. CASE Source # S
  <2>1. Increase(total) = 0
    BY <1>7 DEF Increase, Comparable
  <2> QED
    BY <1>1, <1>3, <1>7, <2>1
<1> QED
  BY <1>6, <1>7

(* A traffic rate counts what the interfaces carried since the last valid  *)
(* reading, and never more, unless the reading before it came from the     *)
(* legacy table and this one does not (CollectState of metrics.go).        *)
THEOREM RatesCountTraffic == ReportsSpec => TrafficCounted
<1> DEFINE Counted ==
      sample'.netValid /\ net.has /\ net.source # {} /\ Source # {} =>
         /\ (traffic.legacy => traffic'.legacy) =>
              sample'.bytes =< Sum(traffic.carried, Monitored)
         /\ Source = net.source /\ ~traffic.restarted /\ traffic.ticks > 0
            /\ ~traffic.legacy /\ ~traffic'.legacy =>
              /\ sample'.bytes = Sum(traffic.carried, Source)
              /\ sample'.elapsed = traffic.ticks
<1>1. ASSUME MeasureInv, ReportState PROVE Counted
  BY <1>1, ReadingCounts DEF MeasureInv, ReportState
<1>2. MeasureInv /\ [ReportsNext]_reportVars => [Collected => Counted]_metricsVars
  BY <1>1, OnlyCollected
<1>3. [Collected => Counted]_metricsVars <=>
        [Collected /\ sample'.netValid /\ net.has /\ net.source # {} /\ Source # {} =>
         /\ (traffic.legacy => traffic'.legacy) =>
              sample'.bytes =< Sum(traffic.carried, Monitored)
         /\ Source = net.source /\ ~traffic.restarted /\ traffic.ticks > 0
            /\ ~traffic.legacy /\ ~traffic'.legacy =>
              /\ sample'.bytes = Sum(traffic.carried, Source)
              /\ sample'.elapsed = traffic.ticks]_metricsVars
  OBVIOUS
<1> QED
  BY MeasureInvariant, <1>2, <1>3, PTL DEF ReportsSpec, TrafficCounted

(* What a reading reports of the processor time since the last one.        *)
LEMMA ReadingShares ==
    ASSUME LoadInv, NEW reading, NEW cpuFails, NEW broken,
           CollectState(reading, cpuFails, broken)
    PROVE  /\ sample'.cpu.busy =< sample'.cpu.all
           /\ cpu.has /\ load' = NoLoad /\ ~load.back =>
                sample'.cpu.busy * (load.busy + load.idle) = load.busy * sample'.cpu.all
<1> DEFINE all == (times.total - cpu.total) % Word
           idle == (times.idle - cpu.idle) % Word
           nothing == [busy |-> 0, all |-> 1]
<1>1. /\ times.total \in 0..(Word - 1) /\ times.idle \in 0..(Word - 1)
      /\ cpu.total \in 0..(Word - 1) /\ cpu.idle \in 0..(Word - 1)
      /\ load.busy \in Nat /\ load.idle \in Nat /\ load.busy + load.idle \in 0..MaxLoad
      /\ load.idle \in 0..MaxLoad
      /\ Word \in Nat /\ Word > MaxLoad /\ MaxLoad \in Nat
  BY MetricsAssumption DEF LoadInv
<1>2. /\ cpuFails => sample'.cpu = nothing /\ load' = load
      /\ ~cpuFails => sample'.cpu = IF ~cpu.has \/ all = 0 \/ idle > all THEN nothing
                                    ELSE [busy |-> all - idle, all |-> all]
  BY Zenon DEF CollectState, CpuShare
<1>3. all \in 0..(Word - 1) /\ idle \in 0..(Word - 1)
  BY <1>1, Reduced
<1>4. ASSUME cpu.has, ~load.back PROVE all = load.busy + load.idle /\ idle = load.idle
  <2>1. /\ Passed(times.total, cpu.total, load.busy + load.idle)
        /\ Passed(times.idle, cpu.idle, load.idle)
    BY <1>4 DEF LoadInv
  <2> QED
    BY <1>1, <2>1, PassedSince
<1> HIDE DEF all, idle
<1>5. CASE sample'.cpu = nothing
  <2>1. sample'.cpu.busy = 0 /\ sample'.cpu.all = 1
    BY <1>5
  <2>2. ASSUME cpu.has, load' = NoLoad, ~load.back PROVE load.busy = 0
    <3>1. CASE cpuFails
      BY <1>2, <2>2, <3>1 DEF NoLoad
    <3>2. CASE ~cpuFails
      <4>1. CASE all = 0 \/ idle > all
        BY <1>1, <1>4, <2>2, <4>1
      <4>2. CASE ~(all = 0 \/ idle > all)
        <5>1. sample'.cpu = [busy |-> all - idle, all |-> all]
          BY <1>2, <2>2, <3>2, <4>2
        <5>2. all - idle = 0
          BY <1>5, <5>1
        <5> QED
          BY <1>1, <1>4, <2>2, <5>2
      <4> QED
        BY <4>1, <4>2
    <3> QED
      BY <3>1, <3>2
  <2> QED
    BY <1>1, <2>1, <2>2
<1>6. CASE /\ ~(~cpu.has \/ all = 0 \/ idle > all)
           /\ sample'.cpu = [busy |-> all - idle, all |-> all]
  <2>1. sample'.cpu.busy = all - idle /\ sample'.cpu.all = all
    BY <1>6
  <2>2. all - idle =< all
    BY <1>3
  <2>3. cpu.has /\ ~load.back => all - idle = load.busy /\ all = load.busy + load.idle
    BY <1>1, <1>4
  <2> QED
    BY <2>1, <2>2, <2>3, Zenon
<1> QED
  BY <1>2, <1>5, <1>6

(* The processor share is the share of the time that passed since the last *)
(* reading, over failed readings and the overflow of a counter (cpuPercent *)
(* of metrics.go).                                                         *)
THEOREM SharesCountTime == ReportsSpec => ProcessorShare
<1> DEFINE Shared ==
      /\ sample'.cpu.busy =< sample'.cpu.all
      /\ cpu.has /\ load' = NoLoad /\ ~load.back =>
           sample'.cpu.busy * (load.busy + load.idle) = load.busy * sample'.cpu.all
<1>1. ASSUME MeasureInv, ReportState PROVE Shared
  BY <1>1, ReadingShares DEF MeasureInv, ReportState
<1>2. MeasureInv /\ [ReportsNext]_reportVars => [Collected => Shared]_metricsVars
  BY <1>1, OnlyCollected
<1> QED
  BY MeasureInvariant, <1>2, PTL DEF ReportsSpec, ProcessorShare
=============================================================================
