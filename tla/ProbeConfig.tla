----------------------------- MODULE ProbeConfig -----------------------------
(***************************************************************************)
(* The probe configuration of the agent (cmd/zeno-agent/main.go and the    *)
(* presence connection of internal/agent/presence.go).  Three goroutines   *)
(* refresh it: the poller, the presence connection when the Controller     *)
(* announces a change, and the uploader after a stale result was rejected. *)
(* One goroutine, the probe loop, takes the due targets, probes them,      *)
(* persists the results and marks the targets completed.                   *)
(*                                                                         *)
(* Every access to the manager's fields is under its mutex and is one      *)
(* step.  A set of targets stands for a sanitized target list; intervals   *)
(* and budgets are left open, so any of its targets may be taken next.     *)
(***************************************************************************)
EXTENDS Integers, Sequences

CONSTANTS
    Background,      \* goroutines that refresh without being asked for a version:
                     \* the poller, and the uploader in OnRejected
    Contents,        \* the target lists a Controller may hand out
    MaxVersion,      \* bound: largest configuration version
    MaxPublications, \* bound: how often the Controller changes its configuration
    MaxGeneration,   \* bound: how often the manager takes a new configuration
    MaxNotices,      \* bound: unread config_changed messages
    MaxRestarts,     \* bound: restarts of the agent
    AnyAnswer        \* TRUE: answers and notices are arbitrary, not the published ones

ASSUME ConfigAssumption ==
    /\ MaxVersion \in Nat /\ MaxPublications \in Nat
    /\ MaxGeneration \in Nat /\ MaxNotices \in Nat /\ MaxRestarts \in Nat
    /\ AnyAnswer \in BOOLEAN
    /\ {} \in Contents
    /\ "presence" \notin Background /\ "free" \notin Background

VARIABLES
    controller,  \* the configuration the Controller publishes now
    manager,     \* probeTargetManager
    gate,        \* the goroutine that took the refreshGate token, or "free"
    refresher,   \* the refreshing goroutines
    conn,        \* the presence connection and its unread messages
    acked,       \* history: <<requested, applied>> of every ACK of this process
    run,         \* the probe loop inside runDueProbes
    stored,      \* history: batches this process has persisted
    applied,     \* history: <<version, targets>> this process has taken over
    restarts     \* how often the agent was restarted

configVars == <<controller, manager, gate, refresher, conn, acked, run, stored,
                applied, restarts>>

Refreshers == Background \cup {"presence"}
Targets == UNION Contents
Versions == 0..MaxVersion
SentVersions == -1..MaxVersion       \* a Controller may send a negative version
Orders == 0..MaxPublications

(* "order" numbers the publications: history, no answer carries it.        *)
Config == [version : SentVersions, targets : Contents, order : Orders]

Batch == [targets : SUBSET Targets, version : Versions, generation : 0..MaxGeneration]

(* The scheduler's lastCompleted map; it keeps the batch that marked a     *)
(* target instead of the time.                                             *)
Completions == UNION {[S -> Batch] : S \in SUBSET Targets}

(* probeTargetManager.                                                     *)
Manager == [version     : Versions,
            targets     : Contents,
            initialized : BOOLEAN,
            generation  : 0..MaxGeneration,
            order       : Orders,
            completed   : Completions]

Refresher == [pc       : {"idle", "gate", "fetch", "update", "ack"},
              asked    : Versions,
              response : Config]

NoConfig == [version |-> 0, targets |-> {}, order |-> 0]
NoBatch == [targets |-> {}, version |-> 0, generation |-> 0]
IdleRefresher == [pc |-> "idle", asked |-> 0, response |-> NoConfig]
Waiting(asked) == [IdleRefresher EXCEPT !.pc = "gate", !.asked = asked]
Acking(asked, version) ==
    [pc |-> "ack", asked |-> asked, response |-> [NoConfig EXCEPT !.version = version]]
IdleRun == [pc |-> "idle", batch |-> NoBatch]
NoConnection == [up |-> FALSE, notices |-> << >>]
NewManager == [version |-> 0, targets |-> {}, initialized |-> FALSE,
               generation |-> 0, order |-> 0, completed |-> << >>]

-----------------------------------------------------------------------------
(* The Controller (external).                                              *)

(* A Controller without versions publishes version 0 for ever; one with    *)
(* versions counts them up.                                                *)
Publish ==
    /\ controller.order < MaxPublications
    /\ \E targets \in Contents, version \in Versions :
         /\ version = controller.version + 1 \/ (version = 0 /\ controller.version = 0)
         /\ controller' = [version |-> version, targets |-> targets,
                           order |-> controller.order + 1]
    /\ UNCHANGED <<manager, gate, refresher, conn, acked, run, stored, applied, restarts>>

Answers ==
    IF AnyAnswer THEN [version : SentVersions, targets : Contents, order : {0}]
    ELSE {controller}

AnnouncedVersions == IF AnyAnswer THEN SentVersions ELSE {controller.version}

(* A config_changed message on the presence connection.                    *)
Announce ==
    /\ conn.up /\ Len(conn.notices) < MaxNotices
    /\ \E version \in AnnouncedVersions :
         conn' = [conn EXCEPT !.notices = Append(@, version)]
    /\ UNCHANGED <<controller, manager, gate, refresher, acked, run, stored, applied,
                   restarts>>

-----------------------------------------------------------------------------
(* refreshProbeConfig and refreshProbeTargets.                             *)

UpToDate(asked) == asked > 0 /\ manager.initialized /\ manager.version >= asked

(* Mutant: the requested version is acknowledged, not the applied one. *)
FinishedAsAsked(r, asked, version) ==
    refresher' = [refresher EXCEPT ![r] =
        IF r = "presence" /\ version >= asked THEN Acking(asked, asked) ELSE IdleRefresher]

(* The refresh ended: only the presence connection looks at the result, it *)
(* acknowledges a version that is not older than the one it was asked for. *)
Finished(r, asked, version) ==
    refresher' = [refresher EXCEPT ![r] =
        IF r = "presence" /\ version >= asked THEN Acking(asked, version) ELSE IdleRefresher]

Failed(r) == refresher' = [refresher EXCEPT ![r] = IdleRefresher]

Ask(r, asked) ==
    /\ refresher[r].pc = "idle"
    /\ IF UpToDate(asked)
       THEN Finished(r, asked, manager.version)
       ELSE refresher' = [refresher EXCEPT ![r] = Waiting(asked)]

(* The poller's ticker fires, or the uploader calls OnRejected.            *)
Poll(r) ==
    /\ Ask(r, 0)
    /\ UNCHANGED <<controller, manager, gate, conn, acked, run, stored, applied, restarts>>

(* The presence connection reads its next message.                         *)
ReadNotice ==
    /\ refresher["presence"].pc = "idle"
    /\ conn.up /\ conn.notices # << >>
    /\ conn' = [conn EXCEPT !.notices = Tail(@)]
    /\ IF Head(conn.notices) < 0
       THEN UNCHANGED refresher
       ELSE Ask("presence", Head(conn.notices))
    /\ UNCHANGED <<controller, manager, gate, acked, run, stored, applied, restarts>>

(* Mutant: refreshes do not exclude each other. *)
AcquireGateAnyway(r) ==
    /\ refresher[r].pc = "gate"
    /\ refresher' = [refresher EXCEPT ![r].pc = "fetch"]
    /\ UNCHANGED <<controller, manager, gate, conn, acked, run, stored, applied, restarts>>

(* beginRefresh, and the second look at the version.                       *)
AcquireGate(r) ==
    /\ refresher[r].pc = "gate"
    /\ gate = "free"
    /\ IF UpToDate(refresher[r].asked)
       THEN /\ Finished(r, refresher[r].asked, manager.version)
            /\ UNCHANGED gate
       ELSE /\ gate' = r
            /\ refresher' = [refresher EXCEPT ![r].pc = "fetch"]
    /\ UNCHANGED <<controller, manager, conn, acked, run, stored, applied, restarts>>

(* The context of the refresh ends while it waits.                         *)
GateTimeout(r) ==
    /\ refresher[r].pc = "gate"
    /\ Failed(r)
    /\ UNCHANGED <<controller, manager, gate, conn, acked, run, stored, applied, restarts>>

(* FetchProbeConfig.                                                       *)
FetchAnswered(r) ==
    /\ refresher[r].pc = "fetch"
    /\ \E response \in Answers :
         refresher' = [refresher EXCEPT ![r].pc = "update", ![r].response = response]
    /\ UNCHANGED <<controller, manager, gate, conn, acked, run, stored, applied, restarts>>

(* Mutant: a failed request returns without endRefresh. *)
FetchFailsKeepingGate(r) ==
    /\ refresher[r].pc = "fetch"
    /\ Failed(r)
    /\ UNCHANGED <<controller, manager, gate, conn, acked, run, stored, applied, restarts>>

FetchFails(r) ==
    /\ refresher[r].pc = "fetch"
    /\ gate' = "free"
    /\ Failed(r)
    /\ UNCHANGED <<controller, manager, conn, acked, run, stored, applied, restarts>>

(* Mutant: the content of a known version is not compared. *)
AcceptableByVersion(config, asked) ==
    /\ config.version >= asked
    /\ config.version >= 0
    /\ manager.initialized => config.version >= manager.version

(* The checks of refreshProbeTargets and update.                           *)
Acceptable(config, asked) ==
    /\ config.version >= asked
    /\ config.version >= 0
    /\ manager.initialized =>
         /\ config.version >= manager.version
         /\ manager.version > 0 /\ config.version = manager.version =>
              config.targets = manager.targets

(* update: an unchanged configuration keeps the schedule and generation.   *)
Updated(config) ==
    IF config.version = manager.version /\ config.targets = manager.targets
    THEN [manager EXCEPT !.initialized = TRUE, !.order = config.order]
    ELSE [version |-> config.version, targets |-> config.targets, initialized |-> TRUE,
          generation |-> manager.generation + 1, order |-> config.order,
          completed |-> << >>]

Update(r) ==
    LET config == refresher[r].response
    IN  /\ refresher[r].pc = "update"
        /\ gate' = "free"
        /\ \/ /\ Acceptable(config, refresher[r].asked)
              /\ Updated(config).generation =< MaxGeneration
              /\ manager' = Updated(config)
              /\ applied' = applied \cup {<<config.version, config.targets>>}
              /\ Finished(r, refresher[r].asked, config.version)
           \/ /\ ~Acceptable(config, refresher[r].asked)
              /\ Failed(r)
              /\ UNCHANGED <<manager, applied>>
        /\ UNCHANGED <<controller, conn, acked, run, stored, restarts>>

-----------------------------------------------------------------------------
(* The presence connection.                                                *)

(* The ACK is written; on a dead connection nobody receives it.            *)
WriteAck ==
    /\ refresher["presence"].pc = "ack"
    /\ Failed("presence")
    /\ acked' = IF conn.up
                THEN acked \cup {<<refresher["presence"].asked,
                                   refresher["presence"].response.version>>}
                ELSE acked
    /\ UNCHANGED <<controller, manager, gate, conn, run, stored, applied, restarts>>

Connect ==
    /\ ~conn.up /\ refresher["presence"].pc = "idle"
    /\ conn' = [conn EXCEPT !.up = TRUE]
    /\ UNCHANGED <<controller, manager, gate, refresher, acked, run, stored, applied,
                   restarts>>

Disconnect ==
    /\ conn.up
    /\ conn' = NoConnection
    /\ UNCHANGED <<controller, manager, gate, refresher, acked, run, stored, applied,
                   restarts>>

-----------------------------------------------------------------------------
(* runDueProbes.                                                           *)

(* beginRun and due: some of the targets, the due ones that fit the budget *)
(* of a run.                                                               *)
StartRun ==
    /\ run.pc = "idle"
    /\ \E due \in SUBSET manager.targets :
         /\ due # {}
         /\ run' = [pc |-> "probing",
                    batch |-> [targets |-> due, version |-> manager.version,
                               generation |-> manager.generation]]
    /\ UNCHANGED <<controller, manager, gate, refresher, conn, acked, stored, applied,
                   restarts>>

(* Mutant: a configuration is recognised by its version alone. *)
IsCurrentByVersion(batch) == batch.version = manager.version

IsCurrent(batch) ==
    batch.generation = manager.generation /\ batch.version = manager.version

(* The probes are done: results of a replaced configuration are discarded. *)
CheckCurrent ==
    /\ run.pc = "probing"
    /\ run' = IF IsCurrent(run.batch) THEN [run EXCEPT !.pc = "enqueue"] ELSE IdleRun
    /\ UNCHANGED <<controller, manager, gate, refresher, conn, acked, stored, applied,
                   restarts>>

(* Mutant: results are stamped with the version of the moment. *)
PersistResultsRestamped ==
    /\ run.pc = "enqueue"
    /\ run' = [run EXCEPT !.pc = "mark"]
    /\ stored' = stored \cup {[run.batch EXCEPT !.version = manager.version]}
    /\ UNCHANGED <<controller, manager, gate, refresher, conn, acked, applied, restarts>>

(* Enqueue succeeds, or the targets stay due.                              *)
PersistResults ==
    /\ run.pc = "enqueue"
    /\ \/ /\ run' = [run EXCEPT !.pc = "mark"]
          /\ stored' = stored \cup {run.batch}
       \/ /\ run' = IdleRun
          /\ UNCHANGED stored
    /\ UNCHANGED <<controller, manager, gate, refresher, conn, acked, applied, restarts>>

Marked(batch) ==
    [t \in DOMAIN manager.completed \cup batch.targets |->
        IF t \in batch.targets THEN batch ELSE manager.completed[t]]

MarkCompleted ==
    /\ run.pc = "mark"
    /\ run' = IdleRun
    /\ manager' = IF IsCurrent(run.batch)
                  THEN [manager EXCEPT !.completed = Marked(run.batch)]
                  ELSE manager
    /\ UNCHANGED <<controller, gate, refresher, conn, acked, stored, applied, restarts>>

-----------------------------------------------------------------------------
(* A stop or a crash, and the next process: the configuration is not kept. *)
RestartAgent ==
    /\ restarts < MaxRestarts
    /\ restarts' = restarts + 1
    /\ manager' = NewManager
    /\ gate' = "free"
    /\ refresher' = [r \in Refreshers |-> IdleRefresher]
    /\ conn' = NoConnection
    /\ run' = IdleRun
    /\ acked' = {} /\ stored' = {} /\ applied' = {}
    /\ UNCHANGED controller

RefreshStep(r) ==
    AcquireGate(r) \/ FetchAnswered(r) \/ FetchFails(r) \/ Update(r)

RunStep == StartRun \/ CheckCurrent \/ PersistResults \/ MarkCompleted

ConfigInit ==
    /\ controller = NoConfig
    /\ manager = NewManager
    /\ gate = "free"
    /\ refresher = [r \in Refreshers |-> IdleRefresher]
    /\ conn = NoConnection
    /\ run = IdleRun
    /\ acked = {} /\ stored = {} /\ applied = {}
    /\ restarts = 0

ConfigNext ==
    \/ Publish \/ Announce
    \/ \E r \in Background : Poll(r)
    \/ ReadNotice
    \/ \E r \in Refreshers : RefreshStep(r) \/ GateTimeout(r)
    \/ WriteAck \/ Connect \/ Disconnect
    \/ RunStep
    \/ RestartAgent

ConfigSpec == ConfigInit /\ [][ConfigNext]_configVars

-----------------------------------------------------------------------------
(* Every variable of the configuration stays in its type.                  *)
ConfigTypeOK ==
    /\ controller \in Config
    /\ manager \in Manager
    /\ gate \in Refreshers \cup {"free"}
    /\ refresher \in [Refreshers -> Refresher]
    /\ conn \in [up : BOOLEAN, notices : Seq(SentVersions)]
    /\ acked \subseteq Versions \X Versions
    /\ run \in [pc : {"idle", "probing", "enqueue", "mark"}, batch : Batch]
    /\ stored \subseteq Batch
    /\ applied \subseteq Versions \X Contents
    /\ restarts \in 0..MaxRestarts

(* The gate is held by exactly the refresh that fetches or updates, and    *)
(* comes back on every way out.                                            *)
GateInv ==
    \A r \in Refreshers : refresher[r].pc \in {"fetch", "update"} <=> gate = r

(* Within a process versions never move back, and a positive version never *)
(* changes its content, whatever the Controller answers and however the    *)
(* refreshes overlap.                                                      *)
VersionsAdvance ==
    /\ \A a \in applied : a[1] =< manager.version
    /\ \A a, b \in applied : a[1] = b[1] /\ a[1] > 0 => a[2] = b[2]

(* An ACK tells the Controller the truth: what it names has been applied   *)
(* by this process, is not newer than what runs now, and is no older than  *)
(* what was announced.                                                     *)
AckedIsApplied ==
    \A a \in acked :
        /\ a[2] >= a[1] /\ a[2] =< manager.version
        /\ \E targets \in Contents : <<a[2], targets>> \in applied

(* Results are stamped with the version whose targets were probed.         *)
ResultsMatchConfig ==
    \A b \in stored :
        \E config \in applied : b.version = config[1] /\ b.targets \subseteq config[2]

(* A target counts as completed only through results that were persisted   *)
(* under the very configuration that runs now: a configuration that        *)
(* replaced another one while its probes ran starts with nothing completed.*)
CompletionsCurrent ==
    \A t \in DOMAIN manager.completed :
        LET b == manager.completed[t]
        IN  t \in manager.targets /\ t \in b.targets /\ IsCurrent(b) /\ b \in stored

(* What the manager runs has been applied, and so has what is about to be  *)
(* acknowledged.                                                           *)
AppliedInv ==
    /\ manager.initialized => <<manager.version, manager.targets>> \in applied
    /\ ~manager.initialized => applied = {} /\ manager = NewManager
    /\ refresher["presence"].pc = "ack" =>
         LET version == refresher["presence"].response.version
         IN  /\ version >= refresher["presence"].asked /\ version =< manager.version
             /\ \E targets \in Contents : <<version, targets>> \in applied

(* The batch of the open run belongs to an applied configuration, and to   *)
(* the manager's one as long as the generation is the same.                *)
RunInv ==
    run.pc # "idle" =>
        /\ \E config \in applied :
              run.batch.version = config[1] /\ run.batch.targets \subseteq config[2]
        /\ run.batch.generation =< manager.generation
        /\ IsCurrent(run.batch) => run.batch.targets \subseteq manager.targets
        /\ run.pc = "mark" => run.batch \in stored

(* The inductive invariant of the configuration.                           *)
ConfigInv ==
    /\ ConfigTypeOK
    /\ GateInv
    /\ AppliedInv /\ VersionsAdvance /\ AckedIsApplied
    /\ RunInv /\ ResultsMatchConfig /\ CompletionsCurrent

(* Within a process the configurations are taken over in the order in      *)
(* which the Controller published them, unversioned ones too.              *)
NeverOlder ==
    [][restarts' = restarts => manager'.order >= manager.order]_configVars

-----------------------------------------------------------------------------
(* Fairness: the poller's ticker fires, and not only while another refresh *)
(* holds the gate, whose holder gives it back within its own timeout; a    *)
(* waiting receiver of the gate's channel is served; a request ends with   *)
(* an answer or a timeout, and a Controller asked for ever does answer.    *)
ConfigFairSpec ==
    /\ ConfigSpec
    /\ \A r \in Background :
         /\ SF_configVars(Poll(r) /\ gate = "free")
         /\ SF_configVars(AcquireGate(r))
         /\ SF_configVars(FetchAnswered(r))
    /\ \A r \in Refreshers : WF_configVars(RefreshStep(r))

(* Once the Controller stops changing its configuration, the agent comes   *)
(* to run it, whatever notices were lost and however often it restarted.   *)
EventuallyCurrent ==
    <>[](manager.version = controller.version /\ manager.targets = controller.targets)
=============================================================================
