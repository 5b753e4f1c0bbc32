-------------------------- MODULE ProbeConfigProofs --------------------------
(***************************************************************************)
(* Proofs about ProbeConfig, for every set of target lists, every bound    *)
(* and every Controller, also one that answers arbitrarily.                *)
(***************************************************************************)
EXTENDS ProbeConfig, SequenceTheorems, TLAPS

(* The parts of the invariant that the probe loop depends on.              *)
ManagerInv ==
    AppliedInv /\ VersionsAdvance /\ AckedIsApplied

ProbesInv ==
    RunInv /\ ResultsMatchConfig /\ CompletionsCurrent

(* What a map of completions is.                                           *)
LEMMA CompletionsMaps ==
    ASSUME NEW f
    PROVE  f \in Completions <=> /\ DOMAIN f \subseteq Targets
                                 /\ f \in [DOMAIN f -> Batch]
  BY DEF Completions

(* A new scheduler has completed nothing.                                  *)
LEMMA NothingCompleted == << >> \in Completions
<1>1. DOMAIN << >> = {} /\ << >> \in [{} -> Batch]
  OBVIOUS
<1> QED
  BY <1>1, CompletionsMaps

(* The initial states satisfy the invariant.                               *)
LEMMA InitConfigInv == ConfigInit => ConfigInv
<1> SUFFICES ASSUME ConfigInit PROVE ConfigInv
  OBVIOUS
<1> USE ConfigAssumption DEF ConfigInit, NewManager, NoConfig, IdleRun, NoBatch,
        IdleRefresher, NoConnection, Versions, SentVersions, Orders
<1>1. controller \in Config
  BY DEF Config
<1>2. manager \in Manager
  BY NothingCompleted DEF Manager
<1>3. run \in [pc : {"idle", "probing", "enqueue", "mark"}, batch : Batch]
  BY DEF Batch
<1>4. refresher \in [Refreshers -> Refresher]
  BY DEF Refresher, Config
<1>5. conn \in [up : BOOLEAN, notices : Seq(SentVersions)]
  OBVIOUS
<1>6. ConfigTypeOK
  BY <1>1, <1>2, <1>3, <1>4, <1>5 DEF ConfigTypeOK
<1>7. GateInv
  BY DEF GateInv, Refreshers
<1>8. ManagerInv
  BY DEF ManagerInv, AppliedInv, VersionsAdvance, AckedIsApplied, Refreshers
<1>9. ProbesInv
  BY DEF ProbesInv, RunInv, ResultsMatchConfig, CompletionsCurrent
<1> QED
  BY <1>6, <1>7, <1>8, <1>9 DEF ConfigInv, ManagerInv, ProbesInv

-----------------------------------------------------------------------------
(* What a step leaves alone stays true.                                    *)
LEMMA ProbesSame ==
    ASSUME ProbesInv, UNCHANGED <<manager, run, stored, applied>>
    PROVE  ProbesInv'
  BY DEF ProbesInv, RunInv, ResultsMatchConfig, CompletionsCurrent, IsCurrent

(* The same for the manager, unless an ACK is being prepared.              *)
LEMMA ManagerSame ==
    ASSUME ManagerInv, UNCHANGED <<manager, applied>>, acked' = acked,
           refresher'["presence"] = refresher["presence"] \/ refresher'["presence"].pc # "ack"
    PROVE  ManagerInv'
  BY DEF ManagerInv, AppliedInv, VersionsAdvance, AckedIsApplied

(* The records of a refresh that waits or has ended are refreshers.        *)
LEMMA RefresherTyped ==
    ASSUME NEW asked \in Versions, NEW version \in SentVersions
    PROVE  /\ IdleRefresher \in Refresher /\ IdleRefresher.pc = "idle"
           /\ Waiting(asked) \in Refresher /\ Waiting(asked).pc = "gate"
           /\ Acking(asked, version) \in Refresher /\ Acking(asked, version).pc = "ack"
           /\ Acking(asked, version).asked = asked
           /\ Acking(asked, version).response.version = version
<1>1. 0 \in Versions /\ 0 \in SentVersions /\ 0 \in Orders /\ {} \in Contents
  BY ConfigAssumption DEF Versions, SentVersions, Orders
<1>2. NoConfig \in Config /\ [NoConfig EXCEPT !.version = version] \in Config
  BY <1>1 DEF NoConfig, Config
<1>3. [NoConfig EXCEPT !.version = version].version = version
  BY DEF NoConfig
<1>4. IdleRefresher \in Refresher /\ IdleRefresher.pc = "idle"
  BY <1>1, <1>2 DEF IdleRefresher, Refresher
<1>5. Waiting(asked) \in Refresher /\ Waiting(asked).pc = "gate"
  BY <1>1, <1>2 DEF IdleRefresher, Refresher, Waiting
<1>6. /\ Acking(asked, version) \in Refresher /\ Acking(asked, version).pc = "ack"
      /\ Acking(asked, version).asked = asked
      /\ Acking(asked, version).response.version = version
  BY <1>2, <1>3 DEF Refresher, Acking
<1> QED
  BY <1>4, <1>5, <1>6

(* How a refresh ends: its goroutine is idle, or prepares a truthful ACK.  *)
LEMMA FinishedEffect ==
    ASSUME ConfigTypeOK, NEW r \in Refreshers, NEW asked \in Versions,
           NEW version \in Versions, Finished(r, asked, version)
    PROVE  /\ refresher' \in [Refreshers -> Refresher]
           /\ refresher'[r].pc \in {"idle", "ack"}
           /\ \A q \in Refreshers \ {r} : refresher'[q] = refresher[q]
           /\ refresher'[r].pc = "ack" =>
                /\ refresher'[r].response.version = version
                /\ refresher'[r].asked = asked
                /\ version >= asked
<1>1. version \in SentVersions
  BY ConfigAssumption DEF Versions, SentVersions
<1>2. refresher \in [Refreshers -> Refresher]
  BY DEF ConfigTypeOK
<1> QED
  BY <1>1, <1>2, RefresherTyped DEF Finished

(* A failed refresh leaves its goroutine idle.                             *)
LEMMA FailedEffect ==
    ASSUME ConfigTypeOK, NEW r \in Refreshers, Failed(r)
    PROVE  /\ refresher' \in [Refreshers -> Refresher]
           /\ refresher'[r].pc = "idle"
           /\ \A q \in Refreshers \ {r} : refresher'[q] = refresher[q]
<1>1. 0 \in Versions /\ 0 \in SentVersions
  BY ConfigAssumption DEF Versions, SentVersions
<1>2. refresher \in [Refreshers -> Refresher]
  BY DEF ConfigTypeOK
<1> QED
  BY <1>1, <1>2, RefresherTyped DEF Failed

(* An ACK of the manager's own version is truthful.                        *)
LEMMA AckOfCurrent ==
    ASSUME ConfigTypeOK, ManagerInv, UNCHANGED <<manager, applied>>, acked' = acked,
           manager.initialized,
           refresher'["presence"].pc = "ack" =>
               /\ refresher'["presence"].response.version = manager.version
               /\ manager.version >= refresher'["presence"].asked
    PROVE  ManagerInv'
<1>1. manager.targets \in Contents /\ <<manager.version, manager.targets>> \in applied
  BY DEF ConfigTypeOK, Manager, ManagerInv, AppliedInv
<1>2. manager.version \in Int
  BY DEF ConfigTypeOK, Manager, Versions
<1>3. AppliedInv'
  BY <1>1, <1>2 DEF ManagerInv, AppliedInv
<1> QED
  BY <1>3 DEF ManagerInv, VersionsAdvance, AckedIsApplied

-----------------------------------------------------------------------------
(* The gate follows the one refresh that moved.                            *)
LEMMA GateMoves ==
    ASSUME GateInv, NEW r \in Refreshers,
           \A q \in Refreshers \ {r} : refresher'[q] = refresher[q],
           \/ gate' = r /\ gate = "free" /\ refresher'[r].pc \in {"fetch", "update"}
           \/ gate' = gate /\ (refresher'[r].pc \in {"fetch", "update"} <=>
                               refresher[r].pc \in {"fetch", "update"})
           \/ gate' = "free" /\ gate = r /\ refresher'[r].pc \notin {"fetch", "update"}
    PROVE  GateInv'
<1>1. "free" \notin Refreshers
  BY ConfigAssumption DEF Refreshers
<1> QED
  BY <1>1 DEF GateInv

(* Steps of the Controller and of the connection.                          *)
LEMMA OutsideKeeps ==
    ASSUME ConfigInv, Publish \/ Announce \/ Connect \/ Disconnect
    PROVE  ConfigInv'
<1>1. UNCHANGED <<manager, gate, refresher, acked, run, stored, applied, restarts>>
  BY DEF Publish, Announce, Connect, Disconnect
<1>2. controller' \in Config
  <2>1. CASE Publish
    <3>1. PICK targets \in Contents, version \in Versions :
            controller' = [version |-> version, targets |-> targets,
                           order |-> controller.order + 1]
      BY <2>1 DEF Publish
    <3>2. controller.order + 1 \in Orders /\ version \in SentVersions
      BY <2>1, ConfigAssumption DEF Publish, ConfigInv, ConfigTypeOK, Config, Orders,
         Versions, SentVersions
    <3> QED
      BY <3>1, <3>2 DEF Config
  <2>2. CASE Announce \/ Connect \/ Disconnect
    BY <2>2 DEF Announce, Connect, Disconnect, ConfigInv, ConfigTypeOK
  <2> QED
    BY <2>1, <2>2
<1>3. conn' \in [up : BOOLEAN, notices : Seq(SentVersions)]
  <2>1. conn \in [up : BOOLEAN, notices : Seq(SentVersions)]
    BY DEF ConfigInv, ConfigTypeOK
  <2>2. CASE Announce
    <3>1. PICK version \in AnnouncedVersions :
            conn' = [conn EXCEPT !.notices = Append(@, version)]
      BY <2>2 DEF Announce
    <3>2. version \in SentVersions
      BY <3>1 DEF AnnouncedVersions, ConfigInv, ConfigTypeOK, Config
    <3> QED
      BY <2>1, <3>1, <3>2
  <2>3. CASE Publish
    BY <2>1, <2>3 DEF Publish
  <2>4. CASE Connect
    BY <2>1, <2>4 DEF Connect
  <2>5. CASE Disconnect
    BY <2>5 DEF Disconnect, NoConnection
  <2> QED
    BY <2>2, <2>3, <2>4, <2>5
<1>4. ConfigTypeOK'
  BY <1>1, <1>2, <1>3 DEF ConfigInv, ConfigTypeOK
<1>5. GateInv'
  BY <1>1 DEF ConfigInv, GateInv
<1>6. ManagerInv' /\ ProbesInv'
  BY <1>1, ManagerSame, ProbesSame DEF ConfigInv, ManagerInv, ProbesInv
<1> QED
  BY <1>4, <1>5, <1>6 DEF ConfigInv, ManagerInv, ProbesInv

(* A step of one refresh that takes over nothing.                          *)
LEMMA RefreshMoves ==
    ASSUME ConfigInv, UNCHANGED <<controller, manager, acked, run, stored, applied, restarts>>,
           refresher' \in [Refreshers -> Refresher],
           conn' \in [up : BOOLEAN, notices : Seq(SentVersions)],
           gate' \in Refreshers \cup {"free"},
           GateInv', ManagerInv'
    PROVE  ConfigInv'
<1>1. ConfigTypeOK'
  BY DEF ConfigInv, ConfigTypeOK
<1>2. ProbesInv'
  BY ProbesSame DEF ConfigInv, ProbesInv
<1> QED
  BY <1>1, <1>2 DEF ConfigInv, ManagerInv, ProbesInv

(* Asking for a refresh: answered from the manager, or sent to the gate.   *)
LEMMA AskEffect ==
    ASSUME ConfigInv, NEW r \in Refreshers, NEW asked \in Versions, Ask(r, asked),
           UNCHANGED <<manager, gate, acked, applied>>
    PROVE  refresher' \in [Refreshers -> Refresher] /\ GateInv' /\ ManagerInv'
<1>1. /\ ConfigTypeOK /\ GateInv /\ ManagerInv /\ refresher \in [Refreshers -> Refresher]
      /\ manager.version \in Versions /\ "presence" \in Refreshers
  BY DEF ConfigInv, ConfigTypeOK, Manager, ManagerInv, Refreshers
<1>2. CASE UpToDate(asked)
  <2>1. Finished(r, asked, manager.version) /\ refresher[r].pc = "idle"
    BY <1>2 DEF Ask
  <2>2. /\ refresher' \in [Refreshers -> Refresher]
        /\ refresher'[r].pc \in {"idle", "ack"}
        /\ \A q \in Refreshers \ {r} : refresher'[q] = refresher[q]
        /\ refresher'[r].pc = "ack" =>
             /\ refresher'[r].response.version = manager.version
             /\ manager.version >= refresher'[r].asked
    BY <1>1, <2>1, FinishedEffect
  <2>3. GateInv'
    BY <1>1, <2>1, <2>2, GateMoves
  <2>4. ManagerInv'
    <3>1. CASE r = "presence"
      BY <1>1, <1>2, <2>2, <3>1, AckOfCurrent DEF UpToDate
    <3>2. CASE r # "presence"
      BY <1>1, <2>2, <3>2, ManagerSame
    <3> QED
      BY <3>1, <3>2
  <2> QED
    BY <2>2, <2>3, <2>4
<1>3. CASE ~UpToDate(asked)
  <2>1. refresher' = [refresher EXCEPT ![r] = Waiting(asked)] /\ refresher[r].pc = "idle"
    BY <1>3 DEF Ask
  <2>2. 0 \in SentVersions
    BY ConfigAssumption DEF SentVersions
  <2>3. /\ refresher' \in [Refreshers -> Refresher]
        /\ refresher'[r].pc = "gate"
        /\ \A q \in Refreshers \ {r} : refresher'[q] = refresher[q]
    BY <1>1, <2>1, <2>2, RefresherTyped
  <2>4. GateInv'
    BY <1>1, <2>1, <2>3, GateMoves
  <2>5. ManagerInv'
    BY <1>1, <2>3, ManagerSame
  <2> QED
    BY <2>3, <2>4, <2>5
<1> QED
  BY <1>2, <1>3

(* The poller's ticker, or OnRejected.                                     *)
LEMMA PollKeeps ==
    ASSUME ConfigInv, NEW r \in Background, Poll(r)
    PROVE  ConfigInv'
<1>1. /\ r \in Refreshers /\ 0 \in Versions /\ Ask(r, 0)
      /\ UNCHANGED <<controller, manager, gate, conn, acked, run, stored, applied, restarts>>
  BY ConfigAssumption DEF Refreshers, Versions, Poll
<1>2. refresher' \in [Refreshers -> Refresher] /\ GateInv' /\ ManagerInv'
  BY <1>1, AskEffect
<1> QED
  BY <1>1, <1>2, RefreshMoves DEF ConfigInv, ConfigTypeOK

(* A message on the presence connection.                                   *)
LEMMA ReadNoticeKeeps ==
    ASSUME ConfigInv, ReadNotice
    PROVE  ConfigInv'
<1>1. /\ conn \in [up : BOOLEAN, notices : Seq(SentVersions)] /\ conn.notices # << >>
      /\ conn' = [conn EXCEPT !.notices = Tail(@)]
      /\ UNCHANGED <<controller, manager, gate, acked, run, stored, applied, restarts>>
  BY DEF ReadNotice, ConfigInv, ConfigTypeOK
<1>2. Head(conn.notices) \in SentVersions /\ Tail(conn.notices) \in Seq(SentVersions)
  BY <1>1, HeadTailProperties
<1>3. conn' \in [up : BOOLEAN, notices : Seq(SentVersions)]
  BY <1>1, <1>2
<1>4. refresher' \in [Refreshers -> Refresher] /\ GateInv' /\ ManagerInv'
  <2>1. CASE Head(conn.notices) < 0
    <3>1. UNCHANGED refresher
      BY <2>1 DEF ReadNotice
    <3> QED
      BY <1>1, <3>1, ManagerSame DEF ConfigInv, ConfigTypeOK, GateInv, ManagerInv
  <2>2. CASE ~(Head(conn.notices) < 0)
    <3>1. Ask("presence", Head(conn.notices))
      BY <2>2 DEF ReadNotice
    <3>2. Head(conn.notices) \in Versions /\ "presence" \in Refreshers
      BY <1>2, <2>2, ConfigAssumption DEF Versions, SentVersions, Refreshers
    <3> QED
      BY <1>1, <3>1, <3>2, AskEffect
  <2> QED
    BY <2>1, <2>2
<1> QED
  BY <1>1, <1>3, <1>4, RefreshMoves DEF ConfigInv, ConfigTypeOK

(* beginRefresh.                                                           *)
LEMMA AcquireGateKeeps ==
    ASSUME ConfigInv, NEW r \in Refreshers, AcquireGate(r)
    PROVE  ConfigInv'
<1>1. /\ ConfigTypeOK /\ GateInv /\ ManagerInv /\ refresher \in [Refreshers -> Refresher]
      /\ manager.version \in Versions /\ "presence" \in Refreshers
      /\ refresher[r].asked \in Versions
  BY DEF ConfigInv, ConfigTypeOK, Manager, ManagerInv, Refreshers, Refresher
<1>2. /\ refresher[r].pc = "gate" /\ gate = "free"
      /\ UNCHANGED <<controller, manager, conn, acked, run, stored, applied, restarts>>
  BY DEF AcquireGate
<1>3. CASE UpToDate(refresher[r].asked)
  <2>1. Finished(r, refresher[r].asked, manager.version) /\ gate' = gate
    BY <1>3 DEF AcquireGate
  <2>2. /\ refresher' \in [Refreshers -> Refresher]
        /\ refresher'[r].pc \in {"idle", "ack"}
        /\ \A q \in Refreshers \ {r} : refresher'[q] = refresher[q]
        /\ refresher'[r].pc = "ack" =>
             /\ refresher'[r].response.version = manager.version
             /\ manager.version >= refresher'[r].asked
    BY <1>1, <2>1, FinishedEffect
  <2>3. GateInv'
    BY <1>1, <1>2, <2>1, <2>2, GateMoves
  <2>4. ManagerInv'
    <3>1. CASE r = "presence"
      BY <1>1, <1>2, <1>3, <2>2, <3>1, AckOfCurrent DEF UpToDate
    <3>2. CASE r # "presence"
      BY <1>1, <1>2, <2>2, <3>2, ManagerSame
    <3> QED
      BY <3>1, <3>2
  <2> QED
    BY <1>2, <2>1, <2>2, <2>3, <2>4, RefreshMoves DEF ConfigInv, ConfigTypeOK
<1>4. CASE ~UpToDate(refresher[r].asked)
  <2>1. gate' = r /\ refresher' = [refresher EXCEPT ![r].pc = "fetch"]
    BY <1>4 DEF AcquireGate
  <2>2. /\ refresher' \in [Refreshers -> Refresher]
        /\ refresher'[r].pc = "fetch"
        /\ \A q \in Refreshers \ {r} : refresher'[q] = refresher[q]
    BY <1>1, <2>1 DEF Refresher
  <2>3. GateInv'
    BY <1>1, <1>2, <2>1, <2>2, GateMoves
  <2>4. ManagerInv'
    BY <1>1, <1>2, <2>2, ManagerSame
  <2> QED
    BY <1>2, <2>1, <2>2, <2>3, <2>4, RefreshMoves DEF ConfigInv, ConfigTypeOK
<1> QED
  BY <1>3, <1>4

(* A refresh that ends without a configuration.                            *)
LEMMA FailureKeeps ==
    ASSUME ConfigInv, NEW r \in Refreshers, GateTimeout(r) \/ FetchFails(r)
    PROVE  ConfigInv'
<1>1. /\ ConfigTypeOK /\ GateInv /\ ManagerInv /\ "presence" \in Refreshers
      /\ gate \in Refreshers \cup {"free"} /\ conn \in [up : BOOLEAN, notices : Seq(SentVersions)]
  BY DEF ConfigInv, ConfigTypeOK, ManagerInv, Refreshers
<1>2. /\ Failed(r)
      /\ UNCHANGED <<controller, manager, conn, acked, run, stored, applied, restarts>>
      /\ \/ refresher[r].pc = "gate" /\ gate' = gate
         \/ refresher[r].pc = "fetch" /\ gate' = "free"
  BY DEF GateTimeout, FetchFails
<1>3. /\ refresher' \in [Refreshers -> Refresher]
      /\ refresher'[r].pc = "idle"
      /\ \A q \in Refreshers \ {r} : refresher'[q] = refresher[q]
  BY <1>1, <1>2, FailedEffect
<1>4. refresher[r].pc = "fetch" => gate = r
  BY <1>1 DEF GateInv
<1>5. GateInv'
  BY <1>1, <1>2, <1>3, <1>4, GateMoves
<1>6. ManagerInv'
  BY <1>1, <1>2, <1>3, ManagerSame
<1> QED
  BY <1>1, <1>2, <1>3, <1>5, <1>6, RefreshMoves

(* FetchProbeConfig returns a configuration.                               *)
LEMMA FetchAnsweredKeeps ==
    ASSUME ConfigInv, NEW r \in Refreshers, FetchAnswered(r)
    PROVE  ConfigInv'
<1>1. /\ ConfigTypeOK /\ GateInv /\ ManagerInv /\ "presence" \in Refreshers
      /\ refresher \in [Refreshers -> Refresher] /\ controller \in Config
      /\ gate \in Refreshers \cup {"free"} /\ conn \in [up : BOOLEAN, notices : Seq(SentVersions)]
  BY DEF ConfigInv, ConfigTypeOK, ManagerInv, Refreshers
<1>2. PICK response \in Answers :
        refresher' = [refresher EXCEPT ![r].pc = "update", ![r].response = response]
  BY DEF FetchAnswered
<1>3. response \in Config
  BY <1>1, ConfigAssumption DEF Answers, Config, Orders
<1>4. /\ refresher[r].pc = "fetch"
      /\ UNCHANGED <<controller, manager, gate, conn, acked, run, stored, applied, restarts>>
  BY DEF FetchAnswered
<1>5. /\ refresher' \in [Refreshers -> Refresher]
      /\ refresher'[r].pc = "update"
      /\ \A q \in Refreshers \ {r} : refresher'[q] = refresher[q]
  BY <1>1, <1>2, <1>3 DEF Refresher
<1>6. GateInv'
  BY <1>1, <1>4, <1>5, GateMoves
<1>7. ManagerInv'
  BY <1>1, <1>4, <1>5, ManagerSame
<1> QED
  BY <1>1, <1>4, <1>5, <1>6, <1>7, RefreshMoves

(* The ACK that is written is the one that was prepared.                   *)
LEMMA WriteAckKeeps ==
    ASSUME ConfigInv, WriteAck
    PROVE  ConfigInv'
<1> DEFINE p == refresher["presence"]
<1>1. /\ ConfigTypeOK /\ GateInv /\ ManagerInv /\ ProbesInv /\ "presence" \in Refreshers
      /\ refresher \in [Refreshers -> Refresher]
  BY DEF ConfigInv, ConfigTypeOK, ManagerInv, ProbesInv, Refreshers
<1>2. /\ p.pc = "ack" /\ Failed("presence")
      /\ acked' = acked \/ acked' = acked \cup {<<p.asked, p.response.version>>}
      /\ UNCHANGED <<controller, manager, gate, conn, run, stored, applied, restarts>>
  BY DEF WriteAck
<1>3. /\ refresher' \in [Refreshers -> Refresher]
      /\ refresher'["presence"].pc = "idle"
      /\ \A q \in Refreshers \ {"presence"} : refresher'[q] = refresher[q]
  BY <1>1, <1>2, FailedEffect
<1>4. /\ p.response.version >= p.asked /\ p.response.version =< manager.version
      /\ \E targets \in Contents : <<p.response.version, targets>> \in applied
  BY <1>1, <1>2 DEF ManagerInv, AppliedInv
<1>5. p.asked \in Versions /\ p.response.version \in Versions
  BY <1>1, <1>4 DEF ConfigTypeOK, Refresher
<1>6. ConfigTypeOK'
  BY <1>1, <1>2, <1>3, <1>5 DEF ConfigTypeOK
<1>7. GateInv'
  BY <1>1, <1>2, <1>3, GateMoves
<1>8. AckedIsApplied'
  <2> SUFFICES ASSUME NEW a \in acked'
               PROVE  /\ a[2] >= a[1] /\ a[2] =< manager.version
                      /\ \E targets \in Contents : <<a[2], targets>> \in applied
    BY <1>2 DEF AckedIsApplied
  <2>1. CASE a \in acked
    BY <1>1, <2>1 DEF ManagerInv, AckedIsApplied
  <2>2. CASE a = <<p.asked, p.response.version>>
    BY <1>4, <2>2
  <2> QED
    BY <1>2, <2>1, <2>2
<1>9. AppliedInv' /\ VersionsAdvance'
  BY <1>1, <1>2, <1>3 DEF ManagerInv, AppliedInv, VersionsAdvance
<1>10. ProbesInv'
  BY <1>1, <1>2, ProbesSame
<1> QED
  BY <1>6, <1>7, <1>8, <1>9, <1>10 DEF ConfigInv, ProbesInv

(* The manager after update, for an acceptable configuration.              *)
LEMMA UpdatedEffect ==
    ASSUME ConfigInv, NEW config \in Config, NEW asked \in Versions,
           Acceptable(config, asked), Updated(config).generation =< MaxGeneration
    PROVE  /\ Updated(config) \in Manager
           /\ config.version \in Versions
           /\ Updated(config).initialized
           /\ Updated(config).version = config.version
           /\ Updated(config).targets = config.targets
           /\ config.version >= manager.version
           /\ \/ /\ config.version = manager.version /\ config.targets = manager.targets
                 /\ Updated(config).generation = manager.generation
                 /\ Updated(config).completed = manager.completed
              \/ /\ Updated(config).generation = manager.generation + 1
                 /\ Updated(config).completed = << >>
<1>1. /\ manager \in Manager
      /\ ~manager.initialized => manager.version = 0
  BY DEF ConfigInv, ConfigTypeOK, AppliedInv, NewManager
<1>2. /\ config.version \in Versions /\ config.targets \in Contents /\ config.order \in Orders
      /\ config.version >= manager.version
  BY <1>1, ConfigAssumption DEF Acceptable, Config, Versions, SentVersions, Manager
<1>3. CASE config.version = manager.version /\ config.targets = manager.targets
  BY <1>1, <1>2, <1>3 DEF Updated, Manager
<1>4. CASE ~(config.version = manager.version /\ config.targets = manager.targets)
  <2>1. Updated(config) = [version |-> config.version, targets |-> config.targets,
                           initialized |-> TRUE, generation |-> manager.generation + 1,
                           order |-> config.order, completed |-> << >>]
    BY <1>4 DEF Updated
  <2>2. manager.generation + 1 \in 0..MaxGeneration
    BY <1>1, <2>1, ConfigAssumption DEF Manager
  <2> QED
    BY <1>2, <2>1, <2>2, NothingCompleted DEF Manager
<1> QED
  BY <1>3, <1>4

(* The probe loop after update: its batch is current only if nothing       *)
(* changed, and a new configuration has completed nothing.                 *)
LEMMA UpdateProbes ==
    ASSUME ConfigInv, NEW config \in Config, NEW asked \in Versions,
           Acceptable(config, asked), Updated(config).generation =< MaxGeneration,
           manager' = Updated(config),
           applied' = applied \cup {<<config.version, config.targets>>},
           UNCHANGED <<run, stored>>
    PROVE  ProbesInv'
<1>1. /\ manager'.version = config.version
      /\ manager'.targets = config.targets
      /\ \/ /\ config.version = manager.version /\ config.targets = manager.targets
            /\ manager'.generation = manager.generation
            /\ manager'.completed = manager.completed
         \/ /\ manager'.generation = manager.generation + 1
            /\ manager'.completed = << >>
  BY UpdatedEffect
<1>2. RunInv /\ ResultsMatchConfig /\ CompletionsCurrent
  BY DEF ConfigInv
<1>3. manager.generation \in Int /\ run.batch.generation \in Int
  BY DEF ConfigInv, ConfigTypeOK, Manager, Batch
<1>4. RunInv'
  <2> SUFFICES ASSUME run.pc # "idle"
               PROVE  /\ \E c \in applied' : /\ run.batch.version = c[1]
                                             /\ run.batch.targets \subseteq c[2]
                      /\ run.batch.generation =< manager'.generation
                      /\ (run.batch.generation = manager'.generation
                          /\ run.batch.version = manager'.version)
                            => run.batch.targets \subseteq manager'.targets
                      /\ run.pc = "mark" => run.batch \in stored
    BY DEF RunInv, IsCurrent
  <2>1. /\ \E c \in applied : /\ run.batch.version = c[1]
                              /\ run.batch.targets \subseteq c[2]
        /\ run.batch.generation =< manager.generation
        /\ (run.batch.generation = manager.generation /\ run.batch.version = manager.version)
             => run.batch.targets \subseteq manager.targets
        /\ run.pc = "mark" => run.batch \in stored
    BY <1>2 DEF RunInv, IsCurrent
  <2>2. \E c \in applied' : run.batch.version = c[1] /\ run.batch.targets \subseteq c[2]
    BY <2>1
  <2> QED
    BY <1>1, <1>3, <2>1, <2>2
<1>5. ResultsMatchConfig'
  BY <1>2 DEF ResultsMatchConfig
<1>6. CompletionsCurrent'
  <2>1. CASE manager'.completed = << >>
    BY <2>1 DEF CompletionsCurrent
  <2>2. CASE /\ config.version = manager.version /\ config.targets = manager.targets
             /\ manager'.generation = manager.generation
             /\ manager'.completed = manager.completed
    BY <1>1, <1>2, <2>2 DEF CompletionsCurrent, IsCurrent
  <2> QED
    BY <1>1, <2>1, <2>2
<1> QED
  BY <1>4, <1>5, <1>6 DEF ProbesInv

(* The versions after update: the new one is not older than any, and the   *)
(* content of an equal one is the manager's.                               *)
LEMMA UpdateVersions ==
    ASSUME ConfigInv, NEW config \in Config, NEW asked \in Versions,
           Acceptable(config, asked), Updated(config).generation =< MaxGeneration,
           manager' = Updated(config),
           applied' = applied \cup {<<config.version, config.targets>>},
           UNCHANGED acked
    PROVE  VersionsAdvance' /\ AckedIsApplied'
<1>1. manager'.version = config.version /\ config.version >= manager.version
  BY UpdatedEffect
<1>2. /\ VersionsAdvance /\ AckedIsApplied
      /\ manager.initialized => <<manager.version, manager.targets>> \in applied
      /\ ~manager.initialized => applied = {}
  BY DEF ConfigInv, AppliedInv
<1>3. /\ manager.version \in Int /\ config.version \in Int
      /\ \A a \in applied : a[1] \in Int
      /\ \A a \in acked : a[2] \in Int
  BY DEF ConfigInv, ConfigTypeOK, Manager, Config, Versions, SentVersions
<1>4. \A a \in applied : a[1] =< manager.version
  BY <1>2 DEF VersionsAdvance
<1>5. \A a \in applied : a[1] =< config.version
  BY <1>1, <1>3, <1>4
<1>6. \A a \in applied : (a[1] = config.version /\ a[1] > 0) => a[2] = config.targets
  <2> SUFFICES ASSUME NEW a \in applied, a[1] = config.version, a[1] > 0
               PROVE  a[2] = config.targets
    OBVIOUS
  <2>1. manager.initialized /\ config.version = manager.version
    BY <1>1, <1>2, <1>3, <1>4
  <2>2. config.targets = manager.targets
    BY <2>1 DEF Acceptable
  <2>3. <<manager.version, manager.targets>> \in applied
    BY <1>2, <2>1
  <2> QED
    BY <1>2, <2>1, <2>2, <2>3 DEF VersionsAdvance
<1>7. VersionsAdvance'
  <2> DEFINE n == <<config.version, config.targets>>
  <2>1. n[1] = config.version /\ n[2] = config.targets
    OBVIOUS
  <2>2. \A a \in applied' : a[1] =< manager'.version
    BY <1>1, <1>3, <1>5, <2>1
  <2>3. ASSUME NEW a \in applied', NEW b \in applied', a[1] = b[1], a[1] > 0
        PROVE  a[2] = b[2]
    <3>1. CASE a \in applied /\ b \in applied
      BY <1>2, <2>3, <3>1 DEF VersionsAdvance
    <3>2. CASE a = n
      BY <1>6, <2>1, <2>3, <3>2
    <3>3. CASE b = n
      BY <1>6, <2>1, <2>3, <3>3
    <3> QED
      BY <3>1, <3>2, <3>3
  <2> QED
    BY <2>2, <2>3 DEF VersionsAdvance
<1>8. AckedIsApplied'
  <2> SUFFICES ASSUME NEW a \in acked
               PROVE  /\ a[2] >= a[1] /\ a[2] =< manager'.version
                      /\ \E targets \in Contents : <<a[2], targets>> \in applied'
    BY DEF AckedIsApplied
  <2>1. /\ a[2] >= a[1] /\ a[2] =< manager.version
        /\ \E targets \in Contents : <<a[2], targets>> \in applied
    BY <1>2 DEF AckedIsApplied
  <2> QED
    BY <1>1, <1>3, <2>1
<1> QED
  BY <1>7, <1>8

(* The whole of refreshProbeTargets after the answer, both ways out.       *)
LEMMA UpdateKeeps ==
    ASSUME ConfigInv, NEW r \in Refreshers, Update(r)
    PROVE  ConfigInv'
<1> DEFINE config == refresher[r].response
           asked == refresher[r].asked
<1>1. /\ ConfigTypeOK /\ GateInv /\ ManagerInv /\ "presence" \in Refreshers
      /\ refresher \in [Refreshers -> Refresher]
      /\ conn \in [up : BOOLEAN, notices : Seq(SentVersions)]
  BY DEF ConfigInv, ConfigTypeOK, ManagerInv, Refreshers
<1>2. config \in Config /\ asked \in Versions
  BY <1>1 DEF Refresher
<1>3. /\ refresher[r].pc = "update" /\ gate' = "free"
      /\ UNCHANGED <<controller, conn, acked, run, stored, restarts>>
  BY DEF Update
<1>4. gate = r
  BY <1>1, <1>3 DEF GateInv
<1>5. CASE /\ ~Acceptable(config, asked) /\ Failed(r) /\ UNCHANGED <<manager, applied>>
  <2>1. /\ refresher' \in [Refreshers -> Refresher]
        /\ refresher'[r].pc = "idle"
        /\ \A q \in Refreshers \ {r} : refresher'[q] = refresher[q]
    BY <1>1, <1>5, FailedEffect
  <2>2. GateInv'
    BY <1>1, <1>3, <1>4, <2>1, GateMoves
  <2>3. ManagerInv'
    BY <1>1, <1>3, <1>5, <2>1, ManagerSame
  <2> QED
    BY <1>1, <1>3, <1>5, <2>1, <2>2, <2>3, RefreshMoves
<1>6. CASE /\ Acceptable(config, asked) /\ Updated(config).generation =< MaxGeneration
           /\ manager' = Updated(config)
           /\ applied' = applied \cup {<<config.version, config.targets>>}
           /\ Finished(r, asked, config.version)
  <2>1. /\ manager' \in Manager /\ config.version \in Versions
        /\ manager'.initialized /\ manager'.version = config.version
        /\ manager'.targets = config.targets /\ config.version >= manager.version
    BY <1>2, <1>6, UpdatedEffect
  <2>2. /\ refresher' \in [Refreshers -> Refresher]
        /\ refresher'[r].pc \in {"idle", "ack"}
        /\ \A q \in Refreshers \ {r} : refresher'[q] = refresher[q]
        /\ refresher'[r].pc = "ack" =>
             /\ refresher'[r].response.version = config.version
             /\ refresher'[r].asked = asked
             /\ config.version >= asked
    BY <1>1, <1>2, <1>6, <2>1, FinishedEffect
  <2>3. config.targets \in Contents
    BY <1>2 DEF Config
  <2>4. ConfigTypeOK'
    BY <1>1, <1>3, <1>6, <2>1, <2>2, <2>3 DEF ConfigTypeOK
  <2>5. GateInv'
    BY <1>1, <1>3, <1>4, <2>2, GateMoves
  <2>6. VersionsAdvance' /\ AckedIsApplied' /\ ProbesInv'
    BY <1>2, <1>3, <1>6, UpdateVersions, UpdateProbes
  <2>7. refresher'["presence"].pc = "ack" =>
          /\ refresher'["presence"].response.version >= refresher'["presence"].asked
          /\ refresher'["presence"].response.version =< manager'.version
          /\ \E targets \in Contents :
               <<refresher'["presence"].response.version, targets>> \in applied'
    <3> SUFFICES ASSUME refresher'["presence"].pc = "ack"
                 PROVE  /\ refresher'["presence"].response.version >= refresher'["presence"].asked
                        /\ refresher'["presence"].response.version =< manager'.version
                        /\ \E targets \in Contents :
                             <<refresher'["presence"].response.version, targets>> \in applied'
      OBVIOUS
    <3>1. CASE r = "presence"
      <4>1. config.version \in Int /\ <<config.version, config.targets>> \in applied'
        BY <1>6, <2>1 DEF Versions
      <4> QED
        BY <2>1, <2>2, <2>3, <3>1, <4>1
    <3>2. CASE r # "presence"
      <4>1. refresher'["presence"] = refresher["presence"] /\ refresher["presence"].pc = "ack"
        BY <1>1, <2>2, <3>2
      <4>2. /\ refresher["presence"].response.version >= refresher["presence"].asked
            /\ refresher["presence"].response.version =< manager.version
            /\ \E targets \in Contents :
                 <<refresher["presence"].response.version, targets>> \in applied
        BY <1>1, <4>1 DEF ManagerInv, AppliedInv
      <4>3. /\ refresher["presence"].response.version \in Int
            /\ manager.version \in Int /\ config.version \in Int
        BY <1>1, <2>1 DEF ConfigTypeOK, Manager, Refresher, Config, Versions, SentVersions
      <4> QED
        BY <1>6, <2>1, <4>1, <4>2, <4>3
    <3> QED
      BY <3>1, <3>2
  <2>8. AppliedInv'
    BY <1>6, <2>1, <2>7 DEF AppliedInv
  <2> QED
    BY <2>4, <2>5, <2>6, <2>8 DEF ConfigInv, ProbesInv
<1> QED
  BY <1>5, <1>6 DEF Update

-----------------------------------------------------------------------------
(* A step of the probe loop that does not touch the manager.               *)
LEMMA ProbesMove ==
    ASSUME ConfigInv,
           UNCHANGED <<controller, manager, gate, refresher, conn, acked, applied, restarts>>,
           run' \in [pc : {"idle", "probing", "enqueue", "mark"}, batch : Batch],
           stored' \subseteq Batch,
           ProbesInv'
    PROVE  ConfigInv'
<1>1. ConfigTypeOK' /\ GateInv'
  BY DEF ConfigInv, ConfigTypeOK, GateInv
<1>2. ManagerInv'
  BY ManagerSame DEF ConfigInv, ManagerInv
<1> QED
  BY <1>1, <1>2 DEF ConfigInv, ManagerInv, ProbesInv

(* The idle probe loop.                                                    *)
LEMMA IdleRunTyped ==
    /\ IdleRun \in [pc : {"idle", "probing", "enqueue", "mark"}, batch : Batch]
    /\ IdleRun.pc = "idle"
  BY ConfigAssumption DEF IdleRun, NoBatch, Batch, Versions

(* due: the batch is taken from the manager's configuration.               *)
LEMMA StartRunKeeps ==
    ASSUME ConfigInv, StartRun
    PROVE  ConfigInv'
<1>1. PICK due \in SUBSET manager.targets :
        /\ due # {}
        /\ run' = [pc |-> "probing",
                   batch |-> [targets |-> due, version |-> manager.version,
                              generation |-> manager.generation]]
  BY DEF StartRun
<1>2. UNCHANGED <<controller, manager, gate, refresher, conn, acked, stored, applied, restarts>>
  BY DEF StartRun
<1>3. /\ manager.targets \in Contents /\ manager.version \in Versions
      /\ manager.generation \in 0..MaxGeneration
      /\ stored \subseteq Batch
  BY DEF ConfigInv, ConfigTypeOK, Manager
<1>4. due \subseteq Targets
  BY <1>3 DEF Targets
<1>5. run' \in [pc : {"idle", "probing", "enqueue", "mark"}, batch : Batch]
  BY <1>1, <1>3, <1>4 DEF Batch
<1>6. manager.initialized /\ <<manager.version, manager.targets>> \in applied
  BY <1>1 DEF ConfigInv, AppliedInv, NewManager
<1>7. RunInv'
  <2>1. /\ run'.pc = "probing" /\ run'.batch.version = manager.version
        /\ run'.batch.targets = due /\ run'.batch.generation = manager.generation
    BY <1>1
  <2>2. \E config \in applied' :
          run'.batch.version = config[1] /\ run'.batch.targets \subseteq config[2]
    BY <1>2, <1>6, <2>1
  <2> QED
    BY <1>2, <1>3, <2>1, <2>2 DEF RunInv
<1>8. ProbesInv'
  BY <1>2, <1>7 DEF ConfigInv, ProbesInv, ResultsMatchConfig, CompletionsCurrent, IsCurrent
<1> QED
  BY <1>2, <1>3, <1>5, <1>8, ProbesMove

(* isCurrent, before the results are persisted.                            *)
LEMMA CheckCurrentKeeps ==
    ASSUME ConfigInv, CheckCurrent
    PROVE  ConfigInv'
<1>1. /\ run \in [pc : {"idle", "probing", "enqueue", "mark"}, batch : Batch]
      /\ stored \subseteq Batch /\ RunInv
  BY DEF ConfigInv, ConfigTypeOK
<1>2. /\ run.pc = "probing"
      /\ run' = [run EXCEPT !.pc = "enqueue"] \/ run' = IdleRun
      /\ UNCHANGED <<controller, manager, gate, refresher, conn, acked, stored, applied,
                     restarts>>
  BY DEF CheckCurrent
<1>3. run' \in [pc : {"idle", "probing", "enqueue", "mark"}, batch : Batch]
  BY <1>1, <1>2, IdleRunTyped
<1>4. run'.pc = "idle" \/ (run'.pc = "enqueue" /\ run'.batch = run.batch)
  BY <1>1, <1>2, IdleRunTyped
<1>5. RunInv'
  BY <1>1, <1>2, <1>4 DEF RunInv, IsCurrent
<1>6. ProbesInv'
  BY <1>2, <1>5 DEF ConfigInv, ProbesInv, ResultsMatchConfig, CompletionsCurrent, IsCurrent
<1> QED
  BY <1>1, <1>2, <1>3, <1>6, ProbesMove

(* Enqueue of the batch that was probed.                                   *)
LEMMA PersistResultsKeeps ==
    ASSUME ConfigInv, PersistResults
    PROVE  ConfigInv'
<1>1. /\ run \in [pc : {"idle", "probing", "enqueue", "mark"}, batch : Batch]
      /\ stored \subseteq Batch /\ RunInv /\ ResultsMatchConfig /\ CompletionsCurrent
  BY DEF ConfigInv, ConfigTypeOK
<1>2. /\ run.pc = "enqueue"
      /\ \/ run' = [run EXCEPT !.pc = "mark"] /\ stored' = stored \cup {run.batch}
         \/ run' = IdleRun /\ stored' = stored
      /\ UNCHANGED <<controller, manager, gate, refresher, conn, acked, applied, restarts>>
  BY DEF PersistResults
<1>3. /\ run' \in [pc : {"idle", "probing", "enqueue", "mark"}, batch : Batch]
      /\ stored' \subseteq Batch /\ stored \subseteq stored'
  BY <1>1, <1>2, IdleRunTyped
<1>4. \/ run'.pc = "idle"
      \/ run'.pc = "mark" /\ run'.batch = run.batch /\ run.batch \in stored'
  BY <1>1, <1>2, IdleRunTyped
<1>5. RunInv'
  BY <1>1, <1>2, <1>4 DEF RunInv, IsCurrent
<1>6. ResultsMatchConfig'
  <2>1. \E config \in applied :
          run.batch.version = config[1] /\ run.batch.targets \subseteq config[2]
    BY <1>1, <1>2 DEF RunInv
  <2> QED
    BY <1>1, <1>2, <2>1 DEF ResultsMatchConfig
<1>7. CompletionsCurrent'
  BY <1>1, <1>2, <1>3 DEF CompletionsCurrent, IsCurrent
<1>8. ProbesInv'
  BY <1>5, <1>6, <1>7 DEF ProbesInv
<1> QED
  BY <1>2, <1>3, <1>8, ProbesMove

(* markCompleted: a batch of a replaced configuration marks nothing.       *)
LEMMA MarkCompletedKeeps ==
    ASSUME ConfigInv, MarkCompleted
    PROVE  ConfigInv'
<1> DEFINE b == run.batch
<1>1. /\ ConfigTypeOK /\ GateInv /\ ManagerInv /\ ProbesInv
      /\ manager \in Manager /\ b \in Batch /\ stored \subseteq Batch
  BY DEF ConfigInv, ConfigTypeOK, ManagerInv, ProbesInv
<1>2. /\ run.pc = "mark" /\ run' = IdleRun
      /\ UNCHANGED <<controller, gate, refresher, conn, acked, stored, applied, restarts>>
  BY DEF MarkCompleted
<1>3. CASE ~IsCurrent(b)
  <2>1. manager' = manager
    BY <1>3 DEF MarkCompleted
  <2>2. ProbesInv'
    BY <1>1, <1>2, <2>1, IdleRunTyped
       DEF ProbesInv, RunInv, ResultsMatchConfig, CompletionsCurrent, IsCurrent
  <2> QED
    BY <1>1, <1>2, <2>1, <2>2, IdleRunTyped, ProbesMove
<1>4. CASE IsCurrent(b)
  <2>1. manager' = [manager EXCEPT !.completed = Marked(b)]
    BY <1>4 DEF MarkCompleted
  <2>2. /\ manager.completed \in [DOMAIN manager.completed -> Batch]
        /\ DOMAIN manager.completed \subseteq Targets
        /\ b.targets \subseteq Targets
    BY <1>1, CompletionsMaps DEF Manager, Batch
  <2>3. /\ DOMAIN Marked(b) = DOMAIN manager.completed \cup b.targets
        /\ \A t \in b.targets : Marked(b)[t] = b
        /\ \A t \in DOMAIN manager.completed \ b.targets : Marked(b)[t] = manager.completed[t]
    BY DEF Marked
  <2>4. Marked(b) \in [DOMAIN Marked(b) -> Batch] /\ DOMAIN Marked(b) \subseteq Targets
    BY <1>1, <2>2, <2>3 DEF Marked
  <2>5. Marked(b) \in Completions
    BY <2>4, CompletionsMaps
  <2>6. /\ manager' \in Manager /\ manager'.completed = Marked(b)
        /\ manager'.version = manager.version /\ manager'.targets = manager.targets
        /\ manager'.initialized = manager.initialized
        /\ manager'.generation = manager.generation
    BY <1>1, <2>1, <2>5 DEF Manager
  <2>7. ConfigTypeOK' /\ GateInv'
    BY <1>1, <1>2, <2>6, IdleRunTyped DEF ConfigTypeOK, GateInv
  <2>8. b \in stored /\ b.targets \subseteq manager.targets /\ applied # {}
    BY <1>1, <1>2, <1>4 DEF ProbesInv, RunInv
  <2>9. manager.initialized
    BY <1>1, <2>8 DEF ManagerInv, AppliedInv
  <2>10. AppliedInv'
    BY <1>1, <1>2, <2>6, <2>9 DEF ManagerInv, AppliedInv
  <2>11. VersionsAdvance' /\ AckedIsApplied'
    BY <1>1, <1>2, <2>6 DEF ManagerInv, VersionsAdvance, AckedIsApplied
  <2>12. CompletionsCurrent'
    <3> SUFFICES ASSUME NEW t \in DOMAIN Marked(b)
                 PROVE  /\ t \in manager.targets /\ t \in Marked(b)[t].targets
                        /\ Marked(b)[t].generation = manager.generation
                        /\ Marked(b)[t].version = manager.version
                        /\ Marked(b)[t] \in stored
      BY <1>2, <2>6 DEF CompletionsCurrent, IsCurrent
    <3>1. CASE t \in b.targets
      BY <1>4, <2>3, <2>8, <3>1 DEF IsCurrent
    <3>2. CASE t \notin b.targets
      BY <1>1, <2>3, <3>2 DEF ProbesInv, CompletionsCurrent, IsCurrent
    <3> QED
      BY <3>1, <3>2
  <2>13. RunInv' /\ ResultsMatchConfig'
    BY <1>1, <1>2, IdleRunTyped DEF ProbesInv, RunInv, ResultsMatchConfig
  <2> QED
    BY <2>7, <2>10, <2>11, <2>12, <2>13 DEF ConfigInv
<1> QED
  BY <1>3, <1>4

(* A new process starts from a state like the first one.                   *)
LEMMA RestartKeeps ==
    ASSUME ConfigInv, RestartAgent
    PROVE  ConfigInv'
<1> USE ConfigAssumption DEF RestartAgent
<1>1. controller' \in Config /\ restarts' \in 0..MaxRestarts
  BY DEF ConfigInv, ConfigTypeOK
<1>2. manager' \in Manager
  BY NothingCompleted DEF NewManager, Manager, Versions, Orders
<1>3. refresher' \in [Refreshers -> Refresher]
  BY RefresherTyped DEF Versions, SentVersions
<1>4. conn' \in [up : BOOLEAN, notices : Seq(SentVersions)]
  BY DEF NoConnection
<1>5. ConfigTypeOK'
  BY <1>1, <1>2, <1>3, <1>4, IdleRunTyped DEF ConfigTypeOK
<1>6. \A r \in Refreshers : refresher'[r].pc = "idle" /\ gate' # r
  BY DEF IdleRefresher, Refreshers
<1>7. GateInv'
  BY <1>6 DEF GateInv
<1>8. ManagerInv'
  BY <1>6 DEF ManagerInv, AppliedInv, VersionsAdvance, AckedIsApplied, NewManager, Refreshers
<1>9. ProbesInv'
  BY IdleRunTyped DEF ProbesInv, RunInv, ResultsMatchConfig, CompletionsCurrent, NewManager
<1> QED
  BY <1>5, <1>7, <1>8, <1>9 DEF ConfigInv, ManagerInv, ProbesInv

-----------------------------------------------------------------------------
(* Every step preserves the invariant.                                     *)
LEMMA NextKeepsConfigInv == ConfigInv /\ [ConfigNext]_configVars => ConfigInv'
<1> SUFFICES ASSUME ConfigInv, [ConfigNext]_configVars PROVE ConfigInv'
  OBVIOUS
<1>1. CASE UNCHANGED configVars
  <2>1. ConfigTypeOK' /\ GateInv'
    BY <1>1 DEF configVars, ConfigInv, ConfigTypeOK, GateInv
  <2>2. ManagerInv' /\ ProbesInv'
    BY <1>1, ManagerSame, ProbesSame DEF configVars, ConfigInv, ManagerInv, ProbesInv
  <2> QED
    BY <2>1, <2>2 DEF ConfigInv, ManagerInv, ProbesInv
<1>2. CASE Publish \/ Announce \/ Connect \/ Disconnect
  BY <1>2, OutsideKeeps
<1>3. CASE \E r \in Background : Poll(r)
  BY <1>3, PollKeeps
<1>4. CASE ReadNotice
  BY <1>4, ReadNoticeKeeps
<1>5. CASE \E r \in Refreshers : RefreshStep(r) \/ GateTimeout(r)
  BY <1>5, AcquireGateKeeps, FetchAnsweredKeeps, FailureKeeps, UpdateKeeps DEF RefreshStep
<1>6. CASE WriteAck
  BY <1>6, WriteAckKeeps
<1>7. CASE RunStep
  BY <1>7, StartRunKeeps, CheckCurrentKeeps, PersistResultsKeeps, MarkCompletedKeeps DEF RunStep
<1>8. CASE RestartAgent
  BY <1>8, RestartKeeps
<1> QED
  BY <1>1, <1>2, <1>3, <1>4, <1>5, <1>6, <1>7, <1>8 DEF ConfigNext

(* The invariant holds in every reachable state: refreshes exclude each    *)
(* other, and manager, ACKs, probe loop and schedule agree.                *)
THEOREM ConfigInvariant == ConfigSpec => []ConfigInv
<1>1. ConfigInit => ConfigInv
  BY InitConfigInv
<1>2. ConfigInv /\ [ConfigNext]_configVars => ConfigInv'
  BY NextKeepsConfigInv
<1> QED
  BY <1>1, <1>2, PTL DEF ConfigSpec

(* update: versions only advance and a positive version keeps its content, *)
(* for every Controller.                                                   *)
THEOREM VersionsNeverBack == ConfigSpec => []VersionsAdvance
<1>1. ConfigInv => VersionsAdvance
  BY DEF ConfigInv
<1> QED
  BY <1>1, ConfigInvariant, PTL

(* The presence connection acknowledges only what the manager has applied. *)
THEOREM AcksTruthful == ConfigSpec => []AckedIsApplied
<1>1. ConfigInv => AckedIsApplied
  BY DEF ConfigInv
<1> QED
  BY <1>1, ConfigInvariant, PTL

(* runDueProbes stamps results with the version whose targets were probed, *)
(* however refreshes fall between its steps.                               *)
THEOREM StampsRight == ConfigSpec => []ResultsMatchConfig
<1>1. ConfigInv => ResultsMatchConfig
  BY DEF ConfigInv
<1> QED
  BY <1>1, ConfigInvariant, PTL

(* markCompleted never marks a target of a configuration that replaced the *)
(* one it was probed under.                                                *)
THEOREM CompletionsRight == ConfigSpec => []CompletionsCurrent
<1>1. ConfigInv => CompletionsCurrent
  BY DEF ConfigInv
<1> QED
  BY <1>1, ConfigInvariant, PTL


-----------------------------------------------------------------------------
(* The order of publication.                                               *)

(* The answer that the holder of the gate carries is no older than what    *)
(* the manager runs: nobody else can update the manager before it does.    *)
OrderInv ==
    /\ manager.order =< controller.order
    /\ AnyAnswer => manager.order = 0
    /\ \A r \in Refreshers : refresher[r].pc = "update" =>
         /\ refresher[r].response.order >= manager.order
         /\ refresher[r].response.order =< controller.order
         /\ AnyAnswer => refresher[r].response.order = 0

(* Only the goroutine that fetched an answer comes to carry one.           *)
LEMMA CarriedBefore ==
    ASSUME ConfigInv, NEW r \in Refreshers,
           (\E asked : Ask(r, asked)) \/ AcquireGate(r) \/ Failed(r),
           NEW q \in Refreshers, refresher'[q].pc = "update"
    PROVE  refresher'[q] = refresher[q]
<1>1. refresher \in [Refreshers -> Refresher]
  BY DEF ConfigInv, ConfigTypeOK
<1>2. \/ \E asked, version : Finished(r, asked, version)
      \/ \E asked : refresher' = [refresher EXCEPT ![r] = Waiting(asked)]
      \/ refresher' = [refresher EXCEPT ![r].pc = "fetch"]
      \/ refresher' = [refresher EXCEPT ![r] = IdleRefresher]
  BY DEF Ask, AcquireGate, Failed
<1>3. q # r => refresher'[q] = refresher[q]
  BY <1>1, <1>2 DEF Finished
<1>4. \A asked, version : /\ Acking(asked, version).pc = "ack"
                          /\ Waiting(asked).pc = "gate"
                          /\ IdleRefresher.pc = "idle"
  BY DEF Acking, Waiting, IdleRefresher
<1>5. refresher'[r].pc # "update"
  <2>1. CASE \E asked, version : Finished(r, asked, version)
    BY <1>1, <1>4, <2>1 DEF Finished
  <2>2. CASE \E asked : refresher' = [refresher EXCEPT ![r] = Waiting(asked)]
    BY <1>1, <1>4, <2>2
  <2>3. CASE refresher' = [refresher EXCEPT ![r].pc = "fetch"]
    <3>1. refresher[r] \in Refresher
      BY <1>1
    <3>2. refresher'[r].pc = "fetch"
      BY <1>1, <2>3, <3>1 DEF Refresher
    <3> QED
      BY <3>2
  <2>4. CASE refresher' = [refresher EXCEPT ![r] = IdleRefresher]
    BY <1>1, <1>4, <2>4
  <2> QED
    BY <1>2, <2>1, <2>2, <2>3, <2>4
<1> QED
  BY <1>3, <1>5

(* The manager takes over what is no older; everything else leaves it      *)
(* where it is.                                                            *)
LEMMA OrderSteps ==
    ASSUME ConfigInv, OrderInv, [ConfigNext]_configVars
    PROVE  /\ OrderInv'
           /\ restarts' = restarts => manager'.order >= manager.order
<1>1. /\ refresher \in [Refreshers -> Refresher] /\ manager \in Manager
      /\ controller \in Config /\ GateInv /\ restarts \in Int
  BY DEF ConfigInv, ConfigTypeOK
<1>2. /\ manager.order \in Nat /\ controller.order \in Nat
      /\ \A r \in Refreshers : refresher[r].response.order \in Nat
  BY <1>1, ConfigAssumption DEF Manager, Config, Refresher, Orders
<1>3. ASSUME manager' = manager, controller'.order \in Nat,
             controller'.order >= controller.order,
             \A q \in Refreshers : refresher'[q].pc = "update" => refresher'[q] = refresher[q]
      PROVE  OrderInv' /\ manager'.order >= manager.order
  BY <1>2, <1>3 DEF OrderInv
<1>4. CASE Publish
  <2>1. /\ controller'.order = controller.order + 1 /\ UNCHANGED <<manager, refresher>>
    BY <1>4 DEF Publish
  <2> QED
    BY <1>2, <1>3, <2>1
<1>5. CASE Announce \/ Connect \/ Disconnect \/ StartRun \/ CheckCurrent \/ PersistResults
           \/ UNCHANGED configVars
  <2>1. UNCHANGED <<manager, controller, refresher>>
    BY <1>5 DEF Announce, Connect, Disconnect, StartRun, CheckCurrent, PersistResults,
       configVars
  <2> QED
    BY <1>2, <1>3, <2>1
<1>6. ASSUME NEW r \in Background, Poll(r) PROVE OrderInv' /\ manager'.order >= manager.order
  <2>1. UNCHANGED <<manager, controller>> /\ Ask(r, 0) /\ r \in Refreshers
    BY <1>6 DEF Poll, Refreshers
  <2> QED
    BY <1>2, <1>3, <2>1, CarriedBefore
<1>7. CASE ReadNotice
  <2>1. /\ UNCHANGED <<manager, controller>> /\ "presence" \in Refreshers
        /\ UNCHANGED refresher \/ \E asked : Ask("presence", asked)
    BY <1>7 DEF ReadNotice, Refreshers
  <2> QED
    BY <1>2, <1>3, <2>1, CarriedBefore
<1>8. ASSUME NEW r \in Refreshers, AcquireGate(r) \/ GateTimeout(r) \/ FetchFails(r)
      PROVE  OrderInv' /\ manager'.order >= manager.order
  <2>1. UNCHANGED <<manager, controller>> /\ (AcquireGate(r) \/ Failed(r))
    BY <1>8 DEF AcquireGate, GateTimeout, FetchFails
  <2> QED
    BY <1>2, <1>3, <2>1, CarriedBefore
<1>9. CASE WriteAck
  <2>1. UNCHANGED <<manager, controller>> /\ Failed("presence") /\ "presence" \in Refreshers
    BY <1>9 DEF WriteAck, Refreshers
  <2> QED
    BY <1>2, <1>3, <2>1, CarriedBefore
<1>10. ASSUME NEW r \in Refreshers, FetchAnswered(r)
       PROVE  OrderInv' /\ manager'.order >= manager.order
  <2>1. UNCHANGED <<manager, controller>>
    BY <1>10 DEF FetchAnswered
  <2>2. PICK response \in Answers :
          refresher' = [refresher EXCEPT ![r].pc = "update", ![r].response = response]
    BY <1>10 DEF FetchAnswered
  <2>3. /\ refresher'[r].response = response
        /\ \A q \in Refreshers \ {r} : refresher'[q] = refresher[q]
    BY <1>1, <2>2 DEF Refresher
  <2>4. /\ response.order \in Nat /\ response.order =< controller.order
        /\ response.order >= manager.order
        /\ AnyAnswer => response.order = 0
    <3>1. CASE AnyAnswer
      BY <1>2, <3>1 DEF Answers, OrderInv
    <3>2. CASE ~AnyAnswer
      BY <1>2, <3>2 DEF Answers, OrderInv
    <3> QED
      BY <3>1, <3>2
  <2> QED
    BY <1>2, <2>1, <2>3, <2>4 DEF OrderInv
<1>11. ASSUME NEW r \in Refreshers, Update(r)
       PROVE  OrderInv' /\ manager'.order >= manager.order
  <2> DEFINE config == refresher[r].response
  <2>1. /\ refresher[r].pc = "update" /\ UNCHANGED controller
        /\ (manager' = Updated(config) /\ Finished(r, refresher[r].asked, config.version))
           \/ (manager' = manager /\ Failed(r))
    BY <1>11 DEF Update
  <2>2. \A q \in Refreshers \ {r} : refresher[q].pc # "update"
    BY <1>1, <2>1 DEF GateInv
  <2>3. \A q \in Refreshers : refresher'[q].pc # "update"
    <3>1. \A asked, version : Acking(asked, version).pc = "ack" /\ IdleRefresher.pc = "idle"
      BY DEF Acking, IdleRefresher
    <3> QED
      BY <1>1, <2>1, <2>2, <3>1 DEF Finished, Failed
  <2>4. manager'.order \in {manager.order, config.order}
    <3> HIDE DEF config
    <3>1. [manager EXCEPT !.initialized = TRUE, !.order = config.order].order = config.order
      BY <1>1 DEF Manager
    <3>2. Updated(config).order = config.order
      BY <3>1 DEF Updated
    <3> QED
      BY <2>1, <3>2
  <2> QED
    BY <1>2, <2>1, <2>3, <2>4 DEF OrderInv
<1>12. CASE MarkCompleted
  <2>1. /\ UNCHANGED <<controller, refresher>>
        /\ manager' = manager \/ manager' = [manager EXCEPT !.completed = Marked(run.batch)]
    BY <1>12 DEF MarkCompleted
  <2>2. manager'.order = manager.order
    BY <1>1, <2>1 DEF Manager
  <2> QED
    BY <1>2, <2>1, <2>2 DEF OrderInv
<1>13. CASE RestartAgent
  <2>1. /\ restarts' = restarts + 1 /\ manager'.order = 0 /\ UNCHANGED controller
        /\ \A q \in Refreshers : refresher'[q].pc = "idle"
    BY <1>13 DEF RestartAgent, NewManager, IdleRefresher
  <2> QED
    BY <1>1, <1>2, <2>1 DEF OrderInv
<1> QED
  BY <1>4, <1>5, <1>6, <1>7, <1>8, <1>9, <1>10, <1>11, <1>12, <1>13
     DEF ConfigNext, RefreshStep, RunStep

(* Within a process the manager takes configurations over in the order in  *)
(* which they were published, unversioned ones too: the refresh gate       *)
(* covers the request as well as the update.                               *)
THEOREM OrderKept == ConfigSpec => NeverOlder
<1>1. ConfigInit => OrderInv
  BY DEF ConfigInit, OrderInv, NewManager, NoConfig, IdleRefresher, Refreshers
<1>2. ConfigInv /\ OrderInv /\ [ConfigNext]_configVars => OrderInv'
  BY OrderSteps
<1>3. ConfigSpec => []OrderInv
  BY <1>1, <1>2, ConfigInvariant, PTL DEF ConfigSpec
<1>4. ConfigInv /\ OrderInv /\ [ConfigNext]_configVars
      => [restarts' = restarts => manager'.order >= manager.order]_configVars
  BY OrderSteps
<1> QED
  BY <1>3, <1>4, ConfigInvariant, PTL DEF ConfigSpec, NeverOlder
=============================================================================
