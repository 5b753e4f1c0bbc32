------------------------------ MODULE Metrics ------------------------------
(***************************************************************************)
(* The counters behind a state sample (MetricsCollector of                 *)
(* internal/agent/metrics.go): the bytes of the network interfaces and the *)
(* processor times, of which CollectState reports the increase since the   *)
(* last valid reading, and the sizes of the connection tables.             *)
(*                                                                         *)
(* One direction of the traffic stands for both.  A rate is kept as its    *)
(* two parts, bytes and ticks, and so is a processor share.  The gauges of *)
(* a sample (memory, load, disks) have no state and are left out.          *)
(***************************************************************************)
EXTENDS Integers, FiniteSets, FiniteSetsExt

CONSTANTS
    Interfaces,  \* network interfaces of the machine
    Monitored,   \* those the allowlist or the default exclusions leave
    MaxTotal,    \* the largest int64
    Word,        \* processor times are unsigned, modulo this
    LegacyWord,  \* and so are the counters of the legacy interface table
    MaxCounter,  \* bound: of an interface's counter
    MaxTicks,    \* bound: ticks are counted up to here
    MaxLoad      \* bound: of the processor time between two readings

ASSUME MetricsAssumption ==
    /\ IsFiniteSet(Interfaces) /\ Monitored \subseteq Interfaces
    /\ MaxTotal \in Nat /\ MaxCounter \in Nat /\ MaxTicks \in Nat
    /\ MaxLoad \in Nat /\ Word \in Nat /\ Word > MaxLoad
    /\ LegacyWord \in Nat \ {0}

VARIABLES
    counter,  \* the kernel's byte counters
    listed,   \* the interfaces the system lists (on Windows: those that are up)
    times,    \* the kernel's processor times: total, idle
    tables,   \* the kernel's connection tables: their number of rows
    net,      \* previousNet, previousNetSource, hasNet, ticks since previousNetAt
    cpu,      \* previousCPU, hasCPU
    conns,    \* previousTCP, previousUDP
    sample,   \* the state sample that is being reported
    traffic,  \* history: bytes each interface carried since the last valid
              \* reading, ticks since then, whether a counter began again, and
              \* whether that reading came from the legacy table
    load      \* history: busy and idle time since the last reading, whether
              \* the idle time went back

metricsVars == <<counter, listed, times, tables, net, cpu, conns, sample, traffic, load>>

Ticks == 0..MaxTicks
Capped(n) == IF n > MaxTicks THEN MaxTicks ELSE n
Sum(f, S) == MapThenSumSet(LAMBDA i : f[i], S)

Tables == {"tcp4", "tcp6", "udp4"}       \* udp6 is read like tcp6
Missing == -1                            \* the kernel has no such table
NoRows == [t \in Tables |-> 0]

NoTraffic == [carried |-> [i \in Interfaces |-> 0], ticks |-> 0, restarted |-> FALSE,
              legacy |-> FALSE]
NoLoad == [busy |-> 0, idle |-> 0, back |-> FALSE]
NoSample == [pending |-> FALSE]

-----------------------------------------------------------------------------
(* The machine.                                                            *)

Carry(i) ==
    /\ i \in listed /\ counter[i] < MaxCounter
    /\ counter' = [counter EXCEPT ![i] = @ + 1]
    /\ traffic' = [traffic EXCEPT !.carried[i] = @ + 1]
    /\ UNCHANGED <<listed, times, tables, net, cpu, conns, sample, load>>

(* An interface comes or goes; one that was made anew counts from zero.    *)
Link(i) ==
    /\ listed' = IF i \in listed THEN listed \ {i} ELSE listed \cup {i}
    /\ \/ UNCHANGED <<counter, traffic>>
       \/ /\ i \notin listed /\ ~traffic.restarted
          /\ counter' = [counter EXCEPT ![i] = 0]
          /\ traffic' = [traffic EXCEPT !.restarted = TRUE]
    /\ UNCHANGED <<times, tables, net, cpu, conns, sample, load>>

(* Connections come and go; only an IPv6 table may be missing.             *)
Connections(t) ==
    /\ tables' \in {[tables EXCEPT ![t] = n] : n \in {Missing, 0, 1}}
    /\ tables'["tcp4"] # Missing /\ tables'["udp4"] # Missing
    /\ UNCHANGED <<counter, listed, times, net, cpu, conns, sample, traffic, load>>

(* The processor works or idles; the time waiting for I/O, which counts as *)
(* idle, may also go back.                                                 *)
Work(busy, idle) ==
    /\ load.busy + load.idle < MaxLoad
    /\ times' = [total |-> (times.total + busy + idle) % Word,
                 idle |-> (times.idle + idle) % Word]
    /\ load' = IF idle < 0 THEN [load EXCEPT !.back = TRUE]
               ELSE [load EXCEPT !.busy = @ + busy, !.idle = @ + idle]
    /\ UNCHANGED <<counter, listed, tables, net, cpu, conns, sample, traffic>>

MetricsTick ==
    /\ net' = [net EXCEPT !.age = Capped(@ + 1)]
    /\ traffic' = [traffic EXCEPT !.ticks = Capped(@ + 1)]
    /\ UNCHANGED <<counter, listed, times, tables, cpu, conns, sample, load>>

-----------------------------------------------------------------------------
(* CollectState.                                                           *)

(* A reading of the interfaces: from the interface table; when Windows has *)
(* no such table to give, from the legacy one, whose counters are narrower *)
(* and which names the interfaces alike; or from neither.                  *)
Readings == {"table", "legacy", "failed"}

Source == listed \cap Monitored
Total == Sum(counter, Source)
LegacyOf(c) == [i \in Interfaces |-> c[i] % LegacyWord]
TotalRead(reading) == IF reading = "legacy" THEN Sum(LegacyOf(counter), Source) ELSE Total

RowsOf(t) == IF tables[t] = Missing THEN 0 ELSE tables[t]

(* A table that cannot be read spoils all the counts.                      *)
ConnectionCounts(broken) ==
    [ok |-> broken = {}, tcp |-> RowsOf("tcp4") + RowsOf("tcp6"), udp |-> RowsOf("udp4")]

(* A rate needs a baseline from the same interfaces; no interface at all   *)
(* counts as the same as any.                                              *)
Comparable(source) ==
    net.has /\ (source = {} \/ net.source = {} \/ source = net.source)

Increase(total) ==
    IF Comparable(Source) /\ net.age > 0 /\ total > net.total THEN total - net.total ELSE 0

(* Mutant: a failed reading moves the time of the baseline. *)
NetAfterFailureMoved == [net EXCEPT !.age = 0]

(* A failed reading keeps the baseline, its time included.                 *)
NetAfterFailure == net

(* Mutant: the baseline is replaced before the reading is looked at. *)
CpuAfterFailureZeroed == [has |-> TRUE, total |-> 0, idle |-> 0]

CpuAfterFailure == cpu

(* cpuPercent, as busy and all time; the differences are unsigned.         *)
CpuShare ==
    LET all == (times.total - cpu.total) % Word
        idle == (times.idle - cpu.idle) % Word
    IN  IF ~cpu.has \/ all = 0 \/ idle > all THEN [busy |-> 0, all |-> 1]
        ELSE [busy |-> all - idle, all |-> all]

(* The reading of the interfaces also fails when their sum does not fit.   *)
CollectState(reading, cpuFails, broken) ==
    LET total == TotalRead(reading)
        noNet == reading = "failed" \/ total > MaxTotal
        read == ConnectionCounts(broken)
        now == IF read.ok THEN [tcp |-> read.tcp, udp |-> read.udp] ELSE conns
    IN  /\ net' = IF noNet THEN NetAfterFailure
                  ELSE [has |-> TRUE, total |-> total, source |-> Source, age |-> 0]
        /\ cpu' = IF cpuFails THEN CpuAfterFailure
                  ELSE [has |-> TRUE, total |-> times.total, idle |-> times.idle]
        /\ conns' = now
        /\ sample' = [pending |-> TRUE, netValid |-> ~noNet,
                      total |-> IF noNet THEN net.total ELSE total,
                      bytes |-> IF noNet THEN 0 ELSE Increase(total),
                      elapsed |-> net.age,
                      cpu |-> IF cpuFails THEN [busy |-> 0, all |-> 1] ELSE CpuShare,
                      tcp |-> now.tcp, udp |-> now.udp, connsValid |-> read.ok]
        /\ traffic' = IF noNet THEN traffic
                       ELSE [NoTraffic EXCEPT !.legacy = (reading = "legacy")]
        /\ load' = IF cpuFails THEN load ELSE NoLoad
        /\ UNCHANGED <<counter, listed, times, tables>>

(* The state report has ended.                                             *)
DropSample == sample' = NoSample

NewCollector ==
    /\ net' = [has |-> FALSE, total |-> 0, source |-> {}, age |-> 0]
    /\ cpu' = [has |-> FALSE, total |-> 0, idle |-> 0]
    /\ conns' = [tcp |-> 0, udp |-> 0]
    /\ sample' = NoSample /\ traffic' = NoTraffic /\ load' = NoLoad
    /\ UNCHANGED <<counter, listed, times, tables>>

MetricsInit ==
    /\ counter = [i \in Interfaces |-> 0] /\ listed = Interfaces
    /\ times = [total |-> 0, idle |-> 0] /\ tables = NoRows
    /\ net = [has |-> FALSE, total |-> 0, source |-> {}, age |-> 0]
    /\ cpu = [has |-> FALSE, total |-> 0, idle |-> 0]
    /\ conns = [tcp |-> 0, udp |-> 0]
    /\ sample = NoSample /\ traffic = NoTraffic /\ load = NoLoad

-----------------------------------------------------------------------------
(* A state sample is being collected.                                      *)
Collected == ~sample.pending /\ sample'.pending

(* A rate between two readings of the same interfaces counts every byte    *)
(* they carried and every tick since the last valid reading, however many  *)
(* readings failed in between and whichever interfaces came and went.      *)
(* Between readings of different interfaces, when a counter began again,   *)
(* and when a reading comes from the legacy table, it invents nothing.     *)
(* The exception is a reading after one from the legacy table, below.      *)
TrafficCounted ==
    [][Collected /\ sample'.netValid /\ net.has /\ net.source # {} /\ Source # {} =>
         /\ (traffic.legacy => traffic'.legacy) =>
              sample'.bytes =< Sum(traffic.carried, Monitored)
         /\ Source = net.source /\ ~traffic.restarted /\ traffic.ticks > 0
            /\ ~traffic.legacy /\ ~traffic'.legacy =>
              /\ sample'.bytes = Sum(traffic.carried, Source)
              /\ sample'.elapsed = traffic.ticks]_metricsVars

(* No sample reports more traffic than there was, whatever happened to the *)
(* interfaces since the reading before it.                                 *)
NoSyntheticSpike ==
    [][Collected /\ net.has => sample'.bytes =< Sum(traffic.carried, Monitored)]_metricsVars

(* Readings that name the same interfaces are comparable: their rate is    *)
(* never more than the traffic.                                            *)
SameSourceComparable ==
    [][Collected /\ sample'.netValid /\ net.has /\ net.source # {} /\ Source = net.source =>
         sample'.bytes =< Sum(traffic.carried, Source)]_metricsVars

(* The processor share is the share of the time that really passed since   *)
(* the last reading, over failed readings and the overflow of a counter;   *)
(* it is never more than all of it, even when the idle time went back.     *)
ProcessorShare ==
    [][Collected =>
         /\ sample'.cpu.busy =< sample'.cpu.all
         /\ cpu.has /\ load' = NoLoad /\ ~load.back =>
              sample'.cpu.busy * (load.busy + load.idle) = load.busy * sample'.cpu.all
      ]_metricsVars
=============================================================================
