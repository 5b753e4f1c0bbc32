----------------------------- MODULE ProbeBudget -----------------------------
(***************************************************************************)
(* How the agent bounds what a configuration may make it do                *)
(* (internal/agent/probe.go): the normalisation of a target, the selection *)
(* of the targets one run can afford, and the time a run is given.         *)
(*                                                                         *)
(* Times are whole ticks.  The code's numbers are constants here, so that  *)
(* small instances reach every boundary.                                   *)
(***************************************************************************)
EXTENDS Integers, Sequences, SequencesExt

CONSTANTS
    MaxTargets,                                \* maxProbeTargets
    MaxCount,                                  \* maxProbeCount
    DefaultTimeout, MinTimeout, MaxTimeout,    \* of one attempt
    DefaultInterval, MinInterval, MaxInterval, \* between two runs of a target
    PingGrace,                                 \* pingCommandGrace
    TargetBudget,                              \* maxProbeTargetBudgetMS
    NodeBudget,                                \* maxProbeNodeBudgetMS
    MaxSamples,                                \* maxProbeSamplesPerRun
    RunGrace                                   \* the extra second of ProbeRunTimeout

ASSUME BudgetAssumption ==
    /\ MaxTargets \in Nat \ {0} /\ MaxCount \in Nat \ {0}
    /\ MaxSamples \in Nat \ {0}
    /\ MinTimeout \in Nat \ {0} /\ MinInterval \in Nat \ {0}
    /\ DefaultTimeout \in MinTimeout..MaxTimeout /\ MaxTimeout \in Nat
    /\ DefaultInterval \in MinInterval..MaxInterval /\ MaxInterval \in Nat
    /\ PingGrace \in Nat /\ RunGrace \in Nat
    /\ TargetBudget \in Nat /\ NodeBudget \in Nat
    /\ MaxTimeout + PingGrace =< TargetBudget /\ TargetBudget =< NodeBudget

(* A number of the configuration: missing or negative means the default,   *)
(* anything else is moved into its range.                                  *)
Normalized(value, default, low, high) ==
    IF value =< 0 THEN default
    ELSE IF value < low THEN low
    ELSE IF value > high THEN high ELSE value

NormalizedCount(count) == Normalized(count, 1, 1, MaxCount)
NormalizedTimeout(timeout) == Normalized(timeout, DefaultTimeout, MinTimeout, MaxTimeout)
NormalizedInterval(interval) ==
    Normalized(interval, DefaultInterval, MinInterval, MaxInterval)

(* The worst case of one attempt: ping may outlive its own timeout.        *)
ProbeAttemptBudget(target) ==
    NormalizedTimeout(target.timeout) + (IF target.type = "ping" THEN PingGrace ELSE 0)

SanitizedTarget(target) ==
    LET most == TargetBudget \div ProbeAttemptBudget(target)
        count == NormalizedCount(target.count)
    IN  [target EXCEPT
            !.count = IF count > most THEN most ELSE count,
            !.timeout = NormalizedTimeout(@),
            !.interval = NormalizedInterval(@)]

SanitizeProbeTargets(targets) ==
    [i \in 1..(IF Len(targets) > MaxTargets THEN MaxTargets ELSE Len(targets)) |->
        SanitizedTarget(targets[i])]

Cost(target) == target.count * ProbeAttemptBudget(target)

(* Mutant: the last target keeps its count although the rest of the budget *)
(* cannot pay for it. *)
TakeWholeTarget(taken, target) ==
    LET attempt == ProbeAttemptBudget(target)
    IN  IF taken.full \/ taken.samples =< 0 \/ taken.budget < attempt
        THEN [taken EXCEPT !.full = TRUE]
        ELSE [targets |-> Append(taken.targets, target),
              samples |-> taken.samples - target.count,
              budget  |-> taken.budget - target.count * attempt,
              full    |-> FALSE]

(* One round of the selection loop; "full" is its break.                   *)
TakeTarget(taken, target) ==
    LET attempt == ProbeAttemptBudget(target)
        affordable == taken.budget \div attempt
        wanted == IF target.count > taken.samples THEN taken.samples ELSE target.count
        count == IF wanted > affordable THEN affordable ELSE wanted
    IN  IF taken.full \/ taken.samples =< 0 \/ taken.budget < attempt
        THEN [taken EXCEPT !.full = TRUE]
        ELSE IF count =< 0 THEN taken
        ELSE [targets |-> Append(taken.targets, [target EXCEPT !.count = count]),
              samples |-> taken.samples - count,
              budget  |-> taken.budget - count * attempt,
              full    |-> FALSE]

LimitProbeTargetsForRun(targets) ==
    FoldLeft(TakeTarget,
             [targets |-> << >>, samples |-> MaxSamples, budget |-> NodeBudget,
              full |-> FALSE],
             SanitizeProbeTargets(targets)).targets

TotalCost(targets) == FoldLeft(LAMBDA sum, target : sum + Cost(target), 0, targets)
TotalSamples(targets) == FoldLeft(LAMBDA sum, target : sum + target.count, 0, targets)

(* Mutant: the deadline forgets the grace of the ping utility. *)
ProbeRunTimeoutOfTimeouts(targets) ==
    LET selected == LimitProbeTargetsForRun(targets)
    IN  IF selected = << >> THEN 0
        ELSE FoldLeft(LAMBDA sum, target : sum + target.count * target.timeout, 0, selected)
             + RunGrace

(* The deadline of a run: as if its targets were probed one by one.        *)
ProbeRunTimeout(targets) ==
    LET selected == LimitProbeTargetsForRun(targets)
    IN  IF selected = << >> THEN 0 ELSE TotalCost(selected) + RunGrace
=============================================================================
