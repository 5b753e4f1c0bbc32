-------------------------- MODULE ProbeBudgetProofs -------------------------
(***************************************************************************)
(* What the normalisation and the selection of probe targets compute, for  *)
(* every configuration and every value of the limits.                      *)
(***************************************************************************)
EXTENDS ProbeScheduler, FiniteFolds

(* The targets that normalisation and selection produce.                   *)
Target ==
    {t \in [id : STRING, type : STRING, count : 1..MaxCount,
            timeout : MinTimeout..MaxTimeout, interval : MinInterval..MaxInterval,
            address : URL \cup Hosts \cup {"invalid"}] :
        /\ IF t.type = "http" THEN t.address \in URL ELSE t.address \in Hosts \cup {"invalid"}
        /\ Cost(t) =< TargetBudget}

-----------------------------------------------------------------------------
(* A normalised number is in its range.                                    *)
LEMMA NormalizedIn ==
    ASSUME NEW v \in Int, NEW low \in Nat \ {0}, NEW high \in Nat, NEW default \in low..high
    PROVE  Normalized(v, default, low, high) \in low..high
  BY DEF Normalized

(* ... and a number in its range stays as it is.                           *)
LEMMA NormalizedSame ==
    ASSUME NEW default, NEW low \in Nat \ {0}, NEW high \in Nat, NEW v \in low..high
    PROVE  Normalized(v, default, low, high) = v
  BY DEF Normalized

(* Whole parts: at least one, and never more than the whole.               *)
LEMMA Quotient ==
    ASSUME NEW a \in Nat, NEW b \in Nat \ {0}
    PROVE  /\ a \div b \in Nat
           /\ b =< a => a \div b >= 1
           /\ (a \div b) * b =< a
           /\ a < (a \div b) * b + b
  OBVIOUS

(* A smaller number of attempts costs less.                                *)
LEMMA Product ==
    ASSUME NEW a \in Nat, NEW c \in Nat, NEW b \in Nat, a =< c
    PROVE  a * b \in Nat /\ a * b =< c * b
<1>1. PICK d \in Nat : c = a + d
  BY c - a \in Nat
<1>2. (a + d) * b = a * b + d * b /\ a * b \in Nat /\ d * b \in Nat
  OBVIOUS
<1> QED
  BY <1>1, <1>2

(* More attempts than fit into the rest cost more than the rest.           *)
LEMMA QuotientLargest ==
    ASSUME NEW a \in Nat, NEW b \in Nat \ {0}, NEW c \in Nat
    PROVE  c =< a \div b <=> c * b =< a
<1>1. /\ a \div b \in Nat /\ (a \div b) * b =< a /\ a < (a \div b) * b + b
  BY Quotient
<1>2. CASE c =< a \div b
  <2>1. c * b \in Nat /\ c * b =< (a \div b) * b /\ (a \div b) * b \in Nat
    BY <1>1, <1>2, Product
  <2> QED
    BY <1>1, <1>2, <2>1
<1>3. CASE ~(c =< a \div b)
  <2>1. (a \div b) + 1 \in Nat /\ (a \div b) + 1 =< c
    BY <1>1, <1>3
  <2>2. ((a \div b) + 1) * b =< c * b /\ c * b \in Nat
    BY <1>1, <2>1, Product
  <2>3. ((a \div b) + 1) * b = (a \div b) * b + b
    BY <1>1
  <2> QED
    BY <1>1, <1>3, <2>2, <2>3
<1> QED
  BY <1>2, <1>3


-----------------------------------------------------------------------------
(* One attempt takes some time and fits into every budget.                 *)
LEMMA AttemptBudgetIn ==
    ASSUME NEW t, t.timeout \in Int
    PROVE  /\ NormalizedTimeout(t.timeout) \in MinTimeout..MaxTimeout
           /\ ProbeAttemptBudget(t) \in 1..TargetBudget
           /\ ProbeAttemptBudget(t) \in Nat \ {0}
           /\ ProbeAttemptBudget(t) =< NodeBudget
<1>1. NormalizedTimeout(t.timeout) \in MinTimeout..MaxTimeout
  BY NormalizedIn, BudgetAssumption DEF NormalizedTimeout
<1> QED
  BY <1>1, BudgetAssumption DEF ProbeAttemptBudget

(* Fewer attempts of a target are a target.                                *)
LEMMA TargetCut ==
    ASSUME NEW t \in Target, NEW c \in 1..t.count
    PROVE  /\ [t EXCEPT !.count = c] \in Target
           /\ [t EXCEPT !.count = c].count = c
           /\ ProbeAttemptBudget([t EXCEPT !.count = c]) = ProbeAttemptBudget(t)
<1> DEFINE u == [t EXCEPT !.count = c]
<1>1. /\ t.count \in Nat /\ c \in Nat \ {0} /\ c =< t.count /\ t.timeout \in Int
      /\ t.count \in 1..MaxCount /\ Cost(t) =< TargetBudget
  BY BudgetAssumption DEF Target
<1>2. /\ u.count = c /\ u.timeout = t.timeout /\ u.type = t.type /\ u.address = t.address
      /\ u \in [id : STRING, type : STRING, count : 1..MaxCount,
                timeout : MinTimeout..MaxTimeout, interval : MinInterval..MaxInterval,
                address : URL \cup Hosts \cup {"invalid"}]
  BY <1>1, BudgetAssumption DEF Target
<1> HIDE DEF u
<1>3. ProbeAttemptBudget(u) = ProbeAttemptBudget(t) /\ ProbeAttemptBudget(t) \in Nat
  BY <1>1, <1>2, AttemptBudgetIn DEF ProbeAttemptBudget
<1>4. Cost(u) =< TargetBudget
  <2>1. c * ProbeAttemptBudget(t) \in Nat /\ t.count * ProbeAttemptBudget(t) \in Nat
        /\ c * ProbeAttemptBudget(t) =< t.count * ProbeAttemptBudget(t)
    BY <1>1, <1>3, Product
  <2> QED
    BY <1>1, <1>2, <1>3, <2>1, BudgetAssumption DEF Cost
<1>5. IF u.type = "http" THEN u.address \in URL ELSE u.address \in Hosts \cup {"invalid"}
  BY <1>2 DEF Target
<1>6. u \in Target
  BY <1>2, <1>4, <1>5 DEF Target
<1> QED
  BY <1>2, <1>3, <1>6 DEF u

(* What a target costs.                                                    *)
LEMMA TargetFacts ==
    ASSUME NEW t \in Target
    PROVE  /\ t.count \in 1..MaxCount /\ t.count \in Nat \ {0} /\ t.timeout \in Int
           /\ NormalizedTimeout(t.timeout) = t.timeout
           /\ t.timeout \in Nat \ {0} /\ t.interval \in Nat \ {0}
           /\ ProbeAttemptBudget(t) \in Nat \ {0} /\ ProbeAttemptBudget(t) =< NodeBudget
           /\ ProbeAttemptBudget(t) =< TargetBudget
           /\ Cost(t) = t.count * ProbeAttemptBudget(t) /\ Cost(t) \in Nat \ {0}
           /\ ProbeAttemptBudget(t) =< Cost(t) /\ Cost(t) =< TargetBudget
<1>1. /\ t.count \in 1..MaxCount /\ t.count \in Nat \ {0}
      /\ t.timeout \in MinTimeout..MaxTimeout /\ t.timeout \in Nat \ {0}
      /\ t.interval \in Nat \ {0} /\ Cost(t) =< TargetBudget
  BY BudgetAssumption DEF Target
<1>2. NormalizedTimeout(t.timeout) = t.timeout
  BY <1>1, NormalizedSame, BudgetAssumption DEF NormalizedTimeout
<1>3. /\ ProbeAttemptBudget(t) \in Nat \ {0} /\ ProbeAttemptBudget(t) =< NodeBudget
      /\ ProbeAttemptBudget(t) =< TargetBudget
  BY <1>1, AttemptBudgetIn
<1>4. 1 * ProbeAttemptBudget(t) =< t.count * ProbeAttemptBudget(t)
      /\ t.count * ProbeAttemptBudget(t) \in Nat
  BY <1>1, <1>3, Product
<1> QED
  BY <1>1, <1>2, <1>3, <1>4 DEF Cost

(* Normalisation turns every configured target into one of them.           *)
LEMMA SanitizedOK ==
    ASSUME NEW t, TargetOK(t)
    PROVE  SanitizedTarget(t) \in Target
<1> DEFINE a == ProbeAttemptBudget(t)
           most == TargetBudget \div a
           count == NormalizedCount(t.count)
           c == IF count > most THEN most ELSE count
           u == [t EXCEPT !.count = c, !.timeout = NormalizedTimeout(@),
                          !.interval = NormalizedInterval(@)]
<1>1. /\ t.count \in Int /\ t.timeout \in Int /\ t.interval \in Int
      /\ t \in [id : STRING, type : STRING, count : Int, timeout : Int, interval : Int,
                address : URL \cup Hosts \cup {"invalid"}]
      /\ IF t.type = "http" THEN t.address \in URL ELSE t.address \in Hosts \cup {"invalid"}
  BY DEF TargetOK
<1>2. /\ a \in Nat \ {0} /\ a =< TargetBudget
      /\ NormalizedTimeout(t.timeout) \in MinTimeout..MaxTimeout
  BY <1>1, AttemptBudgetIn
<1>3. NormalizedInterval(t.interval) \in MinInterval..MaxInterval
  BY <1>1, NormalizedIn, BudgetAssumption DEF NormalizedInterval
<1>4. count \in 1..MaxCount
  BY <1>1, NormalizedIn, BudgetAssumption DEF NormalizedCount
<1> HIDE DEF a
<1>5. most \in Nat /\ most >= 1
  BY <1>2, Quotient, BudgetAssumption
<1> HIDE DEF most, count
<1>6. c \in 1..MaxCount /\ c =< most /\ c \in Nat
  BY <1>4, <1>5, BudgetAssumption
<1>7. c * a =< TargetBudget
  BY <1>2, <1>6, QuotientLargest, BudgetAssumption DEF most
<1> HIDE DEF c
<1>8. /\ u \in [id : STRING, type : STRING, count : 1..MaxCount,
                timeout : MinTimeout..MaxTimeout, interval : MinInterval..MaxInterval,
                address : URL \cup Hosts \cup {"invalid"}]
      /\ u.count = c /\ u.timeout = NormalizedTimeout(t.timeout) /\ u.type = t.type
      /\ u.address = t.address
  BY <1>1, <1>2, <1>3, <1>6
<1>9. SanitizedTarget(t) = u
  BY DEF SanitizedTarget, c, count, most, a
<1> HIDE DEF u
<1>10. NormalizedTimeout(u.timeout) = NormalizedTimeout(t.timeout)
  BY <1>2, <1>8, NormalizedSame, BudgetAssumption DEF NormalizedTimeout
<1>11. ProbeAttemptBudget(u) = a
  BY <1>8, <1>10 DEF ProbeAttemptBudget, a
<1>12. Cost(u) =< TargetBudget
  BY <1>7, <1>8, <1>11 DEF Cost
<1>13. IF u.type = "http" THEN u.address \in URL ELSE u.address \in Hosts \cup {"invalid"}
  BY <1>1, <1>8
<1> QED
  BY <1>8, <1>9, <1>12, <1>13 DEF Target

(* ... and leaves those as they are.                                       *)
LEMMA SanitizedSame ==
    ASSUME NEW t \in Target
    PROVE  SanitizedTarget(t) = t
<1> DEFINE a == ProbeAttemptBudget(t)
           most == TargetBudget \div a
<1>1. /\ t.count \in 1..MaxCount /\ t.count \in Nat /\ a \in Nat \ {0}
      /\ NormalizedTimeout(t.timeout) = t.timeout /\ t.count * a =< TargetBudget
  BY TargetFacts DEF Cost
<1>2. NormalizedCount(t.count) = t.count
  BY <1>1, NormalizedSame, BudgetAssumption DEF NormalizedCount
<1>3. NormalizedInterval(t.interval) = t.interval
  <2>1. t.interval \in MinInterval..MaxInterval
    BY DEF Target
  <2> QED
    BY <2>1, NormalizedSame, BudgetAssumption DEF NormalizedInterval
<1> HIDE DEF a
<1>4. t.count =< most /\ most \in Nat
  BY <1>1, QuotientLargest, Quotient, BudgetAssumption
<1> HIDE DEF most
<1>5. SanitizedTarget(t) = [t EXCEPT !.count = t.count, !.timeout = t.timeout,
                                     !.interval = t.interval]
  <2>1. ~(t.count > most)
    BY <1>1, <1>4
  <2> QED
    BY <1>1, <1>2, <1>3, <2>1, Zenon DEF SanitizedTarget, most, a
<1>6. t = [t EXCEPT !.count = t.count, !.timeout = t.timeout, !.interval = t.interval]
  BY DEF Target
<1> QED
  BY <1>5, <1>6


-----------------------------------------------------------------------------
(* Sequences of targets.                                                   *)

(* What each target of a sequence costs, and how many samples it asks for. *)
Costs(ts) == [k \in DOMAIN ts |-> Cost(ts[k])]
Counts(ts) == [k \in DOMAIN ts |-> ts[k].count]

(* A normalised configuration is a list of at most MaxTargets targets.     *)
LEMMA SanitizeOK ==
    ASSUME NEW config \in Configs
    PROVE  /\ SanitizeProbeTargets(config) \in Seq(Target)
           /\ Len(SanitizeProbeTargets(config)) =< MaxTargets
<1> DEFINE n == IF Len(config) > MaxTargets THEN MaxTargets ELSE Len(config)
<1>1. /\ Len(config) \in Nat /\ DOMAIN config = 1..Len(config)
      /\ \A k \in 1..Len(config) : TargetOK(config[k])
  BY SchedulerAssumption
<1>2. n \in Nat /\ n =< MaxTargets /\ n =< Len(config)
  BY <1>1, BudgetAssumption
<1> HIDE DEF n
<1>3. \A k \in 1..n : SanitizedTarget(config[k]) \in Target
  BY <1>1, <1>2, SanitizedOK
<1>4. SanitizeProbeTargets(config) = [k \in 1..n |-> SanitizedTarget(config[k])]
  BY DEF SanitizeProbeTargets, n
<1> QED
  BY <1>2, <1>3, <1>4

(* ... and normalising it again changes nothing.                           *)
LEMMA SanitizeSame ==
    ASSUME NEW ts \in Seq(Target), Len(ts) =< MaxTargets
    PROVE  SanitizeProbeTargets(ts) = ts
<1>1. Len(ts) \in Nat /\ DOMAIN ts = 1..Len(ts) /\ \A k \in 1..Len(ts) : ts[k] \in Target
  OBVIOUS
<1>2. \A k \in 1..Len(ts) : SanitizedTarget(ts[k]) = ts[k]
  BY <1>1, SanitizedSame
<1>3. SanitizeProbeTargets(ts) = [k \in 1..Len(ts) |-> SanitizedTarget(ts[k])]
  <2>1. ~(Len(ts) > MaxTargets)
    BY <1>1, BudgetAssumption
  <2> QED
    BY <2>1, Zenon DEF SanitizeProbeTargets
<1>4. [k \in 1..Len(ts) |-> SanitizedTarget(ts[k])] = [k \in 1..Len(ts) |-> ts[k]]
  BY <1>2, Zenon
<1>5. ts = [k \in 1..Len(ts) |-> ts[k]]
  BY <1>1
<1> QED
  BY <1>3, <1>4, <1>5

(* Positions of a sequence: the largest of some of them is one of them.    *)
LEMMA PositionMax ==
    ASSUME NEW n \in Nat, NEW s \in SUBSET (1..n), s # {}
    PROVE  Max(s) \in s /\ Max(s) \in 1..n
<1>1. s \in SUBSET Int
  OBVIOUS
<1>2. IsFiniteSet(s)
  <2>1. 1 \in Int /\ n \in Int
    OBVIOUS
  <2>2. IsFiniteSet(1..n)
    BY <2>1, FS_Interval, Zenon
  <2> QED
    BY <2>2, FS_Subset, Zenon
<1> QED
  BY <1>1, <1>2, LargestMember

(* The folds that add up costs and samples are sums over the positions.    *)
LEMMA TotalCostIsSum ==
    ASSUME NEW ts \in Seq(Target)
    PROVE  TotalCost(ts) = SumOf(Costs(ts), DOMAIN ts)
<1> DEFINE n == Len(ts)
           v == Costs(ts)
           Adds(g) == g = [s \in SUBSET (1..n) |->
                             IF s = {} THEN 0 ELSE g[s \ {Max(s)}] + Cost(ts[Max(s)])]
           c == CHOOSE g : Adds(g)
<1>1. n \in Nat /\ DOMAIN ts = 1..n /\ \A k \in 1..n : ts[k] \in Target
  OBVIOUS
<1>2. TotalCost(ts) = c[1..n]
  BY <1>1 DEF TotalCost, FoldLeft, MapThenFoldSet
<1>3. \A k \in 1..n : v[k] = Cost(ts[k]) /\ v[k] \in Nat
  BY <1>1, TargetFacts DEF Costs
<1> HIDE DEF n, v
<1>4. ASSUME NEW g
      PROVE  Adds(g) <=> IsTotal(g, v, 1..n)
  <2>1. ASSUME NEW s \in SUBSET (1..n)
        PROVE  (IF s = {} THEN 0 ELSE g[s \ {Max(s)}] + Cost(ts[Max(s)])) =
               (IF s = {} THEN 0 ELSE g[s \ {Max(s)}] + v[Max(s)])
    BY <1>1, <1>3, PositionMax
  <2>2. [s \in SUBSET (1..n) |-> IF s = {} THEN 0 ELSE g[s \ {Max(s)}] + Cost(ts[Max(s)])] =
        [s \in SUBSET (1..n) |-> IF s = {} THEN 0 ELSE g[s \ {Max(s)}] + v[Max(s)]]
    BY <2>1, Zenon
  <2> QED
    BY <2>2, Zenon DEF IsTotal
<1>5. /\ \E g : IsTotal(g, v, 1..n)
      /\ \A g : IsTotal(g, v, 1..n) => g[1..n] = SumOf(v, 1..n)
  BY <1>1, <1>3, TotalIsSum
<1> HIDE DEF Adds
<1>6. Adds(c)
  BY <1>4, <1>5
<1> QED
  BY <1>1, <1>2, <1>4, <1>5, <1>6 DEF v, n


(* ... and the samples.                                                    *)
LEMMA TotalSamplesIsSum ==
    ASSUME NEW ts \in Seq(Target)
    PROVE  TotalSamples(ts) = SumOf(Counts(ts), DOMAIN ts)
<1> DEFINE n == Len(ts)
           v == Counts(ts)
           Adds(g) == g = [s \in SUBSET (1..n) |->
                             IF s = {} THEN 0 ELSE g[s \ {Max(s)}] + ts[Max(s)].count]
           c == CHOOSE g : Adds(g)
<1>1. n \in Nat /\ DOMAIN ts = 1..n /\ \A k \in 1..n : ts[k] \in Target
  OBVIOUS
<1>2. TotalSamples(ts) = c[1..n]
  BY <1>1 DEF TotalSamples, FoldLeft, MapThenFoldSet
<1>3. \A k \in 1..n : v[k] = ts[k].count /\ v[k] \in Nat
  BY <1>1, TargetFacts DEF Counts
<1> HIDE DEF n, v
<1>4. ASSUME NEW g
      PROVE  Adds(g) <=> IsTotal(g, v, 1..n)
  <2>1. ASSUME NEW s \in SUBSET (1..n)
        PROVE  (IF s = {} THEN 0 ELSE g[s \ {Max(s)}] + ts[Max(s)].count) =
               (IF s = {} THEN 0 ELSE g[s \ {Max(s)}] + v[Max(s)])
    BY <1>1, <1>3, PositionMax
  <2>2. [s \in SUBSET (1..n) |-> IF s = {} THEN 0 ELSE g[s \ {Max(s)}] + ts[Max(s)].count] =
        [s \in SUBSET (1..n) |-> IF s = {} THEN 0 ELSE g[s \ {Max(s)}] + v[Max(s)]]
    BY <2>1, Zenon
  <2> QED
    BY <2>2, Zenon DEF IsTotal
<1>5. /\ \E g : IsTotal(g, v, 1..n)
      /\ \A g : IsTotal(g, v, 1..n) => g[1..n] = SumOf(v, 1..n)
  BY <1>1, <1>3, TotalIsSum
<1> HIDE DEF Adds
<1>6. Adds(c)
  BY <1>4, <1>5
<1> QED
  BY <1>1, <1>2, <1>4, <1>5, <1>6 DEF v, n

(* The totals of a longer sequence.                                        *)
LEMMA TotalsAppend ==
    ASSUME NEW ts \in Seq(Target), NEW t \in Target
    PROVE  /\ TotalCost(Append(ts, t)) = TotalCost(ts) + Cost(t)
           /\ TotalSamples(Append(ts, t)) = TotalSamples(ts) + t.count
           /\ TotalCost(ts) \in Nat /\ TotalSamples(ts) \in Nat
<1> DEFINE us == Append(ts, t)
           n == Len(ts)
<1>1. /\ us \in Seq(Target) /\ n \in Nat /\ DOMAIN ts = 1..n /\ DOMAIN us = 1..(n + 1)
      /\ us[n + 1] = t /\ \A k \in 1..n : us[k] = ts[k] /\ ts[k] \in Target
  OBVIOUS
<1> HIDE DEF us, n
<1>2. IsFiniteSet(1..n) /\ IsFiniteSet(1..(n + 1))
  <2>1. 1 \in Int /\ n \in Int /\ n + 1 \in Int
    BY <1>1
  <2> QED
    BY <2>1, FS_Interval, Zenon
<1>3. n + 1 \in 1..(n + 1) /\ (1..(n + 1)) \ {n + 1} = 1..n
  BY <1>1
<1>4. /\ Cost(t) \in Nat /\ t.count \in Nat
      /\ \A k \in 1..n : Cost(ts[k]) \in Nat /\ ts[k].count \in Nat
  BY <1>1, TargetFacts
<1>5. /\ \A k \in 1..n : Costs(ts)[k] = Cost(ts[k]) /\ Counts(ts)[k] = ts[k].count
      /\ \A k \in 1..n : Costs(us)[k] = Cost(ts[k]) /\ Counts(us)[k] = ts[k].count
      /\ Costs(us)[n + 1] = Cost(t) /\ Counts(us)[n + 1] = t.count
  BY <1>1, <1>3 DEF Costs, Counts
<1>6. \A k \in 1..(n + 1) : Costs(us)[k] \in Nat /\ Counts(us)[k] \in Nat
  BY <1>1, <1>4, <1>5
<1>7. /\ SumOf(Costs(us), 1..(n + 1)) = Cost(t) + SumOf(Costs(us), 1..n)
      /\ SumOf(Counts(us), 1..(n + 1)) = t.count + SumOf(Counts(us), 1..n)
  <2>1. /\ SumOf(Costs(us), 1..(n + 1)) =
             Costs(us)[n + 1] + SumOf(Costs(us), (1..(n + 1)) \ {n + 1})
        /\ SumOf(Counts(us), 1..(n + 1)) =
             Counts(us)[n + 1] + SumOf(Counts(us), (1..(n + 1)) \ {n + 1})
    <3> DEFINE S == 1..(n + 1)
               x == n + 1
    <3>1. /\ x \in S /\ IsFiniteSet(S)
          /\ \A k \in S : Costs(us)[k] \in Nat /\ Counts(us)[k] \in Nat
      BY <1>2, <1>3, <1>6
    <3> HIDE DEF S, x
    <3>2. /\ SumOf(Costs(us), S) = Costs(us)[x] + SumOf(Costs(us), S \ {x})
          /\ SumOf(Counts(us), S) = Counts(us)[x] + SumOf(Counts(us), S \ {x})
      BY <3>1, SumRemove
    <3> QED
      BY <3>2 DEF S, x
  <2> QED
    BY <1>3, <1>5, <2>1
<1>8. /\ SumOf(Costs(us), 1..n) = SumOf(Costs(ts), 1..n)
      /\ SumOf(Counts(us), 1..n) = SumOf(Counts(ts), 1..n)
  <2> DEFINE R == 1..n
  <2>1. /\ IsFiniteSet(R)
        /\ \A k \in R : Costs(us)[k] = Costs(ts)[k] /\ Counts(us)[k] = Counts(ts)[k]
    BY <1>2, <1>5
  <2> HIDE DEF R
  <2>2. /\ SumOf(Costs(us), R) = SumOf(Costs(ts), R)
        /\ SumOf(Counts(us), R) = SumOf(Counts(ts), R)
    BY <2>1, SumSame
  <2> QED
    BY <2>2 DEF R
<1>9. SumOf(Costs(ts), 1..n) \in Nat /\ SumOf(Counts(ts), 1..n) \in Nat
  BY <1>2, <1>4, <1>5, SumNat
<1>10. /\ TotalCost(ts) = SumOf(Costs(ts), 1..n) /\ TotalSamples(ts) = SumOf(Counts(ts), 1..n)
       /\ TotalCost(us) = SumOf(Costs(us), 1..(n + 1))
       /\ TotalSamples(us) = SumOf(Counts(us), 1..(n + 1))
  BY <1>1, TotalCostIsSum, TotalSamplesIsSum
<1>11. /\ TotalCost(us) = TotalCost(ts) + Cost(t)
       /\ TotalSamples(us) = TotalSamples(ts) + t.count
       /\ TotalCost(ts) \in Nat /\ TotalSamples(ts) \in Nat
  BY <1>4, <1>7, <1>8, <1>9, <1>10
<1> QED
  BY <1>11 DEF us

(* The totals are natural numbers.                                         *)
LEMMA TotalsNat ==
    ASSUME NEW ts \in Seq(Target)
    PROVE  TotalCost(ts) \in Nat /\ TotalSamples(ts) \in Nat
<1> DEFINE S == DOMAIN ts
<1>1. IsFiniteSet(S)
  <2>1. S = 1..Len(ts) /\ 1 \in Int /\ Len(ts) \in Int
    OBVIOUS
  <2> QED
    BY <2>1, FS_Interval, Zenon
<1>2. \A k \in S : Costs(ts)[k] \in Nat /\ Counts(ts)[k] \in Nat
  BY TargetFacts DEF Costs, Counts
<1>3. TotalCost(ts) = SumOf(Costs(ts), S) /\ TotalSamples(ts) = SumOf(Counts(ts), S)
  BY TotalCostIsSum, TotalSamplesIsSum
<1> HIDE DEF S
<1> QED
  BY <1>1, <1>2, <1>3, SumNat

(* Nothing costs nothing.                                                  *)
LEMMA TotalsEmpty == TotalCost(<< >>) = 0 /\ TotalSamples(<< >>) = 0
<1>1. << >> \in Seq(Target) /\ DOMAIN << >> = {}
  OBVIOUS
<1>2. /\ TotalCost(<< >>) = SumOf(Costs(<< >>), DOMAIN << >>)
      /\ TotalSamples(<< >>) = SumOf(Counts(<< >>), DOMAIN << >>)
  BY <1>1, TotalCostIsSum, TotalSamplesIsSum
<1> QED
  BY <1>1, <1>2, SumEmpty, Zenon

-----------------------------------------------------------------------------
(* The selection.                                                          *)

(* What the selection loop has taken: targets whose samples and costs are  *)
(* what is missing from the two budgets.                                   *)
Taken ==
    {a \in [targets : Seq(Target), samples : Nat, budget : Nat, full : BOOLEAN] :
        /\ TotalSamples(a.targets) + a.samples = MaxSamples
        /\ TotalCost(a.targets) + a.budget = NodeBudget}

Nothing == [targets |-> << >>, samples |-> MaxSamples, budget |-> NodeBudget, full |-> FALSE]

(* How many samples of a target the rest of the budgets can pay for.       *)
Affordable(a, t) ==
    LET affordable == a.budget \div ProbeAttemptBudget(t)
        wanted == IF t.count > a.samples THEN a.samples ELSE t.count
    IN  IF wanted > affordable THEN affordable ELSE wanted

Exhausted(a, t) == a.full \/ a.samples =< 0 \/ a.budget < ProbeAttemptBudget(t)

(* Unless the budgets are exhausted, at least one sample of the next       *)
(* target is taken, and no more than they can pay for.                     *)
LEMMA TakeCases ==
    ASSUME NEW a \in Taken, NEW t \in Target
    PROVE  /\ Exhausted(a, t) => TakeTarget(a, t) = [a EXCEPT !.full = TRUE]
           /\ ~Exhausted(a, t) =>
                /\ Affordable(a, t) \in 1..t.count
                /\ Affordable(a, t) =< a.samples
                /\ Affordable(a, t) * ProbeAttemptBudget(t) =< a.budget
                /\ TakeTarget(a, t) =
                     [targets |-> Append(a.targets, [t EXCEPT !.count = Affordable(a, t)]),
                      samples |-> a.samples - Affordable(a, t),
                      budget  |-> a.budget - Affordable(a, t) * ProbeAttemptBudget(t),
                      full    |-> FALSE]
                /\ \/ Affordable(a, t) = t.count
                   \/ Affordable(a, t) = a.samples
                   \/ a.budget < Affordable(a, t) * ProbeAttemptBudget(t) + ProbeAttemptBudget(t)
<1> DEFINE p == ProbeAttemptBudget(t)
           q == a.budget \div p
           c == Affordable(a, t)
<1>1. a.samples \in Nat /\ a.budget \in Nat /\ a.full \in BOOLEAN
  BY DEF Taken
<1>2. t.count \in Nat \ {0} /\ p \in Nat \ {0}
  BY TargetFacts
<1>3. ASSUME Exhausted(a, t)
      PROVE  TakeTarget(a, t) = [a EXCEPT !.full = TRUE]
  BY <1>3, Zenon DEF TakeTarget, Exhausted
<1>4. ASSUME ~Exhausted(a, t)
      PROVE  /\ c \in 1..t.count /\ c =< a.samples /\ c * p =< a.budget
             /\ TakeTarget(a, t) =
                  [targets |-> Append(a.targets, [t EXCEPT !.count = c]),
                   samples |-> a.samples - c,
                   budget  |-> a.budget - c * p,
                   full    |-> FALSE]
             /\ c = t.count \/ c = a.samples \/ a.budget < c * p + p
  <2>1. ~a.full /\ a.samples >= 1 /\ a.budget >= p
    BY <1>1, <1>2, <1>4 DEF Exhausted
  <2> HIDE DEF p
  <2>2. q \in Nat /\ q >= 1 /\ a.budget < q * p + p
    BY <1>1, <1>2, <2>1, Quotient
  <2>3. c \in 1..t.count /\ c =< a.samples /\ c =< q /\ c \in Nat
        /\ (c = t.count \/ c = a.samples \/ c = q)
    <3> HIDE DEF q
    <3> QED
      BY <1>1, <1>2, <2>1, <2>2 DEF Affordable, q, p
  <2>4. c * p =< a.budget
    BY <1>1, <1>2, <2>3, QuotientLargest
  <2>5. TakeTarget(a, t) =
          [targets |-> Append(a.targets, [t EXCEPT !.count = c]),
           samples |-> a.samples - c,
           budget  |-> a.budget - c * p,
           full    |-> FALSE]
    <3>1. ~(c =< 0) /\ ~(a.full \/ a.samples =< 0 \/ a.budget < ProbeAttemptBudget(t))
      BY <1>1, <1>2, <1>4, <2>3 DEF Exhausted
    <3> QED
      BY <3>1, Zenon DEF TakeTarget, Affordable, p
  <2> HIDE DEF q, c
  <2> QED
    BY <2>2, <2>3, <2>4, <2>5
<1> QED
  BY <1>3, <1>4

(* What one account gains the other loses.                                 *)
LEMMA Balance ==
    ASSUME NEW used \in Nat, NEW free \in Nat, NEW taken \in Nat, taken =< free
    PROVE  free - taken \in Nat /\ (used + taken) + (free - taken) = used + free
  OBVIOUS

(* One round of the selection keeps the accounts.                          *)
LEMMA TakeKeeps ==
    ASSUME NEW a \in Taken, NEW t \in Target
    PROVE  TakeTarget(a, t) \in Taken
<1>1. CASE Exhausted(a, t)
  <2>1. TakeTarget(a, t) = [a EXCEPT !.full = TRUE]
    BY <1>1, TakeCases
  <2>2. /\ [a EXCEPT !.full = TRUE] \in [targets : Seq(Target), samples : Nat,
                                         budget : Nat, full : BOOLEAN]
        /\ [a EXCEPT !.full = TRUE].targets = a.targets
        /\ [a EXCEPT !.full = TRUE].samples = a.samples
        /\ [a EXCEPT !.full = TRUE].budget = a.budget
    BY DEF Taken
  <2>3. [a EXCEPT !.full = TRUE] \in Taken
    BY <2>2 DEF Taken
  <2> QED
    BY <2>1, <2>3
<1>2. CASE ~Exhausted(a, t)
  <2> DEFINE c == Affordable(a, t)
             p == ProbeAttemptBudget(t)
             u == [t EXCEPT !.count = c]
             us == Append(a.targets, u)
  <2>1. /\ c \in 1..t.count /\ c =< a.samples /\ c * p =< a.budget
        /\ TakeTarget(a, t) = [targets |-> us, samples |-> a.samples - c,
                               budget |-> a.budget - c * p, full |-> FALSE]
    BY <1>2, TakeCases
  <2>2. /\ a.targets \in Seq(Target) /\ a.samples \in Nat /\ a.budget \in Nat
        /\ TotalSamples(a.targets) + a.samples = MaxSamples
        /\ TotalCost(a.targets) + a.budget = NodeBudget
    BY DEF Taken
  <2>3. t.count \in Nat /\ p \in Nat /\ c \in Nat
    <3>1. t.count \in Nat /\ p \in Nat
      BY TargetFacts
    <3> QED
      BY <2>1, <3>1
  <2> HIDE DEF c
  <2>4. u \in Target /\ u.count = c /\ ProbeAttemptBudget(u) = p
    BY <2>1, TargetCut
  <2> HIDE DEF u, p
  <2>5. Cost(u) = c * p /\ c * p \in Nat
    BY <2>3, <2>4 DEF Cost
  <2>6. /\ us \in Seq(Target)
        /\ TotalCost(us) = TotalCost(a.targets) + c * p
        /\ TotalSamples(us) = TotalSamples(a.targets) + c
        /\ TotalCost(a.targets) \in Nat /\ TotalSamples(a.targets) \in Nat
    BY <2>2, <2>4, <2>5, TotalsAppend
  <2> DEFINE cost == c * p
             new == TakeTarget(a, t)
  <2>7. /\ cost \in Nat /\ cost =< a.budget /\ TotalCost(us) = TotalCost(a.targets) + cost
        /\ new = [targets |-> us, samples |-> a.samples - c, budget |-> a.budget - cost,
                  full |-> FALSE]
        /\ c =< a.samples /\ TotalSamples(us) = TotalSamples(a.targets) + c
        /\ TotalCost(a.targets) \in Nat /\ TotalSamples(a.targets) \in Nat
    BY <2>1, <2>5, <2>6, Zenon
  <2> HIDE DEF us, cost, new
  <2>8. /\ a.samples - c \in Nat /\ a.budget - cost \in Nat
        /\ TotalSamples(us) + (a.samples - c) = MaxSamples
        /\ TotalCost(us) + (a.budget - cost) = NodeBudget
    <3>1. /\ a.samples - c \in Nat
          /\ (TotalSamples(a.targets) + c) + (a.samples - c)
               = TotalSamples(a.targets) + a.samples
      BY <2>2, <2>3, <2>7, Balance
    <3>2. /\ a.budget - cost \in Nat
          /\ (TotalCost(a.targets) + cost) + (a.budget - cost) = TotalCost(a.targets) + a.budget
      BY <2>2, <2>7, Balance
    <3> QED
      BY <2>2, <2>7, <3>1, <3>2, Zenon
  <2>9. /\ new \in [targets : Seq(Target), samples : Nat, budget : Nat, full : BOOLEAN]
        /\ new.targets = us /\ new.samples = a.samples - c /\ new.budget = a.budget - cost
    BY <2>6, <2>7, <2>8
  <2>10. new \in Taken
    BY <2>8, <2>9, Zenon DEF Taken
  <2> QED
    BY <2>10, Zenon DEF new
<1> QED
  BY <1>1, <1>2


(* The empty selection.                                                    *)
LEMMA NothingTaken == Nothing \in Taken
<1>1. << >> \in Seq(Target) /\ MaxSamples \in Nat /\ NodeBudget \in Nat
  BY BudgetAssumption
<1>2. Nothing \in [targets : Seq(Target), samples : Nat, budget : Nat, full : BOOLEAN]
  BY <1>1 DEF Nothing
<1>3. /\ Nothing.targets = << >> /\ Nothing.samples = MaxSamples
      /\ Nothing.budget = NodeBudget
  BY DEF Nothing
<1>4. /\ TotalSamples(Nothing.targets) + Nothing.samples = MaxSamples
      /\ TotalCost(Nothing.targets) + Nothing.budget = NodeBudget
  BY <1>1, <1>3, TotalsEmpty
<1> QED
  BY <1>2, <1>4 DEF Taken

(* The selection, step by step.                                            *)
LEMMA SelectionSteps ==
    ASSUME NEW ts \in Seq(Target)
    PROVE  \E h \in [0..Len(ts) -> Taken] :
             /\ h[0] = Nothing
             /\ \A k \in 1..Len(ts) : h[k] = TakeTarget(h[k - 1], ts[k])
             /\ FoldLeft(TakeTarget, Nothing, ts) = h[Len(ts)]
<1> DEFINE n == Len(ts)
           Folds(g) == g = [s \in SUBSET (1..n) |->
                              IF s = {} THEN Nothing
                              ELSE TakeTarget(g[s \ {Max(s)}], ts[Max(s)])]
           c == CHOOSE g : Folds(g)
           h == [k \in 0..n |-> c[1..k]]
<1>1. n \in Nat /\ DOMAIN ts = 1..n /\ \A k \in 1..n : ts[k] \in Target
  OBVIOUS
<1>2. FoldLeft(TakeTarget, Nothing, ts) = c[1..n]
  BY <1>1 DEF FoldLeft, MapThenFoldSet
<1> HIDE DEF n
<1>3. \E g : Folds(g)
  <2> DEFINE st == [p \in (1..n) \X Taken |-> TakeTarget(p[2], ts[p[1]])]
  <2>1. ASSUME NEW p \in (1..n) \X Taken
        PROVE  TakeTarget(p[2], ts[p[1]]) \in Taken
    <3>1. p[1] \in 1..n /\ p[2] \in Taken
      OBVIOUS
    <3> QED
      BY <1>1, <3>1, TakeKeeps
  <2>2. st \in [(1..n) \X Taken -> Taken]
    BY <2>1
  <2>3. \A k \in 1..n, a \in Taken : st[<<k, a>>] = TakeTarget(a, ts[k])
    OBVIOUS
  <2> HIDE DEF st
  <2>4. PICK g \in [SUBSET (1..n) -> Taken] : Iterates(g, st, Nothing, n)
    <3>1. n \in Nat
      BY <1>1
    <3> QED
      BY <2>2, <3>1, NothingTaken, FoldSteps, Zenon
  <2>5. ASSUME NEW s \in SUBSET (1..n)
        PROVE  g[s] = IF s = {} THEN Nothing ELSE TakeTarget(g[s \ {Max(s)}], ts[Max(s)])
    <3>1. g[s] = IF s = {} THEN Nothing ELSE st[<<Max(s), g[s \ {Max(s)}]>>]
      BY <2>4, Zenon DEF Iterates
    <3>2. CASE s = {}
      BY <3>1, <3>2
    <3>3. CASE s # {}
      <4>1. Max(s) \in 1..n /\ s \ {Max(s)} \in SUBSET (1..n)
        BY <1>1, <3>3, PositionMax
      <4>2. g[s \ {Max(s)}] \in Taken
        BY <4>1
      <4>3. st[<<Max(s), g[s \ {Max(s)}]>>] = TakeTarget(g[s \ {Max(s)}], ts[Max(s)])
        BY <2>3, <4>1, <4>2, Zenon
      <4> QED
        BY <3>1, <3>3, <4>3
    <3> QED
      BY <3>2, <3>3
  <2>6. g = [s \in SUBSET (1..n) |-> g[s]]
    OBVIOUS
  <2>7. Folds(g)
    BY <2>5, <2>6, Zenon
  <2> QED
    BY <2>7
<1>4. Folds(c)
  <2> HIDE DEF Folds
  <2> QED
    BY <1>3
<1>5. ASSUME NEW s \in SUBSET (1..n)
      PROVE  c[s] = IF s = {} THEN Nothing ELSE TakeTarget(c[s \ {Max(s)}], ts[Max(s)])
  <2> HIDE DEF c
  <2> QED
    BY <1>4, Zenon
<1> HIDE DEF c, Folds
<1>6. c[1..0] = Nothing
  <2>1. 1..0 = {} /\ 1..0 \in SUBSET (1..n)
    OBVIOUS
  <2> QED
    BY <1>5, <2>1, Zenon
<1>7. ASSUME NEW k \in 1..n
      PROVE  c[1..k] = TakeTarget(c[1..(k - 1)], ts[k])
  <2>1. k \in Nat \ {0} /\ 1..k # {} /\ 1..k \in SUBSET (1..n)
    BY <1>1
  <2>2. Max(1..k) = k /\ (1..k) \ {k} = 1..(k - 1)
    BY <2>1, IntervalMax
  <2>3. c[1..k] = TakeTarget(c[(1..k) \ {Max(1..k)}], ts[Max(1..k)])
    BY <1>5, <2>1, Zenon
  <2> QED
    BY <2>2, <2>3, Zenon
<1>8. \A k \in 0..n : c[1..k] \in Taken
  <2> DEFINE B == {k \in 0..n : c[1..k] \notin Taken}
  <2> SUFFICES ASSUME B # {} PROVE FALSE
    OBVIOUS
  <2>1. PICK k \in B : \A m \in B : k =< m
    <3>1. B \subseteq Nat
      BY <1>1
    <3> HIDE DEF B
    <3> QED
      BY <3>1, SmallestNumber
  <2>2. k \in 0..n /\ c[1..k] \notin Taken
    OBVIOUS
  <2>3. k # 0
    BY <1>6, <2>2, NothingTaken
  <2>4. k - 1 \in 0..n /\ k \in 1..n /\ ~(k =< k - 1)
    BY <1>1, <2>2, <2>3
  <2>5. c[1..(k - 1)] \in Taken
    BY <2>1, <2>4
  <2>6. TakeTarget(c[1..(k - 1)], ts[k]) \in Taken
    BY <1>1, <2>4, <2>5, TakeKeeps
  <2> QED
    BY <1>7, <2>2, <2>4, <2>6
<1>9. h \in [0..n -> Taken]
  BY <1>8
<1>10. /\ h[0] = Nothing /\ h[n] = c[1..n]
       /\ \A k \in 1..n : h[k] = TakeTarget(h[k - 1], ts[k])
  <2>1. \A k \in 0..n : h[k] = c[1..k]
    OBVIOUS
  <2>2. 0 \in 0..n /\ n \in 0..n /\ \A k \in 1..n : k \in 0..n /\ k - 1 \in 0..n
    BY <1>1
  <2> HIDE DEF h
  <2>3. h[0] = Nothing /\ h[n] = c[1..n]
    BY <1>6, <2>1, <2>2
  <2>4. ASSUME NEW k \in 1..n
        PROVE  h[k] = TakeTarget(h[k - 1], ts[k])
    <3>1. h[k] = c[1..k] /\ h[k - 1] = c[1..(k - 1)]
      BY <2>1, <2>2
    <3> QED
      BY <1>7, <3>1, Zenon
  <2> QED
    BY <2>3, <2>4
<1> HIDE DEF h
<1> QED
  BY <1>2, <1>9, <1>10 DEF n


(* A selection is a list of targets that both budgets can pay for, and it  *)
(* is no longer than what it was made from.                                *)
LEMMA LimitOK ==
    ASSUME NEW ts \in Seq(Target), Len(ts) =< MaxTargets
    PROVE  /\ LimitProbeTargetsForRun(ts) \in Seq(Target)
           /\ Len(LimitProbeTargetsForRun(ts)) =< Len(ts)
           /\ TotalCost(LimitProbeTargetsForRun(ts)) =< NodeBudget
           /\ TotalSamples(LimitProbeTargetsForRun(ts)) =< MaxSamples
<1> DEFINE n == Len(ts)
<1>1. LimitProbeTargetsForRun(ts) = FoldLeft(TakeTarget, Nothing, ts).targets
  BY SanitizeSame DEF LimitProbeTargetsForRun, Nothing
<1>2. n \in Nat /\ \A k \in 1..n : ts[k] \in Target
  OBVIOUS
<1>3. PICK h \in [0..n -> Taken] :
        /\ h[0] = Nothing
        /\ \A k \in 1..n : h[k] = TakeTarget(h[k - 1], ts[k])
        /\ FoldLeft(TakeTarget, Nothing, ts) = h[n]
  BY SelectionSteps
<1> HIDE DEF n
<1>4. \A k \in 0..n : Len(h[k].targets) =< k
  <2> DEFINE B == {k \in 0..n : ~(Len(h[k].targets) =< k)}
  <2> SUFFICES ASSUME B # {} PROVE FALSE
    OBVIOUS
  <2>1. PICK k \in B : \A m \in B : k =< m
    <3>1. B \subseteq Nat
      BY <1>2
    <3> HIDE DEF B
    <3> QED
      BY <3>1, SmallestNumber
  <2>2. k \in 0..n /\ ~(Len(h[k].targets) =< k)
    OBVIOUS
  <2>3. k # 0
    BY <1>3, <2>2 DEF Nothing
  <2>4. k - 1 \in 0..n /\ k \in 1..n /\ ~(k =< k - 1)
    BY <1>2, <2>2, <2>3
  <2>5. Len(h[k - 1].targets) =< k - 1
    BY <2>1, <2>4
  <2> HIDE DEF B
  <2> DEFINE a == h[k - 1]
             t == ts[k]
  <2>6. a \in Taken /\ t \in Target /\ h[k] = TakeTarget(a, t)
    BY <1>2, <1>3, <2>4
  <2> HIDE DEF a, t
  <2>7. a.targets \in Seq(Target)
    BY <2>6 DEF Taken
  <2>8. Len(TakeTarget(a, t).targets) =< Len(a.targets) + 1
    <3>1. CASE Exhausted(a, t)
      <4>1. TakeTarget(a, t) = [a EXCEPT !.full = TRUE]
        BY <2>6, <3>1, TakeCases
      <4>2. [a EXCEPT !.full = TRUE].targets = a.targets
        BY <2>6 DEF Taken
      <4> QED
        BY <2>7, <4>1, <4>2
    <3>2. CASE ~Exhausted(a, t)
      <4> DEFINE us == Append(a.targets, [t EXCEPT !.count = Affordable(a, t)])
                 s == a.samples - Affordable(a, t)
                 b == a.budget - Affordable(a, t) * ProbeAttemptBudget(t)
      <4>1. TakeTarget(a, t) = [targets |-> us, samples |-> s, budget |-> b, full |-> FALSE]
        BY <2>6, <3>2, TakeCases
      <4>2. Len(us) = Len(a.targets) + 1
        BY <2>7
      <4> HIDE DEF us, s, b
      <4> QED
        BY <2>7, <4>1, <4>2
    <3> QED
      BY <3>1, <3>2
  <2>9. h[k].targets \in Seq(Target)
    BY <1>3, <2>2 DEF Taken
  <2>10. Len(h[k].targets) \in Nat /\ Len(a.targets) \in Nat
    BY <2>7, <2>9
  <2> QED
    BY <2>2, <2>4, <2>5, <2>6, <2>8, <2>10 DEF a
<1>5. h[n] \in Taken /\ n \in 0..n
  BY <1>2
<1>6. /\ h[n].targets \in Seq(Target) /\ h[n].samples \in Nat /\ h[n].budget \in Nat
      /\ TotalSamples(h[n].targets) + h[n].samples = MaxSamples
      /\ TotalCost(h[n].targets) + h[n].budget = NodeBudget
  BY <1>5 DEF Taken
<1>7. TotalSamples(h[n].targets) \in Nat /\ TotalCost(h[n].targets) \in Nat
  BY <1>6, TotalsNat
<1>8. /\ TotalSamples(h[n].targets) =< MaxSamples /\ TotalCost(h[n].targets) =< NodeBudget
  BY <1>6, <1>7, BudgetAssumption
<1> QED
  BY <1>1, <1>3, <1>4, <1>5, <1>6, <1>8 DEF n

-----------------------------------------------------------------------------
(* The due targets.                                                        *)

(* One round of the loop of Due.                                           *)
LEMMA AppendIfDueKeeps ==
    ASSUME NEW due \in Seq(Target), NEW t \in Target
    PROVE  AppendIfDue(due, t) \in Seq(Target)
  BY DEF AppendIfDue

(* It starts with nothing.                                                 *)
LEMMA NoneDue == << >> \in Seq(Target)
  OBVIOUS

(* The loop of Due, step by step.                                          *)
LEMMA DueSteps ==
    ASSUME NEW ts \in Seq(Target)
    PROVE  \E h \in [0..Len(ts) -> Seq(Target)] :
             /\ h[0] = << >>
             /\ \A k \in 1..Len(ts) : h[k] = AppendIfDue(h[k - 1], ts[k])
             /\ FoldLeft(AppendIfDue, << >>, ts) = h[Len(ts)]
<1> DEFINE n == Len(ts)
           Folds(g) == g = [s \in SUBSET (1..n) |->
                              IF s = {} THEN << >>
                              ELSE AppendIfDue(g[s \ {Max(s)}], ts[Max(s)])]
           c == CHOOSE g : Folds(g)
           h == [k \in 0..n |-> c[1..k]]
<1>1. n \in Nat /\ DOMAIN ts = 1..n /\ \A k \in 1..n : ts[k] \in Target
  OBVIOUS
<1>2. FoldLeft(AppendIfDue, << >>, ts) = c[1..n]
  BY <1>1 DEF FoldLeft, MapThenFoldSet
<1> HIDE DEF n
<1>3. \E g : Folds(g)
  <2> DEFINE st == [p \in (1..n) \X Seq(Target) |-> AppendIfDue(p[2], ts[p[1]])]
  <2>1. ASSUME NEW p \in (1..n) \X Seq(Target)
        PROVE  AppendIfDue(p[2], ts[p[1]]) \in Seq(Target)
    <3>1. p[1] \in 1..n /\ p[2] \in Seq(Target)
      OBVIOUS
    <3> QED
      BY <1>1, <3>1, AppendIfDueKeeps
  <2>2. st \in [(1..n) \X Seq(Target) -> Seq(Target)]
    BY <2>1
  <2>3. \A k \in 1..n, a \in Seq(Target) : st[<<k, a>>] = AppendIfDue(a, ts[k])
    OBVIOUS
  <2> HIDE DEF st
  <2>4. PICK g \in [SUBSET (1..n) -> Seq(Target)] : Iterates(g, st, << >>, n)
    <3>1. n \in Nat
      BY <1>1
    <3> QED
      BY <2>2, <3>1, NoneDue, FoldSteps, Zenon
  <2>5. ASSUME NEW s \in SUBSET (1..n)
        PROVE  g[s] = IF s = {} THEN << >> ELSE AppendIfDue(g[s \ {Max(s)}], ts[Max(s)])
    <3>1. g[s] = IF s = {} THEN << >> ELSE st[<<Max(s), g[s \ {Max(s)}]>>]
      BY <2>4, Zenon DEF Iterates
    <3>2. CASE s = {}
      BY <3>1, <3>2
    <3>3. CASE s # {}
      <4>1. Max(s) \in 1..n /\ s \ {Max(s)} \in SUBSET (1..n)
        BY <1>1, <3>3, PositionMax
      <4>2. g[s \ {Max(s)}] \in Seq(Target)
        BY <4>1
      <4>3. st[<<Max(s), g[s \ {Max(s)}]>>] = AppendIfDue(g[s \ {Max(s)}], ts[Max(s)])
        BY <2>3, <4>1, <4>2, Zenon
      <4> QED
        BY <3>1, <3>3, <4>3
    <3> QED
      BY <3>2, <3>3
  <2>6. g = [s \in SUBSET (1..n) |-> g[s]]
    OBVIOUS
  <2>7. Folds(g)
    BY <2>5, <2>6, Zenon
  <2> QED
    BY <2>7
<1>4. Folds(c)
  <2> HIDE DEF Folds
  <2> QED
    BY <1>3
<1>5. ASSUME NEW s \in SUBSET (1..n)
      PROVE  c[s] = IF s = {} THEN << >> ELSE AppendIfDue(c[s \ {Max(s)}], ts[Max(s)])
  <2> HIDE DEF c
  <2> QED
    BY <1>4, Zenon
<1> HIDE DEF c, Folds
<1>6. c[1..0] = << >>
  <2>1. 1..0 = {} /\ 1..0 \in SUBSET (1..n)
    OBVIOUS
  <2> QED
    BY <1>5, <2>1, Zenon
<1>7. ASSUME NEW k \in 1..n
      PROVE  c[1..k] = AppendIfDue(c[1..(k - 1)], ts[k])
  <2>1. k \in Nat \ {0} /\ 1..k # {} /\ 1..k \in SUBSET (1..n)
    BY <1>1
  <2>2. Max(1..k) = k /\ (1..k) \ {k} = 1..(k - 1)
    BY <2>1, IntervalMax
  <2>3. c[1..k] = AppendIfDue(c[(1..k) \ {Max(1..k)}], ts[Max(1..k)])
    BY <1>5, <2>1, Zenon
  <2> QED
    BY <2>2, <2>3, Zenon
<1>8. \A k \in 0..n : c[1..k] \in Seq(Target)
  <2> DEFINE B == {k \in 0..n : c[1..k] \notin Seq(Target)}
  <2> SUFFICES ASSUME B # {} PROVE FALSE
    OBVIOUS
  <2>1. PICK k \in B : \A m \in B : k =< m
    <3>1. B \subseteq Nat
      BY <1>1
    <3> HIDE DEF B
    <3> QED
      BY <3>1, SmallestNumber
  <2>2. k \in 0..n /\ c[1..k] \notin Seq(Target)
    OBVIOUS
  <2>3. k # 0
    BY <1>6, <2>2, NoneDue
  <2>4. k - 1 \in 0..n /\ k \in 1..n /\ ~(k =< k - 1)
    BY <1>1, <2>2, <2>3
  <2>5. c[1..(k - 1)] \in Seq(Target)
    BY <2>1, <2>4
  <2>6. AppendIfDue(c[1..(k - 1)], ts[k]) \in Seq(Target)
    BY <1>1, <2>4, <2>5, AppendIfDueKeeps
  <2> QED
    BY <1>7, <2>2, <2>4, <2>6
<1>9. h \in [0..n -> Seq(Target)]
  BY <1>8
<1>10. /\ h[0] = << >> /\ h[n] = c[1..n]
       /\ \A k \in 1..n : h[k] = AppendIfDue(h[k - 1], ts[k])
  <2>1. \A k \in 0..n : h[k] = c[1..k]
    OBVIOUS
  <2>2. 0 \in 0..n /\ n \in 0..n /\ \A k \in 1..n : k \in 0..n /\ k - 1 \in 0..n
    BY <1>1
  <2> HIDE DEF h
  <2>3. h[0] = << >> /\ h[n] = c[1..n]
    BY <1>6, <2>1, <2>2
  <2>4. ASSUME NEW k \in 1..n
        PROVE  h[k] = AppendIfDue(h[k - 1], ts[k])
    <3>1. h[k] = c[1..k] /\ h[k - 1] = c[1..(k - 1)]
      BY <2>1, <2>2
    <3> QED
      BY <1>7, <3>1, Zenon
  <2> QED
    BY <2>3, <2>4
<1> HIDE DEF h
<1> QED
  BY <1>2, <1>9, <1>10 DEF n


(* The due targets are targets, and no more than there are.                *)
LEMMA DueOK ==
    ASSUME targets \in Seq(Target)
    PROVE  Due \in Seq(Target) /\ Len(Due) =< Len(targets)
<1> DEFINE n == Len(targets)
<1>1. n \in Nat
  OBVIOUS
<1>2. PICK h \in [0..n -> Seq(Target)] :
        /\ h[0] = << >>
        /\ \A k \in 1..n : h[k] = AppendIfDue(h[k - 1], targets[k])
        /\ FoldLeft(AppendIfDue, << >>, targets) = h[n]
  BY DueSteps
<1> HIDE DEF n
<1>3. \A k \in 0..n : Len(h[k]) =< k
  <2> DEFINE B == {k \in 0..n : ~(Len(h[k]) =< k)}
  <2> SUFFICES ASSUME B # {} PROVE FALSE
    OBVIOUS
  <2>1. PICK k \in B : \A m \in B : k =< m
    <3>1. B \subseteq Nat
      BY <1>1
    <3> HIDE DEF B
    <3> QED
      BY <3>1, SmallestNumber
  <2>2. k \in 0..n /\ ~(Len(h[k]) =< k)
    OBVIOUS
  <2>3. k # 0
    BY <1>2, <2>2
  <2>4. k - 1 \in 0..n /\ k \in 1..n /\ ~(k =< k - 1)
    BY <1>1, <2>2, <2>3
  <2>5. Len(h[k - 1]) =< k - 1
    BY <2>1, <2>4
  <2> HIDE DEF B
  <2>6. h[k - 1] \in Seq(Target) /\ h[k] = AppendIfDue(h[k - 1], targets[k])
    BY <1>2, <2>4
  <2>7. Len(h[k]) =< Len(h[k - 1]) + 1 /\ Len(h[k - 1]) \in Nat /\ Len(h[k]) \in Nat
    BY <2>6 DEF AppendIfDue
  <2> QED
    BY <2>2, <2>4, <2>5, <2>7
<1>4. h[n] \in Seq(Target) /\ Len(h[n]) =< n
  BY <1>1, <1>3
<1> QED
  BY <1>2, <1>4 DEF Due, n


-----------------------------------------------------------------------------
(* What the selection looks like.                                          *)

(* A beginning of ts, some of it cut, where no more would have fitted.     *)
BeginningOf(ts, sel) ==
    \A j \in 1..Len(sel) :
        /\ sel[j].count \in 1..ts[j].count
        /\ sel[j] = [ts[j] EXCEPT !.count = sel[j].count]
        /\ sel[j].count < ts[j].count => ~Affords(SubSeq(sel, 1, j), ts[j])

(* The selection after the first k targets of ts.                          *)
SelectedUpTo(ts, k, a) ==
    /\ Len(a.targets) =< k
    /\ k >= 1 => Len(a.targets) >= 1
    /\ BeginningOf(ts, a.targets)
    /\ ~a.full => Len(a.targets) = k
    /\ a.full => /\ Len(a.targets) < k
                 /\ ~Affords(a.targets, ts[Len(a.targets) + 1])

(* A longer beginning.                                                     *)
LEMMA BeginningGrows ==
    ASSUME NEW ts \in Seq(Target), NEW sel \in Seq(Target), BeginningOf(ts, sel),
           Len(sel) < Len(ts), NEW c \in 1..ts[Len(sel) + 1].count,
           NEW us, us = Append(sel, [ts[Len(sel) + 1] EXCEPT !.count = c]),
           c < ts[Len(sel) + 1].count => ~Affords(us, ts[Len(sel) + 1])
    PROVE  BeginningOf(ts, us) /\ Len(us) = Len(sel) + 1
<1> DEFINE m == Len(sel)
           t == ts[m + 1]
           u == [t EXCEPT !.count = c]
<1>1. t \in Target /\ m \in Nat
  OBVIOUS
<1>2. u \in Target /\ u.count = c
  BY <1>1, TargetCut
<1>3. us = Append(sel, u)
  OBVIOUS
<1> HIDE DEF u
<1>4. /\ us \in Seq(Target) /\ Len(us) = m + 1 /\ us[m + 1] = u
      /\ \A j \in 1..m : us[j] = sel[j]
  BY <1>1, <1>2, <1>3
<1>5. SubSeq(us, 1, m + 1) = us /\ \A j \in 1..m : SubSeq(us, 1, j) = SubSeq(sel, 1, j)
  BY <1>1, <1>4
<1>6. ASSUME NEW j \in 1..m
      PROVE  /\ us[j].count \in 1..ts[j].count
             /\ us[j] = [ts[j] EXCEPT !.count = us[j].count]
             /\ us[j].count < ts[j].count => ~Affords(SubSeq(us, 1, j), ts[j])
  BY <1>4, <1>5, <1>6, Zenon DEF BeginningOf
<1>7. /\ us[m + 1].count \in 1..ts[m + 1].count
      /\ us[m + 1] = [ts[m + 1] EXCEPT !.count = us[m + 1].count]
      /\ us[m + 1].count < ts[m + 1].count => ~Affords(SubSeq(us, 1, m + 1), ts[m + 1])
  <2>1. us[m + 1].count = c
    BY <1>2, <1>4
  <2>2. us[m + 1] = [ts[m + 1] EXCEPT !.count = c]
    BY <1>4 DEF u
  <2> QED
    BY <1>5, <2>1, <2>2
<1>8. \A j \in 1..Len(us) : j \in 1..m \/ j = m + 1
  BY <1>1, <1>4
<1> HIDE DEF m, t
<1>9. BeginningOf(ts, us)
  BY <1>6, <1>7, <1>8, Zenon DEF BeginningOf
<1> QED
  BY <1>4, <1>9 DEF m

(* One round of the selection.                                             *)
LEMMA SelectedStep ==
    ASSUME NEW ts \in Seq(Target), NEW k \in 1..Len(ts), NEW a \in Taken,
           SelectedUpTo(ts, k - 1, a)
    PROVE  SelectedUpTo(ts, k, TakeTarget(a, ts[k]))
<1> DEFINE t == ts[k]
           m == Len(a.targets)
           b == TakeTarget(a, t)
<1>1. /\ a.targets \in Seq(Target) /\ m \in Nat /\ t \in Target /\ k \in Nat \ {0}
      /\ a.samples \in Nat /\ a.budget \in Nat /\ a.full \in BOOLEAN
      /\ TotalSamples(a.targets) + a.samples = MaxSamples
      /\ TotalCost(a.targets) + a.budget = NodeBudget
  BY DEF Taken
<1>2. TotalCost(a.targets) \in Nat /\ TotalSamples(a.targets) \in Nat
  BY <1>1, TotalsNat
<1>3. /\ m =< k - 1 /\ BeginningOf(ts, a.targets)
      /\ k - 1 >= 1 => m >= 1
      /\ ~a.full => m = k - 1
      /\ a.full => m < k - 1 /\ ~Affords(a.targets, ts[m + 1])
  BY DEF SelectedUpTo
<1>4. ProbeAttemptBudget(t) \in Nat \ {0} /\ ProbeAttemptBudget(t) =< NodeBudget
      /\ t.count \in Nat \ {0}
  BY <1>1, TargetFacts
<1>5. CASE Exhausted(a, t)
  <2>1. b = [a EXCEPT !.full = TRUE]
    BY <1>1, <1>5, TakeCases
  <2>2. b.targets = a.targets /\ b.full = TRUE
    BY <2>1 DEF Taken
  <2>3. m < k /\ m >= 1 /\ ~Affords(a.targets, ts[m + 1])
    <3>1. CASE a.full
      BY <1>1, <1>3, <3>1
    <3>2. CASE ~a.full
      <4>1. a.samples =< 0 \/ a.budget < ProbeAttemptBudget(t)
        BY <1>5, <3>2 DEF Exhausted
      <4>2. ~Affords(a.targets, t)
        BY <1>1, <1>2, <1>4, <4>1, BudgetAssumption DEF Affords
      <4>3. m = k - 1 /\ m + 1 = k
        BY <1>1, <1>3, <3>2
      <4>4. m # 0
        <5> SUFFICES ASSUME m = 0 PROVE FALSE
          OBVIOUS
        <5>1. a.targets = << >>
          BY <1>1
        <5>2. TotalCost(a.targets) = 0 /\ TotalSamples(a.targets) = 0
          BY <5>1, TotalsEmpty
        <5> QED
          BY <1>1, <1>4, <4>1, <5>2, BudgetAssumption
      <4> QED
        BY <1>1, <4>2, <4>3, <4>4
    <3> QED
      BY <1>1, <3>1, <3>2
  <2> HIDE DEF b, m, t
  <2>4. Len(b.targets) = m
    BY <2>2 DEF m
  <2> QED
    BY <1>1, <1>3, <2>2, <2>3, <2>4 DEF SelectedUpTo, b, t
<1>6. CASE ~Exhausted(a, t)
  <2> DEFINE c == Affordable(a, t)
             p == ProbeAttemptBudget(t)
             u == [t EXCEPT !.count = c]
             us == Append(a.targets, u)
             s == a.samples - c
             r == a.budget - c * p
  <2>1. /\ c \in 1..t.count /\ c =< a.samples /\ c * p =< a.budget
        /\ b = [targets |-> us, samples |-> s, budget |-> r, full |-> FALSE]
        /\ c = t.count \/ c = a.samples \/ a.budget < c * p + p
    BY <1>1, <1>6, TakeCases
  <2>2. ~a.full /\ m = k - 1 /\ m + 1 = k /\ m < Len(ts)
    BY <1>1, <1>3, <1>6 DEF Exhausted
  <2> HIDE DEF c, s, r
  <2>3. u \in Target /\ u.count = c /\ ProbeAttemptBudget(u) = p
    BY <1>1, <2>1, TargetCut
  <2>4. c \in Nat /\ c * p \in Nat /\ Cost(u) = c * p
    <3>1. c \in Nat
      BY <1>4, <2>1
    <3> QED
      BY <1>4, <2>3, <3>1 DEF Cost
  <2>5. TotalCost(us) = TotalCost(a.targets) + c * p
        /\ TotalSamples(us) = TotalSamples(a.targets) + c
    <3> HIDE DEF u, p
    <3> QED
      BY <1>1, <2>3, <2>4, TotalsAppend
  <2>6. c < t.count => ~Affords(us, t)
    <3> SUFFICES ASSUME c < t.count PROVE ~Affords(us, t)
      OBVIOUS
    <3>1. c = a.samples \/ a.budget < c * p + p
      BY <1>4, <2>1, <2>4
    <3> DEFINE w == c * p
    <3>2. /\ w \in Nat /\ p \in Nat /\ TotalCost(us) = TotalCost(a.targets) + w
          /\ c = a.samples \/ a.budget < w + p
      BY <1>4, <2>4, <2>5, <3>1
    <3> HIDE DEF us, t, w, p
    <3>3. CASE c = a.samples
      BY <1>1, <1>2, <2>4, <2>5, <3>3, BudgetAssumption DEF Affords
    <3>4. CASE a.budget < w + p
      <4>1. ~(TotalCost(us) + p =< NodeBudget)
        BY <1>1, <1>2, <3>2, <3>4, BudgetAssumption
      <4> QED
        BY <4>1 DEF Affords, p
    <3> QED
      BY <3>2, <3>3, <3>4
  <2>7. BeginningOf(ts, us) /\ Len(us) = m + 1
    <3>1. t = ts[m + 1] /\ c \in 1..ts[m + 1].count
          /\ us = Append(a.targets, [ts[m + 1] EXCEPT !.count = c])
      BY <2>1, <2>2
    <3> HIDE DEF us
    <3> QED
      BY <1>1, <1>3, <2>2, <2>6, <3>1, BeginningGrows
  <2> HIDE DEF us, b, m, t
  <2>8. b.targets = us /\ b.full = FALSE
    BY <2>1
  <2> QED
    BY <1>1, <2>2, <2>7, <2>8 DEF SelectedUpTo, b, t
<1> QED
  BY <1>5, <1>6

(* The whole selection is a beginning of what it was made from, and as     *)
(* long as it can be.                                                      *)
LEMMA LimitShape ==
    ASSUME NEW ts \in Seq(Target), Len(ts) =< MaxTargets
    PROVE  LET sel == LimitProbeTargetsForRun(ts)
           IN  /\ BeginningOf(ts, sel)
               /\ Len(sel) < Len(ts) => ~Affords(sel, ts[Len(sel) + 1])
               /\ Len(ts) >= 1 => Len(sel) >= 1
<1> DEFINE n == Len(ts)
<1>1. LimitProbeTargetsForRun(ts) = FoldLeft(TakeTarget, Nothing, ts).targets
  BY SanitizeSame DEF LimitProbeTargetsForRun, Nothing
<1>2. n \in Nat /\ \A k \in 1..n : ts[k] \in Target
  OBVIOUS
<1>3. PICK h \in [0..n -> Taken] :
        /\ h[0] = Nothing
        /\ \A k \in 1..n : h[k] = TakeTarget(h[k - 1], ts[k])
        /\ FoldLeft(TakeTarget, Nothing, ts) = h[n]
  BY SelectionSteps
<1>4. \A k \in 0..n : SelectedUpTo(ts, k, h[k])
  <2> DEFINE B == {k \in 0..n : ~SelectedUpTo(ts, k, h[k])}
  <2> SUFFICES ASSUME B # {} PROVE FALSE
    OBVIOUS
  <2>1. PICK k \in B : \A m \in B : k =< m
    <3>1. B \subseteq Nat
      BY <1>2
    <3> HIDE DEF B
    <3> QED
      BY <3>1, SmallestNumber
  <2>2. k \in 0..n /\ ~SelectedUpTo(ts, k, h[k])
    OBVIOUS
  <2>3. SelectedUpTo(ts, 0, Nothing)
    <3>1. Nothing.targets = << >> /\ Nothing.full = FALSE /\ Len(<< >>) = 0
      BY DEF Nothing
    <3>2. BeginningOf(ts, << >>)
      BY DEF BeginningOf
    <3> QED
      BY <3>1, <3>2 DEF SelectedUpTo
  <2>4. k # 0
    BY <1>3, <2>2, <2>3
  <2>5. k - 1 \in 0..n /\ k \in 1..n /\ ~(k =< k - 1)
    BY <1>2, <2>2, <2>4
  <2>6. SelectedUpTo(ts, k - 1, h[k - 1]) /\ h[k - 1] \in Taken
    BY <2>1, <2>5
  <2> HIDE DEF B
  <2> QED
    BY <1>3, <2>2, <2>5, <2>6, SelectedStep
<1>5. SelectedUpTo(ts, n, h[n]) /\ h[n] \in Taken
  BY <1>2, <1>4
<1>6. h[n].full \in BOOLEAN
  BY <1>5 DEF Taken
<1>7. /\ BeginningOf(ts, h[n].targets)
      /\ Len(h[n].targets) < n => ~Affords(h[n].targets, ts[Len(h[n].targets) + 1])
      /\ n >= 1 => Len(h[n].targets) >= 1
  BY <1>5, <1>6 DEF SelectedUpTo
<1> QED
  BY <1>1, <1>3, <1>7 DEF n


(* A beginning costs no more than the whole.                               *)
LEMMA TotalsPrefix ==
    ASSUME NEW ts \in Seq(Target), NEW k \in 0..Len(ts)
    PROVE  /\ SubSeq(ts, 1, k) \in Seq(Target)
           /\ TotalCost(SubSeq(ts, 1, k)) =< TotalCost(ts)
           /\ TotalSamples(SubSeq(ts, 1, k)) =< TotalSamples(ts)
<1> DEFINE us == SubSeq(ts, 1, k)
           S == 1..Len(ts)
           R == 1..k
<1>1. /\ us \in Seq(Target) /\ DOMAIN us = R /\ DOMAIN ts = S /\ R \in SUBSET S
      /\ \A j \in R : us[j] = ts[j]
  OBVIOUS
<1>2. IsFiniteSet(S)
  <2>1. 1 \in Int /\ Len(ts) \in Int
    OBVIOUS
  <2> QED
    BY <2>1, FS_Interval, Zenon
<1>3. \A j \in S : ts[j] \in Target
  OBVIOUS
<1> HIDE DEF us, S, R
<1>4. \A j \in S : Costs(ts)[j] \in Nat /\ Counts(ts)[j] \in Nat
  BY <1>1, <1>3, TargetFacts DEF Costs, Counts
<1>5. \A j \in R : Costs(us)[j] = Costs(ts)[j] /\ Counts(us)[j] = Counts(ts)[j]
  BY <1>1 DEF Costs, Counts
<1>6. IsFiniteSet(R)
  BY <1>1, <1>2, FS_Subset
<1>7. SumOf(Costs(us), R) = SumOf(Costs(ts), R) /\ SumOf(Counts(us), R) = SumOf(Counts(ts), R)
  BY <1>5, <1>6, SumSame
<1>8. SumOf(Costs(ts), R) =< SumOf(Costs(ts), S) /\ SumOf(Counts(ts), R) =< SumOf(Counts(ts), S)
  BY <1>1, <1>2, <1>4, SumMonotone
<1>9. /\ TotalCost(us) = SumOf(Costs(us), R) /\ TotalCost(ts) = SumOf(Costs(ts), S)
      /\ TotalSamples(us) = SumOf(Counts(us), R) /\ TotalSamples(ts) = SumOf(Counts(ts), S)
  BY <1>1, TotalCostIsSum, TotalSamplesIsSum
<1> QED
  BY <1>1, <1>7, <1>8, <1>9 DEF us

(* What the budgets can pay for is selected as it is.                      *)
LEMMA LimitSame ==
    ASSUME NEW ts \in Seq(Target), Len(ts) =< MaxTargets,
           TotalCost(ts) =< NodeBudget, TotalSamples(ts) =< MaxSamples
    PROVE  LimitProbeTargetsForRun(ts) = ts
<1> DEFINE n == Len(ts)
           OK(k, a) == a.targets = SubSeq(ts, 1, k) /\ a.full = FALSE
<1>1. LimitProbeTargetsForRun(ts) = FoldLeft(TakeTarget, Nothing, ts).targets
  BY SanitizeSame DEF LimitProbeTargetsForRun, Nothing
<1>2. n \in Nat /\ \A k \in 1..n : ts[k] \in Target
  OBVIOUS
<1>3. PICK h \in [0..n -> Taken] :
        /\ h[0] = Nothing
        /\ \A k \in 1..n : h[k] = TakeTarget(h[k - 1], ts[k])
        /\ FoldLeft(TakeTarget, Nothing, ts) = h[n]
  BY SelectionSteps
<1>4. ASSUME NEW k \in 1..n, NEW a \in Taken, OK(k - 1, a)
      PROVE  OK(k, TakeTarget(a, ts[k]))
  <2> DEFINE t == ts[k]
             p == ProbeAttemptBudget(t)
             us == SubSeq(ts, 1, k)
             c == Affordable(a, t)
  <2>1. /\ t \in Target /\ a.targets = SubSeq(ts, 1, k - 1) /\ a.full = FALSE
        /\ us = Append(a.targets, t) /\ k \in 0..n /\ k - 1 \in 0..n
    BY <1>2, <1>4
  <2>2. /\ a.targets \in Seq(Target) /\ a.samples \in Nat /\ a.budget \in Nat
        /\ TotalSamples(a.targets) + a.samples = MaxSamples
        /\ TotalCost(a.targets) + a.budget = NodeBudget
    BY DEF Taken
  <2>3. TotalCost(us) =< TotalCost(ts) /\ TotalSamples(us) =< TotalSamples(ts)
    BY <2>1, TotalsPrefix
  <2>4. /\ t.count \in Nat \ {0} /\ p \in Nat \ {0} /\ Cost(t) = t.count * p
        /\ p =< Cost(t) /\ Cost(t) \in Nat
    BY <2>1, TargetFacts
  <2> HIDE DEF us, t
  <2>5. /\ TotalCost(us) = TotalCost(a.targets) + Cost(t)
        /\ TotalSamples(us) = TotalSamples(a.targets) + t.count
        /\ TotalCost(a.targets) \in Nat /\ TotalSamples(a.targets) \in Nat
    BY <2>1, <2>2, TotalsAppend
  <2>6. TotalCost(ts) \in Nat /\ TotalSamples(ts) \in Nat
    BY TotalsNat
  <2>7. Cost(t) =< a.budget /\ t.count =< a.samples
    <3>1. Cost(t) \in Nat /\ t.count \in Nat /\ NodeBudget \in Nat /\ MaxSamples \in Nat
      BY <2>4, BudgetAssumption
    <3>2. TotalCost(a.targets) + Cost(t) =< NodeBudget
      BY <2>3, <2>5, <2>6, <3>1
    <3>3. TotalSamples(a.targets) + t.count =< MaxSamples
      BY <2>3, <2>5, <2>6, <3>1
    <3> QED
      BY <2>2, <2>5, <3>1, <3>2, <3>3
  <2>8. ~Exhausted(a, t)
    BY <2>1, <2>2, <2>4, <2>7 DEF Exhausted
  <2>9. /\ c \in 1..t.count /\ TakeTarget(a, t) =
             [targets |-> Append(a.targets, [t EXCEPT !.count = c]),
              samples |-> a.samples - c, budget |-> a.budget - c * p, full |-> FALSE]
    BY <2>1, <2>8, TakeCases
  <2>10. c = t.count
    <3>1. t.count =< a.budget \div p /\ a.budget \div p \in Nat
      <4>1. t.count * p =< a.budget
        BY <2>4, <2>7
      <4> HIDE DEF p
      <4> QED
        BY <2>2, <2>4, <4>1, QuotientLargest, Quotient
    <3> QED
      BY <2>2, <2>4, <2>7, <3>1 DEF Affordable
  <2> HIDE DEF c
  <2>11. [t EXCEPT !.count = c] = t
    BY <2>1, <2>10 DEF Target
  <2>12. TakeTarget(a, t).targets = us /\ TakeTarget(a, t).full = FALSE
    BY <2>1, <2>9, <2>11
  <2> QED
    BY <2>12 DEF us, t
<1>5. \A k \in 0..n : OK(k, h[k])
  <2> DEFINE B == {k \in 0..n : ~OK(k, h[k])}
  <2> SUFFICES ASSUME B # {} PROVE FALSE
    OBVIOUS
  <2>1. PICK k \in B : \A m \in B : k =< m
    <3>1. B \subseteq Nat
      BY <1>2
    <3> HIDE DEF B
    <3> QED
      BY <3>1, SmallestNumber
  <2>2. k \in 0..n /\ ~OK(k, h[k])
    OBVIOUS
  <2>3. OK(0, Nothing)
    BY DEF Nothing
  <2>4. k # 0
    BY <1>3, <2>2, <2>3
  <2>5. k - 1 \in 0..n /\ k \in 1..n /\ ~(k =< k - 1)
    BY <1>2, <2>2, <2>4
  <2>6. OK(k - 1, h[k - 1]) /\ h[k - 1] \in Taken
    BY <2>1, <2>5
  <2> HIDE DEF B, OK
  <2> QED
    BY <1>3, <1>4, <2>2, <2>5, <2>6
<1>6. h[n].targets = SubSeq(ts, 1, n)
  BY <1>2, <1>5
<1>7. SubSeq(ts, 1, n) = ts
  BY <1>2
<1> QED
  BY <1>1, <1>3, <1>6, <1>7

(* Selecting twice selects the same.                                       *)
LEMMA LimitTwice ==
    ASSUME NEW ts \in Seq(Target), Len(ts) =< MaxTargets
    PROVE  LimitProbeTargetsForRun(LimitProbeTargetsForRun(ts)) = LimitProbeTargetsForRun(ts)
<1> DEFINE us == LimitProbeTargetsForRun(ts)
<1>1. /\ us \in Seq(Target) /\ Len(us) =< Len(ts) /\ Len(us) \in Nat /\ Len(ts) \in Nat
      /\ TotalCost(us) =< NodeBudget /\ TotalSamples(us) =< MaxSamples
  BY LimitOK
<1> HIDE DEF us
<1>2. Len(us) =< MaxTargets
  BY <1>1, BudgetAssumption
<1>3. LimitProbeTargetsForRun(us) = us
  BY <1>1, <1>2, LimitSame
<1> QED
  BY <1>3 DEF us


(* The due ones among the first k targets.                                 *)
DueUpTo(k, due) ==
    /\ \A j \in DOMAIN due : \E i \in 1..k : due[j] = targets[i]
    /\ \A i \in 1..k : IsDue(targets[i]) => \E j \in DOMAIN due : due[j] = targets[i]
    /\ TotalCost(due) =< TotalCost(SubSeq(targets, 1, k))
    /\ TotalSamples(due) =< TotalSamples(SubSeq(targets, 1, k))

(* One round of the loop.                                                  *)
LEMMA DueStep ==
    ASSUME targets \in Seq(Target), NEW k \in 1..Len(targets), NEW due \in Seq(Target),
           DueUpTo(k - 1, due)
    PROVE  DueUpTo(k, AppendIfDue(due, targets[k]))
<1> DEFINE t == targets[k]
           d == AppendIfDue(due, t)
           before == SubSeq(targets, 1, k - 1)
           now == SubSeq(targets, 1, k)
<1>1. /\ t \in Target /\ before \in Seq(Target) /\ now = Append(before, t)
      /\ k \in Nat \ {0} /\ d \in Seq(Target)
  <2>1. t \in Target /\ before \in Seq(Target) /\ now = Append(before, t)
    OBVIOUS
  <2>2. k \in Nat \ {0}
    OBVIOUS
  <2> HIDE DEF t
  <2>3. d \in Seq(Target)
    BY <2>1, AppendIfDueKeeps
  <2> QED
    BY <2>1, <2>2, <2>3
<1>2. \A i \in 1..k : i \in 1..(k - 1) \/ i = k
  BY <1>1
<1>3. t.count \in Nat /\ Cost(t) \in Nat
  BY <1>1, TargetFacts
<1> HIDE DEF now, before
<1>4. /\ TotalCost(now) = TotalCost(before) + Cost(t) /\ TotalCost(before) \in Nat
      /\ TotalSamples(now) = TotalSamples(before) + t.count /\ TotalSamples(before) \in Nat
      /\ TotalCost(Append(due, t)) = TotalCost(due) + Cost(t) /\ TotalCost(due) \in Nat
      /\ TotalSamples(Append(due, t)) = TotalSamples(due) + t.count
      /\ TotalSamples(due) \in Nat
  BY <1>1, TotalsAppend
<1>5. TotalCost(due) =< TotalCost(before) /\ TotalSamples(due) =< TotalSamples(before)
  BY DEF DueUpTo, before
<1>6. TotalCost(d) =< TotalCost(now) /\ TotalSamples(d) =< TotalSamples(now)
  <2>1. CASE IsDue(t)
    BY <1>3, <1>4, <1>5, <2>1 DEF AppendIfDue
  <2>2. CASE ~IsDue(t)
    BY <1>3, <1>4, <1>5, <2>2 DEF AppendIfDue
  <2> QED
    BY <2>1, <2>2
<1>7. \A j \in DOMAIN d : \E i \in 1..k : d[j] = targets[i]
  <2>1. \A j \in DOMAIN due : \E i \in 1..k : due[j] = targets[i]
    BY <1>1 DEF DueUpTo
  <2>2. k \in 1..k
    BY <1>1
  <2>3. CASE IsDue(t)
    <3>1. d = Append(due, t)
      BY <2>3 DEF AppendIfDue
    <3>2. \A j \in DOMAIN d : d[j] = t \/ (j \in DOMAIN due /\ d[j] = due[j])
      BY <3>1
    <3> HIDE DEF d
    <3> QED
      BY <2>1, <2>2, <3>2
  <2>4. CASE ~IsDue(t)
    BY <2>1, <2>4 DEF AppendIfDue
  <2> QED
    BY <2>3, <2>4
<1>8. \A i \in 1..k : IsDue(targets[i]) => \E j \in DOMAIN d : d[j] = targets[i]
  <2>1. \A i \in 1..(k - 1) : IsDue(targets[i]) => \E j \in DOMAIN due : due[j] = targets[i]
    BY DEF DueUpTo
  <2>2. CASE IsDue(t)
    <3>1. d = Append(due, t)
      BY <2>2 DEF AppendIfDue
    <3>2. /\ \A j \in DOMAIN due : j \in DOMAIN d /\ d[j] = due[j]
          /\ \E j \in DOMAIN d : d[j] = t
      BY <3>1
    <3> HIDE DEF d
    <3> QED
      BY <1>2, <2>1, <3>2
  <2>3. CASE ~IsDue(t)
    <3>1. d = due
      BY <2>3 DEF AppendIfDue
    <3> QED
      BY <1>2, <2>1, <2>3, <3>1
  <2> QED
    BY <2>2, <2>3
<1> QED
  BY <1>6, <1>7, <1>8 DEF DueUpTo, now

(* The due targets are those that are due, and cost no more than all.      *)
LEMMA DueShape ==
    ASSUME targets \in Seq(Target)
    PROVE  DueUpTo(Len(targets), Due)
<1> DEFINE n == Len(targets)
<1>1. n \in Nat
  OBVIOUS
<1>2. PICK h \in [0..n -> Seq(Target)] :
        /\ h[0] = << >>
        /\ \A k \in 1..n : h[k] = AppendIfDue(h[k - 1], targets[k])
        /\ FoldLeft(AppendIfDue, << >>, targets) = h[n]
  BY DueSteps
<1>3. \A k \in 0..n : DueUpTo(k, h[k])
  <2> DEFINE B == {k \in 0..n : ~DueUpTo(k, h[k])}
  <2> SUFFICES ASSUME B # {} PROVE FALSE
    OBVIOUS
  <2>1. PICK k \in B : \A m \in B : k =< m
    <3>1. B \subseteq Nat
      BY <1>1
    <3> HIDE DEF B
    <3> QED
      BY <3>1, SmallestNumber
  <2>2. k \in 0..n /\ ~DueUpTo(k, h[k])
    OBVIOUS
  <2>3. DueUpTo(0, << >>)
    <3>1. SubSeq(targets, 1, 0) = << >>
      OBVIOUS
    <3>2. TotalCost(<< >>) = 0 /\ TotalSamples(<< >>) = 0
      BY TotalsEmpty
    <3>3. 1..0 = {} /\ DOMAIN << >> = {}
      OBVIOUS
    <3>4. /\ TotalCost(<< >>) =< TotalCost(SubSeq(targets, 1, 0))
          /\ TotalSamples(<< >>) =< TotalSamples(SubSeq(targets, 1, 0))
      <4>1. TotalCost(SubSeq(targets, 1, 0)) = 0 /\ TotalSamples(SubSeq(targets, 1, 0)) = 0
        BY <3>1, <3>2, Zenon
      <4>2. 0 =< 0
        OBVIOUS
      <4> QED
        BY <3>2, <4>1, <4>2, Zenon
    <3> QED
      BY <3>3, <3>4, Zenon DEF DueUpTo
  <2>4. k # 0
    BY <1>2, <2>2, <2>3
  <2>5. k - 1 \in 0..n /\ k \in 1..n /\ ~(k =< k - 1)
    BY <1>1, <2>2, <2>4
  <2>6. DueUpTo(k - 1, h[k - 1]) /\ h[k - 1] \in Seq(Target)
    BY <2>1, <2>5
  <2> HIDE DEF B
  <2> QED
    BY <1>2, <2>2, <2>5, <2>6, DueStep
<1>4. DueUpTo(n, h[n])
  BY <1>1, <1>3
<1> QED
  BY <1>2, <1>4 DEF Due, n
=============================================================================
