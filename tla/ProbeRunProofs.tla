--------------------------- MODULE ProbeRunProofs ---------------------------
(***************************************************************************)
(* Runs of the probe loop: every invariant and action property that the    *)
(* runs check of ProbeScheduler and ProbeRun, for any configuration, any   *)
(* budget and any number of slots.  The invariant that carries them is     *)
(* CycleInv.                                                               *)
(***************************************************************************)
EXTENDS ProbeBudgetProofs

(* The places of a goroutine's program at which an attempt is under way.   *)
Trying == {"attempt", "dial", "check", "request"}

(* Those at which an HTTP client works on a request, the last of a chain.  *)
Asking == {"dial", "check", "request"}

(* The requests of a chain, url the last: every hop has been checked, and  *)
(* the last one speaks for all the others.                                 *)
ChainOK(via, url) ==
    /\ Len(via) < MaxRedirects
    /\ ParseHTTPProbeURL(url)
    /\ \A k \in DOMAIN via : /\ ParseHTTPProbeURL(via[k])
                             /\ via[k].scheme = "https" => url.scheme = "https"
    /\ \A j, k \in DOMAIN via : j < k /\ via[j].scheme = "https" => via[k].scheme = "https"

(* The ticks that the remaining samples of a target may still take.        *)
Rest(t, w) == (t.count - Len(w.samples)) * ProbeAttemptBudget(t) - w.spent

(* What holds of the goroutine w of target t wherever it is.               *)
WorkerOK(t, w) ==
    /\ w \in Worker
    /\ \A k \in DOMAIN w.samples : w.samples[k].seq = k
    /\ Len(w.samples) =< t.count
    /\ w.pc = "done" => Len(w.samples) = t.count
    /\ w.pc \in Trying => Len(w.samples) < t.count
    /\ w.pc \notin Trying => w.spent = 0
    /\ w.spent =< ProbeAttemptBudget(t)
    /\ w.looking => w.pc \in {"dial", "check"} /\ w.url.host \notin Literals
    /\ IF w.pc \in Asking THEN ChainOK(w.via, w.url) ELSE w.via = << >>
    /\ w.pc \notin {"new", "done"} /\ t.type = "http" => ParseHTTPProbeURL(t.address)

(* The targets are sanitized, and a run probes some of them.               *)
TargetsInv ==
    /\ targets \in Seq(Target) /\ Len(targets) =< MaxTargets
    /\ batch \in Seq(Target)
    /\ \A j \in DOMAIN batch : \E i \in DOMAIN targets : batch[j].id = targets[i].id

LoopInv ==
    /\ seen \subseteq IDs
    /\ age \in [IDs -> 0..AgeCap] /\ since = age
    /\ loop \in {"wait", "probing", "persist", "stopped"}
    /\ ticker \in BOOLEAN /\ stopping \in BOOLEAN
    /\ failures \in 0..MaxFailures

WorkersInv ==
    /\ worker \in [DOMAIN batch -> Worker]
    /\ \A i \in DOMAIN batch : WorkerOK(batch[i], worker[i])

(* A pinned answer is a safe one, and every connection used what is pinned. *)
PinInv ==
    /\ cache \in [DOMAIN batch -> [Hosts \ Literals -> Answers]]
    /\ \A i \in DOMAIN batch, h \in Hosts \ Literals :
         cache[i][h] # {} => SafeAnswer(h, cache[i][h])
    /\ lingering \subseteq (DOMAIN batch) \X (Hosts \ Literals)
    /\ dialled \subseteq (DOMAIN batch) \X Hosts \X SUBSET (Public \cup Loopback)
    /\ \A d \in dialled :
         /\ SafeAnswer(d[2], d[3])
         /\ d[3] = IF d[2] \in Literals THEN LiteralAnswer(d[2]) ELSE cache[d[1]][d[2]]

(* What the attempts of all targets may still take, one after the other.   *)
Rests(b, ws) == SumOf([i \in DOMAIN b |-> Rest(b[i], ws[i])], DOMAIN b)

(* As long as DNS has not used up the grace, the time left is enough.      *)
RoomInv ==
    /\ ctx \in {"live", "expired", "cancelled"} /\ left \in Nat /\ resolving \in Nat
    /\ Cardinality(Active) =< Slots
    /\ ctx = "live" /\ batch # << >> =>
         /\ left > 0
         /\ resolving >= RunGrace \/ left + resolving >= Rests(batch, worker) + RunGrace
    /\ ctx = "expired" => resolving >= RunGrace

(* When one run affords the configuration: how long ago the results of a   *)
(* target were stored, between runs and during one.                        *)
Longest == ProbeRunTimeout(targets)

Waited(k) == targets[k].interval + Longest + failures * (Longest + 1)

Busy == loop \in {"probing", "persist"}

TimeOK(k, s) ==
    IF Busy
    THEN \/ /\ \E j \in DOMAIN batch : batch[j].id = targets[k].id
            /\ s + left =< Waited(k) + Longest
         \/ s + left < targets[k].interval + Longest
    ELSE s + (IF ticker THEN 0 ELSE 1) =< Waited(k)

TimeInv ==
    LimitProbeTargetsForRun(targets) = targets =>
        /\ Busy => left =< Longest
        /\ \A k \in DOMAIN targets :
             targets[k].id \in IDs => TimeOK(k, since[targets[k].id])

CycleInv ==
    /\ TargetsInv /\ LoopInv /\ WorkersInv /\ PinInv /\ RoomInv /\ TimeInv

-----------------------------------------------------------------------------
(* The goroutine of one target.                                            *)

(* The time that the rest of a round may take is never negative.           *)
LEMMA RestNat ==
    ASSUME NEW t \in Target, NEW w, WorkerOK(t, w)
    PROVE  /\ Rest(t, w) \in Nat /\ w.spent \in Nat /\ Len(w.samples) \in Nat
           /\ t.count \in Nat /\ ProbeAttemptBudget(t) \in Nat
<1> DEFINE b == ProbeAttemptBudget(t)
           n == t.count - Len(w.samples)
<1>1. t.count \in Nat /\ b \in Nat \ {0}
  BY TargetFacts
<1> HIDE DEF b
<1>2. /\ w.samples \in Seq(Sample) /\ w.spent \in Nat /\ Len(w.samples) =< t.count
      /\ (w.pc \in Trying => Len(w.samples) < t.count)
      /\ (w.pc \notin Trying => w.spent = 0) /\ w.spent =< b
  BY DEF WorkerOK, Worker, b
<1>3. Len(w.samples) \in Nat
  BY <1>2
<1>4. n \in Nat /\ (w.pc \in Trying => n >= 1)
  BY <1>1, <1>2, <1>3
<1> HIDE DEF n
<1>5. n * b \in Nat /\ (n >= 1 => n * b >= b)
  <2>1. n * b \in Nat
    BY <1>1, <1>4
  <2>2. CASE n >= 1
    <3>1. 1 * b =< n * b
      BY <1>1, <1>4, <2>2, Product
    <3> QED
      BY <1>1, <2>1, <3>1
  <2> QED
    BY <2>1, <2>2
<1>6. n * b - w.spent \in Nat
  <2> DEFINE p == n * b
  <2>1. p \in Nat /\ (n >= 1 => p >= b)
    BY <1>5
  <2> HIDE DEF p
  <2>2. p - w.spent \in Nat
    <3>1. CASE w.pc \in Trying
      BY <1>1, <1>2, <1>4, <2>1, <3>1
    <3>2. CASE w.pc \notin Trying
      BY <1>2, <2>1, <3>2
    <3> QED
      BY <3>1, <3>2
  <2> QED
    BY <2>2 DEF p
<1> QED
  BY <1>1, <1>2, <1>3, <1>6 DEF Rest, n, b

(* One attempt less.                                                       *)
LEMMA Distributes ==
    ASSUME NEW n \in Nat \ {0}, NEW a \in Nat
    PROVE  (n - 1) * a = n * a - a /\ n * a \in Int
<1>1. PICK m \in Nat : n = m + 1
  BY n - 1 \in Nat
<1>2. (m + 1) * a = m * a + a /\ m * a \in Int
  OBVIOUS
<1>3. n - 1 = m
  BY <1>1
<1> QED
  BY <1>1, <1>2, <1>3

(* What a step of a goroutine does to it.                                  *)
Progress(t, w, v) ==
    /\ WorkerOK(t, v)
    /\ Rest(t, v) =< Rest(t, w)
    /\ v.pc # "new"

(* Filling up a round.                                                     *)
LEMMA FilledOK ==
    ASSUME NEW s \in Seq(Sample), NEW n \in Nat, Len(s) =< n,
           \A k \in DOMAIN s : s[k].seq = k
    PROVE  /\ Filled(s, n) \in Seq(Sample) /\ Len(Filled(s, n)) = n
           /\ \A k \in DOMAIN Filled(s, n) : Filled(s, n)[k].seq = k
<1> DEFINE m == n - Len(s)
           r == [k \in 1..m |-> [seq |-> Len(s) + k, ok |-> FALSE]]
           f == s \o r
<1>1. Len(s) \in Nat /\ m \in Nat /\ n = Len(s) + m
  OBVIOUS
<1> HIDE DEF m
<1>2. r \in Seq(Sample) /\ Len(r) = m /\ \A k \in 1..m : r[k].seq = Len(s) + k
  BY <1>1 DEF Sample
<1> HIDE DEF r
<1>3. /\ f \in Seq(Sample) /\ Len(f) = Len(s) + m
      /\ \A k \in 1..Len(f) : f[k] = IF k =< Len(s) THEN s[k] ELSE r[k - Len(s)]
  BY <1>1, <1>2
<1>4. \A k \in 1..Len(f) : f[k].seq = k
  <2> SUFFICES ASSUME NEW k \in 1..Len(f) PROVE f[k].seq = k
    OBVIOUS
  <2>1. CASE k =< Len(s)
    <3>1. k \in DOMAIN s /\ f[k] = s[k]
      BY <1>1, <1>3, <2>1
    <3> QED
      BY <3>1
  <2>2. CASE ~(k =< Len(s))
    <3>1. k - Len(s) \in 1..m /\ f[k] = r[k - Len(s)] /\ Len(s) + (k - Len(s)) = k
      BY <1>1, <1>3, <2>2
    <3> QED
      BY <1>2, <3>1
  <2> QED
    BY <2>1, <2>2
<1>5. Filled(s, n) = f
  BY DEF Filled, f, r, m
<1> HIDE DEF f
<1>6. DOMAIN f = 1..Len(f)
  BY <1>3
<1> QED
  BY <1>1, <1>3, <1>4, <1>5, <1>6

(* A round that ends early.                                                *)
LEMMA FailKeeps ==
    ASSUME NEW t \in Target, NEW w, WorkerOK(t, w), w.pc \notin Trying,
           NEW v, v = [w EXCEPT !.pc = "done", !.looking = FALSE,
                                !.samples = Filled(@, t.count)]
    PROVE  Progress(t, w, v)
<1> DEFINE s == Filled(w.samples, t.count)
<1>1. /\ w \in Worker /\ w.samples \in Seq(Sample) /\ w.spent = 0 /\ w.via = << >>
      /\ w.url \in URL /\ \A k \in DOMAIN w.samples : w.samples[k].seq = k
      /\ Len(w.samples) =< t.count
  BY DEF WorkerOK, Worker, Asking, Trying
<1>2. /\ Rest(t, w) \in Nat /\ t.count \in Nat /\ ProbeAttemptBudget(t) \in Nat
  BY RestNat
<1>3. s \in Seq(Sample) /\ Len(s) = t.count /\ \A k \in DOMAIN s : s[k].seq = k
  BY <1>1, <1>2, FilledOK
<1> HIDE DEF s
<1>4. /\ v = [w EXCEPT !.pc = "done", !.looking = FALSE, !.samples = s]
  BY DEF s
<1>5. /\ v \in Worker /\ v.pc = "done" /\ v.looking = FALSE /\ v.samples = s
      /\ v.spent = 0 /\ v.via = << >>
  BY <1>1, <1>3, <1>4 DEF Worker
<1>6. Rest(t, v) = 0
  <2>1. t.count - t.count = 0 /\ 0 * ProbeAttemptBudget(t) - 0 = 0
    BY <1>2
  <2> QED
    BY <1>3, <1>5, <2>1 DEF Rest
<1>7. WorkerOK(t, v)
  BY <1>2, <1>3, <1>5 DEF WorkerOK, Trying, Asking
<1> QED
  BY <1>2, <1>5, <1>6, <1>7 DEF Progress

(* A goroutine between two attempts.                                       *)
LEMMA LoopingOK ==
    ASSUME NEW s \in Seq(Sample), NEW u \in URL, NEW v,
           v = [pc |-> "loop", looking |-> FALSE, samples |-> s, spent |-> 0,
                url |-> u, via |-> << >>]
    PROVE  /\ v \in Worker /\ v.pc = "loop" /\ v.looking = FALSE /\ v.samples = s
           /\ v.spent = 0 /\ v.url = u /\ v.via = << >>
<1>1. 0 \in Nat /\ << >> \in Seq(URL)
  OBVIOUS
<1>2. v \in Worker
  BY <1>1 DEF Worker
<1> QED
  BY <1>2

(* One more sample.                                                        *)
LEMMA RecordKeeps ==
    ASSUME NEW t \in Target, NEW w, WorkerOK(t, w), w.pc \in Trying, NEW b \in BOOLEAN,
           NEW v, v = [w EXCEPT
              !.pc = "loop", !.looking = FALSE, !.spent = 0, !.url = NoURL, !.via = << >>,
              !.samples = Append(@, [seq |-> Len(@) + 1, ok |-> b])]
    PROVE  Progress(t, w, v)
<1> DEFINE s == Append(w.samples, [seq |-> Len(w.samples) + 1, ok |-> b])
           a == ProbeAttemptBudget(t)
           n == t.count - Len(w.samples)
<1>1. /\ w \in Worker /\ w.samples \in Seq(Sample) /\ w.spent \in Nat
      /\ \A k \in DOMAIN w.samples : w.samples[k].seq = k
      /\ Len(w.samples) < t.count /\ w.spent =< a
      /\ (t.type = "http" => ParseHTTPProbeURL(t.address))
  BY DEF WorkerOK, Worker, Trying
<1>2. /\ Len(w.samples) \in Nat /\ t.count \in Nat /\ a \in Nat
  BY RestNat
<1>3. /\ s \in Seq(Sample) /\ Len(s) = Len(w.samples) + 1
      /\ \A k \in DOMAIN s : s[k].seq = k
  <2>1. [seq |-> Len(w.samples) + 1, ok |-> b] \in Sample
    BY <1>2 DEF Sample
  <2>2. s \in Seq(Sample) /\ Len(s) = Len(w.samples) + 1
    BY <1>1, <2>1
  <2>3. \A k \in DOMAIN s : s[k].seq = k
    BY <1>1, <1>2
  <2> QED
    BY <2>2, <2>3
<1> HIDE DEF s
<1>4. v = [w EXCEPT !.pc = "loop", !.looking = FALSE, !.spent = 0, !.url = NoURL,
                    !.via = << >>, !.samples = s]
  BY DEF s
<1>5. NoURL \in URL
  BY DEF NoURL, URL, Hosts, Literals
<1>6. /\ v \in Worker /\ v.pc = "loop" /\ v.looking = FALSE /\ v.samples = s
      /\ v.spent = 0 /\ v.url = NoURL /\ v.via = << >>
  <2>1. v = [pc |-> "loop", looking |-> FALSE, samples |-> s, spent |-> 0,
             url |-> NoURL, via |-> << >>]
    BY <1>1, <1>4 DEF Worker
  <2> QED
    BY <1>3, <1>5, <2>1, LoopingOK
<1>7. Rest(t, v) =< Rest(t, w)
  <2> HIDE DEF a
  <2>1. n \in Nat \ {0} /\ t.count - Len(s) = n - 1
    BY <1>1, <1>2, <1>3
  <2> HIDE DEF n
  <2>2. (n - 1) * a = n * a - a /\ n * a \in Int
    BY <1>2, <2>1, Distributes
  <2> DEFINE p == n * a
             q == (n - 1) * a
  <2>3. p \in Int /\ q = p - a
    BY <2>2
  <2> HIDE DEF p, q
  <2>4. q - 0 =< p - w.spent
    BY <1>1, <1>2, <2>3 DEF a
  <2>5. Rest(t, v) = q - 0
    BY <1>6, <2>1 DEF Rest, q, a
  <2>6. Rest(t, w) = p - w.spent
    BY DEF Rest, p, a, n
  <2> QED
    BY <2>4, <2>5, <2>6
<1>8. WorkerOK(t, v)
  <2>1. Len(s) =< t.count
    BY <1>1, <1>2, <1>3
  <2> QED
    BY <1>1, <1>2, <1>3, <1>6, <2>1 DEF WorkerOK, Trying, Asking
<1> QED
  BY <1>6, <1>7, <1>8 DEF Progress

(* A step within an attempt, or between two of them.                       *)
LEMMA MoveKeeps ==
    ASSUME NEW t \in Target, NEW w, WorkerOK(t, w), NEW v \in Worker,
           v.samples = w.samples, v.spent = w.spent, v.pc \notin {"new", "done"},
           v.pc \in Trying => Len(w.samples) < t.count,
           v.pc \notin Trying => w.spent = 0,
           v.looking => v.pc \in {"dial", "check"} /\ v.url.host \notin Literals,
           v.pc \in Asking => ChainOK(v.via, v.url), v.pc \notin Asking => v.via = << >>,
           t.type = "http" => ParseHTTPProbeURL(t.address)
    PROVE  Progress(t, w, v)
<1>1. WorkerOK(t, v)
  BY DEF WorkerOK
<1>2. Rest(t, v) = Rest(t, w) /\ Rest(t, w) \in Nat
  BY RestNat DEF Rest
<1> QED
  BY <1>1, <1>2 DEF Progress

-----------------------------------------------------------------------------
(* The steps of the goroutines.                                            *)

(* What every step of goroutine i does.                                    *)
Advances(i) ==
    /\ \E v : Set(i, v) /\ Progress(batch[i], worker[i], v)
    /\ worker[i].pc # "done"
    /\ worker[i].pc = "new" => Cardinality(Active) < Slots
    /\ UNCHANGED <<batch, ctx, left, resolving>>

(* The fields of a goroutine.                                              *)
LEMMA WorkerFacts ==
    ASSUME TargetsInv, WorkersInv, NEW i \in Workers
    PROVE  /\ i \in DOMAIN batch /\ batch[i] \in Target /\ WorkerOK(batch[i], worker[i])
           /\ worker[i] \in Worker /\ worker[i].url \in URL /\ worker[i].via \in Seq(URL)
           /\ worker[i].spent \in Nat /\ worker[i].looking \in BOOLEAN
           /\ (batch[i].type = "http" => batch[i].address \in URL)
<1>1. i \in DOMAIN batch /\ WorkerOK(batch[i], worker[i])
  BY DEF WorkersInv, Workers
<1>2. batch[i] \in Target
  BY <1>1 DEF TargetsInv
<1>3. batch[i].type = "http" => batch[i].address \in URL
  BY <1>2 DEF Target
<1>4. worker[i] \in Worker
  BY <1>1 DEF WorkerOK
<1>5. /\ worker[i].url \in URL /\ worker[i].via \in Seq(URL)
      /\ worker[i].spent \in Nat /\ worker[i].looking \in BOOLEAN
  BY <1>4 DEF Worker
<1> QED
  BY <1>1, <1>2, <1>3, <1>4, <1>5

(* The round fails.                                                        *)
LEMMA FailAllKeeps ==
    ASSUME TargetsInv, WorkersInv, NEW i \in Workers, worker[i].pc \notin Trying, FailAll(i)
    PROVE  \E v : Set(i, v) /\ Progress(batch[i], worker[i], v)
<1> DEFINE w == worker[i]
           t == batch[i]
           v == [w EXCEPT !.pc = "done", !.looking = FALSE, !.samples = Filled(@, t.count)]
<1>1. Set(i, v)
  BY DEF FailAll
<1>2. t \in Target /\ WorkerOK(t, w)
  BY WorkerFacts
<1>3. Progress(t, w, v)
  BY <1>2, FailKeeps
<1> QED
  BY <1>1, <1>3

(* The attempt ends.                                                       *)
LEMMA RecordedKeeps ==
    ASSUME TargetsInv, WorkersInv, NEW i \in Workers, worker[i].pc \in Trying,
           NEW b \in BOOLEAN, Record(i, b)
    PROVE  \E v : Set(i, v) /\ Progress(batch[i], worker[i], v)
<1> DEFINE w == worker[i]
           t == batch[i]
           v == [w EXCEPT
              !.pc = "loop", !.looking = FALSE, !.spent = 0, !.url = NoURL, !.via = << >>,
              !.samples = Append(@, [seq |-> Len(@) + 1, ok |-> b])]
<1>1. Set(i, v)
  BY DEF Record
<1>2. t \in Target /\ WorkerOK(t, w)
  BY WorkerFacts
<1>3. Progress(t, w, v)
  BY <1>2, RecordKeeps
<1> QED
  BY <1>1, <1>3

(* Acquire.                                                                *)
LEMMA AcquireAdvances ==
    ASSUME TargetsInv, WorkersInv, NEW i \in Workers, Acquire(i)
    PROVE  Advances(i)
<1> DEFINE w == worker[i]
           t == batch[i]
           v == [w EXCEPT !.pc = IF t.type = "http" THEN "loop" ELSE "resolve"]
<1>1. w.pc = "new" /\ Cardinality(Active) < Slots /\ UNCHANGED <<batch, ctx, left, resolving>>
  BY DEF Acquire
<1>2. t \in Target /\ WorkerOK(t, w) /\ w \in Worker
  BY WorkerFacts
<1>3. \E x : Set(i, x) /\ Progress(t, w, x)
  <2>1. CASE FailAll(i)
    <3>1. w.pc \notin Trying
      BY <1>1 DEF Trying
    <3> QED
      BY <2>1, <3>1, FailAllKeeps
  <2>2. CASE Set(i, v) /\ ValidAddress(t)
    <3>1. /\ v \in Worker /\ v.samples = w.samples /\ v.spent = w.spent
          /\ v.looking = w.looking /\ v.via = w.via /\ v.pc \in {"loop", "resolve"}
      BY <1>2 DEF Worker
    <3>2. /\ w.spent = 0 /\ ~w.looking /\ w.via = << >>
          /\ (t.type = "http" => ParseHTTPProbeURL(t.address))
      BY <1>1, <1>2, <2>2 DEF WorkerOK, Trying, Asking, ValidAddress
    <3> HIDE DEF v
    <3>3. Progress(t, w, v)
      <4>1. v.pc \notin Trying /\ v.pc \notin {"new", "done"} /\ v.pc \notin Asking /\ ~v.looking
        BY <3>1, <3>2 DEF Trying, Asking
      <4> HIDE DEF w, t
      <4> QED
        BY <1>2, <3>1, <3>2, <4>1, MoveKeeps
    <3> QED
      BY <2>2, <3>3
  <2> QED
    BY <2>1, <2>2 DEF Acquire
<1> QED
  BY <1>1, <1>3 DEF Advances

(* Resolve.                                                                *)
LEMMA ResolveAdvances ==
    ASSUME TargetsInv, WorkersInv, NEW i \in Workers, Resolve(i)
    PROVE  Advances(i)
<1> DEFINE w == worker[i]
           t == batch[i]
           v == [w EXCEPT !.pc = "loop"]
<1>1. w.pc = "resolve" /\ UNCHANGED <<batch, ctx, left, resolving>>
  BY DEF Resolve
<1>2. t \in Target /\ WorkerOK(t, w) /\ w \in Worker
  BY WorkerFacts
<1>3. \E x : Set(i, x) /\ Progress(t, w, x)
  <2>1. CASE FailAll(i)
    <3>1. w.pc \notin Trying
      BY <1>1 DEF Trying
    <3> QED
      BY <2>1, <3>1, FailAllKeeps
  <2>2. CASE Set(i, v)
    <3>1. /\ v \in Worker /\ v.samples = w.samples /\ v.spent = w.spent
          /\ v.looking = w.looking /\ v.via = w.via /\ v.pc = "loop"
      BY <1>2 DEF Worker
    <3>2. /\ w.spent = 0 /\ ~w.looking /\ w.via = << >>
          /\ (t.type = "http" => ParseHTTPProbeURL(t.address))
      BY <1>1, <1>2 DEF WorkerOK, Trying, Asking
    <3> HIDE DEF v
    <3>3. Progress(t, w, v)
      <4>1. v.pc \notin Trying /\ v.pc \notin {"new", "done"} /\ v.pc \notin Asking /\ ~v.looking
        BY <3>1, <3>2 DEF Trying, Asking
      <4> HIDE DEF w, t
      <4> QED
        BY <1>2, <3>1, <3>2, <4>1, MoveKeeps
    <3> QED
      BY <2>2, <3>3
  <2> QED
    BY <2>1, <2>2 DEF Resolve
<1> QED
  BY <1>1, <1>3 DEF Advances

(* NextSample.                                                             *)
LEMMA NextSampleAdvances ==
    ASSUME TargetsInv, WorkersInv, NEW i \in Workers, NextSample(i)
    PROVE  Advances(i)
<1> DEFINE w == worker[i]
           t == batch[i]
           http == [w EXCEPT !.pc = "dial", !.url = t.address]
           other == [w EXCEPT !.pc = "attempt"]
<1>1. w.pc = "loop" /\ UNCHANGED <<batch, ctx, left, resolving>>
  BY DEF NextSample
<1>2. /\ t \in Target /\ WorkerOK(t, w) /\ w \in Worker
      /\ (t.type = "http" => t.address \in URL)
  BY WorkerFacts
<1>3. ~w.looking /\ w.via = << >> /\ (t.type = "http" => ParseHTTPProbeURL(t.address))
  BY <1>1, <1>2 DEF WorkerOK, Asking
<1>4. \E x : Set(i, x) /\ Progress(t, w, x)
  <2>1. CASE FailAll(i)
    <3>1. w.pc \notin Trying
      BY <1>1 DEF Trying
    <3> QED
      BY <2>1, <3>1, FailAllKeeps
  <2>2. CASE Len(w.samples) < t.count /\ t.type = "http" /\ Set(i, http)
    <3>1. /\ http \in Worker /\ http.samples = w.samples /\ http.spent = w.spent
          /\ http.looking = w.looking /\ http.pc = "dial"
          /\ http.via = w.via /\ http.url = t.address
      BY <1>2, <2>2 DEF Worker
    <3> HIDE DEF http
    <3>2. Progress(t, w, http)
      <4>1. http.pc \in Trying /\ http.pc \notin {"new", "done"} /\ http.pc \in Asking
        BY <3>1 DEF Trying, Asking
      <4>2. Len(w.samples) < t.count /\ ~http.looking
        BY <1>3, <2>2, <3>1
      <4>3. ChainOK(<< >>, t.address)
        BY <1>3, <2>2, RunAssumption DEF ChainOK
      <4> HIDE DEF w, t
      <4> QED
        BY <1>2, <1>3, <3>1, <4>1, <4>2, <4>3, MoveKeeps
    <3> QED
      BY <2>2, <3>2
  <2>3. CASE Len(w.samples) < t.count /\ Set(i, other)
    <3>1. /\ other \in Worker /\ other.samples = w.samples /\ other.spent = w.spent
          /\ other.looking = w.looking /\ other.via = w.via /\ other.pc = "attempt"
      BY <1>2 DEF Worker
    <3> HIDE DEF other
    <3>2. Progress(t, w, other)
      <4>1. other.pc \in Trying /\ other.pc \notin {"new", "done"} /\ other.pc \notin Asking
        BY <3>1 DEF Trying, Asking
      <4>2. Len(w.samples) < t.count /\ ~other.looking
        BY <1>3, <2>3, <3>1
      <4> HIDE DEF w, t
      <4> QED
        BY <1>2, <1>3, <3>1, <4>1, <4>2, MoveKeeps
    <3> QED
      BY <2>3, <3>2
  <2> QED
    BY <2>1, <2>2, <2>3 DEF NextSample
<1> QED
  BY <1>1, <1>4 DEF Advances

(* EndAttempt.                                                             *)
LEMMA EndAttemptAdvances ==
    ASSUME TargetsInv, WorkersInv, NEW i \in Workers, EndAttempt(i)
    PROVE  Advances(i)
<1>1. worker[i].pc = "attempt" /\ UNCHANGED <<batch, ctx, left, resolving>>
  BY DEF EndAttempt
<1>2. worker[i].pc \in Trying
  BY <1>1 DEF Trying
<1>3. \E b \in BOOLEAN : Record(i, b)
  <2>1. \A l : Measured(i, l) \in BOOLEAN
    BY DEF Measured
  <2> QED
    <3>1. CASE \E l : Record(i, Measured(i, l))
      BY <2>1, <3>1, Zenon
    <3>2. CASE Record(i, FALSE)
      BY <3>2, Zenon
    <3>3. (\E l : Record(i, Measured(i, l))) \/ Record(i, FALSE)
      BY Zenon DEF EndAttempt
    <3> QED
      BY <3>1, <3>2, <3>3
<1>4. \E v : Set(i, v) /\ Progress(batch[i], worker[i], v)
  BY <1>2, <1>3, RecordedKeeps
<1> QED
  BY <1>1, <1>4 DEF Advances

(* AbortAttempt.                                                           *)
LEMMA AbortAttemptAdvances ==
    ASSUME TargetsInv, WorkersInv, NEW i \in Workers, AbortAttempt(i)
    PROVE  Advances(i)
<1>1. worker[i].pc \in Trying /\ UNCHANGED <<batch, ctx, left, resolving>> /\ Record(i, FALSE)
  BY DEF AbortAttempt, Trying
<1>2. FALSE \in BOOLEAN
  OBVIOUS
<1>3. \E v : Set(i, v) /\ Progress(batch[i], worker[i], v)
  BY <1>1, <1>2, RecordedKeeps
<1>4. worker[i].pc # "done" /\ worker[i].pc # "new"
  BY <1>1 DEF Trying
<1> QED
  BY <1>1, <1>3, <1>4 DEF Advances

(* The host is resolved.                                                   *)
LEMMA ResolvedKeeps ==
    ASSUME TargetsInv, WorkersInv, NEW i \in Workers, NEW answer,
           worker[i].pc \in {"dial", "check"}, Resolved(i, answer)
    PROVE  \E v : Set(i, v) /\ Progress(batch[i], worker[i], v)
<1> DEFINE w == worker[i]
           t == batch[i]
           checked == [w EXCEPT !.pc = "dial", !.looking = FALSE]
           connected == [w EXCEPT !.pc = "request", !.looking = FALSE]
<1>1. t \in Target /\ WorkerOK(t, w) /\ w \in Worker
  BY WorkerFacts
<1>2. /\ Len(w.samples) < t.count /\ ChainOK(w.via, w.url)
      /\ (t.type = "http" => ParseHTTPProbeURL(t.address))
  BY <1>1 DEF WorkerOK, Trying, Asking
<1>3. ASSUME NEW v \in {checked, connected}
      PROVE  Progress(t, w, v)
  <2>1. /\ v \in Worker /\ v.samples = w.samples /\ v.spent = w.spent
        /\ v.looking = FALSE /\ v.via = w.via /\ v.url = w.url
        /\ v.pc \in {"dial", "request"}
    BY <1>1, <1>3 DEF Worker
  <2>2. v.pc \in Trying /\ v.pc \notin {"new", "done"} /\ v.pc \in Asking /\ ~v.looking
    BY <2>1 DEF Trying, Asking
  <2> HIDE DEF w, t
  <2> QED
    BY <1>1, <1>2, <2>1, <2>2, MoveKeeps
<1>4. Set(i, checked) \/ Set(i, connected)
  BY DEF Resolved
<1> QED
  BY <1>3, <1>4

(* ResolveHTTP.                                                            *)
LEMMA ResolveHTTPAdvances ==
    ASSUME TargetsInv, WorkersInv, NEW i \in Workers, ResolveHTTP(i)
    PROVE  Advances(i)
<1> DEFINE w == worker[i]
           t == batch[i]
           v == [w EXCEPT !.looking = TRUE]
<1>1. w.pc \in {"dial", "check"} /\ UNCHANGED <<batch, ctx, left, resolving>>
  BY DEF ResolveHTTP
<1>2. t \in Target /\ WorkerOK(t, w) /\ w \in Worker
  BY WorkerFacts
<1>3. \E x : Set(i, x) /\ Progress(t, w, x)
  <2>1. CASE \E answer : Resolved(i, answer)
    BY <1>1, <2>1, ResolvedKeeps
  <2>2. CASE w.url.host \notin Literals /\ Set(i, v)
    <3>1. /\ v \in Worker /\ v.samples = w.samples /\ v.spent = w.spent
          /\ v.pc = w.pc /\ v.url = w.url /\ v.via = w.via
      BY <1>2 DEF Worker
    <3>2. /\ Len(w.samples) < t.count /\ w.pc \in Trying /\ w.pc \in Asking
          /\ ChainOK(w.via, w.url) /\ (t.type = "http" => ParseHTTPProbeURL(t.address))
      BY <1>1, <1>2 DEF WorkerOK, Trying, Asking
    <3> HIDE DEF v
    <3>3. Progress(t, w, v)
      <4>1. v.pc \in {"dial", "check"} /\ v.pc \notin {"new", "done"}
        BY <1>1, <3>1
      <4> HIDE DEF w, t
      <4> QED
        BY <1>2, <2>2, <3>1, <3>2, <4>1, MoveKeeps
    <3> QED
      BY <2>2, <3>3
  <2>3. CASE Record(i, FALSE)
    <3>1. FALSE \in BOOLEAN /\ w.pc \in Trying
      BY <1>1 DEF Trying
    <3> QED
      BY <2>3, <3>1, RecordedKeeps
  <2> QED
    BY <2>1, <2>2, <2>3 DEF ResolveHTTP
<1>4. w.pc # "done" /\ w.pc # "new"
  BY <1>1
<1> QED
  BY <1>1, <1>3, <1>4 DEF Advances

(* LookupReturns.                                                          *)
LEMMA LookupReturnsAdvances ==
    ASSUME TargetsInv, WorkersInv, NEW i \in Workers, LookupReturns(i)
    PROVE  Advances(i)
<1>1. worker[i].looking /\ UNCHANGED <<batch, ctx, left, resolving>>
  BY DEF LookupReturns
<1>2. worker[i].pc \in {"dial", "check"}
  BY <1>1, WorkerFacts DEF WorkerOK
<1>3. worker[i].pc \in Trying /\ worker[i].pc # "done" /\ worker[i].pc # "new"
  BY <1>2 DEF Trying
<1>4. (\E answer : Resolved(i, answer)) \/ Record(i, FALSE)
  BY DEF LookupReturns
<1>5. \E v : Set(i, v) /\ Progress(batch[i], worker[i], v)
  <2>1. CASE \E answer : Resolved(i, answer)
    BY <1>2, <2>1, ResolvedKeeps
  <2>2. CASE Record(i, FALSE)
    <3>1. FALSE \in BOOLEAN
      OBVIOUS
    <3> QED
      BY <1>3, <2>2, <3>1, RecordedKeeps
  <2> QED
    BY <1>4, <2>1, <2>2
<1> QED
  BY <1>1, <1>3, <1>5 DEF Advances

(* The fields of a client that checks a redirect.                          *)
LEMMA RedirectOK ==
    ASSUME NEW w \in Worker, NEW to \in URL
    PROVE  LET x == [w EXCEPT !.pc = "check", !.url = to, !.via = Append(@, w.url)]
           IN  /\ x \in Worker /\ x.samples = w.samples /\ x.spent = w.spent
               /\ x.pc = "check" /\ x.url = to /\ x.via = Append(w.via, w.url)
               /\ x.looking = w.looking
<1> DEFINE h == Append(w.via, w.url)
           x == [w EXCEPT !.pc = "check", !.url = to, !.via = h]
<1>1. h \in Seq(URL)
  BY DEF Worker
<1> HIDE DEF h
<1>2. /\ x \in Worker /\ x.samples = w.samples /\ x.spent = w.spent
      /\ x.pc = "check" /\ x.url = to /\ x.via = h /\ x.looking = w.looking
  BY <1>1 DEF Worker
<1> QED
  BY <1>2, Zenon DEF h

(* One more hop: what CheckRedirect compares with, the last request, is    *)
(* HTTPS as soon as any request before it was.                             *)
LEMMA ChainGrows ==
    ASSUME NEW via \in Seq(URL), NEW url \in URL, NEW to \in URL,
           ChainOK(via, url), CheckRedirect(Append(via, url), to)
    PROVE  ChainOK(Append(via, url), to)
<1> DEFINE chain == Append(via, url)
<1>1. /\ Len(via) \in Nat /\ Len(chain) = Len(via) + 1
      /\ DOMAIN chain = 1..(Len(via) + 1) /\ DOMAIN via = 1..Len(via)
      /\ chain[Len(via) + 1] = url
      /\ \A k \in 1..Len(via) : chain[k] = via[k]
  OBVIOUS
<1>2. /\ Len(chain) < MaxRedirects /\ ParseHTTPProbeURL(to)
      /\ chain[Len(chain)].scheme = "https" => to.scheme = "https"
  BY DEF CheckRedirect
<1> HIDE DEF chain
<1>3. /\ ParseHTTPProbeURL(url)
      /\ \A k \in 1..Len(via) : /\ ParseHTTPProbeURL(via[k])
                                /\ via[k].scheme = "https" => url.scheme = "https"
      /\ \A j, k \in 1..Len(via) : j < k /\ via[j].scheme = "https" => via[k].scheme = "https"
  BY <1>1 DEF ChainOK
<1>4. url.scheme = "https" => to.scheme = "https"
  BY <1>1, <1>2
<1>5. ASSUME NEW k \in DOMAIN chain
      PROVE  ParseHTTPProbeURL(chain[k]) /\ (chain[k].scheme = "https" => to.scheme = "https")
  <2>1. k \in 1..Len(via) \/ k = Len(via) + 1
    BY <1>1
  <2> QED
    BY <1>1, <1>3, <1>4, <2>1
<1>6. ASSUME NEW j \in DOMAIN chain, NEW k \in DOMAIN chain, j < k, chain[j].scheme = "https"
      PROVE  chain[k].scheme = "https"
  <2>1. j \in 1..Len(via) /\ (k \in 1..Len(via) \/ k = Len(via) + 1)
    BY <1>1, <1>6
  <2> QED
    BY <1>1, <1>3, <1>6, <2>1
<1> QED
  BY <1>2, <1>5, <1>6 DEF ChainOK, chain

(* Response: a redirect is followed as one more hop of the chain.          *)
LEMMA ResponseAdvances ==
    ASSUME TargetsInv, WorkersInv, NEW i \in Workers, Response(i)
    PROVE  Advances(i)
<1> DEFINE w == worker[i]
           t == batch[i]
           chain == Append(w.via, w.url)
           v(to) == [w EXCEPT !.pc = "check", !.url = to, !.via = Append(@, w.url)]
<1>1. w.pc = "request" /\ UNCHANGED <<batch, ctx, left, resolving>>
  BY DEF Response
<1>2. t \in Target /\ WorkerOK(t, w) /\ w \in Worker /\ w.via \in Seq(URL) /\ w.url \in URL
  BY WorkerFacts
<1>3. /\ Len(w.samples) < t.count /\ w.pc \in Trying /\ ~w.looking
      /\ ChainOK(w.via, w.url) /\ (t.type = "http" => ParseHTTPProbeURL(t.address))
  BY <1>1, <1>2 DEF WorkerOK, Trying, Asking
<1>4. \/ \E b \in BOOLEAN : Record(i, b)
      \/ \E to \in URLs : CheckRedirect(chain, to) /\ Set(i, v(to))
  <2>1. Measured(i, w.spent) \in BOOLEAN
    BY DEF Measured
  <2> QED
    BY <2>1 DEF Response
<1>5. \E x : Set(i, x) /\ Progress(t, w, x)
  <2>1. CASE \E b \in BOOLEAN : Record(i, b)
    BY <1>3, <2>1, RecordedKeeps
  <2>2. CASE \E to \in URLs : CheckRedirect(chain, to) /\ Set(i, v(to))
    <3>1. PICK to \in URLs : CheckRedirect(chain, to) /\ Set(i, v(to))
      BY <2>2
    <3>2. to \in URL
      BY <3>1, RunAssumption
    <3>3. ChainOK(chain, to)
      BY <1>2, <1>3, <3>1, <3>2, ChainGrows
    <3> DEFINE x == v(to)
    <3>4. /\ x \in Worker /\ x.samples = w.samples /\ x.spent = w.spent
          /\ x.pc = "check" /\ x.url = to /\ x.via = chain /\ x.looking = w.looking
      BY <1>2, <3>2, RedirectOK
    <3>5. Set(i, x)
      BY <3>1
    <3> HIDE DEF x, chain
    <3>6. Progress(t, w, x)
      <4>1. x.pc \in Trying /\ x.pc \notin {"new", "done"} /\ x.pc \in Asking /\ ~x.looking
        BY <1>3, <3>4 DEF Trying, Asking
      <4>2. ChainOK(x.via, x.url)
        BY <3>3, <3>4
      <4> HIDE DEF w, t
      <4> QED
        BY <1>2, <1>3, <3>4, <4>1, <4>2, MoveKeeps
    <3> QED
      BY <3>5, <3>6
  <2> QED
    BY <1>4, <2>1, <2>2
<1>6. w.pc # "done" /\ w.pc # "new"
  BY <1>1
<1> QED
  BY <1>1, <1>5, <1>6 DEF Advances

(* Every step of a goroutine is of that kind.                              *)
LEMMA WorkerAdvances ==
    ASSUME TargetsInv, WorkersInv, NEW i \in Workers, WorkerStep(i)
    PROVE  Advances(i)
  BY AcquireAdvances, ResolveAdvances, NextSampleAdvances, EndAttemptAdvances,
     AbortAttemptAdvances, ResolveHTTPAdvances, LookupReturnsAdvances, ResponseAdvances
     DEF WorkerStep

-----------------------------------------------------------------------------
(* All goroutines together.                                                *)

(* The positions of a batch.                                               *)
LEMMA PositionsFinite ==
    ASSUME NEW b \in Seq(Target)
    PROVE  IsFiniteSet(DOMAIN b) /\ \A i \in DOMAIN b : b[i] \in Target
<1>1. Len(b) \in Nat /\ DOMAIN b = 1..Len(b) /\ \A i \in DOMAIN b : b[i] \in Target
  OBVIOUS
<1>2. 1 \in Int /\ Len(b) \in Int
  BY <1>1
<1>3. IsFiniteSet(1..Len(b))
  BY <1>2, FS_Interval, Zenon
<1> QED
  BY <1>1, <1>3, Zenon

(* What may still be needed never grows, and shrinks when some target      *)
(* needs less.                                                             *)
LEMMA RestsShrink ==
    ASSUME NEW b \in Seq(Target), NEW ws, NEW vs,
           \A i \in DOMAIN b : /\ WorkerOK(b[i], ws[i]) /\ WorkerOK(b[i], vs[i])
                               /\ Rest(b[i], vs[i]) =< Rest(b[i], ws[i])
    PROVE  /\ Rests(b, ws) \in Nat /\ Rests(b, vs) \in Nat
           /\ Rests(b, vs) =< Rests(b, ws)
           /\ \A a \in DOMAIN b : Rest(b[a], vs[a]) < Rest(b[a], ws[a]) =>
                Rests(b, vs) < Rests(b, ws)
<1> DEFINE D == DOMAIN b
           f == [i \in D |-> Rest(b[i], vs[i])]
           g == [i \in D |-> Rest(b[i], ws[i])]
<1>1. IsFiniteSet(D) /\ \A i \in D : b[i] \in Target
  BY PositionsFinite
<1>2. \A i \in D : Rest(b[i], vs[i]) \in Nat /\ Rest(b[i], ws[i]) \in Nat
  BY <1>1, RestNat
<1>3. \A i \in D : Rest(b[i], vs[i]) =< Rest(b[i], ws[i])
  OBVIOUS
<1>4. Rests(b, vs) = SumOf(f, D) /\ Rests(b, ws) = SumOf(g, D)
  BY Zenon DEF Rests
<1> HIDE DEF D
<1>5. /\ \A i \in D : f[i] = Rest(b[i], vs[i])
      /\ \A i \in D : g[i] = Rest(b[i], ws[i])
  BY Zenon
<1>6. \A i \in D : f[i] \in Nat /\ g[i] \in Nat /\ f[i] =< g[i]
  BY <1>2, <1>3, <1>5, Zenon
<1> HIDE DEF f, g
<1>7. SumOf(f, D) \in Nat /\ SumOf(g, D) \in Nat /\ SumOf(f, D) =< SumOf(g, D)
  BY <1>1, <1>6, SumNat, SumPointwise
<1>8. \A a \in D : f[a] < g[a] => SumOf(f, D) < SumOf(g, D)
  BY <1>1, <1>6, SumStrict
<1>9. \A a \in D : Rest(b[a], vs[a]) < Rest(b[a], ws[a]) => Rests(b, vs) < Rests(b, ws)
  BY <1>4, <1>5, <1>8, Zenon
<1> QED
  BY <1>4, <1>7, <1>9, Zenon DEF D

(* The targets at work are finitely many.                                  *)
LEMMA ActiveFinite ==
    ASSUME TargetsInv, WorkersInv
    PROVE  IsFiniteSet(Active) /\ Cardinality(Active) \in Nat
<1>1. IsFiniteSet(DOMAIN batch)
  BY PositionsFinite DEF TargetsInv
<1>2. Active \in SUBSET (DOMAIN batch)
  BY DEF WorkersInv, Active, Workers
<1>3. IsFiniteSet(Active)
  BY <1>1, <1>2, FS_Subset
<1> QED
  BY <1>3, FS_CardinalityType

(* A step of one goroutine keeps what holds of all of them.                *)
LEMMA AdvancesKeeps ==
    ASSUME TargetsInv, WorkersInv, RoomInv, NEW i \in Workers, Advances(i)
    PROVE  WorkersInv' /\ RoomInv'
<1> DEFINE D == DOMAIN batch
<1>1. PICK v : Set(i, v) /\ Progress(batch[i], worker[i], v)
  BY DEF Advances
<1>2. /\ worker[i].pc # "done" /\ (worker[i].pc = "new" => Cardinality(Active) < Slots)
      /\ batch' = batch /\ ctx' = ctx /\ left' = left /\ resolving' = resolving
  BY DEF Advances
<1>3. /\ DOMAIN worker = D /\ i \in D /\ \A j \in D : WorkerOK(batch[j], worker[j])
  BY DEF WorkersInv, Workers
<1>4. /\ DOMAIN worker' = D /\ worker'[i] = v
      /\ \A j \in D : j # i => worker'[j] = worker[j]
  BY <1>1, <1>3 DEF Set
<1>5. WorkerOK(batch[i], v) /\ Rest(batch[i], v) =< Rest(batch[i], worker[i]) /\ v.pc # "new"
  BY <1>1 DEF Progress
<1>6. batch \in Seq(Target) /\ \A j \in D : batch[j] \in Target
  BY PositionsFinite DEF TargetsInv
<1>7. \A j \in D : Rest(batch[j], worker[j]) \in Nat
  BY <1>3, <1>6, RestNat
<1>8. \A j \in D : WorkerOK(batch[j], worker'[j])
  BY <1>3, <1>4, <1>5
<1>9. \A j \in D : Rest(batch[j], worker'[j]) =< Rest(batch[j], worker[j])
  BY <1>4, <1>5, <1>7
<1>10. WorkersInv'
  <2>1. worker' = [worker EXCEPT ![i] = v] /\ worker \in [D -> Worker]
    BY <1>1 DEF Set, WorkersInv
  <2>2. v \in Worker
    BY <1>5 DEF WorkerOK
  <2>3. worker' \in [D -> Worker]
    BY <1>3, <2>1, <2>2
  <2> QED
    BY <1>2, <1>8, <2>3 DEF WorkersInv
<1>11. /\ Rests(batch, worker) \in Nat /\ Rests(batch, worker') \in Nat
       /\ Rests(batch, worker') =< Rests(batch, worker)
  BY <1>3, <1>6, <1>8, <1>9, RestsShrink
<1>12. Cardinality(Active') =< Slots
  <2>1. IsFiniteSet(Active) /\ Cardinality(Active) \in Nat /\ Cardinality(Active) =< Slots
        /\ Slots \in Nat
    BY ActiveFinite, RunAssumption DEF RoomInv
  <2>2. CASE worker[i].pc = "new"
    <3>1. Active' \subseteq Active \cup {i}
      BY <1>3, <1>4 DEF Active, Workers
    <3>2. /\ IsFiniteSet(Active \cup {i})
          /\ Cardinality(Active \cup {i}) =< Cardinality(Active) + 1
          /\ Cardinality(Active \cup {i}) \in Nat
      <4>1. /\ IsFiniteSet(Active \cup {i})
            /\ Cardinality(Active \cup {i}) =
                 IF i \in Active THEN Cardinality(Active) ELSE Cardinality(Active) + 1
        BY <2>1, FS_AddElement
      <4> QED
        BY <2>1, <4>1
    <3>3. Cardinality(Active') \in Nat /\ Cardinality(Active') =< Cardinality(Active \cup {i})
      BY <3>1, <3>2, FS_Subset, FS_CardinalityType
    <3>4. Cardinality(Active) < Slots
      BY <1>2, <2>2
    <3> HIDE DEF Active
    <3> QED
      BY <2>1, <3>2, <3>3, <3>4
  <2>3. CASE worker[i].pc # "new"
    <3>1. i \in Active
      BY <1>2, <1>3, <2>3 DEF Active, Workers
    <3>2. Active' \subseteq Active
      BY <1>3, <1>4, <3>1 DEF Active, Workers
    <3>3. Cardinality(Active') \in Nat /\ Cardinality(Active') =< Cardinality(Active)
      BY <2>1, <3>2, FS_Subset, FS_CardinalityType
    <3> QED
      BY <2>1, <3>3
  <2> QED
    BY <2>2, <2>3
<1>13. RoomInv'
  <2>1. RunGrace \in Nat
    BY BudgetAssumption
  <2>2. Rests(batch', worker') = Rests(batch, worker')
    BY <1>2
  <2>3. ctx = "live" /\ batch # << >> =>
          /\ left > 0
          /\ resolving >= RunGrace \/ left + resolving >= Rests(batch, worker') + RunGrace
    BY <1>11, <2>1 DEF RoomInv
  <2> QED
    BY <1>2, <1>12, <2>2, <2>3 DEF RoomInv
<1> QED
  BY <1>10, <1>13

-----------------------------------------------------------------------------
(* Lookups, pinned answers and connections.                                *)

(* What a cache may become: no pinned answer changes, a new one is safe.   *)
CacheGrows(new) ==
    /\ new \in [DOMAIN batch -> [Hosts \ Literals -> Answers]]
    /\ \A j \in DOMAIN batch, h \in Hosts \ Literals :
         /\ new[j][h] # {} => SafeAnswer(h, new[j][h])
         /\ cache[j][h] # {} => new[j][h] = cache[j][h]

(* Pinned is such a step.                                                  *)
LEMMA PinnedGrows ==
    ASSUME PinInv, NEW i \in DOMAIN batch, NEW host \in Hosts \ Literals,
           NEW answer \in Answers, Pinned(i, host, answer)
    PROVE  CacheGrows(cache') /\ cache'[i][host] # {}
<1> DEFINE H == Hosts \ Literals
           row == [cache[i] EXCEPT ![host] =
                     IF cache[i][host] = {} THEN answer ELSE cache[i][host]]
<1>1. /\ cache \in [DOMAIN batch -> [H -> Answers]]
      /\ \A j \in DOMAIN batch, h \in H : cache[j][h] # {} => SafeAnswer(h, cache[j][h])
  BY DEF PinInv
<1>2. SafeAnswer(host, answer) /\ answer # {}
  BY DEF Pinned, SafeAnswer
<1>3. cache' = [cache EXCEPT ![i] = row]
  BY DEF Pinned
<1>4. host \in H
  OBVIOUS
<1> HIDE DEF H
<1>5. /\ row \in [H -> Answers] /\ row[host] # {}
      /\ \A h \in H : h # host => row[h] = cache[i][h]
      /\ row[host] = IF cache[i][host] = {} THEN answer ELSE cache[i][host]
  BY <1>1, <1>2, <1>4
<1>6. \A h \in H : /\ row[h] # {} => SafeAnswer(h, row[h])
                   /\ cache[i][h] # {} => row[h] = cache[i][h]
  BY <1>1, <1>2, <1>4, <1>5
<1> HIDE DEF row
<1>7. cache' \in [DOMAIN batch -> [H -> Answers]] /\ cache'[i] = row
  BY <1>1, <1>3, <1>5
<1>8. \A j \in DOMAIN batch : j # i => cache'[j] = cache[j]
  BY <1>1, <1>3
<1>9. \A j \in DOMAIN batch, h \in H : /\ cache'[j][h] # {} => SafeAnswer(h, cache'[j][h])
                                       /\ cache[j][h] # {} => cache'[j][h] = cache[j][h]
  BY <1>1, <1>6, <1>7, <1>8
<1> QED
  BY <1>5, <1>7, <1>9 DEF CacheGrows, H

(* A cache that stays is one too.                                          *)
LEMMA CacheStays ==
    ASSUME PinInv, cache' = cache
    PROVE  CacheGrows(cache')
  BY DEF PinInv, CacheGrows

(* What may be dialled: a literal, or what is pinned in cache c.           *)
Dials(c, i, host, answer) ==
    /\ i \in DOMAIN batch /\ host \in Hosts
    /\ SafeAnswer(host, answer)
    /\ answer = IF host \in Literals THEN LiteralAnswer(host) ELSE c[i][host]

(* A larger cache keeps the connections in order.                          *)
LEMMA PinKeeps ==
    ASSUME PinInv, batch' = batch, CacheGrows(cache'),
           lingering' \subseteq (DOMAIN batch) \X (Hosts \ Literals),
           dialled' = dialled \/
             \E i, host, answer : /\ Dials(cache', i, host, answer)
                                  /\ dialled' = dialled \cup {<<i, host, answer>>}
    PROVE  PinInv'
<1> DEFINE H == Hosts \ Literals
           A == SUBSET (Public \cup Loopback)
           Fine(d) == /\ SafeAnswer(d[2], d[3])
                      /\ d[3] = IF d[2] \in Literals THEN LiteralAnswer(d[2])
                                ELSE cache'[d[1]][d[2]]
<1>1. /\ dialled \subseteq (DOMAIN batch) \X Hosts \X A
      /\ \A d \in dialled :
           /\ SafeAnswer(d[2], d[3])
           /\ d[3] = IF d[2] \in Literals THEN LiteralAnswer(d[2]) ELSE cache[d[1]][d[2]]
  BY DEF PinInv
<1>2. /\ cache' \in [DOMAIN batch -> [H -> Answers]]
      /\ \A j \in DOMAIN batch, h \in H :
           /\ cache'[j][h] # {} => SafeAnswer(h, cache'[j][h])
           /\ cache[j][h] # {} => cache'[j][h] = cache[j][h]
  BY DEF CacheGrows
<1>3. \A d \in dialled : Fine(d)
  <2> SUFFICES ASSUME NEW d \in dialled PROVE Fine(d)
    OBVIOUS
  <2>1. d[1] \in DOMAIN batch /\ d[2] \in Hosts
    BY <1>1
  <2>2. CASE d[2] \in Literals
    BY <1>1, <2>2
  <2>3. CASE d[2] \notin Literals
    <3>1. d[2] \in H /\ d[3] = cache[d[1]][d[2]] /\ d[3] # {} /\ SafeAnswer(d[2], d[3])
      BY <1>1, <2>1, <2>3 DEF SafeAnswer
    <3>2. cache'[d[1]][d[2]] = cache[d[1]][d[2]]
      BY <1>2, <2>1, <3>1
    <3> QED
      BY <2>3, <3>1, <3>2
  <2> QED
    BY <2>2, <2>3
<1>4. /\ dialled' \subseteq (DOMAIN batch) \X Hosts \X A
      /\ \A d \in dialled' : Fine(d)
  <2>1. CASE dialled' = dialled
    BY <1>1, <1>3, <2>1
  <2>2. CASE \E i, host, answer : /\ Dials(cache', i, host, answer)
                                  /\ dialled' = dialled \cup {<<i, host, answer>>}
    <3>1. PICK i, host, answer : /\ Dials(cache', i, host, answer)
                                 /\ dialled' = dialled \cup {<<i, host, answer>>}
      BY <2>2
    <3>2. /\ i \in DOMAIN batch /\ host \in Hosts
          /\ SafeAnswer(host, answer)
          /\ answer = IF host \in Literals THEN LiteralAnswer(host) ELSE cache'[i][host]
      BY <3>1 DEF Dials
    <3>3. answer \in A
      BY <3>2 DEF SafeAnswer
    <3>4. Fine(<<i, host, answer>>)
      BY <3>2
    <3>5. <<i, host, answer>> \in (DOMAIN batch) \X Hosts \X A
      BY <3>2, <3>3
    <3> HIDE DEF Fine, A
    <3> QED
      BY <1>1, <1>3, <3>1, <3>4, <3>5, Zenon
  <2> QED
    BY <2>1, <2>2
<1> QED
  BY <1>2, <1>4, Zenon DEF PinInv

(* The connection that Resolved makes.                                     *)
LEMMA ResolvedDials ==
    ASSUME NEW i, NEW answer, Resolved(i, answer),
           Dials(cache', i, worker[i].url.host, answer)
    PROVE  \/ dialled' = dialled
           \/ \E j, h, a : Dials(cache', j, h, a) /\ dialled' = dialled \cup {<<j, h, a>>}
  BY DEF Resolved

(* Steps that look nothing up.                                             *)
LEMMA PinSame ==
    ASSUME PinInv, UNCHANGED <<batch, cache, lingering, dialled>>
    PROVE  PinInv'
  BY DEF PinInv

(* The steps of a goroutine.                                               *)
LEMMA WorkerPins ==
    ASSUME TargetsInv, WorkersInv, PinInv, NEW i \in Workers, WorkerStep(i)
    PROVE  PinInv'
<1> DEFINE host == worker[i].url.host
<1>1. /\ i \in DOMAIN batch /\ host \in Hosts
      /\ (worker[i].looking => host \in Hosts \ Literals)
  BY WorkerFacts DEF URL, WorkerOK
<1>2. lingering \subseteq (DOMAIN batch) \X (Hosts \ Literals)
  BY DEF PinInv
<1>3. CASE Acquire(i) \/ Resolve(i) \/ NextSample(i) \/ EndAttempt(i) \/ Response(i)
  BY <1>3, PinSame DEF Acquire, Resolve, NextSample, EndAttempt, Response
<1>4. CASE AbortAttempt(i)
  <2>1. /\ batch' = batch /\ cache' = cache /\ dialled' = dialled
        /\ (lingering' = lingering \/
              (worker[i].looking /\ lingering' = lingering \cup {<<i, host>>}))
    BY <1>4 DEF AbortAttempt
  <2>2. lingering' \subseteq (DOMAIN batch) \X (Hosts \ Literals)
    BY <1>1, <1>2, <2>1
  <2> QED
    BY <2>1, <2>2, CacheStays, PinKeeps
<1>5. CASE ResolveHTTP(i)
  <2>1. batch' = batch /\ cache' = cache /\ lingering' = lingering
    BY <1>5 DEF ResolveHTTP
  <2>2. \/ dialled' = dialled
        \/ \E j, h, a : Dials(cache', j, h, a) /\ dialled' = dialled \cup {<<j, h, a>>}
    <3>1. CASE /\ host \in Literals /\ SafeAnswer(host, LiteralAnswer(host))
               /\ Resolved(i, LiteralAnswer(host))
      <4>1. Dials(cache', i, host, LiteralAnswer(host))
        BY <1>1, <3>1 DEF Dials
      <4> QED
        BY <3>1, <4>1, ResolvedDials
    <3>2. CASE /\ host \notin Literals /\ cache[i][host] # {}
               /\ Resolved(i, cache[i][host])
      <4>1. Dials(cache', i, host, cache[i][host])
        BY <1>1, <2>1, <3>2 DEF Dials, PinInv
      <4> QED
        BY <3>2, <4>1, ResolvedDials
    <3>3. CASE dialled' = dialled
      BY <3>3
    <3> QED
      BY <1>5, <3>1, <3>2, <3>3 DEF ResolveHTTP
  <2> QED
    BY <1>2, <2>1, <2>2, CacheStays, PinKeeps
<1>6. CASE LookupReturns(i)
  <2>1. /\ batch' = batch /\ lingering' = lingering /\ worker[i].looking
        /\ host \in Hosts \ Literals
    BY <1>1, <1>6 DEF LookupReturns
  <2>2. CASE cache' = cache /\ dialled' = dialled
    BY <2>1, <2>2, PinSame
  <2>3. CASE \E answer \in Answers : Pinned(i, host, answer) /\ Resolved(i, cache'[i][host])
    <3>1. PICK answer \in Answers : Pinned(i, host, answer) /\ Resolved(i, cache'[i][host])
      BY <2>3
    <3>2. CacheGrows(cache') /\ cache'[i][host] # {}
      BY <1>1, <2>1, <3>1, PinnedGrows
    <3>3. Dials(cache', i, host, cache'[i][host])
      BY <1>1, <2>1, <3>2 DEF Dials, CacheGrows
    <3>4. \/ dialled' = dialled
          \/ \E j, h, a : Dials(cache', j, h, a) /\ dialled' = dialled \cup {<<j, h, a>>}
      BY <3>1, <3>3, ResolvedDials
    <3> QED
      BY <1>2, <2>1, <3>2, <3>4, PinKeeps
  <2> QED
    BY <1>6, <2>2, <2>3 DEF LookupReturns
<1> QED
  BY <1>3, <1>4, <1>5, <1>6 DEF WorkerStep

(* A lookup that comes back late.                                          *)
LEMMA LatePins ==
    ASSUME PinInv, LateLookupReturns
    PROVE  PinInv'
<1>1. batch' = batch /\ dialled' = dialled
  BY DEF LateLookupReturns
<1>2. PICK late \in lingering :
        /\ lingering' = lingering \ {late}
        /\ \/ \E answer \in Answers : Pinned(late[1], late[2], answer)
           \/ UNCHANGED cache
  BY DEF LateLookupReturns
<1>3. late[1] \in DOMAIN batch /\ late[2] \in Hosts \ Literals
  BY DEF PinInv
<1>4. CacheGrows(cache')
  BY <1>2, <1>3, PinnedGrows, CacheStays
<1>5. lingering' \subseteq (DOMAIN batch) \X (Hosts \ Literals)
  BY <1>2 DEF PinInv
<1> QED
  BY <1>1, <1>4, <1>5, PinKeeps

-----------------------------------------------------------------------------
(* Time passes.                                                            *)

(* A tick of an attempt.                                                   *)
LEMMA AttemptTicks ==
    ASSUME NEW t \in Target, NEW w, WorkerOK(t, w), w.pc \in Trying,
           w.spent < ProbeAttemptBudget(t), NEW v, v = [w EXCEPT !.spent = @ + 1]
    PROVE  /\ WorkerOK(t, v) /\ Rest(t, v) = Rest(t, w) - 1
           /\ v.pc = w.pc /\ v.url = w.url
<1> DEFINE s == w.spent + 1
<1>1. w \in Worker /\ w.spent \in Nat /\ Rest(t, w) \in Nat /\ ProbeAttemptBudget(t) \in Nat
      /\ t.count \in Nat /\ Len(w.samples) \in Nat
  BY RestNat DEF WorkerOK
<1>2. s \in Nat /\ s =< ProbeAttemptBudget(t)
  BY <1>1
<1>3. v = [w EXCEPT !.spent = s]
  OBVIOUS
<1> HIDE DEF s
<1>4. /\ v \in Worker /\ v.samples = w.samples /\ v.spent = s /\ v.pc = w.pc
      /\ v.url = w.url /\ v.looking = w.looking /\ v.via = w.via
  BY <1>1, <1>2, <1>3 DEF Worker
<1>5. WorkerOK(t, v)
  BY <1>2, <1>4 DEF WorkerOK
<1>6. Rest(t, v) = Rest(t, w) - 1
  <2> DEFINE p == (t.count - Len(w.samples)) * ProbeAttemptBudget(t)
  <2>1. p \in Int
    BY <1>1
  <2>2. Rest(t, v) = p - s /\ Rest(t, w) = p - w.spent
    BY <1>4 DEF Rest
  <2> HIDE DEF p
  <2> QED
    BY <1>1, <2>1, <2>2 DEF s
<1> QED
  BY <1>4, <1>5, <1>6

(* RunTick: somebody's attempt, or the grace, pays for the tick.           *)
LEMMA TickKeeps ==
    ASSUME TargetsInv, WorkersInv, RoomInv, RunTick
    PROVE  /\ WorkersInv' /\ RoomInv'
           /\ \A i \in Workers : worker'[i].pc = worker[i].pc /\ worker'[i].url = worker[i].url
           /\ left > 0 /\ left' = left - 1
<1> DEFINE D == DOMAIN batch
<1>1. /\ ctx = "live" /\ ~AllDone /\ left' = left - 1 /\ batch' = batch
      /\ ctx' = IF left' = 0 THEN "expired" ELSE ctx
      /\ resolving' = IF resolving < RunGrace /\ \A i \in Active : worker[i].pc = "resolve"
                      THEN resolving + 1 ELSE resolving
      /\ \A i \in Workers : Waits(i)
  BY DEF RunTick
<1>2. worker' = [i \in Workers |-> IF worker[i].pc \in Trying
                                   THEN [worker[i] EXCEPT !.spent = @ + 1] ELSE worker[i]]
  BY DEF RunTick, Trying
<1>3. /\ Workers = D /\ \A j \in D : WorkerOK(batch[j], worker[j])
  BY DEF WorkersInv, Workers
<1>4. batch \in Seq(Target) /\ \A j \in D : batch[j] \in Target
  BY PositionsFinite DEF TargetsInv
<1>5. \A j \in D : Rest(batch[j], worker[j]) \in Nat
  BY <1>3, <1>4, RestNat
<1>6. ASSUME NEW j \in D, worker[j].pc \in Trying
      PROVE  /\ WorkerOK(batch[j], worker'[j])
             /\ Rest(batch[j], worker'[j]) = Rest(batch[j], worker[j]) - 1
             /\ worker'[j].pc = worker[j].pc /\ worker'[j].url = worker[j].url
  <2>1. Waits(j)
    BY <1>1, <1>3, <1>6
  <2>2. worker[j].spent < ProbeAttemptBudget(batch[j])
    BY <1>6, <2>1 DEF Waits, Trying
  <2>3. worker'[j] = [worker[j] EXCEPT !.spent = @ + 1]
    BY <1>2, <1>3, <1>6
  <2> QED
    BY <1>3, <1>4, <1>6, <2>2, <2>3, AttemptTicks
<1>7. ASSUME NEW j \in D, worker[j].pc \notin Trying
      PROVE  worker'[j] = worker[j]
  BY <1>2, <1>3, <1>7
<1>8. \A j \in D : /\ WorkerOK(batch[j], worker'[j])
                   /\ Rest(batch[j], worker'[j]) =< Rest(batch[j], worker[j])
                   /\ worker'[j].pc = worker[j].pc /\ worker'[j].url = worker[j].url
  BY <1>3, <1>5, <1>6, <1>7
<1>9. DOMAIN worker' = D
  BY <1>2, <1>3
<1>10. WorkersInv'
  <2>1. \A j \in D : worker'[j] \in Worker
    BY <1>8 DEF WorkerOK
  <2>2. worker' \in [D -> Worker]
    BY <1>2, <1>3, <2>1
  <2> QED
    BY <1>1, <1>8, <2>2 DEF WorkersInv
<1>11. /\ Rests(batch, worker) \in Nat /\ Rests(batch, worker') \in Nat
       /\ Rests(batch, worker') =< Rests(batch, worker)
       /\ \A a \in D : Rest(batch[a], worker'[a]) < Rest(batch[a], worker[a]) =>
            Rests(batch, worker') < Rests(batch, worker)
  BY <1>3, <1>4, <1>8, RestsShrink
<1>12. Active' = Active
  BY <1>3, <1>8, <1>9 DEF Active, Workers
<1>13. batch # << >>
  <2>1. PICK i \in Workers : worker[i].pc # "done"
    BY <1>1 DEF AllDone
  <2>2. i \in DOMAIN batch
    BY <1>3, <2>1
  <2> QED
    BY <2>2
<1>14. /\ left \in Nat /\ left > 0 /\ resolving \in Nat /\ RunGrace \in Nat
       /\ Cardinality(Active) =< Slots
       /\ resolving >= RunGrace \/ left + resolving >= Rests(batch, worker) + RunGrace
  BY <1>1, <1>13, BudgetAssumption DEF RoomInv
<1>15. \/ resolving' >= RunGrace
       \/ left' + resolving' >= Rests(batch, worker') + RunGrace
  <2>1. CASE resolving >= RunGrace
    BY <1>1, <1>14, <2>1
  <2>2. CASE resolving < RunGrace /\ \A i \in Active : worker[i].pc = "resolve"
    <3>1. resolving' = resolving + 1
      BY <1>1, <2>2
    <3> QED
      BY <1>1, <1>11, <1>14, <2>2, <3>1
  <2>3. CASE resolving < RunGrace /\ \E i \in Active : worker[i].pc # "resolve"
    <3>1. PICK a \in Active : worker[a].pc # "resolve"
      BY <2>3
    <3>2. a \in D /\ worker[a].pc \notin {"new", "done", "resolve"} /\ Waits(a)
      BY <1>1, <1>3, <3>1 DEF Active
    <3>3. worker[a].pc \in Trying
      BY <1>3, <3>2 DEF Waits, WorkerOK, Trying
    <3>4. Rest(batch[a], worker'[a]) < Rest(batch[a], worker[a])
      BY <1>5, <1>6, <3>2, <3>3
    <3>5. Rests(batch, worker') < Rests(batch, worker)
      BY <1>11, <3>2, <3>4
    <3>6. resolving' = resolving
      BY <1>1, <3>1
    <3> QED
      BY <1>1, <1>11, <1>14, <2>3, <3>5, <3>6
  <2> QED
    BY <1>14, <2>1, <2>2, <2>3
<1>16. RoomInv'
  <2>1. left' \in Nat /\ resolving' \in Nat /\ ctx' \in {"live", "expired", "cancelled"}
    <3>1. left' \in Nat
      BY <1>1, <1>14
    <3>2. resolving' \in Nat
      BY <1>1, <1>14
    <3> QED
      BY <1>1, <3>1, <3>2
  <2>2. Cardinality(Active') =< Slots
    BY <1>12, <1>14
  <2>3. ctx' = "live" => left' > 0
    <3>1. left' = 0 => ctx' = "expired"
      BY <1>1, Zenon
    <3> QED
      BY <2>1, <3>1
  <2>4. ctx' = "expired" => resolving' >= RunGrace
    <3>1. ctx' = "expired" => left' = 0
      BY <1>1
    <3> QED
      BY <1>11, <1>14, <1>15, <2>1, <3>1
  <2>5. Rests(batch', worker') = Rests(batch, worker')
    BY <1>1
  <2> QED
    BY <1>15, <2>1, <2>2, <2>3, <2>4, <2>5 DEF RoomInv
<1> QED
  BY <1>1, <1>3, <1>8, <1>10, <1>14, <1>16

-----------------------------------------------------------------------------
(* A run begins.                                                           *)

(* A goroutine that waits for its slot.                                    *)
LEMMA NewWorkerOK ==
    ASSUME NEW t \in Target
    PROVE  WorkerOK(t, NewWorker) /\ Rest(t, NewWorker) = Cost(t) /\ NewWorker.pc = "new"
<1>1. NoURL \in URL
  BY DEF NoURL, URL, Hosts, Literals
<1>2. 0 \in Nat /\ << >> \in Seq(Sample) /\ << >> \in Seq(URL) /\ Len(<< >>) = 0 /\ DOMAIN << >> = {}
  OBVIOUS
<1>3. /\ NewWorker.pc = "new" /\ NewWorker.looking = FALSE /\ NewWorker.samples = << >>
      /\ NewWorker.spent = 0 /\ NewWorker.via = << >>
  BY DEF NewWorker
<1>4. NewWorker \in Worker
  BY <1>1, <1>2 DEF NewWorker, Worker
<1>5. t.count \in Nat /\ ProbeAttemptBudget(t) \in Nat /\ Cost(t) = t.count * ProbeAttemptBudget(t)
  BY TargetFacts
<1>6. WorkerOK(t, NewWorker)
  BY <1>2, <1>3, <1>4, <1>5 DEF WorkerOK, Trying, Asking
<1>7. Rest(t, NewWorker) = Cost(t)
  <2>1. (t.count - 0) * ProbeAttemptBudget(t) - 0 = t.count * ProbeAttemptBudget(t)
    BY <1>5
  <2> QED
    BY <1>2, <1>3, <1>5, <2>1 DEF Rest
<1> QED
  BY <1>3, <1>6, <1>7

(* At the beginning the rest is the cost of the batch.                     *)
LEMMA FreshRests ==
    ASSUME NEW b \in Seq(Target), NEW ws, ws = [i \in DOMAIN b |-> NewWorker]
    PROVE  Rests(b, ws) = TotalCost(b)
<1> DEFINE D == DOMAIN b
           f == [i \in D |-> Rest(b[i], ws[i])]
           g == Costs(b)
<1>1. IsFiniteSet(D) /\ \A i \in D : b[i] \in Target
  BY PositionsFinite
<1>2. Rests(b, ws) = SumOf(f, D)
  BY Zenon DEF Rests
<1>3. TotalCost(b) = SumOf(g, D)
  BY TotalCostIsSum
<1>4. \A i \in D : f[i] = g[i]
  <2> SUFFICES ASSUME NEW i \in D PROVE f[i] = g[i]
    OBVIOUS
  <2>1. f[i] = Rest(b[i], NewWorker)
    BY Zenon
  <2>2. g[i] = Cost(b[i])
    BY Zenon DEF Costs
  <2>3. Rest(b[i], NewWorker) = Cost(b[i])
    BY <1>1, NewWorkerOK
  <2> QED
    BY <2>1, <2>2, <2>3
<1> HIDE DEF D, f, g
<1>5. SumOf(f, D) = SumOf(g, D)
  BY <1>1, <1>4, SumSame
<1> QED
  BY <1>2, <1>3, <1>5

(* A batch that is not empty costs something.                              *)
LEMMA BatchCosts ==
    ASSUME NEW b \in Seq(Target), b # << >>
    PROVE  TotalCost(b) \in Nat \ {0}
<1> DEFINE D == DOMAIN b
           g == Costs(b)
<1>1. IsFiniteSet(D) /\ \A i \in D : b[i] \in Target
  BY PositionsFinite
<1>2. 1 \in D
  OBVIOUS
<1>3. TotalCost(b) = SumOf(g, D)
  BY TotalCostIsSum
<1>4. \A i \in D : g[i] = Cost(b[i])
  BY Zenon DEF Costs
<1>5. \A i \in D : g[i] \in Nat /\ g[i] >= 1
  BY <1>1, <1>4, TargetFacts
<1> HIDE DEF D, g
<1>6. SumOf(g, D) = g[1] + SumOf(g, D \ {1})
  BY <1>1, <1>2, <1>5, SumRemove
<1>7. IsFiniteSet(D \ {1}) /\ \A i \in D \ {1} : g[i] \in Nat
  BY <1>1, <1>5, FS_RemoveElement
<1>8. SumOf(g, D \ {1}) \in Nat
  BY <1>7, SumNat
<1>9. g[1] \in Nat /\ g[1] >= 1
  BY <1>2, <1>5
<1> QED
  BY <1>3, <1>6, <1>8, <1>9

(* What one run takes of the due targets.                                  *)
LEMMA Selected ==
    ASSUME TargetsInv
    PROVE  LET sel == LimitProbeTargetsForRun(Due)
           IN  /\ Due \in Seq(Target) /\ Len(Due) =< MaxTargets
               /\ sel \in Seq(Target) /\ Len(sel) =< MaxTargets
               /\ LimitProbeTargetsForRun(sel) = sel
               /\ ProbeRunTimeout(sel) = IF sel = << >> THEN 0 ELSE TotalCost(sel) + RunGrace
               /\ \A j \in DOMAIN sel : \E i \in DOMAIN targets : sel[j].id = targets[i].id
<1> DEFINE sel == LimitProbeTargetsForRun(Due)
<1>1. /\ targets \in Seq(Target) /\ Len(targets) =< MaxTargets
      /\ MaxTargets \in Nat /\ Len(targets) \in Nat
  BY BudgetAssumption DEF TargetsInv
<1>2. Due \in Seq(Target) /\ Len(Due) =< Len(targets) /\ Len(Due) \in Nat
  <2>1. Due \in Seq(Target) /\ Len(Due) =< Len(targets)
    BY <1>1, DueOK
  <2> QED
    BY <2>1
<1>3. Len(Due) =< MaxTargets
  BY <1>1, <1>2
<1>4. /\ sel \in Seq(Target) /\ Len(sel) =< Len(Due) /\ BeginningOf(Due, sel)
      /\ LimitProbeTargetsForRun(sel) = sel
  BY <1>2, <1>3, LimitOK, LimitShape, LimitTwice
<1>5. DueUpTo(Len(targets), Due)
  BY <1>1, DueShape
<1> DEFINE due == Due
<1>6. due \in Seq(Target) /\ Len(sel) =< Len(due) /\ Len(due) \in Nat /\ BeginningOf(due, sel)
      /\ \A j \in DOMAIN due : \E i \in 1..Len(targets) : due[j] = targets[i]
  BY <1>2, <1>4, <1>5 DEF DueUpTo
<1>7. sel \in Seq(Target) /\ Len(sel) \in Nat
  BY <1>4
<1> HIDE DEF sel, due
<1>8. \A j \in DOMAIN sel : \E i \in DOMAIN targets : sel[j].id = targets[i].id
  <2> SUFFICES ASSUME NEW j \in DOMAIN sel
               PROVE  \E i \in DOMAIN targets : sel[j].id = targets[i].id
    OBVIOUS
  <2>1. j \in 1..Len(sel) /\ j \in 1..Len(due) /\ j \in DOMAIN due
    BY <1>6, <1>7
  <2>2. sel[j] = [due[j] EXCEPT !.count = sel[j].count]
    BY <1>6, <2>1 DEF BeginningOf
  <2>3. PICK i \in 1..Len(targets) : due[j] = targets[i]
    BY <1>6, <2>1
  <2>4. i \in DOMAIN targets /\ targets[i] \in Target
    BY <1>1, <2>3
  <2>5. sel[j].id = targets[i].id
    <3> DEFINE c == sel[j].count
    <3>1. sel[j] = [targets[i] EXCEPT !.count = c]
      BY <2>2, <2>3
    <3> HIDE DEF c
    <3> QED
      BY <2>4, <3>1 DEF Target
  <2> QED
    BY <2>4, <2>5
<1>9. Len(sel) =< MaxTargets
  BY <1>1, <1>2, <1>6, <1>7, <1>3 DEF due
<1>10. ProbeRunTimeout(sel) = IF sel = << >> THEN 0 ELSE TotalCost(sel) + RunGrace
  BY <1>4, Zenon DEF ProbeRunTimeout, sel
<1> QED
  BY <1>2, <1>3, <1>4, <1>7, <1>8, <1>9, <1>10 DEF sel

(* StartRun with something to do.                                          *)
LEMMA StartKeeps ==
    ASSUME TargetsInv, StartRun, LimitProbeTargetsForRun(Due) # << >>
    PROVE  /\ TargetsInv' /\ WorkersInv' /\ PinInv' /\ RoomInv'
           /\ batch' = LimitProbeTargetsForRun(Due)
           /\ left' = TotalCost(batch') + RunGrace
           /\ \A i \in DOMAIN worker' : worker'[i].pc = "new"
<1> DEFINE sel == LimitProbeTargetsForRun(Due)
<1>1. /\ sel \in Seq(Target) /\ LimitProbeTargetsForRun(sel) = sel
      /\ ProbeRunTimeout(sel) = IF sel = << >> THEN 0 ELSE TotalCost(sel) + RunGrace
      /\ \A j \in DOMAIN sel : \E i \in DOMAIN targets : sel[j].id = targets[i].id
  BY Selected
<1>2. BeginRun(sel, IF stopping THEN "cancelled" ELSE "live") /\ targets' = targets
  BY DEF StartRun
<1> HIDE DEF sel
<1>3. /\ batch' = sel /\ left' = ProbeRunTimeout(sel)
      /\ worker' = [i \in DOMAIN sel |-> NewWorker]
      /\ cache' = [i \in DOMAIN sel |-> [h \in Hosts \ Literals |-> {}]]
      /\ lingering' = {} /\ dialled' = {} /\ resolving' = 0
      /\ ctx' \in {"live", "cancelled"}
  BY <1>1, <1>2 DEF BeginRun
<1>4. sel # << >> /\ ProbeRunTimeout(sel) = TotalCost(sel) + RunGrace
  BY <1>1 DEF sel
<1>5. TotalCost(sel) \in Nat \ {0} /\ RunGrace \in Nat /\ Slots \in Nat
  BY <1>1, <1>4, BatchCosts, BudgetAssumption, RunAssumption
<1>6. \A i \in DOMAIN sel : sel[i] \in Target
  BY <1>1, PositionsFinite
<1>7. TargetsInv'
  BY <1>1, <1>2, <1>3 DEF TargetsInv
<1>8. \A i \in DOMAIN sel : worker'[i] = NewWorker
  BY <1>3
<1>9. WorkersInv'
  <2>1. \A i \in DOMAIN sel : WorkerOK(sel[i], NewWorker)
    BY <1>6, NewWorkerOK
  <2>2. worker' \in [DOMAIN sel -> Worker]
    BY <1>3, <2>1 DEF WorkerOK
  <2> QED
    BY <1>3, <1>8, <2>1, <2>2 DEF WorkersInv
<1>10. PinInv'
  <2>1. {} \in Answers
    BY RunAssumption
  <2>2. cache' \in [DOMAIN sel -> [Hosts \ Literals -> Answers]]
    BY <1>3, <2>1
  <2>3. \A i \in DOMAIN sel, h \in Hosts \ Literals : cache'[i][h] = {}
    BY <1>3
  <2> QED
    BY <1>3, <2>2, <2>3 DEF PinInv
<1>11. NewWorker.pc = "new"
  BY DEF NewWorker
<1>12. Active' = {}
  BY <1>3, <1>8, <1>11 DEF Active, Workers
<1>13. Rests(batch', worker') = TotalCost(sel)
  BY <1>1, <1>3, FreshRests
<1>14. left' = TotalCost(sel) + RunGrace
  BY <1>3, <1>4
<1>15. RoomInv'
  <2>1. Cardinality(Active') = 0
    BY <1>12, FS_EmptySet
  <2>2. left' \in Nat /\ left' > 0 /\ resolving' = 0 /\ Cardinality(Active') =< Slots
    BY <1>3, <1>5, <1>14, <2>1
  <2>3. left' + resolving' >= Rests(batch', worker') + RunGrace
    BY <1>5, <1>13, <1>14, <2>2
  <2> QED
    BY <1>3, <2>2, <2>3 DEF RoomInv
<1> QED
  BY <1>3, <1>7, <1>8, <1>9, <1>10, <1>11, <1>14, <1>15 DEF sel

-----------------------------------------------------------------------------
(* The ages of the targets.                                                *)

(* The numbers of the bound.                                               *)
LEMMA TimeFacts ==
    ASSUME TargetsInv, LoopInv
    PROVE  /\ Longest \in Nat /\ failures \in Nat
           /\ \A k \in DOMAIN targets :
                /\ targets[k] \in Target /\ targets[k].interval \in Nat \ {0}
                /\ Waited(k) \in Nat /\ Waited(k) >= targets[k].interval + Longest
                /\ targets[k].id \in IDs => since[targets[k].id] \in Nat
<1>1. /\ targets \in Seq(Target) /\ Len(targets) =< MaxTargets
      /\ \A k \in DOMAIN targets : targets[k] \in Target
  BY PositionsFinite DEF TargetsInv
<1>2. Longest \in Nat
  <2> DEFINE sel == LimitProbeTargetsForRun(targets)
  <2>1. sel \in Seq(Target)
    BY <1>1, LimitOK
  <2>2. TotalCost(sel) \in Nat /\ RunGrace \in Nat
    BY <2>1, TotalsNat, BudgetAssumption
  <2>3. Longest = IF sel = << >> THEN 0 ELSE TotalCost(sel) + RunGrace
    BY DEF Longest, ProbeRunTimeout
  <2> HIDE DEF sel
  <2> QED
    BY <2>2, <2>3
<1>3. failures \in Nat
  BY SchedulerAssumption DEF LoopInv
<1>4. failures * (Longest + 1) \in Nat
  BY <1>2, <1>3
<1>5. ASSUME NEW k \in DOMAIN targets
      PROVE  /\ targets[k] \in Target /\ targets[k].interval \in Nat \ {0}
             /\ Waited(k) \in Nat /\ Waited(k) >= targets[k].interval + Longest
             /\ targets[k].id \in IDs => since[targets[k].id] \in Nat
  <2>1. targets[k] \in Target /\ targets[k].interval \in Nat \ {0}
    BY <1>1, <1>5, TargetFacts
  <2> DEFINE p == failures * (Longest + 1)
  <2>2. p \in Nat /\ Waited(k) = targets[k].interval + Longest + p
    BY <1>4 DEF Waited
  <2> HIDE DEF p
  <2>3. Waited(k) \in Nat /\ Waited(k) >= targets[k].interval + Longest
    BY <1>2, <2>1, <2>2
  <2>4. targets[k].id \in IDs => since[targets[k].id] \in Nat
    BY SchedulerAssumption DEF LoopInv
  <2> QED
    BY <2>1, <2>3, <2>4
<1> QED
  BY <1>2, <1>3, <1>5

(* One more failed write makes room for one more run.                      *)
LEMMA WaitedMore ==
    ASSUME TargetsInv, LoopInv, NEW k \in DOMAIN targets, targets' = targets,
           failures' = failures + 1
    PROVE  Waited(k)' = Waited(k) + Longest + 1
<1>1. Longest \in Nat /\ failures \in Nat /\ targets[k].interval \in Nat
  BY TimeFacts
<1>2. Longest' = Longest
  BY DEF Longest
<1> DEFINE m == Longest + 1
           p == failures * m
<1>3. m \in Nat
  BY <1>1
<1>4. Waited(k)' = targets[k].interval + Longest + (failures + 1) * m
  BY <1>2 DEF Waited
<1>5. Waited(k) = targets[k].interval + Longest + p
  BY DEF Waited
<1> HIDE DEF m
<1>6. (failures + 1) * m = p + m /\ p \in Nat
  BY <1>1, <1>3
<1> HIDE DEF p
<1> QED
  BY <1>1, <1>4, <1>5, <1>6 DEF m

(* A configuration that one run affords: a run takes all that is due.      *)
LEMMA AffordsDue ==
    ASSUME TargetsInv, LimitProbeTargetsForRun(targets) = targets
    PROVE  /\ LimitProbeTargetsForRun(Due) = Due
           /\ Due # << >> => TotalCost(Due) + RunGrace =< Longest
           /\ \A k \in DOMAIN targets :
                IsDue(targets[k]) => \E j \in DOMAIN Due : Due[j] = targets[k]
<1>1. targets \in Seq(Target) /\ Len(targets) =< MaxTargets
  BY DEF TargetsInv
<1> DEFINE n == Len(targets)
           due == Due
<1>2. n \in Nat /\ DOMAIN targets = 1..n /\ SubSeq(targets, 1, n) = targets
  BY <1>1
<1>3. TotalCost(targets) =< NodeBudget /\ TotalSamples(targets) =< MaxSamples
  BY <1>1, LimitOK
<1>4. DueUpTo(n, due)
  BY <1>1, DueShape
<1>5. /\ TotalCost(due) =< TotalCost(targets) /\ TotalSamples(due) =< TotalSamples(targets)
      /\ \A k \in 1..n : IsDue(targets[k]) => \E j \in DOMAIN due : due[j] = targets[k]
      /\ \A j \in DOMAIN due : \E i \in 1..n : due[j] = targets[i]
  BY <1>2, <1>4, Zenon DEF DueUpTo
<1>6. due \in Seq(Target) /\ Len(due) =< MaxTargets
  BY Selected
<1>7. /\ TotalCost(due) \in Nat /\ TotalSamples(due) \in Nat
      /\ TotalCost(targets) \in Nat /\ TotalSamples(targets) \in Nat
      /\ NodeBudget \in Nat /\ MaxSamples \in Nat /\ RunGrace \in Nat
  BY <1>1, <1>6, TotalsNat, BudgetAssumption
<1> HIDE DEF due
<1>8. LimitProbeTargetsForRun(due) = due
  <2>1. TotalCost(due) =< NodeBudget /\ TotalSamples(due) =< MaxSamples
    BY <1>3, <1>5, <1>7
  <2> QED
    BY <1>6, <2>1, LimitSame
<1>9. due # << >> => TotalCost(due) + RunGrace =< Longest
  <2> SUFFICES ASSUME due # << >> PROVE TotalCost(due) + RunGrace =< Longest
    OBVIOUS
  <2>1. 1 \in DOMAIN due
    BY <1>6
  <2>2. targets # << >>
    BY <1>2, <1>5, <2>1
  <2>3. Longest = TotalCost(targets) + RunGrace
    BY <2>2, Zenon DEF Longest, ProbeRunTimeout
  <2> QED
    BY <1>5, <1>7, <2>3
<1> QED
  BY <1>2, <1>5, <1>8, <1>9 DEF due

(* Nothing that counts changes.                                            *)
LEMMA TimeSame ==
    ASSUME TimeInv, UNCHANGED <<targets, since, left, batch, failures, ticker>>, Busy' = Busy
    PROVE  TimeInv'
<1>1. IDs' = IDs /\ Longest' = Longest
  BY DEF IDs, Longest
<1>2. \A k : Waited(k)' = Waited(k)
  BY <1>1 DEF Waited
<1>3. \A k, s : TimeOK(k, s)' <=> TimeOK(k, s)
  BY <1>1, <1>2 DEF TimeOK
<1> QED
  BY <1>1, <1>3 DEF TimeInv

(* A tick makes every age larger by at most one.                           *)
LEMMA OlderOK ==
    ASSUME NEW S, NEW ages \in [S -> 0..AgeCap]
    PROVE  /\ Older(ages) \in [S -> 0..AgeCap]
           /\ \A x \in S : Older(ages)[x] =< ages[x] + 1
<1>1. AgeCap \in Nat
  BY SchedulerAssumption
<1>2. Older(ages) = [x \in S |-> IF ages[x] < AgeCap THEN ages[x] + 1 ELSE AgeCap]
  BY DEF Older
<1>3. \A x \in S : ages[x] \in Nat /\ ages[x] =< AgeCap
  BY <1>1
<1>4. \A x \in S : /\ Older(ages)[x] = IF ages[x] < AgeCap THEN ages[x] + 1 ELSE AgeCap
                   /\ Older(ages)[x] \in 0..AgeCap /\ Older(ages)[x] =< ages[x] + 1
  BY <1>1, <1>2, <1>3
<1> QED
  BY <1>2, <1>4

(* A reset.                                                                *)
LEMMA ResetOK ==
    ASSUME NEW S, NEW ages \in [S -> 0..AgeCap], NEW ids
    PROVE  /\ Reset(ages, ids) \in [S -> 0..AgeCap]
           /\ \A x \in S : Reset(ages, ids)[x] = IF x \in ids THEN 0 ELSE ages[x]
<1>1. AgeCap \in Nat /\ 0 \in 0..AgeCap
  BY SchedulerAssumption
<1>2. Reset(ages, ids) = [x \in S |-> IF x \in ids THEN 0 ELSE ages[x]]
  BY DEF Reset
<1> QED
  BY <1>1, <1>2

(* Time passes: between two runs at most one tick, during one as many as   *)
(* its deadline allows.                                                    *)
LEMMA TimeTicks ==
    ASSUME TargetsInv, LoopInv, WorkersInv, RoomInv, TimeInv, Tick
    PROVE  LoopInv' /\ TimeInv'
<1>1. /\ ticker' = TRUE /\ age' = Older(age) /\ since' = Older(since)
      /\ targets' = targets /\ seen' = seen /\ loop' = loop /\ stopping' = stopping
      /\ failures' = failures
  BY DEF Tick
<1>2. \/ loop = "wait" /\ ~ticker /\ UNCHANGED runVars
      \/ loop = "probing" /\ RunTick
  BY DEF Tick
<1>3. age \in [IDs -> 0..AgeCap] /\ since = age
  BY DEF LoopInv
<1>4. IDs' = IDs /\ Longest' = Longest
  BY <1>1 DEF IDs, Longest
<1>5. /\ age' \in [IDs -> 0..AgeCap] /\ since' = age'
      /\ \A x \in IDs : since'[x] =< since[x] + 1 /\ since'[x] \in Nat
  <2>1. /\ Older(age) \in [IDs -> 0..AgeCap]
        /\ \A x \in IDs : Older(age)[x] =< age[x] + 1
    BY <1>3, OlderOK
  <2>2. AgeCap \in Nat
    BY SchedulerAssumption
  <2> QED
    BY <1>1, <1>3, <2>1, <2>2
<1>6. LoopInv'
  BY <1>1, <1>4, <1>5 DEF LoopInv
<1>7. \A k : Waited(k)' = Waited(k)
  BY <1>1, <1>4 DEF Waited
<1>8. TimeInv'
  <2> SUFFICES ASSUME LimitProbeTargetsForRun(targets) = targets
               PROVE  /\ Busy' => left' =< Longest
                      /\ \A k \in DOMAIN targets :
                           targets[k].id \in IDs => TimeOK(k, since[targets[k].id])'
    BY <1>1, <1>4 DEF TimeInv
  <2>1. /\ Busy => left =< Longest
        /\ \A k \in DOMAIN targets :
             targets[k].id \in IDs => TimeOK(k, since[targets[k].id])
    BY DEF TimeInv
  <2>2. CASE loop = "wait" /\ ~ticker /\ UNCHANGED runVars
    <3>1. ~Busy /\ ~Busy'
      BY <1>1, <2>2 DEF Busy
    <3>2. ASSUME NEW k \in DOMAIN targets, targets[k].id \in IDs
          PROVE  TimeOK(k, since[targets[k].id])'
      <4> DEFINE s == since[targets[k].id]
                 r == since'[targets[k].id]
      <4>1. s + 1 =< Waited(k)
        BY <2>1, <2>2, <3>1, <3>2 DEF TimeOK
      <4>2. r =< s + 1 /\ s \in Nat /\ r \in Nat /\ Waited(k) \in Nat
        BY <1>5, <3>2, TimeFacts
      <4>3. r + 0 =< Waited(k)
        BY <4>1, <4>2
      <4> QED
        BY <1>1, <1>7, <3>1, <4>3 DEF TimeOK
    <3> QED
      BY <3>1, <3>2
  <2>3. CASE loop = "probing" /\ RunTick
    <3>1. left > 0 /\ left' = left - 1 /\ batch' = batch /\ left \in Nat
      BY <2>3, TickKeeps DEF RunTick, RoomInv
    <3>2. Busy /\ Busy' /\ left =< Longest /\ Longest \in Nat
      BY <1>1, <2>1, <2>3, TimeFacts DEF Busy
    <3>3. left' =< Longest
      BY <3>1, <3>2
    <3>4. ASSUME NEW k \in DOMAIN targets, targets[k].id \in IDs
          PROVE  TimeOK(k, since[targets[k].id])'
      <4> DEFINE s == since[targets[k].id]
                 r == since'[targets[k].id]
      <4>1. r =< s + 1 /\ s \in Nat /\ r \in Nat
        BY <1>5, <3>4, TimeFacts
      <4>2. r + left' =< s + left /\ s + left \in Nat /\ r + left' \in Nat
        BY <3>1, <4>1
      <4>3. TimeOK(k, s)
        BY <2>1, <3>4
      <4>4. targets[k].interval \in Nat /\ Waited(k) \in Nat
        BY <3>4, TimeFacts
      <4>5. CASE /\ \E j \in DOMAIN batch : batch[j].id = targets[k].id
                 /\ s + left =< Waited(k) + Longest
        <5>1. r + left' =< Waited(k) + Longest
          BY <3>2, <4>2, <4>4, <4>5
        <5> QED
          BY <1>1, <1>4, <1>7, <3>1, <3>2, <4>5, <5>1 DEF TimeOK
      <4>6. CASE s + left < targets[k].interval + Longest
        <5>1. r + left' < targets[k].interval + Longest
          BY <3>2, <4>2, <4>4, <4>6
        <5> QED
          BY <1>1, <1>4, <1>7, <3>1, <3>2, <5>1 DEF TimeOK
      <4> QED
        BY <3>2, <4>3, <4>5, <4>6 DEF TimeOK
    <3> QED
      BY <3>3, <3>4
  <2> QED
    BY <1>2, <2>2, <2>3
<1> QED
  BY <1>6, <1>8

(* StartRun: what is not taken is not due.                                 *)
LEMMA TimeStarts ==
    ASSUME TargetsInv, LoopInv, TimeInv, StartRun
    PROVE  LoopInv' /\ TimeInv'
<1>1. /\ loop = "wait" /\ ticker /\ ticker' = FALSE
      /\ UNCHANGED <<targets, seen, age, since, stopping, failures>>
  BY DEF StartRun
<1>2. \/ LimitProbeTargetsForRun(Due) = << >> /\ UNCHANGED <<loop, runVars>>
      \/ LimitProbeTargetsForRun(Due) # << >> /\ loop' = "probing"
  BY DEF StartRun
<1>3. IDs' = IDs /\ Longest' = Longest
  BY <1>1 DEF IDs, Longest
<1>4. LoopInv'
  BY <1>1, <1>2, <1>3 DEF LoopInv
<1>5. \A k : Waited(k)' = Waited(k)
  BY <1>1, <1>3 DEF Waited
<1>6. TimeInv'
  <2> SUFFICES ASSUME LimitProbeTargetsForRun(targets) = targets
               PROVE  /\ Busy' => left' =< Longest
                      /\ \A k \in DOMAIN targets :
                           targets[k].id \in IDs => TimeOK(k, since[targets[k].id])'
    BY <1>1, <1>3 DEF TimeInv
  <2>1. \A k \in DOMAIN targets :
          targets[k].id \in IDs => since[targets[k].id] =< Waited(k)
    <3> SUFFICES ASSUME NEW k \in DOMAIN targets, targets[k].id \in IDs
                 PROVE  since[targets[k].id] =< Waited(k)
      OBVIOUS
    <3>1. since[targets[k].id] \in Nat /\ Waited(k) \in Nat
      BY TimeFacts
    <3>2. ~Busy
      BY <1>1 DEF Busy
    <3>3. since[targets[k].id] + 0 =< Waited(k)
      BY <1>1, <3>2 DEF TimeInv, TimeOK
    <3> QED
      BY <3>1, <3>3
  <2>2. /\ LimitProbeTargetsForRun(Due) = Due
        /\ Due # << >> => TotalCost(Due) + RunGrace =< Longest
        /\ \A k \in DOMAIN targets :
             IsDue(targets[k]) => \E j \in DOMAIN Due : Due[j] = targets[k]
    BY AffordsDue
  <2>3. ASSUME NEW k \in DOMAIN targets, targets[k].id \in IDs, ~IsDue(targets[k])
        PROVE  since[targets[k].id] < targets[k].interval
    <3>1. since[targets[k].id] \in Nat /\ targets[k].interval \in Nat /\ since = age
      BY <2>3, TimeFacts DEF LoopInv
    <3>2. ~(since[targets[k].id] >= targets[k].interval)
      BY <2>3, <3>1 DEF IsDue, TargetIntervalElapsed
    <3> QED
      BY <3>1, <3>2
  <2>4. CASE LimitProbeTargetsForRun(Due) = << >> /\ UNCHANGED <<loop, runVars>>
    <3>1. ~Busy'
      BY <1>1, <2>4 DEF Busy
    <3>2. ASSUME NEW k \in DOMAIN targets, targets[k].id \in IDs
          PROVE  TimeOK(k, since[targets[k].id])'
      <4> DEFINE s == since[targets[k].id]
      <4>1. ~IsDue(targets[k])
        BY <2>2, <2>4, <3>2
      <4>2. s < targets[k].interval
        BY <2>3, <3>2, <4>1
      <4>3. /\ s \in Nat /\ targets[k].interval \in Nat /\ Longest \in Nat
            /\ Waited(k) \in Nat /\ Waited(k) >= targets[k].interval + Longest
        BY <3>2, TimeFacts
      <4>4. s + 1 =< Waited(k)
        BY <4>2, <4>3
      <4> QED
        BY <1>1, <1>5, <3>1, <4>4 DEF TimeOK
    <3> QED
      BY <3>1, <3>2
  <2>5. CASE LimitProbeTargetsForRun(Due) # << >> /\ loop' = "probing"
    <3>1. batch' = Due /\ left' = TotalCost(batch') + RunGrace
      BY <2>2, <2>5, StartKeeps
    <3>2. left' =< Longest
      BY <2>2, <2>5, <3>1
    <3>3. left' \in Nat /\ Longest \in Nat
      BY <2>5, StartKeeps, TimeFacts DEF RoomInv
    <3>4. Busy'
      BY <2>5 DEF Busy
    <3>5. ASSUME NEW k \in DOMAIN targets, targets[k].id \in IDs
          PROVE  TimeOK(k, since[targets[k].id])'
      <4> DEFINE s == since[targets[k].id]
      <4>1. s \in Nat /\ targets[k].interval \in Nat /\ Waited(k) \in Nat
        BY <3>5, TimeFacts
      <4>2. CASE IsDue(targets[k])
        <5>1. \E j \in DOMAIN batch' : batch'[j].id = targets[k].id
          BY <2>2, <3>1, <3>5, <4>2
        <5>2. s =< Waited(k)
          BY <2>1, <3>5
        <5>3. s + left' =< Waited(k) + Longest
          BY <3>2, <3>3, <4>1, <5>2
        <5> QED
          BY <1>1, <1>3, <1>5, <3>4, <5>1, <5>3 DEF TimeOK
      <4>3. CASE ~IsDue(targets[k])
        <5>1. s < targets[k].interval
          BY <2>3, <3>5, <4>3
        <5>2. s + left' < targets[k].interval + Longest
          BY <3>2, <3>3, <4>1, <5>1
        <5> QED
          BY <1>1, <1>3, <3>4, <5>2 DEF TimeOK
      <4> QED
        BY <4>2, <4>3
    <3> QED
      BY <3>2, <3>5
  <2> QED
    BY <1>2, <2>4, <2>5
<1> QED
  BY <1>4, <1>6

-----------------------------------------------------------------------------
(* Between two runs.                                                       *)

(* No targets, no goroutines.                                              *)
LEMMA EmptyFunction ==
    ASSUME NEW S
    PROVE  << >> \in [DOMAIN << >> -> S] /\ DOMAIN << >> = {} /\ << >> \in Seq(Target)
<1>1. << >> \in Seq(S) /\ Len(<< >>) = 0 /\ DOMAIN << >> = {} /\ << >> \in Seq(Target)
  OBVIOUS
<1>2. << >> \in [1..0 -> S] /\ 1..0 = {}
  BY <1>1
<1> QED
  BY <1>1, <1>2

(* The initial state: nothing has run and nothing is known.                *)
LEMMA CycleInitOK ==
    ASSUME CycleInit
    PROVE  CycleInv
<1>1. /\ seen = {} /\ age = [id \in IDs |-> 0] /\ since = age /\ loop = "wait"
      /\ ticker = TRUE /\ stopping = FALSE /\ failures = 0
      /\ batch = << >> /\ ctx = "live" /\ left = 0 /\ worker = << >> /\ cache = << >>
      /\ lingering = {} /\ dialled = {} /\ resolving = 0
  BY DEF CycleInit, NoRun
<1>2. targets \in Seq(Target) /\ Len(targets) =< MaxTargets
  BY SanitizeOK DEF CycleInit
<1>3. DOMAIN << >> = {} /\ << >> \in Seq(Target)
  BY EmptyFunction
<1>4. TargetsInv
  BY <1>1, <1>2, <1>3 DEF TargetsInv
<1>5. AgeCap \in Nat /\ MaxFailures \in Nat /\ Slots \in Nat
  BY SchedulerAssumption, RunAssumption
<1>6. 0 \in 0..AgeCap /\ 0 \in 0..MaxFailures
  BY <1>5
<1>7. age \in [IDs -> 0..AgeCap]
  BY <1>1, <1>6, Zenon
<1>8. LoopInv
  BY <1>1, <1>6, <1>7 DEF LoopInv
<1>9. WorkersInv
  <2>1. worker \in [DOMAIN batch -> Worker]
    BY <1>1, EmptyFunction
  <2> QED
    BY <1>1, <1>3, <2>1 DEF WorkersInv
<1>10. PinInv
  <2>1. cache \in [DOMAIN batch -> [Hosts \ Literals -> Answers]]
    BY <1>1, EmptyFunction
  <2> QED
    BY <1>1, <1>3, <2>1 DEF PinInv
<1>11. RoomInv
  <2>1. Active = {}
    BY <1>1, <1>3 DEF Active, Workers
  <2>2. Cardinality(Active) = 0
    BY <2>1, FS_EmptySet
  <2>3. Cardinality(Active) =< Slots
    BY <1>5, <2>2
  <2> QED
    BY <1>1, <2>3 DEF RoomInv
<1>12. TimeInv
  <2>1. ~Busy
    BY <1>1 DEF Busy
  <2>2. ASSUME NEW k \in DOMAIN targets, targets[k].id \in IDs
        PROVE  TimeOK(k, since[targets[k].id])
    <3>1. since[targets[k].id] = 0
      BY <1>1, <2>2
    <3>2. Waited(k) \in Nat
      BY <1>4, <1>8, <2>2, TimeFacts
    <3>3. 0 + 0 =< Waited(k)
      BY <3>2
    <3> QED
      BY <1>1, <2>1, <3>1, <3>3 DEF TimeOK
  <2> QED
    BY <2>1, <2>2 DEF TimeInv
<1> QED
  BY <1>4, <1>8, <1>9, <1>10, <1>11, <1>12 DEF CycleInv

(* Persist leaves no run behind.                                           *)
LEMMA PersistClears ==
    ASSUME TargetsInv, Persist
    PROVE  TargetsInv' /\ WorkersInv' /\ PinInv' /\ RoomInv'
<1>1. /\ batch' = << >> /\ ctx' = "live" /\ left' = 0 /\ worker' = << >> /\ cache' = << >>
      /\ lingering' = {} /\ dialled' = {} /\ resolving' = 0 /\ targets' = targets
  BY DEF Persist
<1>2. DOMAIN << >> = {} /\ << >> \in Seq(Target)
  BY EmptyFunction
<1>3. TargetsInv'
  BY <1>1, <1>2 DEF TargetsInv
<1>4. WorkersInv'
  <2>1. worker' \in [DOMAIN batch' -> Worker]
    BY <1>1, EmptyFunction
  <2> QED
    BY <1>1, <1>2, <2>1 DEF WorkersInv
<1>5. PinInv'
  <2>1. cache' \in [DOMAIN batch' -> [Hosts \ Literals -> Answers]]
    BY <1>1, EmptyFunction
  <2> QED
    BY <1>1, <1>2, <2>1 DEF PinInv
<1>6. RoomInv'
  <2>1. Active' = {}
    BY <1>1, <1>2 DEF Active, Workers
  <2>2. Cardinality(Active') = 0 /\ Slots \in Nat
    BY <2>1, FS_EmptySet, RunAssumption
  <2>3. Cardinality(Active') =< Slots
    BY <2>2
  <2> QED
    BY <1>1, <2>3 DEF RoomInv
<1> QED
  BY <1>3, <1>4, <1>5, <1>6

(* Persist: what was stored is young again, a failed write costs a run.    *)
LEMMA TimePersists ==
    ASSUME TargetsInv, LoopInv, RoomInv, TimeInv, Persist
    PROVE  LoopInv' /\ TimeInv'
<1> DEFINE ids == {batch[k].id : k \in DOMAIN batch}
<1>1. /\ loop = "persist" /\ loop' = "wait"
      /\ targets' = targets /\ ticker' = ticker /\ stopping' = stopping
  BY DEF Persist
<1>2. /\ age \in [IDs -> 0..AgeCap] /\ since = age /\ seen \subseteq IDs
      /\ failures \in 0..MaxFailures /\ MaxFailures \in Nat
  BY SchedulerAssumption DEF LoopInv
<1>3. IDs' = IDs /\ Longest' = Longest
  BY <1>1 DEF IDs, Longest
<1>4. Busy /\ ~Busy'
  BY <1>1 DEF Busy
<1>5. \/ /\ Completed(batch) /\ since' = Reset(since, ids) /\ failures' = failures
      \/ /\ failures < MaxFailures /\ failures' = failures + 1
         /\ seen' = seen /\ age' = age /\ since' = since
  BY DEF Persist
<1>6. CASE Completed(batch) /\ since' = Reset(since, ids) /\ failures' = failures
  <2>1. seen' = seen \cup (ids \ {""}) /\ age' = Reset(age, ids \ {""})
    BY <1>6, Zenon DEF Completed
  <2>2. ids \ {""} \subseteq IDs
    BY DEF TargetsInv, IDs
  <2>3. "" \notin IDs
    BY DEF IDs
  <2> HIDE DEF ids
  <2>4. /\ age' \in [IDs -> 0..AgeCap] /\ since' \in [IDs -> 0..AgeCap]
        /\ \A x \in IDs : /\ age'[x] = IF x \in ids \ {""} THEN 0 ELSE age[x]
                          /\ since'[x] = IF x \in ids THEN 0 ELSE since[x]
    <3> DEFINE named == ids \ {""}
    <3> HIDE DEF named
    <3>1. /\ Reset(age, named) \in [IDs -> 0..AgeCap]
          /\ \A x \in IDs : Reset(age, named)[x] = IF x \in named THEN 0 ELSE age[x]
      BY <1>2, ResetOK
    <3>2. since \in [IDs -> 0..AgeCap]
      BY <1>2
    <3>3. /\ Reset(since, ids) \in [IDs -> 0..AgeCap]
          /\ \A x \in IDs : Reset(since, ids)[x] = IF x \in ids THEN 0 ELSE since[x]
      BY <3>2, ResetOK
    <3>4. age' = Reset(age, named) /\ since' = Reset(since, ids)
      BY <1>6, <2>1 DEF named
    <3> QED
      BY <3>1, <3>3, <3>4, Zenon DEF named
  <2>5. \A x \in IDs : age'[x] = since'[x]
    BY <1>2, <2>3, <2>4
  <2>6. since' = age'
    <3>1. since' = [x \in IDs |-> since'[x]] /\ age' = [x \in IDs |-> age'[x]]
      BY <2>4, Zenon
    <3>2. [x \in IDs |-> since'[x]] = [x \in IDs |-> age'[x]]
      BY <2>5, Zenon
    <3> QED
      BY <3>1, <3>2, Zenon
  <2>7. LoopInv'
    BY <1>1, <1>2, <1>3, <1>6, <2>1, <2>2, <2>4, <2>6 DEF LoopInv
  <2>8. \A k : Waited(k)' = Waited(k)
    BY <1>1, <1>3, <1>6 DEF Waited
  <2>9. ASSUME LimitProbeTargetsForRun(targets) = targets,
               NEW k \in DOMAIN targets, targets[k].id \in IDs
        PROVE  TimeOK(k, since[targets[k].id])'
    <3> DEFINE s == since[targets[k].id]
               r == since'[targets[k].id]
    <3>1. /\ s \in Nat /\ left \in Nat /\ Longest \in Nat /\ Waited(k) \in Nat
          /\ targets[k].interval \in Nat \ {0}
          /\ Waited(k) >= targets[k].interval + Longest
      BY <2>9, TimeFacts DEF RoomInv
    <3>2. r = IF targets[k].id \in ids THEN 0 ELSE s
      BY <2>4, <2>9
    <3>3. TimeOK(k, s)
      BY <2>9 DEF TimeInv
    <3>4. r + 1 =< Waited(k) /\ r \in Nat
      <4>1. CASE targets[k].id \in ids
        BY <3>1, <3>2, <4>1
      <4>2. CASE targets[k].id \notin ids
        <5>1. ~\E j \in DOMAIN batch : batch[j].id = targets[k].id
          BY <4>2 DEF ids
        <5>2. s + left < targets[k].interval + Longest
          BY <1>4, <3>3, <5>1 DEF TimeOK
        <5> QED
          BY <3>1, <3>2, <4>2, <5>2
      <4> QED
        BY <4>1, <4>2
    <3>5. r + (IF ticker THEN 0 ELSE 1) =< Waited(k)
      <4>1. r + 0 =< Waited(k)
        BY <3>1, <3>4
      <4> QED
        BY <3>4, <4>1
    <3> QED
      BY <1>1, <1>4, <2>8, <3>5 DEF TimeOK
  <2>10. TimeInv'
    BY <1>1, <1>3, <1>4, <2>9 DEF TimeInv
  <2> QED
    BY <2>7, <2>10
<1>7. CASE /\ failures < MaxFailures /\ failures' = failures + 1
           /\ seen' = seen /\ age' = age /\ since' = since
  <2>1. failures' \in 0..MaxFailures
    BY <1>2, <1>7
  <2>2. LoopInv'
    BY <1>1, <1>2, <1>3, <1>7, <2>1 DEF LoopInv
  <2>3. ASSUME LimitProbeTargetsForRun(targets) = targets,
               NEW k \in DOMAIN targets, targets[k].id \in IDs
        PROVE  TimeOK(k, since[targets[k].id])'
    <3> DEFINE s == since[targets[k].id]
    <3>1. /\ s \in Nat /\ left \in Nat /\ Longest \in Nat /\ Waited(k) \in Nat
          /\ targets[k].interval \in Nat \ {0}
          /\ Waited(k) >= targets[k].interval + Longest
      BY <2>3, TimeFacts DEF RoomInv
    <3>2. Waited(k)' = Waited(k) + Longest + 1
      BY <1>1, <1>7, <2>3, WaitedMore
    <3>3. TimeOK(k, s)
      BY <2>3 DEF TimeInv
    <3>4. \/ s + left =< Waited(k) + Longest
          \/ s + left < targets[k].interval + Longest
      BY <1>4, <3>3 DEF TimeOK
    <3>5. s + 1 =< Waited(k)' /\ s + 0 =< Waited(k)'
      BY <3>1, <3>2, <3>4
    <3>6. s + (IF ticker THEN 0 ELSE 1) =< Waited(k)'
      BY <3>5
    <3> QED
      BY <1>1, <1>4, <1>7, <3>6 DEF TimeOK
  <2>4. TimeInv'
    BY <1>1, <1>3, <1>4, <2>3 DEF TimeInv
  <2> QED
    BY <2>2, <2>4
<1> QED
  BY <1>5, <1>6, <1>7

-----------------------------------------------------------------------------
(* Every action keeps the invariant.                                       *)

(* Stop: the run's context may be cancelled, nothing else changes.         *)
LEMMA StopKeeps ==
    ASSUME CycleInv, Stop
    PROVE  CycleInv'
<1>1. /\ stopping' = TRUE /\ ctx' \in {ctx, "cancelled"}
      /\ UNCHANGED <<targets, seen, age, since, loop, ticker, failures>>
      /\ UNCHANGED <<batch, left, worker, cache, lingering, dialled, resolving>>
  BY DEF Stop
<1>2. TargetsInv' /\ WorkersInv'
  BY <1>1 DEF CycleInv, TargetsInv, WorkersInv
<1>3. LoopInv'
  BY <1>1 DEF CycleInv, LoopInv, IDs
<1>4. PinInv'
  BY <1>1, PinSame DEF CycleInv
<1>5. RoomInv'
  <2>1. Active' = Active
    BY <1>1 DEF Active, Workers
  <2>2. Rests(batch', worker') = Rests(batch, worker)
    BY <1>1
  <2> QED
    BY <1>1, <2>1, <2>2 DEF CycleInv, RoomInv
<1>6. TimeInv'
  <2>1. Busy' = Busy
    BY <1>1 DEF Busy
  <2> QED
    BY <1>1, <2>1, TimeSame DEF CycleInv
<1> QED
  BY <1>2, <1>3, <1>4, <1>5, <1>6 DEF CycleInv

(* Steps that leave the run alone and the loop as busy as it was.          *)
LEMMA RunSame ==
    ASSUME CycleInv, UNCHANGED <<targets, seen, age, since, ticker, stopping, failures>>,
           UNCHANGED runVars, Busy' = Busy,
           loop' \in {"wait", "probing", "persist", "stopped"}
    PROVE  CycleInv'
<1>1. UNCHANGED <<batch, ctx, left, worker, cache, lingering, dialled, resolving>>
  BY DEF runVars
<1>2. TargetsInv' /\ WorkersInv'
  BY <1>1 DEF CycleInv, TargetsInv, WorkersInv
<1>3. LoopInv'
  BY <1>1 DEF CycleInv, LoopInv, IDs
<1>4. PinInv'
  BY <1>1, PinSame DEF CycleInv
<1>5. RoomInv'
  <2>1. Active' = Active
    BY <1>1 DEF Active, Workers
  <2>2. Rests(batch', worker') = Rests(batch, worker)
    BY <1>1
  <2> QED
    BY <1>1, <2>1, <2>2 DEF CycleInv, RoomInv
<1>6. TimeInv'
  BY <1>1, TimeSame DEF CycleInv
<1> QED
  BY <1>2, <1>3, <1>4, <1>5, <1>6 DEF CycleInv

(* RunStep.                                                                *)
LEMMA RunStepKeeps ==
    ASSUME CycleInv, RunStep
    PROVE  CycleInv'
<1>1. UNCHANGED <<targets, seen, age, since, loop, ticker, stopping, failures>>
  BY DEF RunStep, schedulerVars
<1>2. TargetsInv /\ LoopInv /\ WorkersInv /\ PinInv /\ RoomInv /\ TimeInv
  BY DEF CycleInv
<1>3. UNCHANGED <<batch, left>> /\ WorkersInv' /\ RoomInv' /\ PinInv'
  <2>1. CASE \E i \in Workers : WorkerStep(i)
    <3>1. PICK i \in Workers : WorkerStep(i)
      BY <2>1
    <3>2. Advances(i)
      BY <1>2, <3>1, WorkerAdvances
    <3>3. UNCHANGED <<batch, left>>
      BY <3>2 DEF Advances
    <3> QED
      BY <1>2, <3>1, <3>2, <3>3, AdvancesKeeps, WorkerPins
  <2>2. CASE LateLookupReturns
    <3>1. UNCHANGED <<batch, ctx, left, worker, resolving>>
      BY <2>2 DEF LateLookupReturns
    <3>2. PinInv'
      BY <1>2, <2>2, LatePins
    <3>3. WorkersInv'
      BY <1>2, <3>1 DEF WorkersInv
    <3>4. Active' = Active /\ Rests(batch', worker') = Rests(batch, worker)
      BY <3>1 DEF Active, Workers
    <3>5. RoomInv'
      BY <1>2, <3>1, <3>4 DEF RoomInv
    <3> QED
      BY <3>1, <3>2, <3>3, <3>5
  <2> QED
    BY <2>1, <2>2 DEF RunStep
<1>4. TargetsInv' /\ LoopInv'
  BY <1>1, <1>2, <1>3 DEF TargetsInv, LoopInv, IDs
<1>5. Busy' = Busy
  BY <1>1 DEF Busy
<1>6. TimeInv'
  BY <1>1, <1>2, <1>3, <1>5, TimeSame
<1> QED
  BY <1>3, <1>4, <1>6 DEF CycleInv

(* Tick.                                                                   *)
LEMMA CycleTickKeeps ==
    ASSUME CycleInv, Tick
    PROVE  CycleInv'
<1>1. TargetsInv /\ LoopInv /\ WorkersInv /\ PinInv /\ RoomInv /\ TimeInv
  BY DEF CycleInv
<1>2. LoopInv' /\ TimeInv' /\ targets' = targets
  BY <1>1, TimeTicks DEF Tick
<1>3. CASE UNCHANGED runVars
  <2>1. UNCHANGED <<batch, ctx, left, worker, cache, lingering, dialled, resolving>>
    BY <1>3 DEF runVars
  <2>2. TargetsInv' /\ WorkersInv' /\ PinInv'
    BY <1>1, <1>2, <2>1, PinSame DEF TargetsInv, WorkersInv
  <2>3. Active' = Active /\ Rests(batch', worker') = Rests(batch, worker)
    BY <2>1 DEF Active, Workers
  <2>4. RoomInv'
    BY <1>1, <2>1, <2>3 DEF RoomInv
  <2> QED
    BY <1>2, <2>2, <2>4 DEF CycleInv
<1>4. CASE RunTick
  <2>1. UNCHANGED <<batch, cache, lingering, dialled>>
    BY <1>4 DEF RunTick
  <2>2. TargetsInv' /\ PinInv'
    BY <1>1, <1>2, <2>1, PinSame DEF TargetsInv
  <2>3. WorkersInv' /\ RoomInv'
    BY <1>1, <1>4, TickKeeps
  <2> QED
    BY <1>2, <2>2, <2>3 DEF CycleInv
<1> QED
  BY <1>3, <1>4 DEF Tick

(* StartRun.                                                               *)
LEMMA CycleStartKeeps ==
    ASSUME CycleInv, StartRun
    PROVE  CycleInv'
<1>1. TargetsInv /\ LoopInv /\ WorkersInv /\ PinInv /\ RoomInv /\ TimeInv
  BY DEF CycleInv
<1>2. LoopInv' /\ TimeInv'
  BY <1>1, TimeStarts
<1>3. CASE LimitProbeTargetsForRun(Due) # << >>
  BY <1>1, <1>2, <1>3, StartKeeps DEF CycleInv
<1>4. CASE LimitProbeTargetsForRun(Due) = << >>
  <2>1. UNCHANGED <<batch, ctx, left, worker, cache, lingering, dialled, resolving>>
        /\ targets' = targets
    BY <1>4 DEF StartRun, runVars
  <2>2. TargetsInv' /\ WorkersInv' /\ PinInv'
    BY <1>1, <2>1, PinSame DEF TargetsInv, WorkersInv
  <2>3. Active' = Active /\ Rests(batch', worker') = Rests(batch, worker)
    BY <2>1 DEF Active, Workers
  <2>4. RoomInv'
    BY <1>1, <2>1, <2>3 DEF RoomInv
  <2> QED
    BY <1>2, <2>2, <2>4 DEF CycleInv
<1> QED
  BY <1>3, <1>4

(* Every step keeps the invariant.                                         *)
LEMMA CycleKeeps ==
    ASSUME CycleInv, [CycleNext]_cycleVars
    PROVE  CycleInv'
<1>1. CASE Stop
  BY <1>1, StopKeeps
<1>2. CASE StopLoop
  <2>1. Busy' = Busy /\ loop' = "stopped"
    BY <1>2 DEF StopLoop, Busy
  <2> QED
    BY <1>2, <2>1, RunSame DEF StopLoop
<1>3. CASE FinishRun
  <2>1. Busy' = Busy /\ loop' = "persist"
    BY <1>3 DEF FinishRun, Busy
  <2> QED
    BY <1>3, <2>1, RunSame DEF FinishRun
<1>4. CASE RunStep
  BY <1>4, RunStepKeeps
<1>5. CASE Tick
  BY <1>5, CycleTickKeeps
<1>6. CASE StartRun
  BY <1>6, CycleStartKeeps
<1>7. CASE Persist
  BY <1>7, PersistClears, TimePersists DEF CycleInv
<1>8. CASE UNCHANGED cycleVars
  <2>1. /\ UNCHANGED <<targets, seen, age, since, ticker, stopping, failures>>
        /\ UNCHANGED runVars /\ loop' = loop
    BY <1>8 DEF cycleVars, schedulerVars
  <2>2. Busy' = Busy /\ loop' \in {"wait", "probing", "persist", "stopped"}
    BY <2>1 DEF Busy, CycleInv, LoopInv
  <2> QED
    BY <2>1, <2>2, RunSame
<1> QED
  BY <1>1, <1>2, <1>3, <1>4, <1>5, <1>6, <1>7, <1>8 DEF CycleNext, Stopped

-----------------------------------------------------------------------------
(* The invariant holds in every state of every run: what is proved below   *)
(* about ProbeTargets, runDueProbes and the loop follows from it.          *)
THEOREM CycleInvariant == CycleSpec => []CycleInv
<1>1. CycleInit => CycleInv
  BY CycleInitOK
<1>2. CycleInv /\ [CycleNext]_cycleVars => CycleInv'
  BY CycleKeeps
<1> QED
  BY <1>1, <1>2, PTL DEF CycleSpec

(* Every variable of the probe loop and of its runs keeps its type: no     *)
(* history counter, no age and no sample number leaves its range.          *)
THEOREM CycleTypes == CycleSpec => []CycleTypeOK
<1>1. CycleInv => CycleTypeOK
  <2> SUFFICES ASSUME CycleInv PROVE CycleTypeOK
    OBVIOUS
  <2>1. RunTypeOK
    BY DEF RunTypeOK, CycleInv, WorkersInv, PinInv, RoomInv
  <2> QED
    BY <2>1 DEF CycleTypeOK, CycleInv, LoopInv
<1> QED
  BY <1>1, CycleInvariant, PTL

(* probeTCPTarget, probePingTarget and probeHTTPTarget: a round carries    *)
(* each of its samples once and in order, however it ended.                *)
THEOREM RoundsAreComplete == CycleSpec => []RoundsComplete
<1>1. CycleInv => RoundsComplete
  <2> SUFFICES ASSUME CycleInv PROVE RoundsComplete
    OBVIOUS
  <2>1. Workers = DOMAIN batch /\ \A i \in DOMAIN batch : WorkerOK(batch[i], worker[i])
    BY DEF CycleInv, WorkersInv, Workers
  <2> QED
    BY <2>1 DEF RoundsComplete, WorkerOK
<1> QED
  BY <1>1, CycleInvariant, PTL

(* ProbeTargets and ProbeRunTimeout: never more than Slots targets at      *)
(* once, and the deadline of a run is enough for every attempt of every    *)
(* target, whatever the slots, unless DNS used up the grace.               *)
THEOREM DeadlinesLeaveRoom == CycleSpec => []DeadlineLeavesRoom
<1>1. CycleInv => DeadlineLeavesRoom
  BY DEF CycleInv, RoomInv, DeadlineLeavesRoom
<1> QED
  BY <1>1, CycleInvariant, PTL

(* safeProbeResolver: all connections of a probe to one name use the same, *)
(* safe answer, also with lookups that outlive the attempt that began them. *)
THEOREM AnswersStayPinned == CycleSpec => []ConnectionsPinned
<1>1. CycleInv => ConnectionsPinned
  <2> SUFFICES ASSUME CycleInv PROVE ConnectionsPinned
    OBVIOUS
  <2>1. \A d \in dialled :
          /\ SafeAnswer(d[2], d[3])
          /\ d[3] = IF d[2] \in Literals THEN LiteralAnswer(d[2]) ELSE cache[d[1]][d[2]]
    BY DEF CycleInv, PinInv
  <2>2. \A d, e \in dialled : d[1] = e[1] /\ d[2] = e[2] => d[3] = e[3]
    BY <2>1, Zenon
  <2>3. ASSUME NEW d \in dialled
        PROVE  /\ d[3] \subseteq Public \cup Loopback
               /\ d[3] \cap Loopback # {} => d[2] \in {"localhost", "loopback"}
    BY <2>1, RunAssumption DEF SafeAnswer
  <2> QED
    BY <2>2, <2>3 DEF ConnectionsPinned
<1> QED
  BY <1>1, CycleInvariant, PTL

(* runProbeLoop and Due: a configuration that one run affords is probed on *)
(* time, with every failed write costing at most one more run.             *)
THEOREM TargetsOnTime == CycleSpec => []OnTime
<1>1. CycleInv => OnTime
  <2> SUFFICES ASSUME CycleInv, LimitProbeTargetsForRun(targets) = targets,
                      NEW k \in DOMAIN targets, targets[k].id \in IDs
               PROVE  since[targets[k].id] =<
                        targets[k].interval + (2 + failures) * (ProbeRunTimeout(targets) + 1)
    BY DEF OnTime
  <2> DEFINE s == since[targets[k].id]
             m == Longest + 1
             p == failures * m
  <2>1. /\ Longest \in Nat /\ failures \in Nat /\ targets[k].interval \in Nat
        /\ s \in Nat /\ left \in Nat
    BY TimeFacts DEF CycleInv, RoomInv
  <2>2. TimeOK(k, s)
    BY DEF CycleInv, TimeInv
  <2>3. m \in Nat /\ Waited(k) = targets[k].interval + Longest + p
    BY <2>1 DEF Waited
  <2>4. (2 + failures) * (ProbeRunTimeout(targets) + 1) = (2 + failures) * m
    BY DEF Longest
  <2> HIDE DEF m
  <2>5. (2 + failures) * m = m + m + p /\ p \in Nat
    BY <2>1, <2>3
  <2> HIDE DEF p
  <2>6. s =< targets[k].interval + (m + m + p)
    <3>1. \/ s + left =< Waited(k) + Longest
          \/ s + left < targets[k].interval + Longest
          \/ s + 0 =< Waited(k)
          \/ s + 1 =< Waited(k)
      BY <2>2 DEF TimeOK
    <3> QED
      BY <2>1, <2>3, <2>5, <3>1 DEF m
  <2> QED
    BY <2>4, <2>5, <2>6
<1> QED
  BY <1>1, CycleInvariant, PTL

(* LimitProbeTargetsForRun, in due and again in ProbeTargets: what a run   *)
(* probes is within both budgets and its deadline within the loop's, and   *)
(* it is as long a beginning of the due targets as the budgets allow.      *)
THEOREM SelectionsSound == CycleSpec => SelectionSound
<1> DEFINE Sound == LET due == Due
                        n == Len(batch')
                    IN  /\ batch' = LimitProbeTargetsForRun(due)
                        /\ TotalCost(batch') =< NodeBudget /\ TotalSamples(batch') =< MaxSamples
                        /\ ProbeRunTimeout(batch') =< LoopTimeout
                        /\ n \in 1..Len(due)
                        /\ \A k \in 1..n :
                             /\ batch'[k].count \in 1..due[k].count
                             /\ batch'[k] = [due[k] EXCEPT !.count = batch'[k].count]
                             /\ batch'[k].count < due[k].count =>
                                  ~Affords(SubSeq(batch', 1, k), due[k])
                        /\ n < Len(due) => ~Affords(batch', due[n + 1])
<1>1. ASSUME CycleInv, CycleNext, loop = "wait", loop' = "probing"
      PROVE  Sound
  <2>1. StartRun
    BY <1>1 DEF CycleNext, Stop, StopLoop, Stopped, RunStep, schedulerVars, cycleVars, Tick,
                FinishRun, Persist
  <2>2. TargetsInv
    BY <1>1 DEF CycleInv
  <2>3. LimitProbeTargetsForRun(Due) # << >>
    BY <1>1, <2>1 DEF StartRun
  <2>4. batch' = LimitProbeTargetsForRun(Due)
    BY <2>1, <2>2, <2>3, StartKeeps
  <2> DEFINE sel == LimitProbeTargetsForRun(Due)
             due == Due
  <2>5. /\ due \in Seq(Target) /\ Len(due) =< MaxTargets /\ sel \in Seq(Target)
        /\ ProbeRunTimeout(sel) = IF sel = << >> THEN 0 ELSE TotalCost(sel) + RunGrace
    BY <2>2, Selected
  <2>6. /\ Len(sel) =< Len(due) /\ TotalCost(sel) =< NodeBudget
        /\ TotalSamples(sel) =< MaxSamples
    BY <2>5, LimitOK
  <2>7. BeginningOf(due, sel) /\ (Len(sel) < Len(due) => ~Affords(sel, due[Len(sel) + 1]))
    BY <2>5, LimitShape
  <2>8. sel # << >> /\ batch' = sel /\ sel = LimitProbeTargetsForRun(due)
    BY <2>3, <2>4
  <2> HIDE DEF sel, due
  <2>9. ProbeRunTimeout(sel) =< LoopTimeout
    <3>1. /\ TotalCost(sel) \in Nat /\ NodeBudget \in Nat /\ RunGrace \in Nat
          /\ LoopTimeout \in Nat /\ NodeBudget + RunGrace =< LoopTimeout
      BY <2>5, TotalsNat, BudgetAssumption, SchedulerAssumption
    <3> QED
      BY <2>5, <2>6, <2>8, <3>1
  <2>10. Len(sel) \in 1..Len(due)
    BY <2>5, <2>6, <2>8
  <2>11. \A k \in 1..Len(sel) :
           /\ sel[k].count \in 1..due[k].count
           /\ sel[k] = [due[k] EXCEPT !.count = sel[k].count]
           /\ sel[k].count < due[k].count => ~Affords(SubSeq(sel, 1, k), due[k])
    BY <2>7 DEF BeginningOf
  <2> QED
    BY <2>6, <2>7, <2>8, <2>9, <2>10, <2>11, Zenon DEF due
<1>2. CycleInv /\ [CycleNext]_cycleVars => [loop = "wait" /\ loop' = "probing" => Sound]_cycleVars
  BY <1>1
<1> QED
  BY <1>2, CycleInvariant, PTL DEF CycleSpec, SelectionSound

(* CheckRedirect: over a whole chain of redirects, once a request went     *)
(* over HTTPS every later one does, every URL is one that a configuration  *)
(* could name, and there are at most MaxRedirects requests.                *)
THEOREM ChainsStaySafe == CycleSpec => []RedirectChains
<1>1. CycleInv => RedirectChains
  <2> SUFFICES ASSUME CycleInv, NEW i \in Workers,
                      worker[i].pc \in {"dial", "check", "request"}
               PROVE  LET chain == Append(worker[i].via, worker[i].url)
                      IN  /\ Len(chain) =< MaxRedirects
                          /\ \A k \in DOMAIN chain : ParseHTTPProbeURL(chain[k])
                          /\ \A j, k \in DOMAIN chain :
                               j < k /\ chain[j].scheme = "https" => chain[k].scheme = "https"
    BY DEF RedirectChains
  <2> DEFINE via == worker[i].via
             url == worker[i].url
             chain == Append(via, url)
  <2>1. /\ via \in Seq(URL) /\ url \in URL /\ WorkerOK(batch[i], worker[i])
    BY WorkerFacts DEF CycleInv
  <2>2. ChainOK(via, url)
    BY <2>1 DEF WorkerOK, Asking
  <2> HIDE DEF via, url
  <2>3. /\ Len(via) \in Nat /\ Len(chain) = Len(via) + 1
        /\ DOMAIN chain = 1..(Len(via) + 1) /\ DOMAIN via = 1..Len(via)
        /\ chain[Len(via) + 1] = url
        /\ \A k \in 1..Len(via) : chain[k] = via[k]
    BY <2>1
  <2> HIDE DEF chain
  <2>4. Len(chain) =< MaxRedirects
    BY <2>2, <2>3, RunAssumption DEF ChainOK
  <2>5. ASSUME NEW k \in DOMAIN chain PROVE ParseHTTPProbeURL(chain[k])
    <3>1. k \in 1..Len(via) \/ k = Len(via) + 1
      BY <2>3
    <3> QED
      BY <2>2, <2>3, <3>1 DEF ChainOK
  <2>6. ASSUME NEW j \in DOMAIN chain, NEW k \in DOMAIN chain, j < k,
               chain[j].scheme = "https"
        PROVE  chain[k].scheme = "https"
    <3>1. j \in 1..Len(via) /\ (k \in 1..Len(via) \/ k = Len(via) + 1)
      BY <2>3, <2>6
    <3> QED
      BY <2>2, <2>3, <2>6, <3>1 DEF ChainOK
  <2> QED
    BY <2>4, <2>5, <2>6 DEF chain, via, url
<1> QED
  BY <1>1, CycleInvariant, PTL
=============================================================================
