------------------------------ MODULE ProbeRun ------------------------------
(***************************************************************************)
(* One run of the probes (ProbeTargets of internal/agent/probe.go): a      *)
(* goroutine per target, a semaphore that lets Slots of them work, and a   *)
(* context that ends at the run's deadline or when the agent stops.  TCP   *)
(* and ping targets resolve their host once; an HTTP target has a client   *)
(* whose resolver pins the first answer for a name, which its dials and    *)
(* its redirect checks share.                                              *)
(*                                                                         *)
(* A step takes no time unless it waits for the network; Tick is the       *)
(* passage of time while everybody waits.  Addresses stand for classes of  *)
(* IP addresses, hosts for the kinds of host the code tells apart.         *)
(***************************************************************************)
EXTENDS ProbeBudget, FiniteSets

CONSTANTS
    Slots,         \* maxConcurrentProbeTargets
    MaxRedirects,  \* maxHTTPProbeRedirects
    URLs,          \* the locations a server may redirect to
    Public,        \* addresses a probe may use
    Loopback,      \* loopback addresses
    Unsafe,        \* addresses no probe may use: link-local, metadata services, ...
    Answers        \* what a lookup may return: sets of addresses; {} is an error

VARIABLES
    batch,      \* the targets of the run
    ctx,        \* the run's context: "live", "expired" or "cancelled"
    left,       \* ticks until its deadline
    worker,     \* the goroutines, by position in the batch
    cache,      \* the resolver of each HTTP client: host -> pinned answer
    lingering,  \* <<worker, host>>: lookups whose attempt gave up on them
    dialled,    \* history: <<worker, host, answer>> of every connection attempt
    resolving   \* history: ticks in which everybody waited for DNS, up to RunGrace

runVars == <<batch, ctx, left, worker, cache, lingering, dialled, resolving>>

(* IP addresses written as such: public, loopback, and one never allowed.  *)
Literals == {"literal", "loopback", "unsafe"}
Hosts == {"name", "localhost"} \cup Literals
URL == [scheme : {"http", "https"}, host : Hosts, port : BOOLEAN]
NoURL == [scheme |-> "https", host |-> "name", port |-> FALSE]

ASSUME RunAssumption ==
    /\ Slots \in Nat \ {0} /\ MaxRedirects \in Nat \ {0} /\ URLs \subseteq URL
    /\ Public \cap Loopback = {} /\ Unsafe \cap (Public \cup Loopback) = {}
    /\ {} \in Answers

Sample == [seq : Nat, ok : BOOLEAN]      \* the error texts are left out

(* pc "check" and "dial" are the two places where an HTTP client resolves. *)
Worker == [pc      : {"new", "resolve", "loop", "attempt", "dial", "check", "request",
                      "done"},
           looking : BOOLEAN,            \* a lookup is under way
           samples : Seq(Sample),
           spent   : Nat,                \* ticks of the present attempt
           url     : URL,
           via     : Seq(URL)]           \* the requests that led to it in this attempt

NewWorker == [pc |-> "new", looking |-> FALSE, samples |-> << >>, spent |-> 0,
              url |-> NoURL, via |-> << >>]

Workers == DOMAIN worker
Active == {i \in Workers : worker[i].pc \notin {"new", "done"}}
AllDone == \A i \in Workers : worker[i].pc = "done"

Set(i, w) == worker' = [worker EXCEPT ![i] = w]

-----------------------------------------------------------------------------
(* Samples.                                                                *)

(* Mutant: the remaining samples are counted from the next one. *)
FilledFromNext(samples, count) ==
    samples \o [k \in 1..(count - Len(samples) - 1) |->
                    [seq |-> Len(samples) + 1 + k, ok |-> FALSE]]

(* failedProbeSamples, and the rest of a round whose context has ended.    *)
Filled(samples, count) ==
    samples \o [k \in 1..(count - Len(samples)) |-> [seq |-> Len(samples) + k, ok |-> FALSE]]

FailAll(i) ==
    Set(i, [worker[i] EXCEPT !.pc = "done", !.looking = FALSE,
                             !.samples = Filled(@, batch[i].count)])

Record(i, success) ==
    Set(i, [worker[i] EXCEPT
              !.pc = "loop", !.looking = FALSE, !.spent = 0, !.url = NoURL, !.via = << >>,
              !.samples = Append(@, [seq |-> Len(@) + 1, ok |-> success])])

(* measuredProbeSample.                                                    *)
Measured(i, latency) == latency =< batch[i].timeout

-----------------------------------------------------------------------------
(* Hosts and URLs.                                                         *)

(* Mutant: the addresses of an answer are not looked at. *)
AnyAnswer(host, answer) == answer # {}

(* resolveSafeProbeHostWithLookup on an address or on the answer of a      *)
(* lookup: every address must be safe.  Loopback is for localhost, which   *)
(* must be nothing else, and for an explicit loopback address.             *)
SafeAnswer(host, answer) ==
    /\ answer # {}
    /\ answer \subseteq (IF host \in {"localhost", "loopback"} THEN Loopback ELSE Public)

LiteralAnswer(host) ==
    CASE host = "loopback" -> Loopback
      [] host = "unsafe" -> Unsafe
      [] OTHER -> Public

(* parseHTTPProbeURL: plain HTTP only to localhost, to a loopback address  *)
(* or to an address with an explicit port.                                 *)
ParseHTTPProbeURL(url) ==
    \/ url.scheme = "https"
    \/ url.host \in {"localhost", "loopback"}
    \/ url.host \in Literals /\ url.port

(* Mutant: the scheme of the first request decides. *)
CheckRedirectByFirst(via, to) ==
    /\ Len(via) < MaxRedirects
    /\ ParseHTTPProbeURL(to)
    /\ via[1].scheme = "https" => to.scheme = "https"

(* CheckRedirect up to its lookup.  "via" are the requests made so far: it *)
(* counts them, and compares the new location with the last one only.      *)
CheckRedirect(via, to) ==
    /\ Len(via) < MaxRedirects
    /\ ParseHTTPProbeURL(to)
    /\ via[Len(via)].scheme = "https" => to.scheme = "https"

-----------------------------------------------------------------------------
(* The goroutine of a target.                                              *)

Supported(target) == target.type \in {"tcp", "ping", "http"}

ValidAddress(target) ==
    IF target.type = "http" THEN ParseHTTPProbeURL(target.address)
    ELSE target.address # "invalid"

(* The semaphore, and what is checked before the first attempt.            *)
Acquire(i) ==
    /\ worker[i].pc = "new"
    /\ Cardinality(Active) < Slots
    /\ IF ~Supported(batch[i]) \/ ~ValidAddress(batch[i])
       THEN FailAll(i)
       ELSE Set(i, [worker[i] EXCEPT
                        !.pc = IF batch[i].type = "http" THEN "loop" ELSE "resolve"])
    /\ UNCHANGED <<batch, ctx, left, cache, lingering, dialled, resolving>>

(* resolveSafeProbeHost for TCP and ping: an address is judged at once, a  *)
(* name is looked up.                                                      *)
Resolve(i) ==
    LET host == batch[i].address
    IN  /\ worker[i].pc = "resolve"
        /\ \/ host \notin Literals /\ ctx # "live" /\ FailAll(i)
           \/ \E answer \in IF host \in Literals THEN {LiteralAnswer(host)} ELSE Answers :
                IF SafeAnswer(host, answer)
                THEN Set(i, [worker[i] EXCEPT !.pc = "loop"])
                ELSE FailAll(i)
        /\ UNCHANGED <<batch, ctx, left, cache, lingering, dialled, resolving>>

(* Mutant: the end of the context leaves the select, not the function. *)
NextSampleGoesOn(i) ==
    /\ worker[i].pc = "loop"
    /\ \/ Len(worker[i].samples) = batch[i].count /\ FailAll(i)
       \/ Len(worker[i].samples) < batch[i].count /\ ctx # "live" /\ UNCHANGED worker
       \/ /\ Len(worker[i].samples) < batch[i].count /\ ctx = "live"
          /\ Set(i, IF batch[i].type = "http"
                    THEN [worker[i] EXCEPT !.pc = "dial", !.url = batch[i].address]
                    ELSE [worker[i] EXCEPT !.pc = "attempt"])
    /\ UNCHANGED <<batch, ctx, left, cache, lingering, dialled, resolving>>

(* The top of the loop over the samples.                                   *)
NextSample(i) ==
    /\ worker[i].pc = "loop"
    /\ \/ /\ Len(worker[i].samples) = batch[i].count \/ ctx # "live"
          /\ FailAll(i)
       \/ /\ Len(worker[i].samples) < batch[i].count /\ ctx = "live"
          /\ Set(i, IF batch[i].type = "http"
                    THEN [worker[i] EXCEPT !.pc = "dial", !.url = batch[i].address]
                    ELSE [worker[i] EXCEPT !.pc = "attempt"])
    /\ UNCHANGED <<batch, ctx, left, cache, lingering, dialled, resolving>>

(* A TCP connection or a ping ends.  Ping reports the reply time it read,  *)
(* which may be shorter than the time it took.                             *)
EndAttempt(i) ==
    /\ worker[i].pc = "attempt"
    /\ \/ \E latency \in IF batch[i].type = "ping" THEN 0..worker[i].spent
                         ELSE {worker[i].spent} :
             Record(i, Measured(i, latency))
       \/ Record(i, FALSE)
    /\ UNCHANGED <<batch, ctx, left, cache, lingering, dialled, resolving>>

(* The attempt's own timeout, or the end of the run's context.  A lookup   *)
(* of the HTTP transport may go on without the attempt that began it.      *)
AbortAttempt(i) ==
    /\ worker[i].pc \in {"attempt", "dial", "check", "request"}
    /\ ctx # "live" \/ worker[i].spent = ProbeAttemptBudget(batch[i])
    /\ Record(i, FALSE)
    /\ lingering' \in IF worker[i].looking
                      THEN {lingering, lingering \cup {<<i, worker[i].url.host>>}}
                      ELSE {lingering}
    /\ UNCHANGED <<batch, ctx, left, cache, dialled, resolving>>

-----------------------------------------------------------------------------
(* The HTTP client.                                                        *)

(* resolve has an answer: the redirect may be followed, or the connection  *)
(* is made.                                                                *)
Resolved(i, answer) ==
    IF worker[i].pc = "check"
    THEN /\ Set(i, [worker[i] EXCEPT !.pc = "dial", !.looking = FALSE])
         /\ UNCHANGED dialled
    ELSE /\ Set(i, [worker[i] EXCEPT !.pc = "request", !.looking = FALSE])
         /\ dialled' = dialled \cup {<<i, worker[i].url.host, answer>>}

(* safeProbeResolver.resolve: a literal, a pinned answer, or a lookup      *)
(* outside the lock.                                                       *)
ResolveHTTP(i) ==
    LET host == worker[i].url.host
    IN  /\ worker[i].pc \in {"dial", "check"} /\ ~worker[i].looking
        /\ ctx = "live"
        /\ \/ /\ host \in Literals /\ SafeAnswer(host, LiteralAnswer(host))
              /\ Resolved(i, LiteralAnswer(host))
           \/ /\ host \in Literals /\ ~SafeAnswer(host, LiteralAnswer(host))
              /\ Record(i, FALSE)
              /\ UNCHANGED dialled
           \/ /\ host \notin Literals /\ cache[i][host] # {}
              /\ Resolved(i, cache[i][host])
           \/ /\ host \notin Literals /\ cache[i][host] = {}
              /\ Set(i, [worker[i] EXCEPT !.looking = TRUE])
              /\ UNCHANGED dialled
        /\ UNCHANGED <<batch, ctx, left, cache, lingering, resolving>>

(* Mutant: the second look at the cache is missing. *)
PinnedByLast(i, host, answer) ==
    /\ SafeAnswer(host, answer)
    /\ cache' = [cache EXCEPT ![i][host] = answer]

(* The lookup is back: the answer that was stored first wins.              *)
Pinned(i, host, answer) ==
    /\ SafeAnswer(host, answer)
    /\ cache' = [cache EXCEPT ![i][host] = IF @ = {} THEN answer ELSE @]

LookupReturns(i) ==
    LET host == worker[i].url.host
    IN  /\ worker[i].looking
        /\ \E answer \in Answers :
             \/ Pinned(i, host, answer) /\ Resolved(i, cache'[i][host])
             \/ ~SafeAnswer(host, answer) /\ Record(i, FALSE) /\ UNCHANGED <<cache, dialled>>
        /\ UNCHANGED <<batch, ctx, left, lingering, resolving>>

LateLookupReturns ==
    /\ \E late \in lingering :
         /\ lingering' = lingering \ {late}
         /\ \/ \E answer \in Answers : Pinned(late[1], late[2], answer)
            \/ UNCHANGED cache
    /\ UNCHANGED <<batch, ctx, left, worker, dialled, resolving>>

(* The server answers, or the connection breaks.                           *)
Response(i) ==
    /\ worker[i].pc = "request"
    /\ \/ Record(i, Measured(i, worker[i].spent))
       \/ Record(i, FALSE)
       \/ \E to \in URLs :
            IF CheckRedirect(Append(worker[i].via, worker[i].url), to)
            THEN Set(i, [worker[i] EXCEPT !.pc = "check", !.url = to,
                                          !.via = Append(@, worker[i].url)])
            ELSE Record(i, FALSE)
    /\ UNCHANGED <<batch, ctx, left, cache, lingering, dialled, resolving>>

-----------------------------------------------------------------------------
WorkerStep(i) ==
    \/ Acquire(i) \/ Resolve(i) \/ NextSample(i) \/ EndAttempt(i) \/ AbortAttempt(i)
    \/ ResolveHTTP(i) \/ LookupReturns(i) \/ Response(i)

(* Who waits for the network, within its attempt's budget, or for a slot.  *)
Waits(i) ==
    \/ worker[i].pc = "done"
    \/ worker[i].pc = "new" /\ Cardinality(Active) >= Slots
    \/ worker[i].pc = "resolve" /\ batch[i].address \notin Literals
    \/ /\ worker[i].pc \in {"attempt", "request"} \/ worker[i].looking
       /\ worker[i].spent < ProbeAttemptBudget(batch[i])

(* One tick of a run; the context ends with the last one.                  *)
RunTick ==
    /\ ctx = "live" /\ ~AllDone
    /\ \A i \in Workers : Waits(i)
    /\ left' = left - 1
    /\ ctx' = IF left' = 0 THEN "expired" ELSE ctx
    /\ worker' = [i \in Workers |->
                    IF worker[i].pc \in {"attempt", "dial", "check", "request"}
                    THEN [worker[i] EXCEPT !.spent = @ + 1] ELSE worker[i]]
    /\ resolving' = IF resolving < RunGrace /\ \A i \in Active : worker[i].pc = "resolve"
                    THEN resolving + 1 ELSE resolving
    /\ UNCHANGED <<batch, cache, lingering, dialled>>

NoRun ==
    /\ batch = << >> /\ ctx = "live" /\ left = 0 /\ worker = << >> /\ cache = << >>
    /\ lingering = {} /\ dialled = {} /\ resolving = 0

(* ProbeTargets is called with a new context; it selects once more.        *)
BeginRun(targets, context) ==
    /\ batch' = LimitProbeTargetsForRun(targets)
    /\ ctx' = context
    /\ left' = ProbeRunTimeout(targets)
    /\ worker' = [i \in DOMAIN batch' |-> NewWorker]
    /\ cache' = [i \in DOMAIN batch' |-> [h \in Hosts \ Literals |-> {}]]
    /\ lingering' = {} /\ dialled' = {} /\ resolving' = 0

-----------------------------------------------------------------------------
(* Every variable of a run stays in its type.                              *)
RunTypeOK ==
    /\ ctx \in {"live", "expired", "cancelled"}
    /\ left \in Nat
    /\ worker \in [DOMAIN batch -> Worker]
    /\ cache \in [DOMAIN batch -> [Hosts \ Literals -> Answers]]
    /\ lingering \subseteq (DOMAIN batch) \X (Hosts \ Literals)
    /\ dialled \subseteq (DOMAIN batch) \X Hosts \X SUBSET (Public \cup Loopback)
    /\ resolving \in Nat

(* However a round ended (all samples taken, setup failed, the deadline or *)
(* a stop in the middle), it carries each of its samples exactly once and  *)
(* in order, and an unfinished round never carries more.                   *)
RoundsComplete ==
    \A i \in Workers :
        /\ \A k \in DOMAIN worker[i].samples : worker[i].samples[k].seq = k
        /\ Len(worker[i].samples) =< batch[i].count
        /\ worker[i].pc = "done" => Len(worker[i].samples) = batch[i].count

(* No more than Slots targets are probed at once, and the deadline, which  *)
(* is computed as if they ran one after the other, never cuts a probe of   *)
(* theirs short: unless DNS, which no budget covers, used up the grace.    *)
DeadlineLeavesRoom ==
    /\ Cardinality(Active) =< Slots
    /\ ctx = "expired" /\ ~AllDone => resolving >= RunGrace

(* Within one HTTP probe every connection to a name uses the same answer,  *)
(* that of the first lookup that was stored, whatever later or overtaken   *)
(* lookups of timed-out attempts return; and no connection, that of a      *)
(* redirect to an address included, is made to an unsafe one.              *)
ConnectionsPinned ==
    /\ \A d, e \in dialled : d[1] = e[1] /\ d[2] = e[2] => d[3] = e[3]
    /\ \A d \in dialled :
         /\ d[3] \subseteq Public \cup Loopback
         /\ d[3] \cap Loopback # {} => d[2] \in {"localhost", "loopback"}

(* However a chain of redirects began and wherever it led, once one of its *)
(* requests went over HTTPS every later one does, although CheckRedirect   *)
(* looks at one hop only; each of them is a URL that a configuration could *)
(* name, so the check after the last response can never fail; and they are *)
(* at most MaxRedirects.                                                   *)
RedirectChains ==
    \A i \in Workers :
        worker[i].pc \in {"dial", "check", "request"} =>
            LET chain == Append(worker[i].via, worker[i].url)
            IN  /\ Len(chain) =< MaxRedirects
                /\ \A k \in DOMAIN chain : ParseHTTPProbeURL(chain[k])
                /\ \A j, k \in DOMAIN chain :
                     j < k /\ chain[j].scheme = "https" => chain[k].scheme = "https"
=============================================================================
