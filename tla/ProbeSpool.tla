----------------------------- MODULE ProbeSpool -----------------------------
(***************************************************************************)
(* The durable probe-result spool of the agent (internal/agent/            *)
(* probe_spool.go): a pending directory of batches that wait for upload, a *)
(* bounded quarantine directory, the mutex that serialises the methods and *)
(* the one-slot channel that wakes the uploader.                           *)
(*                                                                         *)
(* A method call is a frame, "call", that exists while the mutex is held;  *)
(* its file system mutations are separate steps, so a crash or an I/O      *)
(* error can fall between any two of them.  A batch file is abstracted to  *)
(* its envelope metadata, the length of its body and whether               *)
(* readEnvelopeLocked accepts it.                                          *)
(***************************************************************************)
EXTENDS Integers, FiniteSets, FiniteSetsExt

CONSTANTS
    TTL,                 \* ProbeSpoolLimits.TTL, in clock ticks
    MaxPendingItems,     \* ProbeSpoolLimits.MaxPendingItems
    MaxPendingBytes,     \* ProbeSpoolLimits.MaxPendingBytes
    MaxItemBytes,        \* ProbeSpoolLimits.MaxItemBytes
    MaxQuarantineItems,  \* ProbeSpoolLimits.MaxQuarantineItems
    MaxQuarantineBytes,  \* ProbeSpoolLimits.MaxQuarantineBytes
    Radix,               \* base in which the attempt counter is written (10)
    BatchNames,          \* <created>-<random>.json: increasing positive integers
    TempNames,           \* .probe-spool-*.tmp: negative, "." sorts before digits
    BodySizes,           \* lengths of a batch without its attempt counter
    MaxAttempt,          \* largest attempt counter (2^32 - 1)
    Horizon,             \* bound: last clock tick
    MaxFaults            \* bound: I/O errors, corruptions and crashes together

Names == BatchNames \cup TempNames
Times == 0..Horizon
Attempts == 0..MaxAttempt

(* validateProbeSpoolLimits, and the bounds of the model.                  *)
ASSUME SpoolAssumption ==
    /\ TTL \in Nat \ {0}
    /\ MaxPendingItems \in Nat \ {0}
    /\ MaxPendingBytes \in Nat \ {0}
    /\ MaxItemBytes \in Nat \ {0}
    /\ MaxQuarantineItems \in Nat \ {0}
    /\ MaxQuarantineBytes \in Nat \ {0}
    /\ MaxItemBytes =< MaxPendingBytes
    /\ Radix \in Nat /\ Radix > 1
    /\ \A n \in BatchNames : n \in Int /\ n > 0
    /\ \A n \in TempNames : n \in Int /\ n < 0
    /\ \A b \in BodySizes : b \in Nat
    /\ MaxAttempt \in Nat \ {0}
    /\ Horizon \in Nat
    /\ MaxFaults \in Nat

VARIABLES
    clock,       \* the wall clock
    pending,     \* pending directory: name -> file
    quarantine,  \* quarantine directory: name -> size
    notify,      \* TRUE when the wake-up channel holds its one token
    call,        \* the method that holds s.mu, or NoCall
    issued,      \* history: batch names that have been put into pending
    damaged,     \* history: batches that readEnvelopeLocked refused once
    faults       \* how many faults have happened

spoolVars == <<clock, pending, quarantine, notify, call, issued, damaged, faults>>

(* probeSpoolEnvelope: "sound" stands for checksum, schema and JSON.       *)
File == [created : Times, attempt : Attempts, nextAt : Times,
         body : Nat, sound : BOOLEAN]

NoName == 0
NoFile == [created |-> 0, attempt |-> 0, nextAt |-> 0, body |-> 0, sound |-> FALSE]

Call == [op      : {"none", "enqueue", "next", "retry", "ack", "quarantine"},
         phase   : {"idle", "cleanup", "apply", "temp", "done"},
         now     : Times,
         todo    : SUBSET Names,
         name    : BatchNames \cup {NoName},
         temp    : TempNames \cup {NoName},
         file    : File,
         result  : {"none", "ok", "item", "empty", "error"}]

NoCall == [op |-> "none", phase |-> "idle", now |-> 0, todo |-> {},
           name |-> NoName, temp |-> NoName, file |-> NoFile, result |-> "none"]

-----------------------------------------------------------------------------
(* Files and directories.                                                  *)

Put(dir, n, v) == [m \in DOMAIN dir \cup {n} |-> IF m = n THEN v ELSE dir[m]]
Without(dir, n) == [m \in DOMAIN dir \ {n} |-> dir[m]]

(* The attempt counter is the one part of an envelope whose length a       *)
(* retry changes: one byte per digit.                                      *)
EncodedBytes(f) ==
    f.body + 1 + Cardinality({k \in 1..9 : Radix^k =< f.attempt})

Batches == BatchNames \cap DOMAIN pending

PendingBytes == MapThenSumSet(LAMBDA n : EncodedBytes(pending[n]), Batches)
QuarantineBytes(q) == MapThenSumSet(LAMBDA n : q[n], DOMAIN q)

Readable(n) ==
    /\ n \in Batches
    /\ pending[n].sound
    /\ EncodedBytes(pending[n]) =< MaxItemBytes

(* Mutant: A batch expires one tick early. *)
ExpiredEarly(n, now) == now - pending[n].created >= TTL - 1

Expired(n, now) == now - pending[n].created >= TTL

(* Mutant: Pruning forgets to count the incoming file. *)
FitsWithoutIncomingItem(q, kept, incoming) ==
    /\ Cardinality(kept) =< MaxQuarantineItems
    /\ MapThenSumSet(LAMBDA n : q[n], kept) + incoming =< MaxQuarantineBytes

(* Mutant: Pruning forgets the size of the incoming file. *)
FitsWithoutIncomingBytes(q, kept, incoming) ==
    /\ Cardinality(kept) + 1 =< MaxQuarantineItems
    /\ MapThenSumSet(LAMBDA n : q[n], kept) =< MaxQuarantineBytes

(* The files pruneQuarantineLocked keeps: the oldest ones, by name, go     *)
(* until one more file of the incoming size fits.                          *)
Fits(q, kept, incoming) ==
    /\ Cardinality(kept) + 1 =< MaxQuarantineItems
    /\ MapThenSumSet(LAMBDA n : q[n], kept) + incoming =< MaxQuarantineBytes

NewestOf(q) ==
    {kept \in SUBSET DOMAIN q : \A n \in kept, m \in DOMAIN q : m >= n => m \in kept}

PruneQuarantine(q, incoming) ==
    {kept \in NewestOf(q) :
        /\ Fits(q, kept, incoming)
        /\ \A other \in NewestOf(q) : Fits(q, other, incoming) => other \subseteq kept}

Removed(n) ==
    /\ pending' = Without(pending, n)
    /\ UNCHANGED quarantine

(* quarantinePathLocked: too large is removed, the rest is moved aside.    *)
QuarantinePath(n) ==
    LET size == EncodedBytes(pending[n])
    IN  IF size > MaxQuarantineBytes
        THEN Removed(n)
        ELSE /\ pending' = Without(pending, n)
             /\ \E kept \in PruneQuarantine(quarantine, size) :
                  quarantine' = Put(Restrict(quarantine, kept), n, size)

(* The part of quarantinePathLocked that an I/O error can leave behind:    *)
(* some of the files to prune are gone and the incoming one has not moved. *)
PrunedOnly(n) ==
    /\ EncodedBytes(pending[n]) =< MaxQuarantineBytes
    /\ \E kept \in NewestOf(quarantine) :
         /\ \E goal \in PruneQuarantine(quarantine, EncodedBytes(pending[n])) :
              goal \subseteq kept
         /\ quarantine' = Restrict(quarantine, kept)
    /\ UNCHANGED pending

Fault == faults < MaxFaults /\ faults' = faults + 1

Returned(result) == [call EXCEPT !.phase = "done", !.result = result]

-----------------------------------------------------------------------------
(* Method calls.  Begin takes s.mu, Return releases it.                    *)

Begin(op, now, name, file) ==
    /\ call.phase = "idle"
    /\ call' = [NoCall EXCEPT
                  !.op = op, !.now = now, !.name = name, !.file = file,
                  !.phase = IF op \in {"enqueue", "next"} THEN "cleanup" ELSE "apply",
                  !.todo = IF op \in {"enqueue", "next"} THEN DOMAIN pending ELSE {}]
    /\ UNCHANGED <<clock, pending, quarantine, notify, issued, damaged, faults>>

(* Enqueue reads the clock after it has the lock.                          *)
BeginEnqueue(body) ==
    /\ BatchNames \ issued # {}
    /\ Begin("enqueue", clock, NoName,
             [created |-> clock, attempt |-> 0, nextAt |-> clock,
              body |-> body, sound |-> TRUE])

(* The caller of Next read its clock earlier: "now" may be stale.          *)
BeginNext(now) == Begin("next", now, NoName, NoFile)

BeginRetry(n, attempt, nextAt) ==
    Begin("retry", 0, n, [NoFile EXCEPT !.attempt = attempt, !.nextAt = nextAt])

BeginAck(n) == Begin("ack", 0, n, NoFile)

BeginQuarantine(n) == Begin("quarantine", 0, n, NoFile)

Return ==
    /\ call.phase = "done"
    /\ call' = NoCall
    /\ UNCHANGED <<clock, pending, quarantine, notify, issued, damaged, faults>>

(* Mutant: The cleanup keeps an entry on its list after removing the file. *)
CleanupEntryTwice ==
    /\ call.phase = "cleanup"
    /\ \E n \in call.todo :
         /\ Readable(n) /\ Expired(n, call.now)
         /\ Removed(n)
    /\ UNCHANGED <<clock, notify, call, issued, damaged, faults>>

(* One entry of cleanupPendingLocked, in directory order.  A file that     *)
(* cannot be read now, because it is damaged or because the read itself    *)
(* failed, is quarantined; an expired one is removed.                      *)
CleanupEntry ==
    /\ call.phase = "cleanup"
    /\ \E n \in call.todo :
         /\ \A m \in call.todo : n =< m
         /\ call' = [call EXCEPT !.todo = @ \ {n}]
         /\ \/ /\ Readable(n) /\ ~Expired(n, call.now)
               /\ UNCHANGED <<pending, quarantine, damaged, faults>>
            \/ /\ Readable(n) /\ Expired(n, call.now)
               /\ Removed(n)
               /\ UNCHANGED <<damaged, faults>>
            \/ /\ IF Readable(n) THEN Fault ELSE UNCHANGED faults
               /\ QuarantinePath(n)
               /\ damaged' = damaged \cup ({n} \cap BatchNames)
    /\ UNCHANGED <<clock, notify, issued>>

Due(n) == Readable(n) /\ ~Expired(n, call.now) /\ pending[n].nextAt =< call.now

(* The second pass of Next skips the batches that are not due yet.         *)
Skipped(n) == Readable(n) /\ ~Due(n)

(* The entry that the cleanup, or the second pass of Next, is looking at.  *)
Visited ==
    {n \in call.todo : \A m \in call.todo : n =< m} \cup
    {n \in Batches : /\ call.op = "next" /\ call.todo = {}
                     /\ \A m \in Batches : m < n => Skipped(m)}

(* Both passes give up at the first error: before an entry was touched,    *)
(* after only the quarantine was pruned, or after the entry was disposed   *)
(* of and the directory sync failed.  One failing disk may be behind both  *)
(* the failed read of an entry and its failed quarantine.                  *)
CleanupError ==
    /\ call.phase = "cleanup"
    /\ Fault
    /\ call' = Returned("error")
    /\ \/ UNCHANGED <<pending, quarantine, damaged>>
       \/ \E n \in Visited :
            \/ /\ QuarantinePath(n) \/ PrunedOnly(n)
               /\ damaged' = damaged \cup ({n} \cap BatchNames)
            \/ /\ Readable(n) /\ Expired(n, call.now)
               /\ Removed(n)
               /\ UNCHANGED damaged
    /\ UNCHANGED <<clock, notify, issued>>

(* Next returns the first due batch in name order, or nothing.             *)
SelectDue ==
    /\ call.op = "next" /\ call.phase = "cleanup" /\ call.todo = {}
    /\ \/ \E n \in Batches :
            /\ Due(n)
            /\ \A m \in Batches : m < n => Skipped(m)
            /\ call' = [Returned("item") EXCEPT !.name = n, !.file = pending[n]]
       \/ /\ \A n \in Batches : Skipped(n)
          /\ call' = Returned("empty")
    /\ UNCHANGED <<clock, pending, quarantine, notify, issued, damaged, faults>>

(* A batch that has become unreadable since the cleanup is quarantined and *)
(* the pass goes on.                                                       *)
SelectUnreadable ==
    /\ call.op = "next" /\ call.phase = "cleanup" /\ call.todo = {}
    /\ \E n \in Batches :
         /\ \A m \in Batches : m < n => Skipped(m)
         /\ IF Readable(n) THEN Fault ELSE UNCHANGED faults
         /\ QuarantinePath(n)
         /\ damaged' = damaged \cup {n}
    /\ UNCHANGED <<clock, notify, call, issued>>

(* The first half of atomicWritePrivateFile: the content is in a temporary *)
(* file of the pending directory.  Its random name is new; which of the    *)
(* unused ones it is makes no difference to any reader of the directories. *)
WriteTemp(name, f) ==
    \E t \in TempNames \ (DOMAIN pending \cup DOMAIN quarantine) :
        /\ \A u \in TempNames \ (DOMAIN pending \cup DOMAIN quarantine) : u =< t
        /\ pending' = Put(pending, t, f)
        /\ call' = [call EXCEPT !.phase = "temp", !.temp = t, !.name = name,
                                !.file = f]

(* Mutant: Enqueue admits one batch too many. *)
HasCapacityOffByOne(f) ==
    /\ EncodedBytes(f) =< MaxItemBytes
    /\ Cardinality(Batches) =< MaxPendingItems
    /\ PendingBytes + EncodedBytes(f) =< MaxPendingBytes

HasCapacity(f) ==
    /\ EncodedBytes(f) =< MaxItemBytes
    /\ Cardinality(Batches) < MaxPendingItems
    /\ PendingBytes + EncodedBytes(f) =< MaxPendingBytes

(* The rest of Enqueue: every admission check, then the write starts.      *)
(* Names grow with the clock.                                              *)
Admit ==
    /\ call.op = "enqueue" /\ call.phase = "cleanup" /\ call.todo = {}
    /\ HasCapacity(call.file)
    /\ \E n \in BatchNames \ issued :
         /\ \A m \in BatchNames \ issued : n =< m
         /\ WriteTemp(n, call.file)
    /\ UNCHANGED <<clock, quarantine, notify, issued, damaged, faults>>

(* Enqueue refuses: over a limit, or too little free space on the disk.    *)
Refuse ==
    /\ call.op = "enqueue" /\ call.phase = "cleanup" /\ call.todo = {}
    /\ IF HasCapacity(call.file) THEN Fault ELSE UNCHANGED faults
    /\ call' = Returned("error")
    /\ UNCHANGED <<clock, pending, quarantine, notify, issued, damaged>>

(* ScheduleRetry re-reads the envelope, so it fails for a batch that is no *)
(* longer there; only attempt and nextAt of the file on disk change.       *)
Rescheduled == [pending[call.name] EXCEPT !.attempt = call.file.attempt,
                                          !.nextAt = call.file.nextAt]

(* Mutant: ScheduleRetry writes what the caller passed without reading the file again. *)
RescheduleWithoutReread ==
    /\ call.op = "retry" /\ call.phase = "apply"
    /\ WriteTemp(call.name, call.file)
    /\ UNCHANGED <<clock, quarantine, notify, issued, damaged, faults>>

CanReschedule ==
    /\ Readable(call.name)
    /\ EncodedBytes(Rescheduled) =< MaxItemBytes

Reschedule ==
    /\ call.op = "retry" /\ call.phase = "apply"
    /\ CanReschedule
    /\ WriteTemp(call.name, Rescheduled)
    /\ UNCHANGED <<clock, quarantine, notify, issued, damaged, faults>>

RescheduleError ==
    /\ call.op = "retry" /\ call.phase = "apply"
    /\ IF CanReschedule THEN Fault ELSE UNCHANGED faults
    /\ call' = Returned("error")
    /\ UNCHANGED <<clock, pending, quarantine, notify, issued, damaged>>

(* Mutant: Enqueue forgets to signal the uploader. *)
CommitWriteWithoutSignal ==
    /\ call.phase = "temp"
    /\ pending' = Put(Without(pending, call.temp), call.name, call.file)
    /\ issued' = issued \cup {call.name}
    /\ call' = Returned("ok")
    /\ UNCHANGED <<clock, quarantine, notify, damaged, faults>>

(* The second half of atomicWritePrivateFile: rename, sync the directory,  *)
(* and signal the uploader.  When only the sync fails the caller sees an   *)
(* error, nobody is signalled, and yet the file is in place.               *)
CommitWrite ==
    /\ call.phase = "temp"
    /\ pending' = Put(Without(pending, call.temp), call.name, call.file)
    /\ issued' = issued \cup {call.name}
    /\ \/ /\ call' = Returned("ok")
          /\ notify' = TRUE
          /\ UNCHANGED faults
       \/ /\ Fault
          /\ call' = Returned("error")
          /\ UNCHANGED notify
    /\ UNCHANGED <<clock, quarantine, damaged>>

(* Mutant: A failed write is reported as a success. *)
AbortWriteUnnoticed ==
    /\ call.phase = "temp"
    /\ Fault
    /\ pending' = Without(pending, call.temp)
    /\ call' = Returned("ok")
    /\ UNCHANGED <<clock, quarantine, notify, issued, damaged>>

(* Write, sync, close or rename of the temporary file failed.  Its removal *)
(* is attempted, and an error of the removal is ignored.                   *)
AbortWrite ==
    /\ call.phase = "temp"
    /\ Fault
    /\ pending' \in {pending, Without(pending, call.temp)}
    /\ call' = Returned("error")
    /\ UNCHANGED <<clock, quarantine, notify, issued, damaged>>

(* Mutant: Ack does not look at the error of the removal. *)
AckIgnoringErrors ==
    /\ call.op = "ack" /\ call.phase = "apply"
    /\ \/ Removed(call.name) /\ UNCHANGED faults
       \/ Fault /\ UNCHANGED <<pending, quarantine>>
    /\ call' = Returned("ok")
    /\ UNCHANGED <<clock, notify, issued, damaged>>

(* Ack: removeFileAndSync, which tolerates a missing file.                 *)
Ack ==
    /\ call.op = "ack" /\ call.phase = "apply"
    /\ \/ /\ Removed(call.name)
          /\ \/ call' = Returned("ok") /\ UNCHANGED faults
             \/ call' = Returned("error") /\ Fault
       \/ /\ call' = Returned("error") /\ Fault
          /\ UNCHANGED <<pending, quarantine>>
    /\ UNCHANGED <<clock, notify, issued, damaged>>

(* Quarantine: a missing file is not an error.                             *)
Quarantine ==
    /\ call.op = "quarantine" /\ call.phase = "apply"
    /\ IF call.name \in DOMAIN pending
       THEN \/ /\ QuarantinePath(call.name)
               /\ \/ call' = Returned("ok") /\ UNCHANGED faults
                  \/ call' = Returned("error") /\ Fault
            \/ /\ PrunedOnly(call.name) \/ UNCHANGED <<pending, quarantine>>
               /\ call' = Returned("error") /\ Fault
       ELSE /\ call' = Returned("ok")
            /\ UNCHANGED <<pending, quarantine, faults>>
    /\ UNCHANGED <<clock, notify, issued, damaged>>

SpoolStep ==
    \/ CleanupEntry \/ CleanupError
    \/ SelectDue \/ SelectUnreadable
    \/ Admit \/ Refuse
    \/ Reschedule \/ RescheduleError
    \/ CommitWrite \/ AbortWrite
    \/ Ack \/ Quarantine

-----------------------------------------------------------------------------
(* The environment of the spool.                                           *)

Tick ==
    /\ clock < Horizon
    /\ clock' = clock + 1
    /\ UNCHANGED <<pending, quarantine, notify, call, issued, damaged, faults>>

(* A file on disk loses its integrity, whatever the spool is doing.        *)
Corrupt(n) ==
    /\ Fault
    /\ Readable(n)
    /\ pending' = [pending EXCEPT ![n].sound = FALSE]
    /\ damaged' = damaged \cup {n}
    /\ UNCHANGED <<clock, quarantine, notify, call, issued>>

(* The process dies: the directories survive, a temporary file included.   *)
SpoolCrash ==
    /\ call' = NoCall
    /\ notify' = FALSE
    /\ UNCHANGED <<clock, pending, quarantine, issued, damaged>>

(* The uploader takes the wake-up token.                                   *)
TakeNotify ==
    /\ notify
    /\ notify' = FALSE
    /\ UNCHANGED <<clock, pending, quarantine, call, issued, damaged, faults>>

SpoolInit ==
    /\ clock = 0
    /\ pending = << >>
    /\ quarantine = << >>
    /\ notify = FALSE
    /\ call = NoCall
    /\ issued = {}
    /\ damaged = {}
    /\ faults = 0

(* The spool under arbitrary callers: any method, with any argument that   *)
(* names a batch, in any order; the callers of ProbeUploader are a special *)
(* case.                                                                   *)
SpoolNext ==
    \/ \E body \in BodySizes : BeginEnqueue(body)
    \/ \E now \in 0..clock : BeginNext(now)
    \/ \E n \in issued :
         \/ \E attempt \in Attempts, nextAt \in Times : BeginRetry(n, attempt, nextAt)
         \/ BeginAck(n)
         \/ BeginQuarantine(n)
         \/ Corrupt(n)
    \/ SpoolStep
    \/ Return
    \/ TakeNotify
    \/ Tick
    \/ SpoolCrash /\ Fault

SpoolSpec == SpoolInit /\ [][SpoolNext]_spoolVars

-----------------------------------------------------------------------------
(* Every variable of the spool stays in its type.                          *)
SpoolTypeOK ==
    /\ clock \in Times
    /\ DOMAIN pending \subseteq Names
    /\ pending \in [DOMAIN pending -> File]
    /\ DOMAIN quarantine \subseteq Names
    /\ quarantine \in [DOMAIN quarantine -> Nat]
    /\ notify \in BOOLEAN
    /\ call \in Call
    /\ issued \subseteq BatchNames
    /\ damaged \subseteq BatchNames
    /\ faults \in 0..MaxFaults

(* The number of pending batches never exceeds MaxPendingItems: the count  *)
(* that Enqueue checks is still right when its rename lands, whatever was  *)
(* retried, crashed or half written in between.                            *)
PendingItemsBounded == Cardinality(Batches) =< MaxPendingItems

(* The quarantine directory never holds more files than its limit, whatever*)
(* is moved into it: rejected batches, damaged ones, leftover temporaries. *)
QuarantineItemsBounded == Cardinality(DOMAIN quarantine) =< MaxQuarantineItems

(* Nor more bytes than its limit, although a retry can make a batch longer *)
(* than it was when it was admitted.                                       *)
QuarantineBytesBounded == QuarantineBytes(quarantine) =< MaxQuarantineBytes

(* What the mutex protects: a call works on files that are still there,    *)
(* and the name a write is about to publish is new or still pending.       *)
CallInv ==
    /\ Batches \subseteq issued
    /\ call.now =< clock
    /\ call.phase = "cleanup" => call.todo \subseteq DOMAIN pending
    /\ call.phase = "temp" =>
         /\ call.temp \in TempNames \cap DOMAIN pending
         /\ call.name \in BatchNames
         /\ \/ call.name \in Batches
            \/ call.name \notin issued /\ Cardinality(Batches) < MaxPendingItems

(* The inductive invariant of the spool.                                   *)
SpoolInv ==
    /\ SpoolTypeOK
    /\ CallInv
    /\ IsFiniteSet(DOMAIN pending) /\ IsFiniteSet(DOMAIN quarantine)
    /\ PendingItemsBounded
    /\ QuarantineItemsBounded

(* A batch that left the pending directory, acknowledged, quarantined or   *)
(* expired, never comes back: a ScheduleRetry that was decided before the  *)
(* batch was removed does not write it again.                              *)
NoResurrection ==
    [][\A n \in issued : n \notin DOMAIN pending => n \notin DOMAIN pending']_spoolVars

(* What the limits are documented to be: a bound on the pending bytes.     *)
PendingBytesBounded == PendingBytes =< MaxPendingBytes
=============================================================================
