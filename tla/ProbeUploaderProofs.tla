------------------------ MODULE ProbeUploaderProofs ------------------------
(***************************************************************************)
(* Proofs about the upload pipeline: its invariant, that no persisted      *)
(* batch is lost silently, and that it implements DurableOutbox.           *)
(***************************************************************************)
EXTENDS ProbeUploader, ProbeSpoolProofs

(* What a step of the spool can do to the batches, files and calls aside.  *)

SameAges == \A m \in Batches \cap Batches' : pending'[m].created = pending[m].created

Quiet == SameAges /\ Batches' = Batches /\ UNCHANGED <<issued, damaged>>

Dropped(n) ==
    /\ SameAges /\ Batches' = Batches \ {n} /\ UNCHANGED <<issued, damaged>>
    /\ \/ n \in accepted \cup refused \cup damaged
       \/ clock - pending[n].created >= TTL

Spoiled(n) ==
    /\ SameAges /\ Batches' \in {Batches, Batches \ {n}}
    /\ damaged' = damaged \cup {n} /\ UNCHANGED issued

Published(n) ==
    /\ SameAges /\ Batches' = Batches \cup {n} /\ UNCHANGED damaged
    /\ issued' = issued \cup {n}
    /\ pending'[n].created \in 0..clock

Effect ==
    \/ Quiet
    \/ \E n \in Batches : Dropped(n) \/ Spoiled(n)
    \/ \E n \in BatchNames \ issued : Published(n)

(* No such step loses a persisted batch.                                   *)
LEMMA EffectNoLoss ==
    ASSUME PipelineInv, Effect, UNCHANGED <<persisted, accepted, refused, clock>>
    PROVE  AgeInv' /\ NoSilentLoss'
<1>1. /\ DOMAIN persisted \subseteq issued /\ issued \subseteq BatchNames
      /\ persisted \in [DOMAIN persisted -> Times]
      /\ AgeInv /\ NoSilentLoss
  BY DEF PipelineInv, AgeInv, TypeOK, SpoolTypeOK
<1>2. /\ issued \subseteq issued' /\ damaged \subseteq damaged' /\ SameAges
      /\ Batches' \subseteq Batches \cup (BatchNames \ issued)
      /\ \A n \in Batches : \/ n \in Batches'
                            \/ n \in accepted \cup refused \cup damaged'
                            \/ clock - pending[n].created >= TTL
  BY DEF Effect, Quiet, Dropped, Spoiled, Published
<1>3. AgeInv'
  BY <1>1, <1>2 DEF AgeInv, SameAges
<1>4. NoSilentLoss'
  BY <1>1, <1>2 DEF NoSilentLoss, AgeInv, Batches
<1> QED
  BY <1>3, <1>4

(* A method returns: its frame still belongs to the same caller.           *)
LEMMA ReturnedCaller ==
    ASSUME TypeOK, CallerInv, call.phase # "idle", NEW r \in {"ok", "empty", "error"},
           call' = Returned(r), UNCHANGED <<up, prober>>, issued \subseteq issued'
    PROVE  /\ CallerInv'
           /\ call'.phase = "done" /\ call'.result = r
           /\ call'.op = call.op /\ call'.name = call.name /\ call'.file = call.file
<1>1. call \in Call
  BY DEF TypeOK, SpoolTypeOK
<1>2. /\ call'.phase = "done" /\ call'.result = r /\ call'.now = call.now
      /\ call'.op = call.op /\ call'.name = call.name /\ call'.file = call.file
  BY <1>1 DEF Returned, Call
<1> QED
  BY <1>2 DEF CallerInv

(* The uploader's knowledge does not depend on the directories.            *)
LEMMA AnswerSame ==
    ASSUME AnswerInv, UNCHANGED <<up, stray, accepted, refused, clock>>,
           issued \subseteq issued'
    PROVE  AnswerInv'
  BY DEF AnswerInv

(* A batch that is too old at the time of the call is too old now.         *)
LEMMA ExpiredNow ==
    ASSUME SpoolInv, NEW n \in DOMAIN pending, Expired(n, call.now)
    PROVE  clock - pending[n].created >= TTL
<1>1. PendingOK /\ RestOK /\ CallInv
  BY SpoolInvSplit
<1>2. pending[n] \in File
  BY <1>1 DEF PendingOK
<1>3. /\ clock \in Int /\ call.now \in Int /\ call.now =< clock
      /\ pending[n].created \in Int
  BY <1>1, <1>2, SpoolAssumption DEF RestOK, CallInv, Call, Times, File
<1> QED
  BY <1>3, SpoolAssumption DEF Expired

(* A file that is quarantined because it cannot be read.                   *)
LEMMA QuarantineSpoils ==
    ASSUME SpoolInv, NEW n \in DOMAIN pending, QuarantinePath(n),
           damaged' = damaged \cup ({n} \cap BatchNames), UNCHANGED issued
    PROVE  Quiet \/ (n \in Batches /\ Spoiled(n))
<1>1. PendingOK /\ QuarantineOK
  BY SpoolInvSplit
<1>2. /\ Batches' = Batches \ {n}
      /\ \A m \in DOMAIN pending' : pending'[m] = pending[m]
  BY <1>1, QuarantinePathOK
<1>3. SameAges
  BY <1>2 DEF SameAges, Batches
<1>4. CASE n \in BatchNames
  BY <1>2, <1>3, <1>4 DEF Spoiled, Batches
<1>5. CASE n \notin BatchNames
  <2>1. Batches' = Batches /\ damaged' = damaged
    BY <1>2, <1>5 DEF Batches
  <2> QED
    BY <1>3, <2>1 DEF Quiet
<1> QED
  BY <1>4, <1>5

(* A file that is removed because it is too old.                           *)
LEMMA ExpiryDrops ==
    ASSUME SpoolInv, NEW n \in DOMAIN pending, Expired(n, call.now), Removed(n),
           UNCHANGED <<issued, damaged>>
    PROVE  Quiet \/ (n \in Batches /\ Dropped(n))
<1>1. PendingOK
  BY SpoolInvSplit
<1>2. /\ Batches' = Batches \ {n}
      /\ \A m \in DOMAIN pending' : pending'[m] = pending[m]
  BY <1>1, PendingShrinks DEF Removed
<1>3. SameAges
  BY <1>2 DEF SameAges, Batches
<1>4. CASE n \in BatchNames
  BY <1>2, <1>3, <1>4, ExpiredNow DEF Dropped, Batches
<1>5. CASE n \notin BatchNames
  <2>1. Batches' = Batches
    BY <1>2, <1>5 DEF Batches
  <2> QED
    BY <1>3, <2>1 DEF Quiet
<1> QED
  BY <1>4, <1>5

-----------------------------------------------------------------------------
(* The file system steps: their effect, and the frame they leave.          *)

(* The cleanup of one entry drops an expired batch or spoils one.          *)
LEMMA CleanupEntryEffect ==
    ASSUME PipelineInv, CleanupEntry, UNCHANGED uploadVars
    PROVE  Effect /\ CallerInv' /\ WriteInv'
<1>1. SpoolInv /\ RestOK /\ CallInv /\ CallerInv
  BY SpoolInvSplit DEF PipelineInv
<1>2. PICK n \in call.todo :
        /\ call' = [call EXCEPT !.todo = @ \ {n}]
        /\ \/ UNCHANGED <<pending, quarantine, damaged, faults>>
           \/ Expired(n, call.now) /\ Removed(n) /\ UNCHANGED damaged
           \/ QuarantinePath(n) /\ damaged' = damaged \cup ({n} \cap BatchNames)
  BY DEF CleanupEntry
<1>3. call.phase = "cleanup" /\ UNCHANGED <<clock, issued>>
  BY DEF CleanupEntry
<1>4. n \in DOMAIN pending
  BY <1>1, <1>3 DEF CallInv
<1>5. /\ call'.phase = "cleanup" /\ call'.op = call.op /\ call'.result = call.result
      /\ call'.now = call.now /\ call'.name = call.name /\ call'.file = call.file
  BY <1>1, <1>2, <1>3 DEF RestOK, Call
<1>6. CallerInv' /\ WriteInv'
  BY <1>1, <1>3, <1>5 DEF CallerInv, WriteInv, uploadVars
<1>7. Effect
  <2>1. CASE UNCHANGED <<pending, quarantine, damaged, faults>>
    BY <1>3, <2>1 DEF Effect, Quiet, SameAges, Batches
  <2>2. CASE Expired(n, call.now) /\ Removed(n) /\ UNCHANGED damaged
    BY <1>1, <1>3, <1>4, <2>2, ExpiryDrops DEF Effect
  <2>3. CASE QuarantinePath(n) /\ damaged' = damaged \cup ({n} \cap BatchNames)
    BY <1>1, <1>3, <1>4, <2>3, QuarantineSpoils DEF Effect
  <2> QED
    BY <1>2, <2>1, <2>2, <2>3
<1> QED
  BY <1>6, <1>7

(* A cleanup that fails does no more than that.                            *)
LEMMA CleanupErrorEffect ==
    ASSUME PipelineInv, CleanupError, UNCHANGED uploadVars
    PROVE  Effect /\ CallerInv' /\ WriteInv'
<1>1. TypeOK /\ SpoolInv /\ CallInv /\ CallerInv
  BY SpoolInvSplit DEF PipelineInv
<1>2. /\ call.phase = "cleanup" /\ call' = Returned("error")
      /\ UNCHANGED <<clock, issued>>
  BY DEF CleanupError
<1>3. CallerInv' /\ call'.phase = "done" /\ call'.result = "error"
  BY <1>1, <1>2, ReturnedCaller DEF uploadVars
<1>4. WriteInv'
  BY <1>3 DEF WriteInv
<1>5. Effect
  <2>1. CASE UNCHANGED <<pending, quarantine, damaged>>
    BY <1>2, <2>1 DEF Effect, Quiet, SameAges, Batches
  <2>2. ASSUME NEW n \in Visited, QuarantinePath(n),
               damaged' = damaged \cup ({n} \cap BatchNames)
        PROVE  Effect
    BY <1>1, <1>2, <2>2, QuarantineSpoils, VisitedPending DEF Effect
  <2>3. ASSUME NEW n \in Visited, PrunedOnly(n),
               damaged' = damaged \cup ({n} \cap BatchNames)
        PROVE  Effect
    <3>1. pending' = pending /\ n \in DOMAIN pending
      BY <1>1, <1>2, <2>3, VisitedPending DEF PrunedOnly
    <3>2. SameAges /\ Batches' = Batches
      BY <3>1 DEF SameAges, Batches
    <3>3. CASE n \in BatchNames
      BY <1>2, <2>3, <3>1, <3>2, <3>3 DEF Effect, Spoiled, Batches
    <3>4. CASE n \notin BatchNames
      BY <1>2, <2>3, <3>2, <3>4 DEF Effect, Quiet
    <3> QED
      BY <3>3, <3>4
  <2>4. ASSUME NEW n \in Visited, Expired(n, call.now), Removed(n), UNCHANGED damaged
        PROVE  Effect
    BY <1>1, <1>2, <2>4, ExpiryDrops, VisitedPending DEF Effect
  <2> QED
    BY <2>1, <2>2, <2>3, <2>4 DEF CleanupError
<1> QED
  BY <1>3, <1>4, <1>5

(* Returning a batch from Next has no effect on the held ones.             *)
LEMMA SelectDueEffect ==
    ASSUME PipelineInv, SelectDue, UNCHANGED uploadVars
    PROVE  Effect /\ CallerInv' /\ WriteInv'
<1>1. TypeOK /\ RestOK /\ CallInv /\ CallerInv
  BY SpoolInvSplit DEF PipelineInv
<1>2. /\ call.op = "next" /\ call.phase = "cleanup"
      /\ UNCHANGED <<pending, issued, damaged>>
  BY DEF SelectDue
<1>3. Effect
  BY <1>2 DEF Effect, Quiet, SameAges, Batches
<1>4. CASE call' = Returned("empty")
  <2>1. CallerInv' /\ call'.phase = "done" /\ call'.result = "empty"
    BY <1>1, <1>2, <1>4, ReturnedCaller DEF uploadVars
  <2> QED
    BY <1>3, <2>1 DEF WriteInv
<1>5. ASSUME NEW n \in Batches,
             call' = [Returned("item") EXCEPT !.name = n, !.file = pending[n]]
      PROVE  CallerInv' /\ WriteInv'
  <2>1. /\ call'.phase = "done" /\ call'.op = "next" /\ call'.name = n
        /\ call'.result = "item"
    BY <1>1, <1>2, <1>5 DEF Returned, RestOK, Call
  <2>2. n \in issued'
    BY <1>1, <1>2 DEF CallInv
  <2> QED
    BY <1>1, <1>2, <2>1, <2>2 DEF CallerInv, WriteInv, uploadVars
<1> QED
  BY <1>3, <1>4, <1>5 DEF SelectDue

(* The second pass of Next may spoil a batch.                              *)
LEMMA SelectUnreadableEffect ==
    ASSUME PipelineInv, SelectUnreadable, UNCHANGED uploadVars
    PROVE  Effect /\ CallerInv' /\ WriteInv'
<1>1. SpoolInv /\ CallerInv
  BY DEF PipelineInv
<1>2. PICK n \in Batches : QuarantinePath(n) /\ damaged' = damaged \cup {n}
  BY DEF SelectUnreadable
<1>3. /\ call.op = "next" /\ call.phase = "cleanup"
      /\ UNCHANGED <<clock, call, issued>>
  BY DEF SelectUnreadable
<1>4. n \in DOMAIN pending /\ damaged' = damaged \cup ({n} \cap BatchNames)
  BY <1>2 DEF Batches
<1>5. Effect
  BY <1>1, <1>2, <1>3, <1>4, QuarantineSpoils DEF Effect
<1>6. CallerInv' /\ WriteInv'
  BY <1>1, <1>3 DEF CallerInv, WriteInv, uploadVars
<1> QED
  BY <1>5, <1>6

(* A refused method has no effect.                                         *)
LEMMA ErrorEffect ==
    ASSUME PipelineInv, Refuse \/ RescheduleError, UNCHANGED uploadVars
    PROVE  Effect /\ CallerInv' /\ WriteInv'
<1>1. TypeOK /\ CallerInv
  BY DEF PipelineInv
<1>2. /\ call.phase # "idle" /\ call' = Returned("error")
      /\ UNCHANGED <<pending, issued, damaged>>
  BY DEF Refuse, RescheduleError
<1>3. CallerInv' /\ call'.phase = "done" /\ call'.result = "error"
  BY <1>1, <1>2, ReturnedCaller DEF uploadVars
<1> QED
  BY <1>2, <1>3 DEF Effect, Quiet, SameAges, Batches, WriteInv

(* A temporary file is invisible to everyone but the open call.            *)
LEMMA WriteTempQuiet ==
    ASSUME SpoolInv, NEW n, NEW f, WriteTemp(n, f), UNCHANGED <<issued, damaged>>
    PROVE  /\ Effect /\ Batches' = Batches
           /\ \A m \in Batches : pending'[m] = pending[m]
           /\ call'.phase = "temp" /\ call'.op = call.op /\ call'.now = call.now
           /\ call'.name = n /\ call'.file = f /\ call'.result = call.result
<1>1. PICK t \in TempNames :
        /\ pending' = Put(pending, t, f)
        /\ call' = [call EXCEPT !.phase = "temp", !.temp = t, !.name = n, !.file = f]
  BY DEF WriteTemp
<1>2. t \notin BatchNames
  BY SpoolAssumption
<1>3. Batches' = Batches /\ \A m \in Batches : pending'[m] = pending[m]
  BY <1>1, <1>2 DEF Batches, Put
<1>4. RestOK
  BY SpoolInvSplit
<1>5. /\ call'.phase = "temp" /\ call'.op = call.op /\ call'.now = call.now
      /\ call'.name = n /\ call'.file = f /\ call'.result = call.result
  BY <1>1, <1>4 DEF RestOK, Call
<1> QED
  BY <1>3, <1>5 DEF Effect, Quiet, SameAges

(* Admitting a batch has no effect before its rename.                      *)
LEMMA AdmitEffect ==
    ASSUME PipelineInv, Admit, UNCHANGED uploadVars
    PROVE  Effect /\ CallerInv' /\ WriteInv'
<1>1. SpoolInv /\ CallerInv
  BY DEF PipelineInv
<1>2. PICK n \in BatchNames \ issued : WriteTemp(n, call.file)
  BY DEF Admit
<1>3. /\ call.op = "enqueue" /\ call.phase = "cleanup"
      /\ UNCHANGED <<issued, damaged>>
  BY DEF Admit
<1>4. /\ Effect
      /\ call'.phase = "temp" /\ call'.op = call.op /\ call'.now = call.now
      /\ call'.name = n /\ call'.file = call.file /\ call'.result = call.result
  BY <1>1, <1>2, <1>3, WriteTempQuiet
<1>5. CallerInv' /\ WriteInv'
  BY <1>1, <1>2, <1>3, <1>4 DEF CallerInv, WriteInv, uploadVars
<1> QED
  BY <1>4, <1>5

(* Nor has a retry; what it will write has the age of what it replaces.    *)
LEMMA RescheduleEffect ==
    ASSUME PipelineInv, Reschedule, UNCHANGED uploadVars
    PROVE  Effect /\ CallerInv' /\ WriteInv'
<1>1. SpoolInv /\ CallerInv /\ PendingOK
  BY SpoolInvSplit DEF PipelineInv
<1>2. /\ WriteTemp(call.name, Rescheduled)
      /\ call.op = "retry" /\ call.phase = "apply" /\ call.name \in Batches
      /\ UNCHANGED <<issued, damaged>>
  BY DEF Reschedule, CanReschedule, Readable
<1>3. pending[call.name] \in File
  BY <1>1, <1>2 DEF PendingOK, Batches
<1>4. Rescheduled.created = pending[call.name].created
  BY <1>3 DEF Rescheduled, File
<1>5. /\ Effect /\ Batches' = Batches
      /\ \A m \in Batches : pending'[m] = pending[m]
      /\ call'.phase = "temp" /\ call'.op = call.op /\ call'.now = call.now
      /\ call'.name = call.name /\ call'.file = Rescheduled /\ call'.result = call.result
  BY <1>1, <1>2, WriteTempQuiet
<1>6. call'.file.created = pending'[call'.name].created /\ call'.name \in Batches'
  BY <1>2, <1>4, <1>5
<1>7. CallerInv' /\ WriteInv'
  BY <1>1, <1>2, <1>5, <1>6 DEF CallerInv, WriteInv, uploadVars
<1> QED
  BY <1>5, <1>7

(* The rename publishes a new batch, or rewrites one at the same age.      *)
LEMMA CommitWriteEffect ==
    ASSUME PipelineInv, CommitWrite, UNCHANGED uploadVars
    PROVE  Effect /\ CallerInv' /\ WriteInv'
<1>1. TypeOK /\ SpoolInv /\ CallerInv /\ WriteInv /\ RestOK /\ CallInv
  BY SpoolInvSplit DEF PipelineInv
<1>2. /\ call.phase = "temp" /\ call.temp \in TempNames /\ call.name \in BatchNames
      /\ call.file \in File /\ call.now \in Nat /\ clock \in Nat /\ call.now =< clock
  BY <1>1, SpoolAssumption DEF CommitWrite, CallInv, RestOK, Call, Times
<1>3. call.temp \notin BatchNames
  BY <1>2, SpoolAssumption
<1>4. PICK r \in {"ok", "error"} : call' = Returned(r)
  BY DEF CommitWrite
<1>5. /\ pending' = Put(Without(pending, call.temp), call.name, call.file)
      /\ issued' = issued \cup {call.name} /\ UNCHANGED <<clock, damaged>>
  BY DEF CommitWrite
<1>6. /\ Batches' = Batches \cup {call.name}
      /\ pending'[call.name] = call.file
      /\ \A m \in Batches : m # call.name => pending'[m] = pending[m]
  <2> DEFINE P == Without(pending, call.temp)
  <2>1. /\ BatchNames \cap DOMAIN P = Batches
        /\ \A m \in Batches : P[m] = pending[m]
    BY <1>3 DEF Without, Batches
  <2>2. pending' = Put(P, call.name, call.file)
    BY <1>5
  <2> HIDE DEF P
  <2>3. /\ DOMAIN pending' = DOMAIN P \cup {call.name}
        /\ pending'[call.name] = call.file
        /\ \A m \in DOMAIN P : m # call.name => pending'[m] = P[m]
    BY <2>2 DEF Put
  <2> QED
    BY <1>2, <2>1, <2>3 DEF Batches
<1>7. /\ CallerInv'
      /\ call'.phase = "done" /\ call'.result = r
      /\ call'.op = call.op /\ call'.name = call.name /\ call'.file = call.file
  BY <1>1, <1>2, <1>4, <1>5, ReturnedCaller DEF uploadVars
<1>8. WriteInv'
  BY <1>6, <1>7 DEF WriteInv
<1>9. Effect
  <2>1. CASE call.op = "enqueue"
    <3>1. call.name \notin issued /\ call.file.created = call.now
      BY <1>1, <1>2, <2>1 DEF WriteInv, CallerInv
    <3>2. call.name \notin Batches
      BY <1>1, <3>1 DEF CallInv
    <3>3. SameAges
      BY <1>6, <3>2 DEF SameAges
    <3>4. pending'[call.name].created \in 0..clock
      BY <1>2, <1>6, <3>1
    <3>5. Published(call.name)
      BY <1>5, <1>6, <3>3, <3>4 DEF Published
    <3> QED
      BY <1>2, <3>1, <3>5 DEF Effect
  <2>2. CASE call.op # "enqueue"
    <3>1. /\ call.name \in Batches
          /\ call.file.created = pending[call.name].created
      BY <1>1, <1>2, <2>2 DEF WriteInv
    <3>2. SameAges
      BY <1>6, <3>1 DEF SameAges
    <3>3. Batches' = Batches /\ issued' = issued
      BY <1>1, <1>5, <1>6, <3>1 DEF CallInv
    <3> QED
      BY <1>5, <3>2, <3>3 DEF Effect, Quiet
  <2> QED
    BY <2>1, <2>2
<1> QED
  BY <1>7, <1>8, <1>9

(* A failed write has no effect.                                           *)
LEMMA AbortWriteEffect ==
    ASSUME PipelineInv, AbortWrite, UNCHANGED uploadVars
    PROVE  Effect /\ CallerInv' /\ WriteInv'
<1>1. TypeOK /\ CallerInv /\ CallInv /\ PendingOK
  BY SpoolInvSplit DEF PipelineInv
<1>2. /\ call.phase = "temp" /\ call' = Returned("error")
      /\ pending' = pending \/ pending' = Without(pending, call.temp)
      /\ UNCHANGED <<issued, damaged>>
  BY DEF AbortWrite
<1>3. call.temp \notin BatchNames
  BY <1>1, <1>2, SpoolAssumption DEF CallInv
<1>4. Batches' = Batches /\ SameAges
  <2>1. CASE pending' = pending
    BY <2>1 DEF Batches, SameAges
  <2>2. CASE pending' = Without(pending, call.temp)
    <3>1. /\ Batches' = Batches \ {call.temp}
          /\ \A m \in DOMAIN pending' : pending'[m] = pending[m]
      BY <1>1, <2>2, PendingShrinks
    <3> QED
      BY <1>3, <3>1 DEF Batches, SameAges
  <2> QED
    BY <1>2, <2>1, <2>2
<1>5. CallerInv' /\ call'.phase = "done" /\ call'.result = "error"
  BY <1>1, <1>2, ReturnedCaller DEF uploadVars
<1> QED
  BY <1>2, <1>4, <1>5 DEF Effect, Quiet, WriteInv

(* The uploader removes a batch only after its answer.                     *)
LEMMA AckEffect ==
    ASSUME PipelineInv, Ack, UNCHANGED uploadVars
    PROVE  Effect /\ CallerInv' /\ WriteInv'
<1>1. TypeOK /\ CallerInv /\ AnswerInv /\ PendingOK
  BY SpoolInvSplit DEF PipelineInv
<1>2. /\ call.op = "ack" /\ call.phase = "apply"
      /\ Removed(call.name) \/ pending' = pending
      /\ UNCHANGED <<clock, issued, damaged>>
  BY DEF Ack
<1>3. PICK r \in {"ok", "error"} : call' = Returned(r)
  BY DEF Ack
<1>4. call.name \in accepted
  BY <1>1, <1>2 DEF CallerInv, AnswerInv
<1>5. CallerInv' /\ call'.phase = "done" /\ call'.op = "ack"
  BY <1>1, <1>2, <1>3, ReturnedCaller DEF uploadVars
<1>6. CASE pending' = pending
  BY <1>2, <1>5, <1>6 DEF Effect, Quiet, SameAges, Batches, WriteInv
<1>7. CASE Removed(call.name)
  <2>1. /\ Batches' = Batches \ {call.name}
        /\ \A m \in DOMAIN pending' : pending'[m] = pending[m]
    BY <1>1, <1>7, PendingShrinks DEF Removed
  <2>2. SameAges
    BY <2>1 DEF SameAges, Batches
  <2>3. Effect
    BY <1>2, <1>4, <2>1, <2>2 DEF Effect, Quiet, Dropped
  <2> QED
    BY <1>5, <2>3 DEF WriteInv
<1> QED
  BY <1>2, <1>6, <1>7

(* The uploader quarantines a batch only after its rejection.              *)
LEMMA QuarantineEffect ==
    ASSUME PipelineInv, Quarantine, UNCHANGED uploadVars
    PROVE  Effect /\ CallerInv' /\ WriteInv'
<1>1. TypeOK /\ CallerInv /\ AnswerInv /\ PendingOK /\ QuarantineOK
  BY SpoolInvSplit DEF PipelineInv
<1>2. /\ call.op = "quarantine" /\ call.phase = "apply"
      /\ \/ call.name \in DOMAIN pending /\ QuarantinePath(call.name)
         \/ pending' = pending
      /\ UNCHANGED <<clock, issued, damaged>>
  BY DEF Quarantine, PrunedOnly
<1>3. PICK r \in {"ok", "error"} : call' = Returned(r)
  BY DEF Quarantine
<1>4. call.name \in refused
  BY <1>1, <1>2 DEF CallerInv, AnswerInv
<1>5. CallerInv' /\ call'.phase = "done" /\ call'.op = "quarantine"
  BY <1>1, <1>2, <1>3, ReturnedCaller DEF uploadVars
<1>6. CASE pending' = pending
  BY <1>2, <1>5, <1>6 DEF Effect, Quiet, SameAges, Batches, WriteInv
<1>7. CASE call.name \in DOMAIN pending /\ QuarantinePath(call.name)
  <2>1. /\ Batches' = Batches \ {call.name}
        /\ \A m \in DOMAIN pending' : pending'[m] = pending[m]
    BY <1>1, <1>7, QuarantinePathOK
  <2>2. SameAges
    BY <2>1 DEF SameAges, Batches
  <2>3. Effect
    BY <1>2, <1>4, <2>1, <2>2 DEF Effect, Quiet, Dropped
  <2> QED
    BY <1>5, <2>3 DEF WriteInv
<1> QED
  BY <1>2, <1>6, <1>7

(* Every file system step has one of the four effects, whoever called it.  *)
LEMMA DiskStepEffect ==
    ASSUME PipelineInv, DiskStep
    PROVE  Effect /\ CallerInv' /\ WriteInv'
  BY CleanupEntryEffect, CleanupErrorEffect, SelectDueEffect, SelectUnreadableEffect,
     AdmitEffect, ErrorEffect, RescheduleEffect, CommitWriteEffect, AbortWriteEffect,
     AckEffect, QuarantineEffect DEF DiskStep, SpoolStep

-----------------------------------------------------------------------------
(* The pipeline's invariant is kept by every step.                         *)

(* A file system step keeps the pipeline invariant.                        *)
LEMMA DiskStepKeeps ==
    ASSUME PipelineInv, DiskStep
    PROVE  PipelineInv'
<1>1. SpoolInv'
  BY SpoolStepKeeps DEF PipelineInv, DiskStep
<1>2. /\ UNCHANGED <<up, prober, ctx, stray, accepted, refused, answered, persisted>>
      /\ UNCHANGED clock
  BY DEF DiskStep, uploadVars, SpoolStep, CleanupEntry, CleanupError, SelectDue,
         SelectUnreadable, Admit, Refuse, Reschedule, RescheduleError, CommitWrite,
         AbortWrite, Ack, Quarantine
<1>3. Effect /\ CallerInv' /\ WriteInv'
  BY DiskStepEffect
<1>4. issued \subseteq issued'
  BY <1>3 DEF Effect, Quiet, Dropped, Spoiled, Published
<1>5. TypeOK'
  BY <1>1, <1>2 DEF PipelineInv, TypeOK, SpoolInv
<1>6. AnswerInv'
  BY <1>2, <1>4, AnswerSame DEF PipelineInv
<1>7. AgeInv' /\ NoSilentLoss'
  BY <1>2, <1>3, EffectNoLoss
<1> QED
  BY <1>1, <1>3, <1>5, <1>6, <1>7 DEF PipelineInv

(* Steps that leave the directories and the open call alone.               *)
LEMMA SpoolSame ==
    ASSUME SpoolInv, UNCHANGED spoolVars
    PROVE  SpoolInv' /\ Batches' = Batches
  BY SpoolNextKeeps DEF spoolVars, Batches

(* A step of a worker outside the spool keeps the pipeline invariant.      *)
LEMMA IdleSpoolKeeps ==
    ASSUME PipelineInv, UNCHANGED <<spoolVars, persisted>>,
           accepted \subseteq accepted', refused \subseteq refused',
           accepted' \subseteq BatchNames, refused' \subseteq BatchNames,
           stray' \subseteq issued, answered' \subseteq BatchNames, up' \in Uploader,
           prober' \in {"idle", "probing", "enqueue", "stopped"},
           ctx' \in {"running", "cancelled"},
           prober' = prober \/ call.op # "enqueue", AnswerInv',
           (up'.pc = up.pc /\ up'.name = up.name) \/ (call.op \in {"none", "enqueue"})
    PROVE  PipelineInv'
<1>1. SpoolInv' /\ Batches' = Batches
  BY SpoolSame DEF PipelineInv
<1>2. UNCHANGED <<clock, pending, quarantine, notify, call, issued, damaged, faults>>
  BY DEF spoolVars
<1>3. TypeOK'
  BY <1>1, <1>2 DEF PipelineInv, TypeOK, SpoolInv, SpoolTypeOK
<1>4. CallerInv'
  BY <1>2 DEF PipelineInv, CallerInv, TypeOK, SpoolTypeOK, Call
<1>5. WriteInv' /\ AgeInv'
  BY <1>1, <1>2 DEF PipelineInv, WriteInv, AgeInv
<1>6. NoSilentLoss'
  BY <1>2 DEF PipelineInv, NoSilentLoss
<1> QED
  BY <1>1, <1>3, <1>4, <1>5, <1>6 DEF PipelineInv

(* The uploader between two batches.                                       *)
LEMMA UploaderAtTyped ==
    ASSUME NEW pc \in {"start", "next", "ack", "quarantine", "rejected", "wait",
                       "failed", "stopped"}
    PROVE  /\ UploaderAt(pc) \in Uploader
           /\ UploaderAt(pc).pc = pc /\ UploaderAt(pc).now = 0
           /\ UploaderAt(pc).resp = "none"
<1>1. 0 \in Times /\ 0 \in Attempts
  BY SpoolAssumption DEF Times, Attempts
<1> QED
  BY <1>1 DEF UploaderAt, StartedUploader, Uploader

(* While the uploader is not inside a method, it does not hold the mutex.  *)
LEMMA OutsideSpool ==
    ASSUME PipelineInv, up.pc \notin {"next", "ack", "retry", "quarantine"}
    PROVE  call.op \in {"none", "enqueue"}
  BY DEF PipelineInv, CallerInv, TypeOK, SpoolTypeOK, Call

(* The uploader moves between two batches.                                 *)
LEMMA ParkKeeps ==
    ASSUME PipelineInv, up.pc \notin {"next", "ack", "retry", "quarantine"},
           NEW pc \in {"start", "rejected", "wait", "failed", "stopped"},
           up' = UploaderAt(pc), stray' \subseteq issued,
           UNCHANGED <<spoolVars, prober, ctx, accepted, refused, answered, persisted>>
    PROVE  PipelineInv'
<1>1. up' \in Uploader /\ up'.pc = pc /\ up'.now = 0
  BY UploaderAtTyped
<1>2. clock \in Nat /\ UNCHANGED <<clock, issued>>
  BY SpoolAssumption DEF PipelineInv, TypeOK, SpoolTypeOK, Times, spoolVars
<1>3. AnswerInv'
  BY <1>1, <1>2 DEF AnswerInv
<1>4. call.op \in {"none", "enqueue"}
  BY OutsideSpool
<1>5. /\ accepted' \subseteq BatchNames /\ refused' \subseteq BatchNames
      /\ answered' \subseteq BatchNames
      /\ prober' \in {"idle", "probing", "enqueue", "stopped"}
      /\ ctx' \in {"running", "cancelled"}
  BY DEF PipelineInv, TypeOK
<1> QED
  BY <1>1, <1>3, <1>4, <1>5, IdleSpoolKeeps

(* The steps of the probe loop outside the spool.                          *)
LEMMA ProberKeeps ==
    ASSUME PipelineInv, ProberRun \/ ProberDiscard \/ ProberStop
    PROVE  PipelineInv'
<1>1. /\ UNCHANGED <<spoolVars, persisted>>
      /\ UNCHANGED <<up, ctx, stray, accepted, refused, answered>>
      /\ prober' \in {"idle", "probing", "enqueue", "stopped"}
      /\ prober # "enqueue"
  BY DEF ProberRun, ProberDiscard, ProberStop
<1>2. call.op # "enqueue"
  BY <1>1 DEF PipelineInv, CallerInv
<1>3. UNCHANGED <<clock, issued>>
  BY <1>1 DEF spoolVars
<1>4. AnswerInv'
  BY <1>1, <1>3, AnswerSame DEF PipelineInv
<1> QED
  BY <1>1, <1>2, <1>4, IdleSpoolKeeps DEF PipelineInv, TypeOK, AnswerInv

(* The top of the upload loop.                                             *)
LEMMA UploadOneKeeps ==
    ASSUME PipelineInv, UploadOne
    PROVE  PipelineInv'
<1>1. /\ up.pc = "start"
      /\ UNCHANGED <<spoolVars, prober, ctx, stray, accepted, refused, answered, persisted>>
      /\ stray' \subseteq issued
  BY DEF UploadOne, PipelineInv, AnswerInv
<1>2. CASE up' = UploaderAt("stopped")
  BY <1>1, <1>2, ParkKeeps
<1>3. CASE up' = [UploaderAt("next") EXCEPT !.now = clock]
  <2>1. UNCHANGED <<clock, issued>> /\ clock \in Times
    BY <1>1 DEF spoolVars, PipelineInv, TypeOK, SpoolTypeOK
  <2>2. up' \in Uploader /\ up'.pc = "next" /\ up'.now = clock /\ up'.resp = "none"
    BY <1>3, <2>1, UploaderAtTyped DEF Uploader
  <2>3. AnswerInv'
    BY <1>1, <2>1, <2>2, SpoolAssumption DEF AnswerInv, Times
  <2>4. call.op \in {"none", "enqueue"}
    BY <1>1, OutsideSpool
  <2> QED
    BY <1>1, <2>2, <2>3, <2>4, IdleSpoolKeeps DEF PipelineInv, TypeOK
<1> QED
  BY <1>2, <1>3 DEF UploadOne

(* The uploader leaves a waiting, failed or rejected state.                *)
LEMMA ParkedKeeps ==
    ASSUME PipelineInv, OnRejected \/ PollTimer \/ RestartRun \/ CancelledWait
    PROVE  PipelineInv'
<1>1. /\ up.pc \notin {"next", "ack", "retry", "quarantine"}
      /\ up' = UploaderAt("start") \/ up' = UploaderAt("stopped")
      /\ UNCHANGED <<spoolVars, prober, ctx, stray, accepted, refused, answered, persisted>>
  BY DEF OnRejected, PollTimer, RestartRun, CancelledWait
<1>2. stray' \subseteq issued
  BY <1>1 DEF PipelineInv, AnswerInv
<1> QED
  BY <1>1, <1>2, ParkKeeps

(* A request without an answer.                                            *)
LEMMA TransportFailsKeeps ==
    ASSUME PipelineInv, TransportFails
    PROVE  PipelineInv'
<1>1. /\ up.pc = "post" /\ up \in Uploader
      /\ UNCHANGED <<spoolVars, prober, ctx, accepted, refused, answered, persisted>>
      /\ stray' \subseteq issued
  BY DEF TransportFails, PipelineInv, AnswerInv, TypeOK
<1>2. CASE up' = UploaderAt("stopped")
  BY <1>1, <1>2, ParkKeeps
<1>3. CASE up' = [up EXCEPT !.pc = "retry", !.resp = "none"]
  <2>1. UNCHANGED <<clock, issued>>
    BY <1>1 DEF spoolVars
  <2>2. up' \in Uploader /\ up'.pc = "retry" /\ up'.now = up.now /\ up'.name = up.name
    BY <1>1, <1>3 DEF Uploader
  <2>3. AnswerInv'
    BY <1>1, <2>1, <2>2 DEF PipelineInv, AnswerInv
  <2>4. call.op \in {"none", "enqueue"}
    BY <1>1, OutsideSpool
  <2> QED
    BY <1>1, <2>2, <2>3, <2>4, IdleSpoolKeeps DEF PipelineInv, TypeOK
<1> QED
  BY <1>2, <1>3 DEF TransportFails

(* An answer: what the uploader does next is justified by what the Controller did.*)
LEMMA AnswerArrivesKeeps ==
    ASSUME PipelineInv, AnswerArrives
    PROVE  PipelineInv'
<1>1. /\ up.pc = "post" /\ up.resp # "none" /\ up \in Uploader
      /\ UNCHANGED <<spoolVars, prober, ctx, stray, accepted, refused, persisted>>
      /\ stray' \subseteq issued
  BY DEF AnswerArrives, PipelineInv, AnswerInv, TypeOK
<1>2. UNCHANGED <<clock, issued>> /\ clock \in Nat /\ up.name \in issued
  BY <1>1, SpoolAssumption DEF spoolVars, PipelineInv, TypeOK, SpoolTypeOK, Times, AnswerInv
<1>3. up.name \in BatchNames
  BY <1>2 DEF PipelineInv, TypeOK, SpoolTypeOK
<1>4. answered' \subseteq BatchNames
  BY <1>3 DEF AnswerArrives, PipelineInv, TypeOK
<1>5. up' \in Uploader /\ AnswerInv'
  <2>1. CASE up.resp = "2xx"
    <3>1. up' = [UploaderAt("ack") EXCEPT !.name = up.name]
      BY <2>1 DEF AnswerArrives
    <3>2. up' \in Uploader /\ up'.pc = "ack" /\ up'.now = 0 /\ up'.name = up.name
      BY <1>3, <3>1, UploaderAtTyped DEF Uploader
    <3> QED
      BY <1>1, <1>2, <2>1, <3>2 DEF PipelineInv, AnswerInv
  <2>2. CASE up.resp = "retryable"
    <3>1. up' = [up EXCEPT !.pc = "retry"]
      BY <2>2 DEF AnswerArrives
    <3>2. up' \in Uploader /\ up'.pc = "retry" /\ up'.now = up.now /\ up'.name = up.name
      BY <1>1, <3>1 DEF Uploader
    <3> QED
      BY <1>1, <1>2, <3>2 DEF PipelineInv, AnswerInv
  <2>3. CASE up.resp \in {"stale", "terminal"}
    <3>1. up' = [UploaderAt("quarantine") EXCEPT !.name = up.name]
      BY <2>3 DEF AnswerArrives
    <3>2. up' \in Uploader /\ up'.pc = "quarantine" /\ up'.now = 0 /\ up'.name = up.name
      BY <1>3, <3>1, UploaderAtTyped DEF Uploader
    <3> QED
      BY <1>1, <1>2, <2>3, <3>2 DEF PipelineInv, AnswerInv
  <2> QED
    BY <1>1, <2>1, <2>2, <2>3 DEF Uploader
<1>6. call.op \in {"none", "enqueue"}
  BY <1>1, OutsideSpool
<1> QED
  BY <1>1, <1>4, <1>5, <1>6, IdleSpoolKeeps DEF PipelineInv, TypeOK

(* The Controller and late requests.                                       *)
LEMMA ControllerKeeps ==
    ASSUME PipelineInv, ControllerStep
    PROVE  PipelineInv'
<1>1. UNCHANGED <<spoolVars, prober, ctx, answered, persisted>> /\ UNCHANGED <<clock, issued>>
  BY DEF ControllerStep, ControllerAccepts, ControllerBusy, ControllerRefuses, StrayArrives,
         spoolVars
<1>2. issued \subseteq BatchNames /\ up \in Uploader /\ TypeOK
  BY DEF PipelineInv, TypeOK, SpoolTypeOK
<1>3. CASE StrayArrives
  <2>1. /\ up' = up /\ refused' = refused /\ stray' \subseteq stray
        /\ accepted \subseteq accepted' /\ accepted' \subseteq accepted \cup stray
    BY <1>3 DEF StrayArrives
  <2>2. AnswerInv' /\ stray' \subseteq issued /\ accepted' \subseteq BatchNames
    BY <1>1, <1>2, <2>1 DEF PipelineInv, AnswerInv, TypeOK
  <2> QED
    BY <1>1, <1>2, <2>1, <2>2, IdleSpoolKeeps DEF TypeOK
<1>4. CASE ControllerAccepts \/ ControllerBusy \/ ControllerRefuses
  <2>1. PICK resp \in {"2xx", "retryable", "stale", "terminal"} :
          /\ up.pc = "post" /\ up' = [up EXCEPT !.resp = resp]
          /\ UNCHANGED stray
          /\ accepted' \in {accepted, accepted \cup {up.name}}
          /\ refused' \in {refused, refused \cup {up.name}}
          /\ resp = "2xx" => up.name \in accepted'
          /\ resp \in {"stale", "terminal"} => up.name \in refused'
    BY <1>4 DEF ControllerAccepts, ControllerBusy, ControllerRefuses
  <2>2. /\ up' \in Uploader /\ up'.pc = "post" /\ up'.now = up.now /\ up'.name = up.name
        /\ up'.resp = resp
    BY <1>2, <2>1 DEF Uploader
  <2>3. up.name \in issued /\ stray' \subseteq issued
    BY <2>1 DEF PipelineInv, AnswerInv
  <2>4. AnswerInv'
    BY <1>1, <2>1, <2>2, <2>3 DEF PipelineInv, AnswerInv
  <2>5. accepted' \subseteq BatchNames /\ refused' \subseteq BatchNames
    BY <1>2, <2>1, <2>3 DEF TypeOK
  <2>6. accepted \subseteq accepted' /\ refused \subseteq refused'
    BY <2>1
  <2> QED
    BY <1>1, <1>2, <2>1, <2>2, <2>3, <2>4, <2>5, <2>6, IdleSpoolKeeps DEF TypeOK
<1> QED
  BY <1>3, <1>4 DEF ControllerStep

(* A caller takes the mutex.                                               *)
LEMMA BeginPipe ==
    ASSUME PipelineInv, SpoolInv',
           NEW op \in {"enqueue", "next", "ack", "retry", "quarantine"},
           NEW now, NEW name, NEW file, Begin(op, now, name, file),
           UNCHANGED <<up, ctx, stray, accepted, refused, answered, persisted>>,
           prober' \in {"idle", "probing", "enqueue", "stopped"},
           op = "enqueue" => (prober' = "enqueue" /\ file.created = now),
           op # "enqueue" => up.pc = op,
           op \in {"ack", "retry", "quarantine"} => name = up.name
    PROVE  PipelineInv'
<1>1. UNCHANGED <<clock, pending, issued, damaged>>
  BY DEF Begin
<1>2. /\ call'.op = op /\ call'.phase \in {"cleanup", "apply"} /\ call'.now = now
      /\ call'.name = name /\ call'.file = file /\ call'.result = "none"
  BY DEF Begin, NoCall
<1>3. CallerInv' /\ WriteInv'
  BY <1>1, <1>2 DEF CallerInv, WriteInv
<1>4. AnswerInv'
  BY <1>1, AnswerSame DEF PipelineInv
<1>5. Effect
  BY <1>1 DEF Effect, Quiet, SameAges, Batches
<1>6. AgeInv' /\ NoSilentLoss'
  BY <1>1, <1>5, EffectNoLoss
<1>7. TypeOK'
  BY DEF PipelineInv, TypeOK, SpoolInv
<1> QED
  BY <1>3, <1>4, <1>6, <1>7 DEF PipelineInv

(* The probe loop enters Enqueue.                                          *)
LEMMA ProberEnqueueKeeps ==
    ASSUME PipelineInv, ProberEnqueue
    PROVE  PipelineInv'
<1>1. PICK body \in BodySizes : BeginEnqueue(body)
  BY DEF ProberEnqueue
<1>2. SpoolInv'
  BY <1>1, CallKeeps DEF PipelineInv
<1> DEFINE file == [created |-> clock, attempt |-> 0, nextAt |-> clock,
                    body |-> body, sound |-> TRUE]
<1>3. Begin("enqueue", clock, NoName, file) /\ file.created = clock
  BY <1>1 DEF BeginEnqueue
<1>4. /\ prober' = "enqueue"
      /\ UNCHANGED <<up, ctx, stray, accepted, refused, answered, persisted>>
  BY DEF ProberEnqueue
<1> HIDE DEF file
<1> QED
  BY <1>2, <1>3, <1>4, BeginPipe

(* The retry gate that scheduleRetry asks for is a time, its counter too.  *)
LEMMA RetryTyped ==
    ASSUME up \in Uploader, NEW d \in RetryDelays(NextAttempt(up.attempt), up.resp),
           up.now + d =< Horizon
    PROVE  NextAttempt(up.attempt) \in Attempts /\ up.now + d \in Times
<1>1. up.now \in Nat /\ up.attempt \in Attempts
  BY SpoolAssumption DEF Uploader, Times
<1>2. d \in Nat
  BY BackoffAssumption DEF RetryDelays
<1>3. NextAttempt(up.attempt) \in Attempts
  BY <1>1, SpoolAssumption DEF NextAttempt, Attempts
<1> QED
  BY <1>1, <1>2, <1>3, SpoolAssumption DEF Times

(* The uploader enters a method of the spool.                              *)
LEMMA UploaderCallsKeep ==
    ASSUME PipelineInv, CallNext \/ CallAck \/ CallQuarantine \/ CallScheduleRetry
    PROVE  PipelineInv'
<1>1. /\ SpoolInv /\ up \in Uploader /\ up.now \in 0..clock /\ prober' = prober
      /\ prober \in {"idle", "probing", "enqueue", "stopped"}
      /\ UNCHANGED <<up, ctx, stray, accepted, refused, answered, persisted>>
  BY SpoolAssumption DEF PipelineInv, TypeOK, SpoolTypeOK, AnswerInv, Uploader, Times,
     CallNext, CallAck, CallQuarantine, CallScheduleRetry, uploadVars
<1>2. CASE CallNext
  <2>1. BeginNext(up.now) /\ up.pc = "next"
    BY <1>2 DEF CallNext
  <2>2. SpoolInv'
    BY <1>1, <2>1, CallKeeps
  <2>3. Begin("next", up.now, NoName, NoFile)
    BY <2>1 DEF BeginNext
  <2> QED
    BY <1>1, <2>1, <2>2, <2>3, BeginPipe
<1>3. CASE CallAck
  <2>1. BeginAck(up.name) /\ up.pc = "ack" /\ up.name \in issued
    BY <1>3 DEF CallAck, PipelineInv, AnswerInv
  <2>2. SpoolInv'
    BY <1>1, <2>1, CallKeeps
  <2>3. Begin("ack", 0, up.name, NoFile)
    BY <2>1 DEF BeginAck
  <2> QED
    BY <1>1, <2>1, <2>2, <2>3, BeginPipe
<1>4. CASE CallQuarantine
  <2>1. BeginQuarantine(up.name) /\ up.pc = "quarantine" /\ up.name \in issued
    BY <1>4 DEF CallQuarantine, PipelineInv, AnswerInv
  <2>2. SpoolInv'
    BY <1>1, <2>1, CallKeeps
  <2>3. Begin("quarantine", 0, up.name, NoFile)
    BY <2>1 DEF BeginQuarantine
  <2> QED
    BY <1>1, <2>1, <2>2, <2>3, BeginPipe
<1>5. CASE CallScheduleRetry
  <2>1. up.pc = "retry" /\ up.name \in issued
    BY <1>5 DEF CallScheduleRetry, PipelineInv, AnswerInv
  <2>2. PICK d \in RetryDelays(NextAttempt(up.attempt), up.resp) :
          /\ up.now + d =< Horizon
          /\ BeginRetry(up.name, NextAttempt(up.attempt), up.now + d)
    BY <1>5 DEF CallScheduleRetry
  <2>3. NextAttempt(up.attempt) \in Attempts /\ up.now + d \in Times
    BY <1>1, <2>2, RetryTyped
  <2>4. SpoolInv'
    BY <1>1, <2>1, <2>2, <2>3, CallKeeps
  <2>5. PICK file : Begin("retry", 0, up.name, file)
    BY <2>2 DEF BeginRetry
  <2> QED
    BY <1>1, <2>1, <2>4, <2>5, BeginPipe
<1> QED
  BY <1>2, <1>3, <1>4, <1>5

(* The mutex is released, by a return or by the end of the process.        *)
LEMMA ReleasePipe ==
    ASSUME PipelineInv, SpoolInv', call' = NoCall,
           UNCHANGED <<clock, pending, issued, damaged, accepted, refused, persisted>>,
           answered' \subseteq answered, up' \in Uploader, AnswerInv', stray' \subseteq BatchNames,
           prober' \in {"idle", "probing", "enqueue", "stopped"},
           ctx' \in {"running", "cancelled"}
    PROVE  PipelineInv'
<1>1. CallerInv' /\ WriteInv'
  BY DEF CallerInv, WriteInv, NoCall
<1>2. Effect
  BY DEF Effect, Quiet, SameAges, Batches
<1>3. AgeInv' /\ NoSilentLoss'
  BY <1>2, EffectNoLoss
<1>4. TypeOK'
  BY DEF PipelineInv, TypeOK, SpoolInv
<1> QED
  BY <1>1, <1>3, <1>4 DEF PipelineInv

(* An uploader that has no batch in hand knows nothing that could be wrong.*)
LEMMA NoBatchAnswer ==
    ASSUME PipelineInv, UNCHANGED <<clock, issued>>, stray' \subseteq issued,
           NEW pc \in {"start", "rejected", "wait", "failed", "stopped"}, up' = UploaderAt(pc)
    PROVE  up' \in Uploader /\ AnswerInv'
<1>1. up' \in Uploader /\ up'.pc = pc /\ up'.now = 0
  BY UploaderAtTyped
<1>2. clock \in Nat
  BY SpoolAssumption DEF PipelineInv, TypeOK, SpoolTypeOK, Times
<1> QED
  BY <1>1, <1>2 DEF AnswerInv

(* Next hands a batch to the uploader.                                     *)
LEMMA NextReturnsKeeps ==
    ASSUME PipelineInv, NextReturns
    PROVE  PipelineInv'
<1>1. SpoolInv'
  BY ReturnKeeps DEF PipelineInv, NextReturns
<1>2. /\ up.pc = "next" /\ call.op = "next" /\ call' = NoCall
      /\ UNCHANGED <<clock, pending, issued, damaged, accepted, refused, answered, persisted>>
      /\ UNCHANGED <<prober, ctx, stray>>
  BY DEF NextReturns, Return
<1>3. TypeOK /\ stray' \subseteq issued
  BY <1>2 DEF PipelineInv, AnswerInv
<1>4. up' \in Uploader /\ AnswerInv'
  <2>1. CASE call.result = "item"
    <3>1. up' = [up EXCEPT !.pc = "post", !.name = call.name, !.attempt = call.file.attempt]
      BY <2>1 DEF NextReturns
    <3>2. call.name \in issued /\ up.resp = "none" /\ up.now =< clock
      BY <1>2, <2>1 DEF PipelineInv, CallerInv, AnswerInv
    <3>3. call.name \in BatchNames /\ call.file.attempt \in Attempts /\ up \in Uploader
      BY <1>3, <3>2 DEF TypeOK, SpoolTypeOK, Call, File
    <3>4. /\ up' \in Uploader /\ up'.pc = "post" /\ up'.now = up.now
          /\ up'.name = call.name /\ up'.resp = up.resp
      BY <3>1, <3>3 DEF Uploader
    <3> QED
      BY <1>2, <1>3, <3>2, <3>4 DEF AnswerInv
  <2>2. CASE call.result # "item"
    <3>1. PICK pc \in {"stopped", "wait", "failed"} : up' = UploaderAt(pc)
      BY <2>2 DEF NextReturns
    <3> QED
      BY <1>2, <1>3, <3>1, NoBatchAnswer
  <2> QED
    BY <2>1, <2>2
<1> QED
  BY <1>1, <1>2, <1>3, <1>4, ReleasePipe DEF TypeOK

(* Ack, ScheduleRetry or Quarantine return to the uploader.                *)
LEMMA SettleReturnsKeeps ==
    ASSUME PipelineInv, SettleReturns
    PROVE  PipelineInv'
<1>1. SpoolInv'
  BY ReturnKeeps DEF PipelineInv, SettleReturns
<1>2. /\ call' = NoCall /\ answered' \subseteq answered
      /\ UNCHANGED <<clock, pending, issued, damaged, accepted, refused, persisted>>
      /\ UNCHANGED <<prober, ctx, stray>>
  BY DEF SettleReturns, Return
<1>3. TypeOK /\ stray' \subseteq issued
  BY <1>2 DEF PipelineInv, AnswerInv
<1>4. PICK pc \in {"start", "rejected", "failed", "stopped"} : up' = UploaderAt(pc)
  BY DEF SettleReturns
<1>5. up' \in Uploader /\ AnswerInv'
  BY <1>2, <1>3, <1>4, NoBatchAnswer
<1> QED
  BY <1>1, <1>2, <1>3, <1>5, ReleasePipe DEF TypeOK

(* The history of what Enqueue promised grows by a batch that is there.    *)
LEMMA ProberReturnKeeps ==
    ASSUME PipelineInv, ProberReturn
    PROVE  PipelineInv'
<1>1. SpoolInv'
  BY ReturnKeeps DEF PipelineInv, ProberReturn
<1>2. /\ call.op = "enqueue" /\ call' = NoCall /\ prober' = "idle"
      /\ UNCHANGED <<clock, pending, issued, damaged>>
      /\ UNCHANGED <<up, ctx, stray, accepted, refused, answered>>
  BY DEF ProberReturn, Return
<1>3. TypeOK /\ AgeInv /\ NoSilentLoss /\ WriteInv /\ CallInv
  BY SpoolInvSplit DEF PipelineInv
<1>4. CallerInv' /\ WriteInv'
  BY <1>2 DEF CallerInv, WriteInv, NoCall
<1>5. AnswerInv'
  BY <1>2, AnswerSame DEF PipelineInv
<1>6. /\ DOMAIN persisted' \subseteq BatchNames
      /\ persisted' \in [DOMAIN persisted' -> Times]
      /\ AgeInv' /\ NoSilentLoss'
  <2>1. CASE call.result # "ok"
    <3>1. persisted' = persisted
      BY <2>1 DEF ProberReturn
    <3> QED
      BY <1>2, <1>3, <3>1 DEF TypeOK, AgeInv, NoSilentLoss, Batches
  <2>2. CASE call.result = "ok"
    <3>1. persisted' = Put(persisted, call.name, call.file.created)
      BY <2>2 DEF ProberReturn
    <3>2. /\ call.name \in Batches
          /\ call.file.created = pending[call.name].created
      BY <1>2, <1>3, <2>2 DEF WriteInv
    <3>3. call.name \in BatchNames /\ call.name \in DOMAIN pending /\ call.name \in issued
      BY <1>3, <3>2 DEF Batches, CallInv
    <3>4. call.file.created \in Times
      BY <1>3 DEF TypeOK, SpoolTypeOK, Call, File
    <3>5. /\ DOMAIN persisted' = DOMAIN persisted \cup {call.name}
          /\ persisted'[call.name] = call.file.created
          /\ \A n \in DOMAIN persisted : n # call.name => persisted'[n] = persisted[n]
          /\ persisted' \in [DOMAIN persisted' -> Times]
      BY <1>3, <3>1, <3>4 DEF Put, TypeOK
    <3>6. AgeInv'
      BY <1>2, <1>3, <3>2, <3>3, <3>5 DEF AgeInv, Batches
    <3>7. NoSilentLoss'
      BY <1>2, <1>3, <3>3, <3>5 DEF NoSilentLoss
    <3> QED
      BY <1>3, <3>3, <3>5, <3>6, <3>7 DEF TypeOK
  <2> QED
    BY <2>1, <2>2
<1>7. TypeOK'
  BY <1>1, <1>2, <1>3, <1>6 DEF TypeOK, SpoolInv
<1> QED
  BY <1>1, <1>4, <1>5, <1>6, <1>7 DEF PipelineInv

(* The uploader takes the token.                                           *)
LEMMA WokenKeeps ==
    ASSUME PipelineInv, Woken
    PROVE  PipelineInv'
<1>1. SpoolInv'
  BY TakeNotifyKeeps DEF PipelineInv, Woken
<1>2. /\ up.pc = "wait" /\ up' = UploaderAt("start")
      /\ UNCHANGED <<clock, pending, call, issued, damaged>>
      /\ UNCHANGED <<prober, ctx, stray, accepted, refused, answered, persisted>>
  BY DEF Woken, TakeNotify
<1>3. stray' \subseteq issued
  BY <1>2 DEF PipelineInv, AnswerInv
<1>4. up' \in Uploader /\ AnswerInv'
  BY <1>2, <1>3, NoBatchAnswer
<1>5. call.op \in {"none", "enqueue"}
  BY <1>2, OutsideSpool
<1>6. CallerInv' /\ WriteInv'
  BY <1>2, <1>5 DEF PipelineInv, CallerInv, WriteInv, Batches
<1>7. Effect
  BY <1>2 DEF Effect, Quiet, SameAges, Batches
<1>8. AgeInv' /\ NoSilentLoss'
  BY <1>2, <1>7, EffectNoLoss
<1>9. TypeOK'
  BY <1>1, <1>2, <1>4 DEF PipelineInv, TypeOK, SpoolInv
<1> QED
  BY <1>1, <1>4, <1>6, <1>8, <1>9 DEF PipelineInv

(* Time passes.                                                            *)
LEMMA ClockTickKeeps ==
    ASSUME PipelineInv, ClockTick
    PROVE  PipelineInv'
<1>1. SpoolInv'
  BY TickKeeps DEF PipelineInv, ClockTick
<1>2. /\ clock' = clock + 1 /\ UNCHANGED <<pending, call, issued, damaged>>
      /\ UNCHANGED <<up, prober, ctx, stray, accepted, refused, answered, persisted>>
  BY DEF ClockTick, Tick, uploadVars
<1>3. clock \in Int /\ up.now \in Int /\ \A n \in DOMAIN persisted : persisted[n] \in Int
  BY SpoolAssumption DEF PipelineInv, TypeOK, SpoolTypeOK, Uploader, Times
<1>4. CallerInv' /\ WriteInv' /\ AgeInv'
  BY <1>2 DEF PipelineInv, CallerInv, WriteInv, AgeInv, Batches
<1>5. AnswerInv'
  BY <1>2, <1>3 DEF PipelineInv, AnswerInv
<1>6. NoSilentLoss'
  BY <1>2, <1>3, SpoolAssumption DEF PipelineInv, NoSilentLoss
<1>7. TypeOK'
  BY <1>1, <1>2 DEF PipelineInv, TypeOK, SpoolInv
<1> QED
  BY <1>1, <1>4, <1>5, <1>6, <1>7 DEF PipelineInv

(* A file that loses its integrity is a spoiled batch.                     *)
LEMMA DamageEffect ==
    ASSUME PipelineInv, Damage
    PROVE  /\ Effect /\ Batches' = Batches
           /\ \A m \in Batches : pending'[m].created = pending[m].created
<1>1. PICK n \in issued : Corrupt(n)
  BY DEF Damage
<1>2. n \in Batches /\ n \in DOMAIN pending
  BY <1>1 DEF Corrupt, Readable, Batches
<1>3. PendingOK
  BY SpoolInvSplit DEF PipelineInv
<1>4. /\ DOMAIN pending' = DOMAIN pending
      /\ \A m \in DOMAIN pending : pending'[m].created = pending[m].created
  BY <1>1, <1>2, <1>3 DEF Corrupt, PendingOK, File
<1>5. Batches' = Batches /\ \A m \in Batches : pending'[m].created = pending[m].created
  BY <1>4 DEF Batches
<1>6. damaged' = damaged \cup {n} /\ UNCHANGED issued
  BY <1>1 DEF Corrupt
<1> QED
  BY <1>2, <1>5, <1>6 DEF Effect, Spoiled, SameAges

(* ... and keeps the pipeline invariant.                                   *)
LEMMA DamageKeeps ==
    ASSUME PipelineInv, Damage
    PROVE  PipelineInv'
<1>1. SpoolInv'
  BY CorruptKeeps DEF PipelineInv, Damage
<1>2. /\ UNCHANGED <<clock, call, issued>>
      /\ UNCHANGED <<up, prober, ctx, stray, accepted, refused, answered, persisted>>
  BY DEF Damage, Corrupt, uploadVars
<1>3. /\ Effect /\ Batches' = Batches
      /\ \A m \in Batches : pending'[m].created = pending[m].created
  BY DamageEffect
<1>4. CallerInv'
  BY <1>2 DEF PipelineInv, CallerInv
<1>5. WriteInv'
  BY <1>2, <1>3 DEF PipelineInv, WriteInv
<1>6. AnswerInv'
  BY <1>2, AnswerSame DEF PipelineInv
<1>7. AgeInv' /\ NoSilentLoss'
  BY <1>2, <1>3, EffectNoLoss
<1>8. TypeOK'
  BY <1>1, <1>2 DEF PipelineInv, TypeOK, SpoolInv
<1> QED
  BY <1>1, <1>4, <1>5, <1>6, <1>7, <1>8 DEF PipelineInv

(* The context is cancelled.                                               *)
LEMMA CancelKeeps ==
    ASSUME PipelineInv, Cancel
    PROVE  PipelineInv'
<1>1. /\ UNCHANGED <<clock, pending, quarantine, notify, call, issued, damaged>> /\ Fault
      /\ UNCHANGED <<up, prober, stray, accepted, refused, answered, persisted>>
      /\ ctx' = "cancelled"
  BY DEF Cancel
<1>2. PendingOK /\ QuarantineOK /\ RestOK /\ CallInv
  BY SpoolInvSplit DEF PipelineInv
<1>3. PendingOK' /\ QuarantineOK' /\ Batches' = Batches
  BY <1>1, <1>2, PendingSame, QuarantineSame
<1>4. RestOK'
  BY <1>1, <1>2, FaultOK DEF RestOK
<1>5. CallInv'
  BY <1>1, <1>2, <1>3 DEF CallInv
<1>6. SpoolInv'
  BY <1>3, <1>4, <1>5, SpoolInvJoin
<1>7. CallerInv' /\ WriteInv' /\ AgeInv' /\ NoSilentLoss'
  BY <1>1, <1>3 DEF PipelineInv, CallerInv, WriteInv, AgeInv, NoSilentLoss
<1>8. AnswerInv'
  BY <1>1, AnswerSame DEF PipelineInv
<1>9. TypeOK'
  BY <1>1, <1>6 DEF PipelineInv, TypeOK, SpoolInv
<1> QED
  BY <1>6, <1>7, <1>8, <1>9 DEF PipelineInv

(* A crash or a restart at any moment loses nothing that was promised.     *)
LEMMA NewProcessKeeps ==
    ASSUME PipelineInv, Restart \/ Crash
    PROVE  PipelineInv'
<1>1. /\ up' = StartedUploader /\ prober' = "idle" /\ ctx' = "running" /\ SpoolCrash
      /\ answered' \subseteq answered /\ UNCHANGED <<accepted, refused, persisted>>
  BY DEF Restart, Crash, NewProcess
<1>2. RestOK /\ SpoolInv
  BY SpoolInvSplit DEF PipelineInv
<1>3. faults' \in 0..MaxFaults
  BY <1>2, FaultOK DEF Restart, Crash, RestOK
<1>4. SpoolInv'
  BY <1>1, <1>2, <1>3, SpoolCrashKeeps
<1>5. UNCHANGED <<clock, pending, issued, damaged>> /\ call' = NoCall
  BY <1>1 DEF SpoolCrash
<1>6. stray' \subseteq issued /\ issued \subseteq BatchNames
  BY DEF PipelineInv, AnswerInv, TypeOK, SpoolTypeOK, Restart, Crash
<1>7. up' = UploaderAt("start")
  BY <1>1 DEF UploaderAt, StartedUploader
<1>8. up' \in Uploader /\ AnswerInv'
  BY <1>5, <1>6, <1>7, NoBatchAnswer
<1> QED
  BY <1>1, <1>4, <1>5, <1>6, <1>8, ReleasePipe

(* Every step of the pipeline keeps its invariant.                         *)
LEMMA NextKeeps ==
    ASSUME PipelineInv, [Next]_vars
    PROVE  PipelineInv'
<1>1. CASE UNCHANGED vars
  <2>1. /\ UNCHANGED spoolVars
        /\ UNCHANGED <<up, prober, ctx, stray, accepted, refused, answered, persisted>>
    BY <1>1 DEF vars, uploadVars
  <2>2. UNCHANGED <<clock, issued>>
    BY <2>1 DEF spoolVars
  <2>3. AnswerInv'
    BY <2>1, <2>2, AnswerSame DEF PipelineInv
  <2> QED
    BY <2>1, <2>3, IdleSpoolKeeps DEF PipelineInv, TypeOK, AnswerInv
<1>2. CASE UploaderStep
  BY <1>2, UploadOneKeeps, UploaderCallsKeep, NextReturnsKeeps, TransportFailsKeeps,
     AnswerArrivesKeeps, SettleReturnsKeeps, ParkedKeeps, WokenKeeps DEF UploaderStep
<1>3. CASE ProberStep
  BY <1>3, ProberKeeps, ProberEnqueueKeeps, ProberReturnKeeps DEF ProberStep
<1> QED
  BY <1>1, <1>2, <1>3, ControllerKeeps, DiskStepKeeps, ClockTickKeeps, DamageKeeps,
     CancelKeeps, NewProcessKeeps DEF Next

(* The pipeline starts with an empty spool and nobody inside it.           *)
LEMMA InitOK == Init => PipelineInv
<1> SUFFICES ASSUME Init PROVE PipelineInv
  OBVIOUS
<1>1. SpoolInv
  BY SpoolInitOK DEF Init
<1>2. /\ up = UploaderAt("start") /\ clock = 0 /\ call = NoCall
      /\ DOMAIN pending = {} /\ DOMAIN persisted = {} /\ persisted \in [{} -> Times]
  BY DEF Init, SpoolInit, UploaderAt, StartedUploader
<1>3. up \in Uploader /\ up.pc = "start" /\ up.now = 0
  BY <1>2, UploaderAtTyped
<1>4. TypeOK
  BY <1>1, <1>2, <1>3 DEF Init, TypeOK, SpoolInv
<1>5. AnswerInv
  BY <1>2, <1>3 DEF Init, AnswerInv
<1>6. CallerInv /\ WriteInv /\ AgeInv /\ NoSilentLoss
  BY <1>2 DEF CallerInv, WriteInv, AgeInv, NoSilentLoss, NoCall
<1> QED
  BY <1>1, <1>4, <1>5, <1>6 DEF PipelineInv

-----------------------------------------------------------------------------
(* The invariant of the pipeline holds through every interleaving of the   *)
(* prober, the uploader, the Controller, I/O errors, stops and crashes.    *)
THEOREM PipelineInvariant == Spec => []PipelineInv
<1>1. PipelineInv /\ [Next]_vars => PipelineInv'
  BY NextKeeps
<1> QED
  BY <1>1, InitOK, PTL DEF Spec

(* No batch that Enqueue reported as persisted is ever lost silently.      *)
THEOREM NothingLost == Spec => []NoSilentLoss
<1>1. PipelineInv => NoSilentLoss
  BY DEF PipelineInv
<1> QED
  BY <1>1, PipelineInvariant, PTL

-----------------------------------------------------------------------------
(* The pipeline implements the outbox.                                     *)

Held == [n \in Batches |-> pending[n].created]

(* A step with one of the four effects is a step of the outbox, or none.   *)
LEMMA EffectRefines ==
    ASSUME PipelineInv, Effect, UNCHANGED <<clock, accepted, refused>>
    PROVE  Outbox!OutboxNext \/ UNCHANGED Outbox!outboxVars
<1>1. DOMAIN Held = Batches /\ \A m \in Batches : Held[m] = pending[m].created
  BY DEF Held
<1>2. Batches \subseteq BatchNames
  BY DEF Batches
<1>3. CASE Quiet
  <2>1. Held' = Held
    BY <1>3 DEF Held, Quiet, SameAges
  <2> QED
    BY <1>3, <2>1 DEF Quiet, Held, Outbox!outboxVars
<1>4. ASSUME NEW n \in Batches, Batches' = Batches \ {n}, SameAges
      PROVE  Held' = [m \in DOMAIN Held \ {n} |-> Held[m]]
  BY <1>4 DEF Held, SameAges
<1>5. ASSUME NEW n \in Batches, Dropped(n)
      PROVE  Outbox!Release(n)
  <2>1. Held' = [m \in DOMAIN Held \ {n} |-> Held[m]]
    BY <1>4, <1>5 DEF Dropped
  <2>2. n \in DOMAIN Held /\ Held[n] = pending[n].created
    BY <1>1
  <2> QED
    BY <1>5, <2>1, <2>2 DEF Outbox!Release, Outbox!Drop, Held, Dropped
<1>6. ASSUME NEW n \in Batches, Spoiled(n)
      PROVE  Outbox!Spoil(n)
  <2>1. Held' \in {Held, [m \in DOMAIN Held \ {n} |-> Held[m]]}
    <3>1. CASE Batches' = Batches
      BY <1>6, <3>1 DEF Held, Spoiled, SameAges
    <3>2. CASE Batches' = Batches \ {n}
      BY <1>4, <1>6, <3>2 DEF Spoiled
    <3> QED
      BY <1>6, <3>1, <3>2 DEF Spoiled
  <2>2. n \in DOMAIN Held
    BY <1>1
  <2> QED
    BY <1>6, <2>1, <2>2 DEF Outbox!Spoil, Outbox!Drop, Held, Spoiled
<1>7. ASSUME NEW n \in BatchNames \ issued, Published(n)
      PROVE  \E created \in 0..clock : Outbox!Persist(n, created)
  <2>1. n \notin Batches
    BY SpoolInvSplit DEF PipelineInv, CallInv
  <2>2. PICK created \in 0..clock : created = pending'[n].created
    BY <1>7 DEF Published
  <2>3. Held' = [m \in DOMAIN Held \cup {n} |-> IF m = n THEN created ELSE Held[m]]
    BY <1>7, <2>1, <2>2 DEF Held, Published, SameAges
  <2>4. Outbox!Persist(n, created)
    BY <1>7, <2>3 DEF Outbox!Persist, Held, Published
  <2> QED
    BY <2>4
<1>8. CASE \E n \in Batches : Dropped(n) \/ Spoiled(n)
  BY <1>2, <1>5, <1>6, <1>8 DEF Outbox!OutboxNext
<1>9. CASE \E n \in BatchNames \ issued : Published(n)
  BY <1>7, <1>9 DEF Outbox!OutboxNext
<1> QED
  BY <1>3, <1>8, <1>9 DEF Effect

(* A step that leaves the batches alone and moves one other variable.      *)
LEMMA NextRefines ==
    ASSUME PipelineInv, [Next]_vars
    PROVE  Outbox!OutboxNext \/ UNCHANGED Outbox!outboxVars
<1>1. CASE DiskStep
  <2>1. Effect
    BY <1>1, DiskStepEffect
  <2>2. UNCHANGED <<clock, accepted, refused>>
    BY <1>1 DEF DiskStep, uploadVars, SpoolStep, CleanupEntry, CleanupError, SelectDue,
       SelectUnreadable, Admit, Refuse, Reschedule, RescheduleError, CommitWrite,
       AbortWrite, Ack, Quarantine
  <2> QED
    BY <2>1, <2>2, EffectRefines
<1>2. CASE Damage
  <2>1. Effect
    BY <1>2, DamageEffect
  <2>2. UNCHANGED <<clock, accepted, refused>>
    BY <1>2 DEF Damage, Corrupt, uploadVars
  <2> QED
    BY <2>1, <2>2, EffectRefines
<1>3. CASE ClockTick
  <2>1. clock' = clock + 1 /\ UNCHANGED <<pending, issued, damaged, accepted, refused>>
    BY <1>3 DEF ClockTick, Tick, uploadVars
  <2>2. Batches' = Batches
    BY <2>1 DEF Batches
  <2>3. Outbox!Advance
    BY <2>1, <2>2 DEF Outbox!Advance
  <2> QED
    BY <2>3 DEF Outbox!OutboxNext
<1>4. CASE ControllerStep
  <2>1. UNCHANGED <<clock, pending, issued, damaged>>
    BY <1>4 DEF ControllerStep, ControllerAccepts, ControllerBusy, ControllerRefuses,
       StrayArrives, spoolVars
  <2>2. Batches' = Batches
    BY <2>1 DEF Batches
  <2>3. PICK n \in issued :
          \/ accepted' = accepted \cup {n} /\ refused' = refused
          \/ accepted' = accepted /\ refused' = refused \cup {n}
          \/ accepted' = accepted /\ refused' = refused
    BY <1>4 DEF PipelineInv, AnswerInv, ControllerStep, ControllerAccepts, ControllerBusy,
       ControllerRefuses, StrayArrives
  <2>4. n \in BatchNames
    BY DEF PipelineInv, TypeOK, SpoolTypeOK
  <2>5. CASE accepted' = accepted \cup {n} /\ refused' = refused
    <3>1. Outbox!Deliver(n)
      BY <2>1, <2>2, <2>5 DEF Outbox!Deliver
    <3> QED
      BY <2>4, <3>1 DEF Outbox!OutboxNext
  <2>6. CASE accepted' = accepted /\ refused' = refused \cup {n}
    <3>1. Outbox!Refuse(n)
      BY <2>1, <2>2, <2>6 DEF Outbox!Refuse
    <3> QED
      BY <2>4, <3>1 DEF Outbox!OutboxNext
  <2>7. CASE accepted' = accepted /\ refused' = refused
    BY <2>1, <2>2, <2>7 DEF Outbox!outboxVars
  <2> QED
    BY <2>3, <2>5, <2>6, <2>7
<1>5. CASE UploaderStep \/ ProberStep \/ Cancel \/ Restart \/ Crash \/ UNCHANGED vars
  <2>1. UNCHANGED <<clock, pending, issued, damaged, accepted, refused>>
    <3>1. CASE UploaderStep
      BY <3>1 DEF UploaderStep, UploadOne, CallNext, NextReturns, TransportFails,
         AnswerArrives, CallAck, CallScheduleRetry, CallQuarantine, SettleReturns,
         OnRejected, Woken, PollTimer, RestartRun, CancelledWait, Return, TakeNotify,
         Begin, BeginNext, BeginAck, BeginRetry, BeginQuarantine, spoolVars, uploadVars
    <3>2. CASE ProberStep
      BY <3>2 DEF ProberStep, ProberRun, ProberDiscard, ProberEnqueue, ProberReturn,
         ProberStop, BeginEnqueue, Begin, Return, spoolVars
    <3>3. CASE Cancel \/ Restart \/ Crash \/ UNCHANGED vars
      BY <3>3 DEF Cancel, Restart, Crash, NewProcess, SpoolCrash, vars, spoolVars, uploadVars
    <3> QED
      BY <1>5, <3>1, <3>2, <3>3
  <2>2. Batches' = Batches
    BY <2>1 DEF Batches
  <2> QED
    BY <2>1, <2>2 DEF Outbox!outboxVars
<1> QED
  BY <1>1, <1>2, <1>3, <1>4, <1>5 DEF Next

(* The pipeline starts as an empty outbox.                                 *)
LEMMA InitRefines == Init => Outbox!OutboxInit
<1> SUFFICES ASSUME Init PROVE Outbox!OutboxInit
  OBVIOUS
<1>1. Batches = {}
  BY DEF Init, SpoolInit, Batches
<1>2. Held = << >>
  BY <1>1 DEF Held
<1> QED
  BY <1>2 DEF Init, SpoolInit, Held, Outbox!OutboxInit

(* Every behaviour of the pipeline is a behaviour of the outbox: a batch   *)
(* leaves the disk only delivered, refused, damaged or too old, and never  *)
(* returns.                                                                *)
THEOREM Refinement == Spec => ImplementsOutbox
<1>1. PipelineInv /\ [Next]_vars => [Outbox!OutboxNext]_Outbox!outboxVars
  BY NextRefines
<1> QED
  BY <1>1, InitRefines, PipelineInvariant, PTL DEF Spec, ImplementsOutbox, Outbox!OutboxSpec
=============================================================================
