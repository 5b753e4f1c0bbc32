-------------------------- MODULE ProbeRetryProofs --------------------------
(***************************************************************************)
(* Proofs about what the uploader does with a batch between two uploads:   *)
(* its attempt counter advances by one, its retry gate stays within the    *)
(* backoff cap, a final answer settles it, and no wake-up is lost.         *)
(***************************************************************************)
EXTENDS ProbeUploaderProofs

(* The attempt counter the uploader has in hand is the one on disk, until  *)
(* its own ScheduleRetry has written the next one.                         *)
HandInv ==
    /\ /\ up.pc \in {"post", "retry"} /\ up.name \in Batches
       /\ ~(call.op = "retry" /\ call.phase = "done")
       => pending[up.name].attempt = up.attempt
    /\ call.op = "next" => call.now = up.now
    /\ call.op = "next" /\ call.result = "item" /\ call.name \in Batches
       => pending[call.name].attempt = call.file.attempt
    /\ call.op = "retry" => call.file.attempt = NextAttempt(up.attempt)
    /\ call.op = "enqueue" => call.file.attempt = 0

(* How far a batch, on disk or about to be written, is put off.            *)
Gated(f) ==
    /\ f.nextAt =< clock + MaxBackoff
    /\ f.attempt = 0 => f.nextAt =< clock

GateInv ==
    /\ \A n \in Batches : Gated(pending[n])
    /\ call.op \in {"retry", "enqueue"} => Gated(call.file)

(* What the cleanup has passed and left in place is not too old.           *)
SweptInv ==
    call.phase = "cleanup" =>
        \A n \in Batches : n \in call.todo \/ ~Expired(n, call.now)

(* A batch whose final answer arrived, and whose removal did not fail, is  *)
(* gone or in the hands of the uploader, which is about to remove it or to *)
(* hear that it could not.                                                 *)
Disposing(n) ==
    /\ up.pc \in {"ack", "quarantine"} /\ up.name = n
    /\ call.op = up.pc /\ call.phase = "done" => call.result = "error"

SettledInv ==
    /\ answered \subseteq issued
    /\ \A n \in answered : n \in Batches => Disposing(n)
    /\ up.pc = "post" => up.name \notin answered
    /\ call.op = "next" /\ call.result = "item" => call.name \notin answered

(* The batches that were promised and never tried.                         *)
Fresh ==
    {n \in Batches :
        /\ pending[n].attempt = 0
        /\ \/ n \in DOMAIN persisted
           \/ call.op = "enqueue" /\ call.result = "ok" /\ call.name = n}

(* Without a token, the uploader is on its way to every one of them.       *)
WakeInv ==
    ~notify => \A n \in Fresh :
        /\ up.pc # "wait"
        /\ up.pc = "next" => pending[n].nextAt =< up.now
        /\ ~(call.op = "next" /\ call.result = "empty")

RetryInv ==
    PipelineInv /\ HandInv /\ GateInv /\ SweptInv /\ SettledInv /\ WakeInv


-----------------------------------------------------------------------------
(* What the file system steps do to the files and to the open call.        *)

SameFiles ==
    /\ Batches' \subseteq Batches
    /\ \A m \in Batches' : /\ pending'[m].attempt = pending[m].attempt
                           /\ pending'[m].nextAt = pending[m].nextAt
                           /\ pending'[m].created = pending[m].created

(* Taking a file out of the directory leaves the others as they are.       *)
LEMMA FileRemoved ==
    ASSUME NEW n, pending' = Without(pending, n)
    PROVE  SameFiles /\ n \notin Batches'
  BY DEF SameFiles, Without, Batches

(* So does moving it to the quarantine.                                    *)
LEMMA FileQuarantined ==
    ASSUME NEW n, QuarantinePath(n)
    PROVE  SameFiles /\ n \notin Batches'
<1>1. pending' = Without(pending, n)
  BY DEF QuarantinePath, Removed
<1> QED
  BY <1>1, FileRemoved

(* A directory that is left alone.                                         *)
LEMMA FilesSame ==
    ASSUME pending' = pending
    PROVE  SameFiles /\ Batches' = Batches
  BY DEF SameFiles, Batches

(* Only the rename of a finished write changes what a batch file says.     *)
LEMMA DiskFiles ==
    ASSUME PipelineInv, DiskStep
    PROVE  CommitWrite \/ (SameFiles /\ UNCHANGED <<notify, issued>>)
<1>1. SpoolInv
  BY DEF PipelineInv
<1>2. CASE CleanupEntry
  BY <1>2, FileRemoved, FileQuarantined, FilesSame DEF CleanupEntry, Removed
<1>3. CASE CleanupError
  BY <1>3, FileRemoved, FileQuarantined, FilesSame DEF CleanupError, Removed, PrunedOnly
<1>4. CASE SelectDue \/ Refuse \/ RescheduleError
  BY <1>4, FilesSame DEF SelectDue, Refuse, RescheduleError
<1>5. CASE SelectUnreadable
  BY <1>5, FileQuarantined DEF SelectUnreadable
<1>6. CASE Admit \/ Reschedule
  <2>1. PICK n, f : WriteTemp(n, f)
    BY <1>6 DEF Admit, Reschedule
  <2>2. UNCHANGED <<notify, issued, damaged>>
    BY <1>6 DEF Admit, Reschedule
  <2> QED
    BY <1>1, <2>1, <2>2, WriteTempQuiet DEF SameFiles
<1>7. CASE AbortWrite
  BY <1>7, FileRemoved, FilesSame DEF AbortWrite
<1>8. CASE Ack
  BY <1>8, FileRemoved, FilesSame DEF Ack, Removed
<1>9. CASE Quarantine
  BY <1>9, FileQuarantined, FilesSame DEF Quarantine, PrunedOnly
<1> QED
  BY <1>2, <1>3, <1>4, <1>5, <1>6, <1>7, <1>8, <1>9 DEF DiskStep, SpoolStep

(* The frame after a method has returned from the disk.                    *)
LEMMA ReturnedFrame ==
    ASSUME PipelineInv, NEW r \in {"ok", "empty", "error"}, call' = Returned(r)
    PROVE  /\ call'.op = call.op /\ call'.now = call.now /\ call'.name = call.name
           /\ call'.file = call.file /\ call'.phase = "done" /\ call'.result = r
<1>1. call \in Call
  BY DEF PipelineInv, TypeOK, SpoolTypeOK
<1> QED
  BY <1>1 DEF Returned, Call

(* What a retry is about to write carries the counter and the gate of the  *)
(* caller.                                                                 *)
LEMMA RescheduledFrame ==
    ASSUME PipelineInv, Reschedule
    PROVE  /\ call'.op = call.op /\ call'.now = call.now /\ call'.phase = "temp"
           /\ call'.name = call.name /\ call'.result = call.result
           /\ call'.file.attempt = call.file.attempt
           /\ call'.file.nextAt = call.file.nextAt
<1>1. SpoolInv /\ PendingOK /\ RestOK
  BY SpoolInvSplit DEF PipelineInv
<1>2. /\ WriteTemp(call.name, Rescheduled) /\ call.name \in Batches
      /\ UNCHANGED <<issued, damaged>>
  BY DEF Reschedule, CanReschedule, Readable
<1>3. pending[call.name] \in File /\ call.file \in File
  BY <1>1, <1>2 DEF PendingOK, Batches, RestOK, Call
<1>4. Rescheduled.attempt = call.file.attempt /\ Rescheduled.nextAt = call.file.nextAt
  BY <1>3 DEF Rescheduled, File
<1> QED
  BY <1>1, <1>2, <1>4, WriteTempQuiet

(* A file system step moves the open call on, within the same method.      *)
LEMMA DiskCall ==
    ASSUME PipelineInv, DiskStep
    PROVE  /\ call.phase \notin {"idle", "done"}
           /\ call'.op = call.op /\ call'.now = call.now
           /\ call.op \in {"retry", "enqueue"} =>
                /\ call'.file.attempt = call.file.attempt
                /\ call'.file.nextAt = call.file.nextAt
           /\ UNCHANGED <<clock, up, answered, persisted>>
           /\ UNCHANGED faults \/ faults' = faults + 1
           /\ call'.result \in {"item", "empty"} => SelectDue
           /\ call.op = "enqueue" /\ call'.result = "ok" => CommitWrite
           /\ call'.phase = "cleanup" => CleanupEntry \/ SelectUnreadable
<1>1. SpoolInv /\ RestOK /\ CallerInv
  BY SpoolInvSplit DEF PipelineInv
<1>2. UNCHANGED <<up, answered, persisted>>
  BY DEF DiskStep, uploadVars
<1>3. CASE CleanupEntry
  <2>1. PICK n : call' = [call EXCEPT !.todo = @ \ {n}]
    BY <1>3 DEF CleanupEntry
  <2>2. /\ call.phase = "cleanup" /\ UNCHANGED clock
        /\ UNCHANGED faults \/ faults' = faults + 1
    BY <1>3 DEF CleanupEntry, Fault
  <2>3. /\ call'.op = call.op /\ call'.now = call.now /\ call'.file = call.file
        /\ call'.result = call.result
    BY <1>1, <2>1 DEF RestOK, Call
  <2> QED
    BY <1>1, <1>2, <1>3, <2>2, <2>3 DEF CallerInv
<1>4. CASE CleanupError \/ Refuse \/ RescheduleError \/ AbortWrite
  <2>1. /\ call' = Returned("error") /\ call.phase \notin {"idle", "done"}
        /\ UNCHANGED clock /\ (UNCHANGED faults \/ faults' = faults + 1)
    BY <1>4 DEF CleanupError, Refuse, RescheduleError, AbortWrite, Fault
  <2> QED
    BY <1>2, <2>1, ReturnedFrame
<1>5. CASE SelectDue
  <2>1. \/ call' = Returned("empty")
        \/ \E n : call' = [Returned("item") EXCEPT !.name = n, !.file = pending[n]]
    BY <1>5 DEF SelectDue
  <2>2. call'.op = call.op /\ call'.now = call.now /\ call'.phase = "done"
    BY <1>1, <2>1 DEF Returned, RestOK, Call
  <2> QED
    BY <1>2, <1>5, <2>2 DEF SelectDue
<1>6. CASE SelectUnreadable
  BY <1>1, <1>2, <1>6 DEF SelectUnreadable, CallerInv, Fault
<1>7. CASE Admit
  <2>1. PICK n : WriteTemp(n, call.file)
    BY <1>7 DEF Admit
  <2>2. /\ call.phase = "cleanup"
        /\ UNCHANGED <<clock, issued, damaged, faults>>
    BY <1>7 DEF Admit
  <2>3. /\ call'.op = call.op /\ call'.now = call.now /\ call'.phase = "temp"
        /\ call'.file = call.file /\ call'.result = call.result
    BY <1>1, <2>1, <2>2, WriteTempQuiet
  <2> QED
    BY <1>1, <1>2, <2>2, <2>3 DEF CallerInv
<1>8. CASE Reschedule
  BY <1>1, <1>2, <1>8, RescheduledFrame DEF Reschedule, CallerInv
<1>9. CASE CommitWrite \/ Ack \/ Quarantine
  <2>1. PICK r \in {"ok", "error"} : call' = Returned(r)
    BY <1>9 DEF CommitWrite, Ack, Quarantine
  <2>2. /\ call.phase \notin {"idle", "done"} /\ UNCHANGED clock
        /\ UNCHANGED faults \/ faults' = faults + 1
        /\ call.op = "enqueue" => CommitWrite
    BY <1>9 DEF CommitWrite, Ack, Quarantine, Fault
  <2>3. /\ call'.op = call.op /\ call'.now = call.now /\ call'.phase = "done"
        /\ call'.file = call.file /\ call'.result = r
    BY <2>1, ReturnedFrame
  <2> QED
    BY <1>2, <2>2, <2>3
<1> QED
  BY <1>3, <1>4, <1>5, <1>6, <1>7, <1>8, <1>9 DEF DiskStep, SpoolStep


(* The rename publishes a batch under a name nobody has seen, or the next  *)
(* retry of the batch that the uploader has in hand.                       *)
LEMMA CommitFiles ==
    ASSUME PipelineInv, CommitWrite
    PROVE  /\ Batches' = Batches \cup {call.name} /\ issued' = issued \cup {call.name}
           /\ pending'[call.name] = call.file
           /\ \A m \in Batches : m # call.name => pending'[m] = pending[m]
           /\ call.op = "enqueue" => call.name \notin issued
           /\ call.op # "enqueue" =>
                call.op = "retry" /\ up.pc = "retry" /\ call.name \in Batches
                /\ call.name = up.name
           /\ call.phase = "temp" /\ call'.phase = "done" /\ call'.name = call.name
           /\ \/ call'.result = "ok" /\ notify' = TRUE
              \/ call'.result = "error" /\ faults' = faults + 1 /\ notify' = notify
<1>1. CallInv /\ CallerInv /\ WriteInv
  BY SpoolInvSplit DEF PipelineInv
<1>2. call.phase = "temp" /\ call.temp \in TempNames /\ call.name \in BatchNames
  BY <1>1 DEF CommitWrite, CallInv
<1>3. call.temp \notin BatchNames
  BY <1>2, SpoolAssumption
<1>4. /\ Batches' = Batches \cup {call.name} /\ issued' = issued \cup {call.name}
      /\ pending'[call.name] = call.file
      /\ \A m \in Batches : m # call.name => pending'[m] = pending[m]
  <2> DEFINE P == Without(pending, call.temp)
  <2>1. /\ BatchNames \cap DOMAIN P = Batches
        /\ \A m \in Batches : P[m] = pending[m]
    BY <1>3 DEF Without, Batches
  <2>2. pending' = Put(P, call.name, call.file) /\ issued' = issued \cup {call.name}
    BY DEF CommitWrite
  <2> HIDE DEF P
  <2>3. /\ DOMAIN pending' = DOMAIN P \cup {call.name}
        /\ pending'[call.name] = call.file
        /\ \A m \in DOMAIN P : m # call.name => pending'[m] = P[m]
    BY <2>2 DEF Put
  <2> QED
    BY <1>2, <2>1, <2>2, <2>3 DEF Batches
<1>5. /\ call'.phase = "done" /\ call'.name = call.name
      /\ \/ call'.result = "ok" /\ notify' = TRUE
         \/ call'.result = "error" /\ faults' = faults + 1 /\ notify' = notify
  BY ReturnedFrame DEF CommitWrite, Fault
<1>6. /\ call.op = "enqueue" => call.name \notin issued
      /\ call.op # "enqueue" =>
           call.op = "retry" /\ up.pc = "retry" /\ call.name \in Batches
           /\ call.name = up.name
  BY <1>1, <1>2 DEF WriteInv, CallerInv
<1> QED
  BY <1>2, <1>4, <1>5, <1>6

(* The types the arithmetic below needs.                                   *)
LEMMA RetryTypes ==
    ASSUME PipelineInv
    PROVE  /\ clock \in Nat /\ faults \in Nat /\ up \in Uploader
           /\ up.now \in Nat /\ up.now =< clock /\ up.attempt \in Attempts
           /\ call.now \in Nat /\ call.now =< clock
           /\ call.file.attempt \in Attempts /\ call.file.nextAt \in Nat
           /\ \A n \in Batches : /\ pending[n].attempt \in Attempts
                                 /\ pending[n].nextAt \in Nat
                                 /\ pending[n].created \in Nat
<1>1. PendingOK /\ RestOK /\ CallInv /\ AnswerInv /\ up \in Uploader
  BY SpoolInvSplit DEF PipelineInv, TypeOK
<1>2. \A n \in Batches : pending[n] \in File
  BY <1>1 DEF PendingOK, Batches
<1>3. call \in Call /\ clock \in Times /\ faults \in 0..MaxFaults
  BY <1>1 DEF RestOK
<1>4. call.file \in File /\ call.now \in Times
  BY <1>3 DEF Call
<1> QED
  BY <1>1, <1>2, <1>3, <1>4, SpoolAssumption DEF CallInv, AnswerInv, Uploader, Times, File

(* The next attempt is one more, or the largest there is.                  *)
LEMMA NextAttemptStep ==
    ASSUME NEW a \in Attempts
    PROVE  NextAttempt(a) \in {a, a + 1} /\ NextAttempt(a) > 0
  BY SpoolAssumption DEF NextAttempt, Attempts

-----------------------------------------------------------------------------
(* The file system steps keep every part of the invariant.                 *)

(* The counter in hand stays the counter on disk.                          *)
LEMMA DiskHand ==
    ASSUME RetryInv, DiskStep
    PROVE  HandInv'
<1>1. PipelineInv /\ HandInv /\ CallerInv /\ AnswerInv
  BY DEF RetryInv, PipelineInv
<1>2. /\ call.phase \notin {"idle", "done"}
      /\ call'.op = call.op /\ call'.now = call.now /\ UNCHANGED up
      /\ call.op \in {"retry", "enqueue"} => call'.file.attempt = call.file.attempt
      /\ call'.result \in {"item", "empty"} => SelectDue
  BY <1>1, DiskCall
<1>3. ASSUME up.pc \in {"post", "retry"}, up.name \in Batches',
             ~(call.op = "retry" /\ call'.phase = "done")
      PROVE  pending'[up.name].attempt = up.attempt
  <2>1. CASE CommitWrite
    <3>1. call.op = "enqueue" /\ up.name \in issued
      BY <1>1, <1>3, <2>1, CommitFiles DEF AnswerInv
    <3>2. up.name # call.name /\ up.name \in Batches
      BY <1>1, <1>3, <2>1, <3>1, CommitFiles
    <3> QED
      BY <1>1, <1>2, <1>3, <2>1, <3>1, <3>2, CommitFiles DEF HandInv
  <2>2. CASE SameFiles
    BY <1>1, <1>2, <1>3, <2>2 DEF SameFiles, HandInv
  <2> QED
    BY <1>1, <2>1, <2>2, DiskFiles
<1>4. ASSUME call.op = "next", call'.result = "item", call'.name \in Batches'
      PROVE  pending'[call'.name].attempt = call'.file.attempt
  <2>1. SelectDue /\ pending' = pending /\ call \in Call
    BY <1>1, <1>2, <1>4 DEF SelectDue, PipelineInv, TypeOK, SpoolTypeOK
  <2>2. PICK n \in Batches : call' = [Returned("item") EXCEPT !.name = n, !.file = pending[n]]
    BY <1>1, <1>4, <2>1, ReturnedFrame DEF SelectDue
  <2>3. call'.name = n /\ call'.file = pending[n]
    BY <2>1, <2>2 DEF Returned, Call
  <2> QED
    BY <2>1, <2>3
<1> QED
  BY <1>1, <1>2, <1>3, <1>4 DEF HandInv

(* A write puts no batch off beyond the cap.                               *)
LEMMA DiskGate ==
    ASSUME RetryInv, DiskStep
    PROVE  GateInv'
<1>1. PipelineInv /\ GateInv
  BY DEF RetryInv
<1>2. /\ call'.op = call.op /\ UNCHANGED clock
      /\ call.op \in {"retry", "enqueue"} =>
           /\ call'.file.attempt = call.file.attempt
           /\ call'.file.nextAt = call.file.nextAt
  BY <1>1, DiskCall
<1>3. call.op \in {"retry", "enqueue"} => Gated(call'.file)
  BY <1>1, <1>2 DEF GateInv, Gated
<1>4. \A n \in Batches' : Gated(pending'[n])
  <2>1. CASE CommitWrite
    <3>1. call.op \in {"retry", "enqueue"}
      BY <1>1, <2>1, CommitFiles
    <3> QED
      BY <1>1, <2>1, <3>1, CommitFiles DEF GateInv
  <2>2. CASE SameFiles
    BY <1>1, <2>2 DEF SameFiles, GateInv, Gated
  <2> QED
    BY <1>1, <2>1, <2>2, DiskFiles
<1> QED
  BY <1>2, <1>3, <1>4 DEF GateInv, Gated

(* The cleanup leaves no batch behind that is too old.                     *)
LEMMA DiskSwept ==
    ASSUME RetryInv, DiskStep
    PROVE  SweptInv'
<1>1. PipelineInv /\ SweptInv /\ call \in Call
  BY DEF RetryInv, PipelineInv, TypeOK, SpoolTypeOK
<1> SUFFICES ASSUME call'.phase = "cleanup", NEW m \in Batches', m \notin call'.todo
             PROVE  ~(call'.now - pending'[m].created >= TTL)
  BY DEF SweptInv, Expired
<1>2. call'.now = call.now /\ (CleanupEntry \/ SelectUnreadable)
  BY <1>1, DiskCall
<1>3. SameFiles
  BY <1>1, <1>2, DiskFiles DEF CleanupEntry, SelectUnreadable, CommitWrite
<1>4. m \in Batches /\ pending'[m].created = pending[m].created
  BY <1>3 DEF SameFiles
<1>5. CASE SelectUnreadable
  BY <1>1, <1>2, <1>4, <1>5 DEF SelectUnreadable, SweptInv, Expired
<1>6. CASE CleanupEntry
  <2>1. PICK n \in call.todo :
          /\ call' = [call EXCEPT !.todo = @ \ {n}]
          /\ ~Expired(n, call.now) \/ Removed(n) \/ QuarantinePath(n)
    BY <1>6 DEF CleanupEntry
  <2>2. call'.todo = call.todo \ {n}
    BY <1>1, <2>1 DEF Call
  <2>3. CASE m = n
    <3>1. ~Expired(n, call.now)
      BY <2>1, <2>3, FileRemoved, FileQuarantined DEF Removed
    <3> QED
      BY <1>2, <1>4, <2>3, <3>1 DEF Expired
  <2>4. CASE m # n
    BY <1>1, <1>2, <1>4, <1>6, <2>2, <2>4 DEF SweptInv, Expired, CleanupEntry
  <2> QED
    BY <2>3, <2>4
<1> QED
  BY <1>2, <1>5, <1>6

(* Ack and Quarantine remove what they were called for or report an error. *)
LEMMA DiskSettled ==
    ASSUME RetryInv, DiskStep
    PROVE  SettledInv'
<1>1. PipelineInv /\ SettledInv /\ CallerInv /\ WriteInv /\ call \in Call
  BY DEF RetryInv, PipelineInv, TypeOK, SpoolTypeOK
<1>2. /\ call.phase \notin {"idle", "done"}
      /\ call'.op = call.op /\ UNCHANGED <<up, answered>>
      /\ call'.result \in {"item", "empty"} => SelectDue
  BY <1>1, DiskCall
<1>3. answered' \subseteq issued'
  BY <1>1, <1>2, DiskFiles, CommitFiles DEF SettledInv
<1>4. ASSUME NEW n \in answered, n \in Batches'
      PROVE  Disposing(n)'
  <2>1. n \in Batches
    BY <1>1, <1>4, DiskFiles, CommitFiles DEF SameFiles, SettledInv
  <2>2. up.pc \in {"ack", "quarantine"} /\ up.name = n
    BY <1>1, <2>1 DEF SettledInv, Disposing
  <2>3. ASSUME call.op = up.pc, call'.phase = "done"
        PROVE  call'.result = "error"
    <3>1. call.phase # "temp" /\ call.name = n
      BY <1>1, <2>2, <2>3 DEF WriteInv, CallerInv
    <3>2. CASE Ack
      <4>1. call' = Returned("error")
        BY <1>4, <3>1, <3>2, FileRemoved DEF Ack, Removed
      <4> QED
        BY <1>1, <4>1, ReturnedFrame
    <3>3. CASE Quarantine
      <4>1. call' = Returned("error")
        BY <1>4, <2>1, <3>1, <3>3, FileQuarantined DEF Quarantine, Batches
      <4> QED
        BY <1>1, <4>1, ReturnedFrame
    <3>4. CASE CleanupEntry
      <4>1. PICK m : call' = [call EXCEPT !.todo = @ \ {m}]
        BY <3>4 DEF CleanupEntry
      <4> QED
        BY <1>1, <2>3, <3>4, <4>1 DEF CleanupEntry, Call
    <3>5. CASE CleanupError
      BY <1>1, <3>5, ReturnedFrame DEF CleanupError
    <3> QED
      BY <2>2, <2>3, <3>1, <3>2, <3>3, <3>4, <3>5 DEF DiskStep, SpoolStep, SelectDue,
         SelectUnreadable, Admit, Refuse, Reschedule, RescheduleError, CommitWrite,
         AbortWrite
  <2> QED
    BY <1>2, <2>2, <2>3 DEF Disposing
<1>5. ASSUME call.op = "next", call'.result = "item"
      PROVE  call'.name \notin answered
  <2>1. SelectDue
    BY <1>2, <1>5
  <2>2. PICK n \in Batches : call' = [Returned("item") EXCEPT !.name = n, !.file = pending[n]]
    BY <1>1, <1>5, <2>1, ReturnedFrame DEF SelectDue
  <2>3. call'.name = n /\ up.pc = "next"
    BY <1>1, <1>5, <2>2 DEF Returned, Call, CallerInv
  <2> QED
    BY <1>1, <2>3 DEF SettledInv, Disposing
<1> QED
  BY <1>1, <1>2, <1>3, <1>4, <1>5 DEF SettledInv

(* Next does not come back empty while an untried batch waits unannounced. *)
LEMMA DiskWake ==
    ASSUME RetryInv, DiskStep
    PROVE  WakeInv'
<1>1. /\ PipelineInv /\ WakeInv /\ HandInv /\ SweptInv /\ AgeInv /\ CallerInv
      /\ call \in Call
  BY DEF RetryInv, PipelineInv, TypeOK, SpoolTypeOK
<1>2. /\ call'.op = call.op /\ UNCHANGED <<up, persisted>>
      /\ call'.result \in {"item", "empty"} => SelectDue
      /\ call.op = "enqueue" /\ call'.result = "ok" => CommitWrite
      /\ call.op \in {"retry", "enqueue"} => call'.file.attempt = call.file.attempt
  BY <1>1, DiskCall
<1> SUFFICES ASSUME ~notify', NEW n \in Fresh'
             PROVE  /\ up.pc # "wait"
                    /\ up.pc = "next" => pending'[n].nextAt =< up.now
                    /\ ~(call.op = "next" /\ call'.result = "empty")
  BY <1>2 DEF WakeInv
<1>3. ~notify /\ n \in Fresh /\ pending'[n].nextAt = pending[n].nextAt
  <2>1. CASE CommitWrite
    <3>1. call'.result = "error" /\ notify' = notify
      BY <1>1, <2>1, CommitFiles
    <3>2. n \in Batches' /\ pending'[n].attempt = 0 /\ n \in DOMAIN persisted
      BY <1>2, <3>1 DEF Fresh
    <3>3. n \in issued
      BY <1>1, <3>2 DEF AgeInv
    <3>4. n # call.name
      <4>1. CASE call.op = "enqueue"
        BY <1>1, <2>1, <3>3, <4>1, CommitFiles
      <4>2. CASE call.op = "retry"
        <5>1. call.file.attempt > 0
          BY <1>1, <4>2, NextAttemptStep, RetryTypes DEF HandInv
        <5> QED
          BY <1>1, <2>1, <3>2, <5>1, CommitFiles
      <4> QED
        BY <1>1, <2>1, <4>1, <4>2, CommitFiles
    <3>5. n \in Batches /\ pending'[n] = pending[n]
      BY <1>1, <2>1, <3>2, <3>4, CommitFiles
    <3> QED
      BY <3>1, <3>2, <3>5 DEF Fresh
  <2>2. CASE ~CommitWrite
    <3>1. SameFiles /\ notify' = notify
      BY <1>1, <2>2, DiskFiles
    <3>2. n \in Batches' /\ pending'[n].attempt = 0 /\ n \in DOMAIN persisted
      BY <1>2, <2>2 DEF Fresh
    <3> QED
      BY <3>1, <3>2 DEF SameFiles, Fresh
  <2> QED
    BY <2>1, <2>2
<1>4. up.pc # "wait" /\ (up.pc = "next" => pending[n].nextAt =< up.now)
  BY <1>1, <1>3 DEF WakeInv
<1>5. ~(call.op = "next" /\ call'.result = "empty")
  <2> SUFFICES ASSUME call.op = "next", call'.result = "empty" PROVE FALSE
    OBVIOUS
  <2>1. SelectDue
    BY <1>2
  <2>2. ~\E m : call' = [Returned("item") EXCEPT !.name = m, !.file = pending[m]]
    BY <1>1 DEF Returned, Call
  <2>3. n \in Batches /\ Skipped(n) /\ call.phase = "cleanup" /\ call.todo = {}
    BY <1>3, <2>1, <2>2 DEF SelectDue, Fresh
  <2>4. ~Expired(n, call.now)
    BY <1>1, <2>3 DEF SweptInv
  <2>5. pending[n].nextAt =< call.now
    BY <1>1, <1>4 DEF HandInv, CallerInv
  <2> QED
    BY <2>3, <2>4, <2>5 DEF Skipped, Due
<1> QED
  BY <1>3, <1>4, <1>5


-----------------------------------------------------------------------------
(* The steps of the workers, the Controller and the process.               *)

StepInv == HandInv /\ GateInv /\ SweptInv /\ SettledInv /\ WakeInv

(* A step that neither moves the uploader on nor touches the open call.    *)
LEMMA QuietKeeps ==
    ASSUME RetryInv, SameFiles, Batches' = Batches,
           UNCHANGED <<call, notify, issued, answered, persisted>>,
           up'.pc = up.pc, up'.name = up.name, up'.attempt = up.attempt, up'.now = up.now,
           clock' \in Nat, clock =< clock'
    PROVE  StepInv'
<1>1. HandInv /\ GateInv /\ SweptInv /\ SettledInv /\ WakeInv /\ PipelineInv
  BY DEF RetryInv
<1>2. \A n \in Batches : /\ pending'[n].attempt = pending[n].attempt
                         /\ pending'[n].nextAt = pending[n].nextAt
                         /\ pending'[n].created = pending[n].created
  BY DEF SameFiles
<1>3. /\ clock \in Nat /\ call.file.nextAt \in Nat
      /\ \A n \in Batches : pending[n].nextAt \in Nat
      /\ MaxBackoff \in Nat
  BY <1>1, RetryTypes, BackoffAssumption
<1>4. HandInv'
  BY <1>1, <1>2 DEF HandInv
<1>5. GateInv'
  BY <1>1, <1>2, <1>3 DEF GateInv, Gated
<1>6. SweptInv'
  BY <1>1, <1>2 DEF SweptInv, Expired
<1>7. SettledInv'
  BY <1>1, <1>3 DEF SettledInv, Disposing
<1>8. Fresh' = Fresh
  BY <1>2 DEF Fresh
<1>9. WakeInv'
  BY <1>1, <1>2, <1>8 DEF WakeInv, Fresh
<1> QED
  BY <1>4, <1>5, <1>6, <1>7, <1>9 DEF StepInv

(* The uploader moves on outside the spool.                                *)
LEMMA MoveKeeps ==
    ASSUME RetryInv, call.op \in {"none", "enqueue"},
           UNCHANGED <<pending, call, clock, issued, faults, persisted>>,
           answered' \subseteq issued,
           up'.pc = "retry" =>
               up.pc = "post" /\ up'.name = up.name /\ up'.attempt = up.attempt,
           up'.pc # "post", up.pc \notin {"ack", "quarantine"},
           \A n \in answered' \ answered :
               up'.pc \in {"ack", "quarantine"} /\ up'.name = n,
           up'.pc = "next" => up'.now = clock,
           up'.pc # "wait"
    PROVE  StepInv'
<1>1. /\ HandInv /\ GateInv /\ SweptInv /\ SettledInv /\ PipelineInv
      /\ Batches' = Batches
  BY DEF RetryInv, Batches
<1>2. HandInv'
  BY <1>1 DEF HandInv
<1>3. GateInv'
  BY <1>1 DEF GateInv, Gated
<1>4. SweptInv'
  BY <1>1 DEF SweptInv, Expired
<1>5. SettledInv'
  BY <1>1 DEF SettledInv, Disposing
<1>6. WakeInv'
  BY <1>1 DEF WakeInv, Fresh, GateInv, Gated
<1> QED
  BY <1>2, <1>3, <1>4, <1>5, <1>6 DEF StepInv

(* The top of the loop, and everything that leads back to it.              *)
LEMMA ParkRetry ==
    ASSUME RetryInv, UploadOne \/ OnRejected \/ Woken \/ PollTimer \/ RestartRun
                     \/ CancelledWait
    PROVE  StepInv'
<1>1. PipelineInv /\ answered \subseteq issued
  BY DEF RetryInv, SettledInv
<1>2. /\ up.pc \in {"start", "rejected", "wait", "failed"}
      /\ UNCHANGED <<pending, call, clock, issued, faults, answered, persisted>>
      /\ \/ \E pc \in {"start", "stopped"} : up' = UploaderAt(pc)
         \/ up' = [UploaderAt("next") EXCEPT !.now = clock]
  BY DEF UploadOne, OnRejected, Woken, PollTimer, RestartRun, CancelledWait,
     TakeNotify, spoolVars
<1>3. \/ up'.pc \in {"start", "stopped"}
      \/ up'.pc = "next" /\ up'.now = clock
  BY <1>2 DEF UploaderAt, StartedUploader
<1>4. call.op \in {"none", "enqueue"}
  BY <1>1, <1>2, OutsideSpool
<1> QED
  BY <1>1, <1>2, <1>3, <1>4, MoveKeeps

(* A request without an answer leads to a retry of the batch in hand.      *)
LEMMA TransportFailsRetry ==
    ASSUME RetryInv, TransportFails
    PROVE  StepInv'
<1>1. PipelineInv /\ answered \subseteq issued /\ up \in Uploader
  BY RetryTypes DEF RetryInv, SettledInv
<1>2. /\ up.pc = "post"
      /\ UNCHANGED <<pending, call, clock, issued, faults, answered, persisted>>
      /\ up' = UploaderAt("stopped") \/ up' = [up EXCEPT !.pc = "retry", !.resp = "none"]
  BY DEF TransportFails, spoolVars
<1>3. \/ up'.pc = "stopped"
      \/ up'.pc = "retry" /\ up'.name = up.name /\ up'.attempt = up.attempt
  BY <1>1, <1>2 DEF UploaderAt, StartedUploader, Uploader
<1>4. call.op \in {"none", "enqueue"}
  BY <1>1, <1>2, OutsideSpool
<1> QED
  BY <1>1, <1>2, <1>3, <1>4, MoveKeeps

(* A final answer leads to the removal of the batch in hand.               *)
LEMMA AnswerArrivesRetry ==
    ASSUME RetryInv, AnswerArrives
    PROVE  StepInv'
<1>1. PipelineInv /\ answered \subseteq issued /\ up \in Uploader
  BY RetryTypes DEF RetryInv, SettledInv
<1>2. /\ up.pc = "post" /\ up.name \in issued
      /\ UNCHANGED <<pending, call, clock, issued, faults, persisted>>
  BY <1>1 DEF AnswerArrives, spoolVars, PipelineInv, AnswerInv
<1>3. \/ /\ up'.pc = "retry" /\ up'.name = up.name /\ up'.attempt = up.attempt
         /\ answered' = answered
      \/ /\ up'.pc \in {"ack", "quarantine"} /\ up'.name = up.name
         /\ answered' = answered \cup {up.name}
  <2>1. CASE up.resp = "retryable"
    BY <1>1, <2>1 DEF AnswerArrives, Uploader
  <2>2. CASE up.resp = "2xx"
    BY <1>1, <2>2 DEF AnswerArrives, UploaderAt, StartedUploader
  <2>3. CASE up.resp \notin {"2xx", "retryable"}
    BY <1>1, <2>3 DEF AnswerArrives, UploaderAt, StartedUploader
  <2> QED
    BY <2>1, <2>2, <2>3
<1>4. call.op \in {"none", "enqueue"}
  BY <1>1, <1>2, OutsideSpool
<1> QED
  BY <1>1, <1>2, <1>3, <1>4, MoveKeeps


(* A caller takes the mutex with the right counter and gate.               *)
LEMMA BeginRetryInv ==
    ASSUME RetryInv, NEW op \in {"enqueue", "next", "ack", "retry", "quarantine"},
           NEW now, NEW name, NEW file, Begin(op, now, name, file),
           UNCHANGED <<up, answered, persisted>>,
           op # "enqueue" => up.pc = op,
           op = "next" => now = up.now,
           op = "retry" => file.attempt = NextAttempt(up.attempt),
           op = "enqueue" => file.attempt = 0,
           op \in {"retry", "enqueue"} => Gated(file)
    PROVE  StepInv'
<1>1. /\ HandInv /\ GateInv /\ SettledInv /\ WakeInv
      /\ UNCHANGED <<pending, clock, notify, issued, faults>>
  BY DEF RetryInv, Begin
<1>2. Batches' = Batches
  BY <1>1 DEF Batches
<1>3. /\ call'.op = op /\ call'.now = now /\ call'.name = name /\ call'.file = file
      /\ call'.result = "none" /\ call'.phase \in {"cleanup", "apply"}
      /\ call'.phase = "cleanup" => call'.todo = DOMAIN pending
  BY DEF Begin, NoCall
<1>4. call.op = "none"
  BY DEF RetryInv, PipelineInv, CallerInv, Begin
<1>5. HandInv'
  BY <1>1, <1>2, <1>3, <1>4 DEF HandInv
<1>6. GateInv'
  BY <1>1, <1>2, <1>3 DEF GateInv, Gated
<1>7. SweptInv'
  BY <1>1, <1>2, <1>3 DEF SweptInv, Batches
<1>8. SettledInv'
  BY <1>1, <1>2, <1>3 DEF SettledInv, Disposing
<1>9. Fresh' = Fresh
  BY <1>1, <1>2, <1>3, <1>4 DEF Fresh
<1>10. WakeInv'
  BY <1>1, <1>3, <1>9 DEF WakeInv
<1> QED
  BY <1>5, <1>6, <1>7, <1>8, <1>10 DEF StepInv

(* Entering Next, Ack, Quarantine or ScheduleRetry.                        *)
LEMMA UploaderCallsRetry ==
    ASSUME RetryInv, CallNext \/ CallAck \/ CallQuarantine \/ CallScheduleRetry
    PROVE  StepInv'
<1>1. PipelineInv
  BY DEF RetryInv
<1>2. /\ clock \in Nat /\ up.now \in Nat /\ up.now =< clock /\ up.attempt \in Attempts
      /\ MaxBackoff \in Nat
  BY <1>1, RetryTypes, BackoffAssumption
<1>3. UNCHANGED <<up, answered, persisted>>
  BY DEF CallNext, CallAck, CallQuarantine, CallScheduleRetry, uploadVars
<1>4. CASE CallNext
  <2>1. Begin("next", up.now, NoName, NoFile) /\ up.pc = "next"
    BY <1>4 DEF CallNext, BeginNext
  <2> QED
    BY <1>3, <2>1, BeginRetryInv
<1>5. CASE CallAck
  <2>1. Begin("ack", 0, up.name, NoFile) /\ up.pc = "ack"
    BY <1>5 DEF CallAck, BeginAck
  <2> QED
    BY <1>3, <2>1, BeginRetryInv
<1>6. CASE CallQuarantine
  <2>1. Begin("quarantine", 0, up.name, NoFile) /\ up.pc = "quarantine"
    BY <1>6 DEF CallQuarantine, BeginQuarantine
  <2> QED
    BY <1>3, <2>1, BeginRetryInv
<1>7. CASE CallScheduleRetry
  <2>1. up.pc = "retry"
    BY <1>7 DEF CallScheduleRetry
  <2>2. PICK d \in RetryDelays(NextAttempt(up.attempt), up.resp) :
          BeginRetry(up.name, NextAttempt(up.attempt), up.now + d)
    BY <1>7 DEF CallScheduleRetry
  <2>3. d \in Nat /\ d =< MaxBackoff
    BY <1>2 DEF RetryDelays
  <2> DEFINE file == [NoFile EXCEPT !.attempt = NextAttempt(up.attempt), !.nextAt = up.now + d]
  <2>4. Begin("retry", 0, up.name, file)
    BY <2>2 DEF BeginRetry
  <2>5. file.attempt = NextAttempt(up.attempt) /\ file.nextAt = up.now + d
    BY DEF NoFile
  <2> HIDE DEF file
  <2>6. Gated(file)
    BY <1>2, <2>3, <2>5, NextAttemptStep DEF Gated
  <2> QED
    BY <1>3, <2>1, <2>4, <2>5, <2>6, BeginRetryInv
<1> QED
  BY <1>4, <1>5, <1>6, <1>7

(* Entering Enqueue: a new batch is due at once.                           *)
LEMMA ProberEnqueueRetry ==
    ASSUME RetryInv, ProberEnqueue
    PROVE  StepInv'
<1>1. PICK body \in BodySizes : BeginEnqueue(body)
  BY DEF ProberEnqueue
<1> DEFINE file == [created |-> clock, attempt |-> 0, nextAt |-> clock,
                    body |-> body, sound |-> TRUE]
<1>2. Begin("enqueue", clock, NoName, file)
  BY <1>1 DEF BeginEnqueue
<1>3. file.attempt = 0 /\ file.nextAt = clock
  OBVIOUS
<1> HIDE DEF file
<1>4. clock \in Nat /\ MaxBackoff \in Nat
  BY RetryTypes, BackoffAssumption DEF RetryInv
<1>5. Gated(file)
  BY <1>3, <1>4 DEF Gated
<1>6. UNCHANGED <<up, answered, persisted>>
  BY DEF ProberEnqueue
<1> QED
  BY <1>2, <1>3, <1>5, <1>6, BeginRetryInv

(* The mutex is released and the uploader has no batch in hand.            *)
LEMMA ReleaseRetry ==
    ASSUME RetryInv, call' = NoCall,
           UNCHANGED <<pending, clock, issued, persisted>>,
           answered' \subseteq answered, \A n \in answered' : n \notin Batches,
           up'.pc \in {"start", "rejected", "wait", "failed", "stopped"},
           up'.pc = "wait" => UNCHANGED notify /\ call.op = "next" /\ call.result = "empty"
    PROVE  StepInv'
<1>1. GateInv /\ SettledInv /\ WakeInv /\ Batches' = Batches
  BY DEF RetryInv, Batches
<1>2. HandInv' /\ SweptInv'
  BY DEF HandInv, SweptInv, NoCall
<1>3. GateInv'
  BY <1>1 DEF GateInv, Gated, NoCall
<1>4. SettledInv'
  BY <1>1 DEF SettledInv, NoCall
<1>5. \A n \in Fresh' : n \in Fresh
  BY <1>1 DEF Fresh, NoCall
<1>6. WakeInv'
  BY <1>1, <1>5 DEF WakeInv, NoCall
<1> QED
  BY <1>2, <1>3, <1>4, <1>6 DEF StepInv

(* Nothing that was answered is left on disk, unless the uploader is       *)
(* disposing of it.                                                        *)
LEMMA AnsweredGone ==
    ASSUME RetryInv
    PROVE  \A n \in answered : n \in Batches => Disposing(n)
  BY DEF RetryInv, SettledInv

(* Next returns.                                                           *)
LEMMA NextReturnsRetry ==
    ASSUME RetryInv, NextReturns
    PROVE  StepInv'
<1>1. /\ PipelineInv /\ HandInv /\ GateInv /\ SettledInv /\ WakeInv /\ up \in Uploader
      /\ CallerInv
  BY RetryTypes DEF RetryInv, PipelineInv
<1>2. /\ up.pc = "next" /\ call.op = "next" /\ call' = NoCall
      /\ UNCHANGED <<pending, notify, clock, issued, faults, answered, persisted>>
  BY DEF NextReturns, Return
<1>3. CASE call.result = "item"
  <2>1. up' = [up EXCEPT !.pc = "post", !.name = call.name, !.attempt = call.file.attempt]
    BY <1>3 DEF NextReturns
  <2>2. up'.pc = "post" /\ up'.name = call.name /\ up'.attempt = call.file.attempt
    BY <1>1, <2>1 DEF Uploader
  <2>3. Batches' = Batches /\ call'.op = "none" /\ call'.phase = "idle"
        /\ call'.result = "none"
    BY <1>2 DEF Batches, NoCall
  <2>4. HandInv'
    BY <1>1, <1>2, <1>3, <2>2, <2>3 DEF HandInv
  <2>5. GateInv' /\ SweptInv'
    BY <1>1, <1>2, <2>3 DEF GateInv, Gated, SweptInv
  <2>6. SettledInv'
    BY <1>1, <1>2, <1>3, <2>2, <2>3 DEF SettledInv, Disposing
  <2>7. WakeInv'
    BY <2>2, <2>3 DEF WakeInv
  <2> QED
    BY <2>4, <2>5, <2>6, <2>7 DEF StepInv
<1>4. CASE call.result # "item"
  <2>1. \/ call.result = "empty" /\ up' = UploaderAt("wait")
        \/ up' = UploaderAt("stopped") \/ up' = UploaderAt("failed")
    BY <1>4 DEF NextReturns
  <2>2. \/ call.result = "empty" /\ up'.pc = "wait"
        \/ up'.pc \in {"stopped", "failed"}
    BY <2>1 DEF UploaderAt, StartedUploader
  <2> QED
    BY <1>1, <1>2, <2>2, AnsweredGone, ReleaseRetry DEF Disposing
<1> QED
  BY <1>3, <1>4

(* Ack, ScheduleRetry or Quarantine return.                                *)
LEMMA SettleReturnsRetry ==
    ASSUME RetryInv, SettleReturns
    PROVE  StepInv'
<1>1. /\ call' = NoCall /\ call.phase = "done" /\ up.pc = call.op
      /\ UNCHANGED <<pending, clock, issued, persisted>>
      /\ answered' \subseteq answered
      /\ call.result = "error" => up.name \notin answered'
  BY DEF SettleReturns, Return
<1>2. PICK pc \in {"start", "rejected", "failed", "stopped"} : up' = UploaderAt(pc)
  BY DEF SettleReturns
<1>3. up'.pc = pc
  BY <1>2 DEF UploaderAt, StartedUploader
<1> QED
  BY <1>1, <1>3, AnsweredGone, ReleaseRetry DEF Disposing

(* A restart or a crash: the new uploader starts at the top of its loop.   *)
LEMMA NewProcessRetry ==
    ASSUME RetryInv, Restart \/ Crash
    PROVE  StepInv'
<1>1. /\ call' = NoCall /\ up' = StartedUploader
      /\ UNCHANGED <<pending, clock, issued, persisted>>
      /\ answered' \subseteq answered
      /\ up.pc \in {"ack", "quarantine"} => up.name \notin answered'
  BY DEF Restart, Crash, NewProcess, SpoolCrash
<1>2. up'.pc = "start"
  BY <1>1 DEF StartedUploader
<1> QED
  BY <1>1, <1>2, AnsweredGone, ReleaseRetry DEF Disposing

(* Enqueue returns: the batch it promised was already counted as fresh.    *)
LEMMA ProberReturnRetry ==
    ASSUME RetryInv, ProberReturn
    PROVE  StepInv'
<1>1. HandInv /\ GateInv /\ SettledInv /\ WakeInv /\ PipelineInv /\ CallerInv
  BY DEF RetryInv, PipelineInv
<1>2. /\ call.op = "enqueue" /\ call' = NoCall
      /\ UNCHANGED <<pending, notify, clock, issued, faults, up, answered>>
      /\ persisted' = persisted
         \/ (call.result = "ok" /\ persisted' = Put(persisted, call.name, call.file.created))
  BY DEF ProberReturn, Return
<1>3. /\ Batches' = Batches /\ call'.op = "none" /\ call'.phase = "idle"
      /\ call'.result = "none"
  BY <1>2 DEF Batches, NoCall
<1>4. HandInv'
  BY <1>1, <1>2, <1>3 DEF HandInv
<1>5. GateInv' /\ SweptInv'
  BY <1>1, <1>2, <1>3 DEF GateInv, Gated, SweptInv
<1>6. SettledInv'
  BY <1>1, <1>2, <1>3 DEF SettledInv, Disposing
<1>7. \A n \in DOMAIN persisted' : n \in DOMAIN persisted
                                   \/ (call.result = "ok" /\ n = call.name)
  BY <1>2 DEF Put
<1>8. \A n \in Fresh' : n \in Fresh
  BY <1>2, <1>3, <1>7 DEF Fresh
<1>9. WakeInv'
  BY <1>1, <1>2, <1>3, <1>8 DEF WakeInv
<1> QED
  BY <1>4, <1>5, <1>6, <1>9 DEF StepInv


(* The Controller, the clock, a damaged file, a cancellation, the probe    *)
(* loop outside the spool.                                                 *)
LEMMA OthersRetry ==
    ASSUME RetryInv, \/ ControllerStep \/ ClockTick \/ Damage \/ Cancel
                     \/ ProberRun \/ ProberDiscard \/ ProberStop \/ UNCHANGED vars
    PROVE  StepInv'
<1>1. PipelineInv /\ clock \in Nat /\ faults \in Nat /\ up \in Uploader
  BY RetryTypes DEF RetryInv
<1>2. CASE Damage
  <2>1. PICK n \in issued : Corrupt(n)
    BY <1>2 DEF Damage
  <2>2. PendingOK /\ n \in DOMAIN pending
    BY <1>1, <2>1, SpoolInvSplit DEF PipelineInv, Corrupt, Readable, Batches
  <2>3. /\ DOMAIN pending' = DOMAIN pending
        /\ \A m \in DOMAIN pending : /\ pending'[m].attempt = pending[m].attempt
                                     /\ pending'[m].nextAt = pending[m].nextAt
                                     /\ pending'[m].created = pending[m].created
    BY <2>1, <2>2 DEF Corrupt, PendingOK, File
  <2>4. SameFiles /\ Batches' = Batches
    BY <2>3 DEF SameFiles, Batches
  <2>5. /\ UNCHANGED <<clock, call, notify, issued, up, answered, persisted>>
        /\ faults' = faults + 1
    BY <1>2, <2>1 DEF Damage, Corrupt, Fault, uploadVars
  <2> QED
    BY <1>1, <2>4, <2>5, QuietKeeps
<1>3. CASE ClockTick
  <2>1. /\ clock' = clock + 1
        /\ UNCHANGED <<pending, call, notify, issued, faults, up, answered, persisted>>
    BY <1>3 DEF ClockTick, Tick, uploadVars
  <2> QED
    BY <1>1, <2>1, FilesSame, QuietKeeps
<1>4. CASE Cancel
  <2>1. /\ faults' = faults + 1
        /\ UNCHANGED <<clock, pending, call, notify, issued, up, answered, persisted>>
    BY <1>4 DEF Cancel, Fault
  <2> QED
    BY <1>1, <2>1, FilesSame, QuietKeeps
<1>5. CASE ProberRun \/ ProberDiscard \/ ProberStop \/ StrayArrives \/ UNCHANGED vars
  <2>1. UNCHANGED <<clock, pending, call, notify, issued, faults, up, answered, persisted>>
    BY <1>5 DEF ProberRun, ProberDiscard, ProberStop, StrayArrives, vars, spoolVars,
       uploadVars
  <2> QED
    BY <1>1, <2>1, FilesSame, QuietKeeps
<1>6. CASE ControllerAccepts \/ ControllerBusy \/ ControllerRefuses
  <2>1. /\ UNCHANGED <<clock, pending, call, notify, issued, faults, answered, persisted>>
        /\ \E resp : up' = [up EXCEPT !.resp = resp]
    BY <1>6 DEF ControllerAccepts, ControllerBusy, ControllerRefuses, spoolVars
  <2>2. up'.pc = up.pc /\ up'.name = up.name /\ up'.attempt = up.attempt /\ up'.now = up.now
    BY <1>1, <2>1 DEF Uploader
  <2> QED
    BY <1>1, <2>1, <2>2, FilesSame, QuietKeeps
<1> QED
  BY <1>2, <1>3, <1>4, <1>5, <1>6 DEF ControllerStep

(* Every step of the pipeline keeps the invariant.                         *)
LEMMA RetryNext ==
    ASSUME RetryInv, [Next]_vars
    PROVE  RetryInv'
<1>1. PipelineInv'
  BY NextKeeps DEF RetryInv
<1>2. StepInv'
  <2>1. CASE UploaderStep
    BY <2>1, ParkRetry, UploaderCallsRetry, NextReturnsRetry, TransportFailsRetry,
       AnswerArrivesRetry, SettleReturnsRetry DEF UploaderStep
  <2>2. CASE ProberStep
    BY <2>2, OthersRetry, ProberEnqueueRetry, ProberReturnRetry DEF ProberStep
  <2>3. CASE DiskStep
    BY <2>3, DiskHand, DiskGate, DiskSwept, DiskSettled, DiskWake DEF StepInv
  <2> QED
    BY <2>1, <2>2, <2>3, OthersRetry, NewProcessRetry DEF Next
<1> QED
  BY <1>1, <1>2 DEF RetryInv, StepInv

(* Nothing has been written, answered or promised at the start.            *)
LEMMA RetryInit == Init => RetryInv
<1> SUFFICES ASSUME Init PROVE RetryInv
  OBVIOUS
<1>1. PipelineInv
  BY InitOK
<1>2. Batches = {} /\ call = NoCall /\ up = StartedUploader /\ answered = {} /\ issued = {}
  BY DEF Init, SpoolInit, Batches
<1>3. HandInv /\ GateInv /\ SweptInv /\ SettledInv /\ WakeInv
  BY <1>2 DEF HandInv, GateInv, SweptInv, SettledInv, WakeInv, Fresh, NoCall,
     StartedUploader
<1> QED
  BY <1>1, <1>3 DEF RetryInv

-----------------------------------------------------------------------------
(* The invariant of the retries holds through every interleaving, fault,   *)
(* stop and crash.                                                         *)
THEOREM RetryInvariant == Spec => []RetryInv
<1>1. RetryInv /\ [Next]_vars => RetryInv'
  BY RetryNext
<1> QED
  BY <1>1, RetryInit, PTL DEF Spec

(* No lost wake-up: while the uploader is parked without a token, every    *)
(* promised batch in the spool has been tried at least once.               *)
THEOREM WakeupsArrive == Spec => []NoLostWakeup
<1>1. RetryInv => NoLostWakeup
  <2> SUFFICES ASSUME RetryInv, up.pc = "wait", ~notify,
                      NEW n \in Batches \cap DOMAIN persisted
               PROVE  pending[n].attempt > 0
    BY DEF NoLostWakeup
  <2>1. n \notin Fresh /\ PipelineInv
    BY DEF RetryInv, WakeInv
  <2>2. pending[n].attempt # 0
    BY <2>1 DEF Fresh
  <2> QED
    BY <2>1, <2>2, RetryTypes, SpoolAssumption DEF Attempts
<1> QED
  BY <1>1, RetryInvariant, PTL

(* A batch whose final answer reached the uploader is never sent again,    *)
(* unless its own removal failed or the process died in it.                *)
THEOREM AnswersSettle == Spec => []AnsweredNotResent
<1>1. RetryInv => AnsweredNotResent
  BY DEF RetryInv, SettledInv, AnsweredNotResent
<1> QED
  BY <1>1, RetryInvariant, PTL

(* No batch is ever put off further than the backoff cap from now.         *)
THEOREM RetriesStayNear == Spec => []DeferralBounded
<1>1. RetryInv => DeferralBounded
  BY DEF RetryInv, GateInv, Gated, DeferralBounded
<1> QED
  BY <1>1, RetryInvariant, PTL

(* The attempt counter of a pending batch never moves back and never by    *)
(* more than one: every rewrite is decided on the counter it replaces.     *)
THEOREM AttemptsAdvance == Spec => AttemptsAdvanceByOne
<1> DEFINE Step == \A n \in BatchNames \cap DOMAIN pending \cap DOMAIN pending' :
                     pending'[n].attempt \in {pending[n].attempt, pending[n].attempt + 1}
<1>1. RetryInv /\ [Next]_vars => Step
  <2> SUFFICES ASSUME RetryInv, [Next]_vars, NEW n \in Batches, n \in Batches'
               PROVE  pending'[n].attempt \in {pending[n].attempt, pending[n].attempt + 1}
    BY DEF Batches
  <2>1. PipelineInv /\ HandInv
    BY DEF RetryInv
  <2>2. CASE DiskStep /\ CommitWrite
    <3>1. CASE n = call.name
      <4>1. call.op = "retry" /\ up.pc = "retry" /\ call.name = up.name
            /\ pending'[n] = call.file /\ call.phase = "temp"
        BY <2>1, <2>2, <3>1, CommitFiles, SpoolInvSplit DEF PipelineInv, CallInv
      <4>2. call.file.attempt = NextAttempt(pending[n].attempt)
        BY <2>1, <3>1, <4>1 DEF HandInv
      <4>3. pending[n].attempt \in Attempts
        BY <2>1, RetryTypes
      <4> QED
        BY <4>1, <4>2, <4>3, NextAttemptStep
    <3>2. CASE n # call.name
      BY <2>1, <2>2, <3>2, CommitFiles
    <3> QED
      BY <3>1, <3>2
  <2>3. CASE DiskStep /\ ~CommitWrite
    BY <2>1, <2>3, DiskFiles DEF SameFiles
  <2>4. CASE Damage
    <3>1. PICK m \in issued : Corrupt(m)
      BY <2>4 DEF Damage
    <3>2. PendingOK /\ n \in DOMAIN pending
      BY <2>1, SpoolInvSplit DEF PipelineInv, Batches
    <3> QED
      BY <3>1, <3>2 DEF Corrupt, PendingOK, File
  <2>5. CASE ~DiskStep /\ ~Damage
    <3>1. pending' = pending
      <4>1. CASE UploaderStep
        BY <4>1 DEF UploaderStep, UploadOne, CallNext, NextReturns, TransportFails,
           AnswerArrives, CallAck, CallScheduleRetry, CallQuarantine, SettleReturns,
           OnRejected, Woken, PollTimer, RestartRun, CancelledWait, Return, TakeNotify,
           Begin, BeginNext, BeginAck, BeginRetry, BeginQuarantine, spoolVars
      <4>2. CASE ProberStep
        BY <4>2 DEF ProberStep, ProberRun, ProberDiscard, ProberEnqueue, ProberReturn,
           ProberStop, BeginEnqueue, Begin, Return, spoolVars
      <4>3. CASE ControllerStep
        BY <4>3 DEF ControllerStep, ControllerAccepts, ControllerBusy, ControllerRefuses,
           StrayArrives, spoolVars
      <4>4. CASE ClockTick \/ Cancel \/ Restart \/ Crash \/ UNCHANGED vars
        BY <4>4 DEF ClockTick, Tick, Cancel, Restart, Crash, NewProcess, SpoolCrash,
           vars, spoolVars
      <4> QED
        BY <2>5, <4>1, <4>2, <4>3, <4>4 DEF Next
    <3> QED
      BY <3>1
  <2> QED
    BY <2>2, <2>3, <2>4, <2>5
<1>2. Step => [Step]_vars
  OBVIOUS
<1> QED
  BY <1>1, <1>2, RetryInvariant, PTL DEF Spec, AttemptsAdvanceByOne
=============================================================================
