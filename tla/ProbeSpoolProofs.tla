-------------------------- MODULE ProbeSpoolProofs --------------------------
(***************************************************************************)
(* Proofs about the spool for every value of its limits and bounds.        *)
(***************************************************************************)
EXTENDS ProbeSpool, FiniteFolds

(* The length of an encoded batch is a natural number.                     *)
LEMMA EncodedBytesNat ==
    ASSUME NEW f \in File
    PROVE  EncodedBytes(f) \in Nat
<1> DEFINE D == {k \in 1..9 : Radix^k =< f.attempt}
<1>1. IsFiniteSet(1..9)
  <2>1. 1 \in Int /\ 9 \in Int
    OBVIOUS
  <2> QED
    BY <2>1, FS_Interval, Zenon
<1>2. IsFiniteSet(D) /\ Cardinality(D) \in Nat
  BY <1>1, FS_Subset, FS_CardinalityType
<1>3. f.body \in Nat
  BY DEF File
<1> QED
  BY <1>2, <1>3 DEF EncodedBytes

(* What pruning keeps is part of the directory and leaves room for one.    *)
LEMMA PruneKeeps ==
    ASSUME NEW q, NEW size, NEW kept \in PruneQuarantine(q, size)
    PROVE  /\ kept \subseteq DOMAIN q
           /\ Cardinality(kept) + 1 =< MaxQuarantineItems
  BY DEF PruneQuarantine, NewestOf, Fits

-----------------------------------------------------------------------------
(* The invariant, split by the variables its parts speak about.            *)

PendingOK ==
    /\ DOMAIN pending \subseteq Names
    /\ pending \in [DOMAIN pending -> File]
    /\ IsFiniteSet(DOMAIN pending)
    /\ PendingItemsBounded

QuarantineOK ==
    /\ DOMAIN quarantine \subseteq Names
    /\ quarantine \in [DOMAIN quarantine -> Nat]
    /\ IsFiniteSet(DOMAIN quarantine)
    /\ QuarantineItemsBounded

RestOK ==
    /\ clock \in Times
    /\ notify \in BOOLEAN
    /\ call \in Call
    /\ issued \subseteq BatchNames
    /\ damaged \subseteq BatchNames
    /\ faults \in 0..MaxFaults

(* The invariant in the pieces that the proofs below use.                  *)
LEMMA SpoolInvSplit ==
    SpoolInv <=> PendingOK /\ QuarantineOK /\ RestOK /\ CallInv
  BY DEF SpoolInv, SpoolTypeOK, PendingOK, QuarantineOK, RestOK

(* ... and put together again.                                             *)
LEMMA SpoolInvJoin ==
    ASSUME PendingOK', QuarantineOK', RestOK', CallInv'
    PROVE  SpoolInv'
  BY DEF SpoolInv, SpoolTypeOK, PendingOK, QuarantineOK, RestOK

(* The batches of a finite directory can be counted.                       *)
LEMMA BatchesFinite ==
    ASSUME PendingOK
    PROVE  IsFiniteSet(Batches) /\ Cardinality(Batches) \in Nat
  BY FS_Subset, FS_CardinalityType, Zenon DEF PendingOK, Batches

(* Taking a file out of the pending directory.                             *)
LEMMA PendingShrinks ==
    ASSUME PendingOK, NEW n, pending' = Without(pending, n)
    PROVE  /\ PendingOK'
           /\ DOMAIN pending' = DOMAIN pending \ {n}
           /\ Batches' = Batches \ {n}
           /\ Cardinality(Batches') =< Cardinality(Batches)
           /\ \A m \in DOMAIN pending' : pending'[m] = pending[m]
<1>1. /\ pending' \in [DOMAIN pending' -> File]
      /\ DOMAIN pending' = DOMAIN pending \ {n}
      /\ DOMAIN pending' \subseteq Names
      /\ \A m \in DOMAIN pending' : pending'[m] = pending[m]
  BY DEF Without, PendingOK
<1>2. IsFiniteSet(DOMAIN pending')
  <2>1. IsFiniteSet(DOMAIN pending \ {n})
    BY FS_RemoveElement DEF PendingOK
  <2> QED
    BY <1>1, <2>1
<1>3. Batches' = Batches \ {n}
  BY <1>1 DEF Batches
<1>4. Batches' \in SUBSET Batches /\ IsFiniteSet(Batches)
  BY <1>3, BatchesFinite
<1>5. Cardinality(Batches') =< Cardinality(Batches) /\ IsFiniteSet(Batches')
  BY <1>4, FS_Subset, Zenon
<1>6. Cardinality(Batches') \in Nat /\ Cardinality(Batches) \in Nat
  BY <1>4, <1>5, FS_CardinalityType, Zenon
<1>7. PendingItemsBounded'
  BY <1>5, <1>6, SpoolAssumption DEF PendingOK, PendingItemsBounded
<1> QED
  BY <1>1, <1>2, <1>3, <1>5, <1>7 DEF PendingOK

(* Writing a file into it: a temporary, a batch that is already there, or  *)
(* a new batch when there is room.                                         *)
LEMMA PendingGrows ==
    ASSUME PendingOK, NEW n \in Names, NEW f \in File,
           pending' = Put(pending, n, f),
           n \in TempNames \/ n \in Batches \/ Cardinality(Batches) < MaxPendingItems
    PROVE  /\ PendingOK'
           /\ DOMAIN pending' = DOMAIN pending \cup {n}
           /\ pending'[n] = f
           /\ \A m \in DOMAIN pending : m # n => pending'[m] = pending[m]
<1>1. /\ pending' \in [DOMAIN pending' -> File]
      /\ DOMAIN pending' = DOMAIN pending \cup {n}
      /\ DOMAIN pending' \subseteq Names
      /\ pending'[n] = f
      /\ \A m \in DOMAIN pending : m # n => pending'[m] = pending[m]
  BY DEF Put, PendingOK
<1>2. IsFiniteSet(DOMAIN pending')
  <2>1. IsFiniteSet(DOMAIN pending \cup {n})
    BY FS_AddElement DEF PendingOK
  <2> QED
    BY <1>1, <2>1
<1>3. IsFiniteSet(Batches) /\ Cardinality(Batches) \in Nat
  BY BatchesFinite
<1>4. PendingItemsBounded'
  <2>1. CASE n \in TempNames \/ n \in Batches
    <3>1. Batches' = Batches
      BY <1>1, <2>1, SpoolAssumption DEF Batches
    <3> QED
      BY <3>1 DEF PendingOK, PendingItemsBounded
  <2>2. CASE n \in BatchNames /\ n \notin Batches /\ Cardinality(Batches) < MaxPendingItems
    <3>1. Batches' = Batches \cup {n}
      BY <1>1, <2>2 DEF Batches
    <3>2. Cardinality(Batches \cup {n}) = Cardinality(Batches) + 1
      BY <1>3, <2>2, FS_AddElement, Zenon
    <3> QED
      BY <1>3, <2>2, <3>1, <3>2, SpoolAssumption DEF PendingItemsBounded
  <2> QED
    BY <2>1, <2>2 DEF Names
<1> QED
  BY <1>1, <1>2, <1>4 DEF PendingOK

(* The quarantine after any pruning, complete or cut short.                *)
LEMMA QuarantineShrinks ==
    ASSUME QuarantineOK, NEW kept \in SUBSET DOMAIN quarantine,
           quarantine' = Restrict(quarantine, kept)
    PROVE  QuarantineOK'
<1>1. DOMAIN quarantine' = kept /\ quarantine' \in [kept -> Nat]
  BY DEF Restrict, QuarantineOK
<1>2. IsFiniteSet(kept) /\ Cardinality(kept) =< Cardinality(DOMAIN quarantine)
  BY FS_Subset, Zenon DEF QuarantineOK
<1>3. Cardinality(kept) \in Nat /\ Cardinality(DOMAIN quarantine) \in Nat
  BY <1>2, FS_CardinalityType DEF QuarantineOK
<1> QED
  BY <1>1, <1>2, <1>3, SpoolAssumption DEF QuarantineOK, QuarantineItemsBounded

(* The quarantine after a complete pruning and the move of a file into it. *)
LEMMA QuarantineGrows ==
    ASSUME QuarantineOK, NEW size \in Nat, NEW n \in Names,
           NEW kept \in PruneQuarantine(quarantine, size),
           quarantine' = Put(Restrict(quarantine, kept), n, size)
    PROVE  QuarantineOK'
<1> DEFINE R == Restrict(quarantine, kept)
<1>1. kept \subseteq DOMAIN quarantine /\ Cardinality(kept) + 1 =< MaxQuarantineItems
  BY PruneKeeps
<1>2. DOMAIN R = kept /\ R \in [kept -> Nat] /\ DOMAIN R \subseteq Names
  BY <1>1 DEF Restrict, QuarantineOK
<1> HIDE DEF R
<1>3. /\ quarantine' \in [DOMAIN quarantine' -> Nat]
      /\ DOMAIN quarantine' = kept \cup {n}
      /\ DOMAIN quarantine' \subseteq Names
  BY <1>2 DEF Put, R
<1>4. IsFiniteSet(kept)
  BY <1>1, FS_Subset, Zenon DEF QuarantineOK
<1>5. Cardinality(kept) \in Nat
  BY <1>4, FS_CardinalityType
<1>6. /\ IsFiniteSet(kept \cup {n})
      /\ Cardinality(kept \cup {n}) = IF n \in kept THEN Cardinality(kept)
                                     ELSE Cardinality(kept) + 1
  BY <1>4, FS_AddElement, Zenon
<1> QED
  BY <1>1, <1>3, <1>5, <1>6, SpoolAssumption DEF QuarantineOK, QuarantineItemsBounded

(* Moving or removing one file keeps both directories in their limits.     *)
LEMMA QuarantinePathOK ==
    ASSUME PendingOK, QuarantineOK, NEW n \in DOMAIN pending, QuarantinePath(n)
    PROVE  /\ PendingOK' /\ QuarantineOK'
           /\ DOMAIN pending' = DOMAIN pending \ {n}
           /\ Batches' = Batches \ {n}
           /\ \A m \in DOMAIN pending' : pending'[m] = pending[m]
<1> DEFINE size == EncodedBytes(pending[n])
<1>1. size \in Nat /\ n \in Names
  BY EncodedBytesNat DEF PendingOK
<1>2. pending' = Without(pending, n)
  BY DEF QuarantinePath, Removed
<1>3. QuarantineOK'
  <2>1. CASE quarantine' = quarantine
    BY <2>1 DEF QuarantineOK, QuarantineItemsBounded
  <2>2. CASE \E kept \in PruneQuarantine(quarantine, size) :
               quarantine' = Put(Restrict(quarantine, kept), n, size)
    <3> HIDE DEF size
    <3> QED
      BY <1>1, <2>2, QuarantineGrows
  <2> QED
    BY <2>1, <2>2 DEF QuarantinePath, Removed
<1> QED
  BY <1>2, <1>3, PendingShrinks

(* So does a move that stopped after the pruning.                          *)
LEMMA PrunedOnlyOK ==
    ASSUME QuarantineOK, NEW n, PrunedOnly(n)
    PROVE  QuarantineOK' /\ pending' = pending
<1>1. PICK kept \in NewestOf(quarantine) : quarantine' = Restrict(quarantine, kept)
  BY DEF PrunedOnly
<1>2. kept \in SUBSET DOMAIN quarantine
  BY DEF NewestOf
<1> QED
  BY <1>1, <1>2, QuarantineShrinks DEF PrunedOnly

(* The pending directory is well formed while it is unchanged.             *)
LEMMA PendingSame ==
    ASSUME PendingOK, pending' = pending
    PROVE  PendingOK' /\ Batches' = Batches
  BY DEF PendingOK, PendingItemsBounded, Batches

(* The quarantine is well formed while it is unchanged.                    *)
LEMMA QuarantineSame ==
    ASSUME QuarantineOK, quarantine' = quarantine
    PROVE  QuarantineOK'
  BY DEF QuarantineOK, QuarantineItemsBounded

(* A method that returns keeps its frame in type and owes nothing more.    *)
LEMMA ReturnsOK ==
    ASSUME RestOK, CallInv, NEW r \in {"ok", "item", "empty", "error"},
           call' = Returned(r), clock' = clock, Batches' \subseteq issued'
    PROVE  call' \in Call /\ CallInv'
<1>1. /\ call' \in Call
      /\ call'.phase = "done"
      /\ call'.now = call.now
  BY DEF Returned, Call, RestOK
<1> QED
  BY <1>1 DEF CallInv

(* The fault counter stays within its bound.                               *)
LEMMA FaultOK ==
    ASSUME RestOK, Fault
    PROVE  faults' \in 0..MaxFaults
  BY SpoolAssumption DEF RestOK, Fault

-----------------------------------------------------------------------------
(* Every action keeps the invariant.                                       *)

(* Taking the mutex for any method keeps the invariant.                    *)
LEMMA BeginKeeps ==
    ASSUME SpoolInv,
           NEW op \in {"enqueue", "next", "retry", "ack", "quarantine"},
           NEW now \in 0..clock, NEW name \in BatchNames \cup {NoName}, NEW file \in File,
           Begin(op, now, name, file)
    PROVE  SpoolInv'
<1>1. PendingOK /\ QuarantineOK /\ RestOK /\ CallInv
  BY SpoolInvSplit
<1>2. now \in Times /\ now =< clock
  BY <1>1, SpoolAssumption DEF RestOK, Times
<1>3. /\ call' \in Call
      /\ call'.phase \in {"cleanup", "apply"}
      /\ call'.now = now
      /\ call'.todo \subseteq DOMAIN pending
  BY <1>1, <1>2 DEF Begin, NoCall, Call, PendingOK
<1>4. PendingOK' /\ Batches' = Batches
  BY <1>1, PendingSame DEF Begin
<1>5. QuarantineOK'
  BY <1>1, QuarantineSame DEF Begin
<1>6. RestOK'
  BY <1>1, <1>3 DEF RestOK, Begin
<1>7. CallInv'
  BY <1>1, <1>2, <1>3, <1>4 DEF CallInv, Begin
<1> QED
  BY <1>4, <1>5, <1>6, <1>7, SpoolInvJoin

(* Cleaning up one directory entry keeps the invariant.                    *)
LEMMA CleanupEntryKeeps ==
    ASSUME SpoolInv, CleanupEntry
    PROVE  SpoolInv'
<1>1. PendingOK /\ QuarantineOK /\ RestOK /\ CallInv
  BY SpoolInvSplit
<1>2. PICK n \in call.todo :
        /\ call' = [call EXCEPT !.todo = @ \ {n}]
        /\ \/ UNCHANGED <<pending, quarantine, damaged, faults>>
           \/ Removed(n) /\ UNCHANGED <<damaged, faults>>
           \/ /\ Fault \/ UNCHANGED faults
              /\ QuarantinePath(n)
              /\ damaged' = damaged \cup ({n} \cap BatchNames)
  BY DEF CleanupEntry
<1>3. call.phase = "cleanup" /\ UNCHANGED <<clock, notify, issued>>
  BY DEF CleanupEntry
<1>4. n \in DOMAIN pending
  BY <1>1, <1>3 DEF CallInv
<1>5. /\ call' \in Call
      /\ call'.phase = "cleanup" /\ call'.now = call.now
      /\ call'.todo = call.todo \ {n}
  BY <1>1, <1>2, <1>3 DEF RestOK, Call
<1>6. /\ PendingOK' /\ QuarantineOK'
      /\ DOMAIN pending \ {n} \subseteq DOMAIN pending'
      /\ Batches' \subseteq Batches
  <2>1. CASE UNCHANGED <<pending, quarantine, damaged, faults>>
    BY <1>1, <2>1, PendingSame, QuarantineSame
  <2>2. CASE Removed(n)
    BY <1>1, <2>2, PendingShrinks, QuarantineSame DEF Removed
  <2>3. CASE QuarantinePath(n)
    BY <1>1, <1>4, <2>3, QuarantinePathOK
  <2> QED
    BY <1>2, <2>1, <2>2, <2>3
<1>7. faults' \in 0..MaxFaults
  BY <1>1, <1>2, FaultOK DEF RestOK
<1>8. damaged' \subseteq BatchNames
  BY <1>1, <1>2 DEF RestOK
<1>9. RestOK'
  BY <1>1, <1>3, <1>5, <1>7, <1>8 DEF RestOK
<1>10. CallInv'
  BY <1>1, <1>3, <1>5, <1>6 DEF CallInv
<1> QED
  BY <1>6, <1>9, <1>10, SpoolInvJoin

(* A pass over the pending directory looks at files that are there.        *)
LEMMA VisitedPending ==
    ASSUME CallInv, call.phase = "cleanup"
    PROVE  Visited \subseteq DOMAIN pending
  BY DEF CallInv, Visited, Batches

(* A cleanup that stops half way keeps the invariant.                      *)
LEMMA CleanupErrorKeeps ==
    ASSUME SpoolInv, CleanupError
    PROVE  SpoolInv'
<1>1. PendingOK /\ QuarantineOK /\ RestOK /\ CallInv
  BY SpoolInvSplit
<1>2. /\ call.phase = "cleanup" /\ call' = Returned("error")
      /\ UNCHANGED <<clock, notify, issued>>
      /\ Fault
  BY DEF CleanupError
<1>3. /\ PendingOK' /\ QuarantineOK'
      /\ Batches' \subseteq Batches
      /\ damaged' \subseteq BatchNames
  <2>1. CASE UNCHANGED <<pending, quarantine, damaged>>
    BY <1>1, <2>1, PendingSame, QuarantineSame DEF RestOK
  <2>2. CASE \E n \in Visited :
               \/ /\ QuarantinePath(n) \/ PrunedOnly(n)
                  /\ damaged' = damaged \cup ({n} \cap BatchNames)
               \/ Removed(n) /\ UNCHANGED damaged
    <3>1. PICK n \in Visited :
               \/ /\ QuarantinePath(n) \/ PrunedOnly(n)
                  /\ damaged' = damaged \cup ({n} \cap BatchNames)
               \/ Removed(n) /\ UNCHANGED damaged
      BY <2>2
    <3>2. n \in DOMAIN pending
      BY <1>1, <1>2, VisitedPending
    <3>3. damaged' \subseteq BatchNames
      BY <1>1, <3>1 DEF RestOK
    <3>4. CASE Removed(n)
      BY <1>1, <3>3, <3>4, PendingShrinks, QuarantineSame DEF Removed
    <3>5. CASE QuarantinePath(n)
      BY <1>1, <3>2, <3>3, <3>5, QuarantinePathOK
    <3>6. CASE PrunedOnly(n)
      BY <1>1, <3>3, <3>6, PrunedOnlyOK, PendingSame
    <3> QED
      BY <3>1, <3>4, <3>5, <3>6
  <2> QED
    BY <2>1, <2>2 DEF CleanupError
<1>4. call' \in Call /\ CallInv'
  BY <1>1, <1>2, <1>3, ReturnsOK DEF CallInv
<1>5. RestOK'
  BY <1>1, <1>2, <1>3, <1>4, FaultOK DEF RestOK
<1> QED
  BY <1>3, <1>4, <1>5, SpoolInvJoin

(* Actions that leave both directories alone and only move the frame on.   *)
LEMMA FrameKeeps ==
    ASSUME SpoolInv, UNCHANGED <<pending, quarantine, issued, damaged>>,
           clock' = clock, notify' \in BOOLEAN, faults' \in 0..MaxFaults,
           call' \in Call, call'.now =< clock, call'.phase \in {"idle", "done"}
    PROVE  SpoolInv'
<1>1. PendingOK /\ QuarantineOK /\ RestOK /\ CallInv
  BY SpoolInvSplit
<1>2. PendingOK' /\ Batches' = Batches
  BY <1>1, PendingSame
<1>3. QuarantineOK'
  BY <1>1, QuarantineSame
<1>4. RestOK'
  BY <1>1 DEF RestOK
<1>5. CallInv'
  BY <1>1, <1>2 DEF CallInv
<1> QED
  BY <1>2, <1>3, <1>4, <1>5, SpoolInvJoin

(* The idle frame is a frame.                                              *)
LEMMA NoCallTyped == NoCall \in Call /\ NoCall.now = 0 /\ NoCall.phase = "idle"
<1>1. 0 \in Times /\ 0 \in Attempts
  BY SpoolAssumption DEF Times, Attempts
<1>2. NoFile \in File
  BY <1>1 DEF NoFile, File
<1> QED
  BY <1>1, <1>2 DEF NoCall, Call

(* Releasing the mutex keeps the invariant.                                *)
LEMMA ReturnKeeps ==
    ASSUME SpoolInv, Return
    PROVE  SpoolInv'
<1>1. RestOK
  BY SpoolInvSplit
<1>2. call' = NoCall /\ clock \in Nat
  BY <1>1, SpoolAssumption DEF Return, RestOK, Times
<1> QED
  BY <1>1, <1>2, NoCallTyped, FrameKeeps DEF Return, RestOK

(* A crash in the middle of any method keeps the invariant.                *)
LEMMA SpoolCrashKeeps ==
    ASSUME SpoolInv, SpoolCrash, faults' \in 0..MaxFaults
    PROVE  SpoolInv'
<1>1. RestOK
  BY SpoolInvSplit
<1>2. call' = NoCall /\ clock \in Nat
  BY <1>1, SpoolAssumption DEF SpoolCrash, RestOK, Times
<1>3. notify' \in BOOLEAN
  BY DEF SpoolCrash
<1> QED
  BY <1>1, <1>2, <1>3, NoCallTyped, FrameKeeps DEF SpoolCrash, RestOK

(* Quarantining a batch in the second pass of Next keeps the invariant.    *)
LEMMA SelectUnreadableKeeps ==
    ASSUME SpoolInv, SelectUnreadable
    PROVE  SpoolInv'
<1>1. PendingOK /\ QuarantineOK /\ RestOK /\ CallInv
  BY SpoolInvSplit
<1>2. PICK n \in Batches :
        /\ Fault \/ UNCHANGED faults
        /\ QuarantinePath(n)
        /\ damaged' = damaged \cup {n}
  BY DEF SelectUnreadable
<1>3. /\ call.phase = "cleanup" /\ call.todo = {}
      /\ UNCHANGED <<clock, notify, call, issued>>
  BY DEF SelectUnreadable
<1>4. n \in DOMAIN pending /\ n \in BatchNames
  BY DEF Batches
<1>5. PendingOK' /\ QuarantineOK' /\ Batches' \subseteq Batches
  BY <1>1, <1>2, <1>4, QuarantinePathOK
<1>6. faults' \in 0..MaxFaults
  BY <1>1, <1>2, FaultOK DEF RestOK
<1>7. RestOK'
  BY <1>1, <1>2, <1>3, <1>4, <1>6 DEF RestOK
<1>8. CallInv'
  BY <1>1, <1>3, <1>5 DEF CallInv
<1> QED
  BY <1>5, <1>7, <1>8, SpoolInvJoin

(* Returning a due batch from Next keeps the invariant.                    *)
LEMMA SelectDueKeeps ==
    ASSUME SpoolInv, SelectDue
    PROVE  SpoolInv'
<1>1. PendingOK /\ RestOK /\ CallInv
  BY SpoolInvSplit
<1>2. /\ call' \in Call
      /\ call'.now = call.now
      /\ call'.phase = "done"
  <2>1. CASE call' = Returned("empty")
    BY <1>1, <2>1 DEF Returned, Call, RestOK
  <2>2. CASE \E n \in Batches :
               call' = [Returned("item") EXCEPT !.name = n, !.file = pending[n]]
    <3>1. PICK n \in Batches :
               call' = [Returned("item") EXCEPT !.name = n, !.file = pending[n]]
      BY <2>2
    <3>2. n \in BatchNames /\ pending[n] \in File
      BY <1>1 DEF Batches, PendingOK
    <3> QED
      BY <1>1, <3>1, <3>2 DEF Returned, Call, RestOK
  <2> QED
    BY <2>1, <2>2 DEF SelectDue
<1> QED
  BY <1>1, <1>2, FrameKeeps DEF SelectDue, RestOK, CallInv

(* A refused Enqueue or ScheduleRetry keeps the invariant.                 *)
LEMMA ErrorKeeps ==
    ASSUME SpoolInv, Refuse \/ RescheduleError
    PROVE  SpoolInv'
<1>1. RestOK /\ CallInv
  BY SpoolInvSplit
<1>2. /\ call' = Returned("error")
      /\ UNCHANGED <<clock, pending, quarantine, notify, issued, damaged>>
      /\ Fault \/ UNCHANGED faults
  BY DEF Refuse, RescheduleError
<1>3. /\ call' \in Call
      /\ call'.now = call.now
      /\ call'.phase = "done"
  BY <1>1, <1>2 DEF Returned, Call, RestOK
<1>4. faults' \in 0..MaxFaults
  BY <1>1, <1>2, FaultOK DEF RestOK
<1> QED
  BY <1>1, <1>2, <1>3, <1>4, FrameKeeps DEF RestOK, CallInv

(* A write starts: the temporary file joins the pending directory.         *)
LEMMA WriteTempKeeps ==
    ASSUME SpoolInv, NEW n \in BatchNames, NEW f \in File, WriteTemp(n, f),
           n \in Batches \/ (n \notin issued /\ Cardinality(Batches) < MaxPendingItems),
           UNCHANGED <<clock, quarantine, notify, issued, damaged, faults>>
    PROVE  SpoolInv'
<1>1. PendingOK /\ QuarantineOK /\ RestOK /\ CallInv
  BY SpoolInvSplit
<1>2. PICK t \in TempNames :
        /\ pending' = Put(pending, t, f)
        /\ call' = [call EXCEPT !.phase = "temp", !.temp = t, !.name = n, !.file = f]
  BY DEF WriteTemp
<1>3. /\ call' \in Call
      /\ call'.phase = "temp" /\ call'.temp = t /\ call'.name = n
      /\ call'.now = call.now
  BY <1>1, <1>2 DEF RestOK, Call
<1>4. /\ PendingOK'
      /\ DOMAIN pending' = DOMAIN pending \cup {t}
  BY <1>1, <1>2, PendingGrows DEF Names
<1>5. t \notin BatchNames
  BY SpoolAssumption
<1>6. Batches' = Batches
  BY <1>4, <1>5 DEF Batches
<1>7. QuarantineOK'
  BY <1>1, QuarantineSame
<1>8. RestOK'
  BY <1>1, <1>3 DEF RestOK
<1>9. CallInv'
  <2>1. Batches' \subseteq issued' /\ call'.now =< clock'
    BY <1>1, <1>3, <1>6 DEF CallInv
  <2>2. call'.temp \in TempNames \cap DOMAIN pending'
    BY <1>3, <1>4
  <2>3. \/ call'.name \in Batches'
        \/ call'.name \notin issued' /\ Cardinality(Batches') < MaxPendingItems
    BY <1>3, <1>6
  <2> QED
    BY <1>3, <2>1, <2>2, <2>3 DEF CallInv
<1> QED
  BY <1>4, <1>7, <1>8, <1>9, SpoolInvJoin

(* Admitting a batch keeps the invariant: the count was checked.           *)
LEMMA AdmitKeeps ==
    ASSUME SpoolInv, Admit
    PROVE  SpoolInv'
<1>1. call.file \in File
  BY DEF SpoolInv, SpoolTypeOK, Call
<1>2. PICK n \in BatchNames \ issued : WriteTemp(n, call.file)
  BY DEF Admit
<1> QED
  BY <1>1, <1>2, WriteTempKeeps DEF Admit, HasCapacity

(* Starting to rewrite a batch keeps the invariant.                        *)
LEMMA RescheduleKeeps ==
    ASSUME SpoolInv, Reschedule
    PROVE  SpoolInv'
<1>1. call.name \in Batches /\ call.name \in BatchNames
  BY DEF Reschedule, CanReschedule, Readable, Batches
<1>2. pending[call.name] \in File /\ call.file \in File
  BY <1>1 DEF SpoolInv, SpoolTypeOK, Batches, Call
<1>3. Rescheduled \in File
  BY <1>2 DEF Rescheduled, File
<1>4. /\ WriteTemp(call.name, Rescheduled)
      /\ UNCHANGED <<clock, quarantine, notify, issued, damaged, faults>>
  BY DEF Reschedule
<1> QED
  BY <1>1, <1>3, <1>4, WriteTempKeeps

(* The rename keeps the invariant: the name is new and there is room, or it is in use.*)
LEMMA CommitWriteKeeps ==
    ASSUME SpoolInv, CommitWrite
    PROVE  SpoolInv'
<1>1. PendingOK /\ QuarantineOK /\ RestOK /\ CallInv
  BY SpoolInvSplit
<1>2. /\ call.temp \in TempNames /\ call.name \in BatchNames
      /\ call.file \in File
      /\ call.name \in Batches \/ Cardinality(Batches) < MaxPendingItems
  BY <1>1 DEF CallInv, CommitWrite, RestOK, Call
<1>3. call.temp \notin BatchNames
  BY <1>2, SpoolAssumption
<1> DEFINE P == Without(pending, call.temp)
<1>4. /\ DOMAIN P = DOMAIN pending \ {call.temp}
      /\ P \in [DOMAIN P -> File] /\ DOMAIN P \subseteq Names
  BY <1>1 DEF Without, PendingOK
<1>5. BatchNames \cap DOMAIN P = Batches
  BY <1>3, <1>4 DEF Batches
<1>6. pending' = Put(P, call.name, call.file)
  BY DEF CommitWrite
<1> HIDE DEF P
<1>7. /\ DOMAIN pending' = DOMAIN P \cup {call.name}
      /\ pending' \in [DOMAIN pending' -> File]
      /\ DOMAIN pending' \subseteq Names
  BY <1>2, <1>4, <1>6 DEF Put, Names
<1>8. Batches' = Batches \cup {call.name}
  BY <1>2, <1>5, <1>7 DEF Batches
<1>9. IsFiniteSet(DOMAIN pending')
  <2>1. IsFiniteSet(DOMAIN pending \ {call.temp})
    BY <1>1, FS_RemoveElement DEF PendingOK
  <2>2. IsFiniteSet((DOMAIN pending \ {call.temp}) \cup {call.name})
    BY <2>1, FS_AddElement
  <2> QED
    BY <1>4, <1>7, <2>2
<1>10. PendingItemsBounded'
  <2>1. /\ Cardinality(Batches) \in Nat
        /\ Cardinality(Batches \cup {call.name}) =
             IF call.name \in Batches THEN Cardinality(Batches) ELSE Cardinality(Batches) + 1
    BY <1>1, BatchesFinite, FS_AddElement, Zenon
  <2> QED
    BY <1>1, <1>2, <1>8, <2>1, SpoolAssumption DEF PendingOK, PendingItemsBounded
<1>11. PendingOK'
  BY <1>7, <1>9, <1>10 DEF PendingOK
<1>12. QuarantineOK'
  BY <1>1, QuarantineSame DEF CommitWrite
<1>13. Batches' \subseteq issued' /\ issued' \subseteq BatchNames
  BY <1>1, <1>2, <1>8 DEF CommitWrite, CallInv, RestOK
<1>14. call' \in Call /\ CallInv'
  BY <1>1, <1>13, ReturnsOK DEF CommitWrite
<1>15. faults' \in 0..MaxFaults
  BY <1>1, FaultOK DEF CommitWrite, RestOK
<1>16. notify' \in BOOLEAN
  BY <1>1 DEF CommitWrite, RestOK
<1>17. RestOK'
  BY <1>1, <1>13, <1>14, <1>15, <1>16 DEF RestOK, CommitWrite
<1> QED
  BY <1>11, <1>12, <1>14, <1>17, SpoolInvJoin

(* Removing or moving a file and returning, whatever the method.           *)
LEMMA DisposeKeeps ==
    ASSUME SpoolInv, PendingOK', QuarantineOK', Batches' \subseteq Batches,
           NEW r \in {"ok", "error"}, call' = Returned(r), Fault \/ UNCHANGED faults,
           UNCHANGED <<clock, notify, issued, damaged>>
    PROVE  SpoolInv'
<1>1. RestOK /\ CallInv
  BY SpoolInvSplit
<1>2. call' \in Call /\ CallInv'
  BY <1>1, ReturnsOK DEF CallInv
<1>3. faults' \in 0..MaxFaults
  BY <1>1, FaultOK DEF RestOK
<1>4. RestOK'
  BY <1>1, <1>2, <1>3 DEF RestOK
<1> QED
  BY <1>2, <1>4, SpoolInvJoin

(* A failed write keeps the invariant, whether its temporary file is gone or not.*)
LEMMA AbortWriteKeeps ==
    ASSUME SpoolInv, AbortWrite
    PROVE  SpoolInv'
<1>1. PendingOK /\ QuarantineOK
  BY SpoolInvSplit
<1>2. PendingOK' /\ Batches' \subseteq Batches
  BY <1>1, PendingShrinks, PendingSame DEF AbortWrite
<1>3. QuarantineOK'
  BY <1>1, QuarantineSame DEF AbortWrite
<1> QED
  BY <1>2, <1>3, DisposeKeeps DEF AbortWrite

(* Ack keeps the invariant.                                                *)
LEMMA AckKeeps ==
    ASSUME SpoolInv, Ack
    PROVE  SpoolInv'
<1>1. PendingOK /\ QuarantineOK
  BY SpoolInvSplit
<1>2. PendingOK' /\ Batches' \subseteq Batches
  BY <1>1, PendingShrinks, PendingSame DEF Ack, Removed
<1>3. QuarantineOK'
  BY <1>1, QuarantineSame DEF Ack, Removed
<1> QED
  BY <1>2, <1>3, DisposeKeeps DEF Ack

(* Quarantine keeps the invariant.                                         *)
LEMMA QuarantineKeeps ==
    ASSUME SpoolInv, Quarantine
    PROVE  SpoolInv'
<1>1. PendingOK /\ QuarantineOK
  BY SpoolInvSplit
<1>2. \/ call.name \in DOMAIN pending /\ QuarantinePath(call.name)
      \/ PrunedOnly(call.name)
      \/ UNCHANGED <<pending, quarantine>>
  BY DEF Quarantine
<1>3. PendingOK' /\ QuarantineOK' /\ Batches' \subseteq Batches
  BY <1>1, <1>2, QuarantinePathOK, PrunedOnlyOK, PendingSame, QuarantineSame
<1>4. /\ call' = Returned("ok") \/ call' = Returned("error")
      /\ Fault \/ UNCHANGED faults
      /\ UNCHANGED <<clock, notify, issued, damaged>>
  BY DEF Quarantine
<1> QED
  BY <1>3, <1>4, DisposeKeeps

(* The clock keeps the invariant.                                          *)
LEMMA TickKeeps ==
    ASSUME SpoolInv, Tick
    PROVE  SpoolInv'
<1>1. PendingOK /\ QuarantineOK /\ RestOK /\ CallInv
  BY SpoolInvSplit
<1>2. PendingOK' /\ Batches' = Batches
  BY <1>1, PendingSame DEF Tick
<1>3. QuarantineOK'
  BY <1>1, QuarantineSame DEF Tick
<1>4. clock \in Nat /\ clock' \in Times /\ clock' = clock + 1 /\ call.now \in Nat
  BY <1>1, SpoolAssumption DEF RestOK, Tick, Times, Call
<1>5. RestOK'
  BY <1>1, <1>4 DEF RestOK, Tick
<1>6. call'.now =< clock'
  BY <1>1, <1>4 DEF CallInv, Tick
<1>7. CallInv'
  BY <1>1, <1>2, <1>6 DEF CallInv, Tick
<1> QED
  BY <1>2, <1>3, <1>5, <1>7, SpoolInvJoin

(* A file that loses its integrity keeps the invariant.                    *)
LEMMA CorruptKeeps ==
    ASSUME SpoolInv, NEW n, Corrupt(n)
    PROVE  SpoolInv'
<1>1. PendingOK /\ QuarantineOK /\ RestOK /\ CallInv
  BY SpoolInvSplit
<1>2. n \in BatchNames /\ n \in DOMAIN pending
  BY DEF Corrupt, Readable, Batches
<1>3. /\ DOMAIN pending' = DOMAIN pending
      /\ pending' \in [DOMAIN pending -> File]
  BY <1>1, <1>2 DEF Corrupt, PendingOK, File
<1>4. Batches' = Batches
  BY <1>3 DEF Batches
<1>5. PendingOK'
  BY <1>1, <1>3, <1>4 DEF PendingOK, PendingItemsBounded
<1>6. QuarantineOK'
  BY <1>1, QuarantineSame DEF Corrupt
<1>7. faults' \in 0..MaxFaults
  BY <1>1, FaultOK DEF Corrupt
<1>8. RestOK'
  BY <1>1, <1>2, <1>7 DEF RestOK, Corrupt
<1>9. CallInv'
  BY <1>1, <1>3, <1>4 DEF CallInv, Corrupt
<1> QED
  BY <1>5, <1>6, <1>8, <1>9, SpoolInvJoin

(* Taking the wake-up token keeps the invariant.                           *)
LEMMA TakeNotifyKeeps ==
    ASSUME SpoolInv, TakeNotify
    PROVE  SpoolInv'
<1>1. PendingOK /\ QuarantineOK /\ RestOK /\ CallInv
  BY SpoolInvSplit
<1>2. PendingOK' /\ Batches' = Batches
  BY <1>1, PendingSame DEF TakeNotify
<1>3. QuarantineOK'
  BY <1>1, QuarantineSame DEF TakeNotify
<1>4. notify' \in BOOLEAN
  BY DEF TakeNotify
<1>5. RestOK'
  BY <1>1, <1>4 DEF RestOK, TakeNotify
<1>6. CallInv'
  BY <1>1, <1>2 DEF CallInv, TakeNotify
<1> QED
  BY <1>2, <1>3, <1>5, <1>6, SpoolInvJoin

(* Every file system step of every method keeps the invariant.             *)
LEMMA SpoolStepKeeps ==
    ASSUME SpoolInv, SpoolStep
    PROVE  SpoolInv'
  BY CleanupEntryKeeps, CleanupErrorKeeps, SelectDueKeeps, SelectUnreadableKeeps,
     AdmitKeeps, ErrorKeeps, RescheduleKeeps, CommitWriteKeeps, AbortWriteKeeps,
     AckKeeps, QuarantineKeeps DEF SpoolStep

(* Starting a call keeps it, whichever method it is.                       *)
LEMMA CallKeeps ==
    ASSUME SpoolInv,
           \/ \E body \in BodySizes : BeginEnqueue(body)
           \/ \E now \in 0..clock : BeginNext(now)
           \/ \E n \in issued :
                \/ \E attempt \in Attempts, nextAt \in Times : BeginRetry(n, attempt, nextAt)
                \/ BeginAck(n)
                \/ BeginQuarantine(n)
    PROVE  SpoolInv'
<1>1. RestOK
  BY SpoolInvSplit
<1>2. clock \in Nat /\ 0 \in 0..clock /\ clock \in 0..clock /\ clock \in Times
  BY <1>1, SpoolAssumption DEF RestOK, Times
<1>3. NoFile \in File /\ NoName \in BatchNames \cup {NoName} /\ 0 \in Times /\ 0 \in Attempts
  BY SpoolAssumption DEF NoFile, File, Times, Attempts
<1>4. ASSUME NEW body \in BodySizes, BeginEnqueue(body)
      PROVE  SpoolInv'
  <2>1. [created |-> clock, attempt |-> 0, nextAt |-> clock,
         body |-> body, sound |-> TRUE] \in File
    BY <1>2, <1>3, SpoolAssumption DEF File
  <2> QED
    BY <1>2, <1>3, <1>4, <2>1, BeginKeeps DEF BeginEnqueue
<1>5. ASSUME NEW now \in 0..clock, BeginNext(now)
      PROVE  SpoolInv'
  BY <1>3, <1>5, BeginKeeps DEF BeginNext
<1>6. ASSUME NEW n \in issued, BeginAck(n) \/ BeginQuarantine(n)
      PROVE  SpoolInv'
  <2>1. n \in BatchNames \cup {NoName}
    BY <1>1 DEF RestOK
  <2> QED
    BY <1>2, <1>3, <1>6, <2>1, BeginKeeps DEF BeginAck, BeginQuarantine
<1>7. ASSUME NEW n \in issued, NEW attempt \in Attempts, NEW nextAt \in Times,
             BeginRetry(n, attempt, nextAt)
      PROVE  SpoolInv'
  <2>1. n \in BatchNames \cup {NoName}
    BY <1>1 DEF RestOK
  <2>2. [NoFile EXCEPT !.attempt = attempt, !.nextAt = nextAt] \in File
    BY <1>3 DEF File
  <2> QED
    BY <1>2, <1>7, <2>1, <2>2, BeginKeeps DEF BeginRetry
<1> QED
  BY <1>4, <1>5, <1>6, <1>7

(* Every step of the spool under arbitrary callers keeps the invariant.    *)
LEMMA SpoolNextKeeps ==
    ASSUME SpoolInv, [SpoolNext]_spoolVars
    PROVE  SpoolInv'
<1>1. CASE SpoolCrash /\ Fault
  <2>1. faults' \in 0..MaxFaults
    BY <1>1, SpoolInvSplit, FaultOK
  <2> QED
    BY <1>1, <2>1, SpoolCrashKeeps
<1>2. CASE \E n \in issued : Corrupt(n)
  BY <1>2, CorruptKeeps
<1>3. CASE UNCHANGED spoolVars
  <2>1. PendingOK /\ QuarantineOK /\ RestOK /\ CallInv
    BY SpoolInvSplit
  <2>2. PendingOK' /\ QuarantineOK' /\ Batches' = Batches
    BY <1>3, <2>1, PendingSame, QuarantineSame DEF spoolVars
  <2>3. RestOK'
    BY <1>3, <2>1 DEF spoolVars, RestOK
  <2>4. CallInv'
    BY <1>3, <2>1, <2>2 DEF spoolVars, CallInv
  <2> QED
    BY <2>2, <2>3, <2>4, SpoolInvJoin
<1> QED
  BY <1>1, <1>2, <1>3, CallKeeps, SpoolStepKeeps, ReturnKeeps, TakeNotifyKeeps,
     TickKeeps DEF SpoolNext

(* The empty spool satisfies the invariant.                                *)
LEMMA SpoolInitOK == SpoolInit => SpoolInv
<1> SUFFICES ASSUME SpoolInit PROVE SpoolInv
  OBVIOUS
<1>1. /\ DOMAIN pending = {} /\ DOMAIN quarantine = {}
      /\ pending \in [{} -> File] /\ quarantine \in [{} -> Nat]
  BY DEF SpoolInit
<1>2. Batches = {}
  BY <1>1 DEF Batches
<1>3. IsFiniteSet({}) /\ Cardinality({}) = 0
  BY FS_EmptySet
<1>4. PendingOK
  BY <1>1, <1>2, <1>3, SpoolAssumption DEF PendingOK, PendingItemsBounded
<1>5. QuarantineOK
  BY <1>1, <1>3, SpoolAssumption DEF QuarantineOK, QuarantineItemsBounded
<1>6. RestOK
  <2>1. notify \in BOOLEAN /\ issued \subseteq BatchNames /\ damaged \subseteq BatchNames
    BY DEF SpoolInit
  <2>2. clock \in Times /\ faults \in 0..MaxFaults
    BY SpoolAssumption DEF SpoolInit, Times
  <2>3. call \in Call
    BY NoCallTyped DEF SpoolInit
  <2> QED
    BY <2>1, <2>2, <2>3 DEF RestOK
<1>7. CallInv
  BY <1>2, NoCallTyped DEF SpoolInit, CallInv
<1> QED
  BY <1>4, <1>5, <1>6, <1>7, SpoolInvSplit

-----------------------------------------------------------------------------
(* The spool's invariant holds under any sequence of calls, I/O errors,    *)
(* corruptions and crashes, for every value of the limits.                 *)
THEOREM SpoolInvariant == SpoolSpec => []SpoolInv
<1>1. SpoolInv /\ [SpoolNext]_spoolVars => SpoolInv'
  BY SpoolNextKeeps
<1> QED
  BY <1>1, SpoolInitOK, PTL DEF SpoolSpec

(* The variables of ProbeSpool keep their types.                           *)
THEOREM SpoolTypes == SpoolSpec => []SpoolTypeOK
<1>1. SpoolInv => SpoolTypeOK
  BY DEF SpoolInv
<1> QED
  BY <1>1, SpoolInvariant, PTL

(* Enqueue's item limit holds at all times, not only when it is checked.   *)
THEOREM PendingItems == SpoolSpec => []PendingItemsBounded
<1>1. SpoolInv => PendingItemsBounded
  BY DEF SpoolInv
<1> QED
  BY <1>1, SpoolInvariant, PTL

(* pruneQuarantineLocked keeps the quarantine within its item limit.       *)
THEOREM QuarantineItems == SpoolSpec => []QuarantineItemsBounded
<1>1. SpoolInv => QuarantineItemsBounded
  BY DEF SpoolInv
<1> QED
  BY <1>1, SpoolInvariant, PTL

-----------------------------------------------------------------------------
(* A step of the spool adds temporaries, or the name that is being         *)
(* committed, and nothing else to the pending directory.                   *)
LEMMA StepAdds ==
    ASSUME SpoolInv, [SpoolNext]_spoolVars
    PROVE  \/ DOMAIN pending' \subseteq DOMAIN pending \cup TempNames
           \/ CommitWrite
<1>1. ASSUME NEW n, Removed(n) \/ QuarantinePath(n) \/ PrunedOnly(n)
      PROVE  DOMAIN pending' \subseteq DOMAIN pending
  BY <1>1 DEF Removed, QuarantinePath, PrunedOnly, Without
<1>2. CASE CleanupEntry \/ CleanupError \/ SelectUnreadable \/ Ack \/ Quarantine
  BY <1>1, <1>2 DEF CleanupEntry, CleanupError, SelectUnreadable, Ack, Quarantine
<1>3. CASE Admit \/ Reschedule
  <2>1. PICK t \in TempNames : \E f : pending' = Put(pending, t, f)
    <3>1. ASSUME NEW n, NEW f, WriteTemp(n, f)
          PROVE  \E t \in TempNames : \E g : pending' = Put(pending, t, g)
      BY <3>1 DEF WriteTemp
    <3> QED
      BY <1>3, <3>1 DEF Admit, Reschedule
  <2> QED
    BY <2>1 DEF Put
<1>4. CASE AbortWrite
  BY <1>4 DEF AbortWrite, Without
<1>5. CASE SelectDue \/ Refuse \/ RescheduleError \/ Return \/ TakeNotify \/ Tick \/ SpoolCrash
  BY <1>5 DEF SelectDue, Refuse, RescheduleError, Return, TakeNotify, Tick, SpoolCrash
<1>6. ASSUME NEW n, Corrupt(n)
      PROVE  DOMAIN pending' \subseteq DOMAIN pending
  BY <1>6 DEF Corrupt
<1>7. ASSUME NEW op, NEW now, NEW name, NEW file, Begin(op, now, name, file)
      PROVE  pending' = pending
  BY <1>7 DEF Begin
<1>8. CASE \/ \E body \in BodySizes : BeginEnqueue(body)
           \/ \E now \in 0..clock : BeginNext(now)
           \/ \E n \in issued :
                \/ \E attempt \in Attempts, nextAt \in Times : BeginRetry(n, attempt, nextAt)
                \/ BeginAck(n)
                \/ BeginQuarantine(n)
  BY <1>7, <1>8 DEF BeginEnqueue, BeginNext, BeginRetry, BeginAck, BeginQuarantine
<1>9. CASE UNCHANGED spoolVars
  BY <1>9 DEF spoolVars
<1> QED
  BY <1>2, <1>3, <1>4, <1>5, <1>6, <1>8, <1>9 DEF SpoolNext, SpoolStep

(* A batch that left the pending directory never comes back.               *)
LEMMA StepNoResurrection ==
    ASSUME SpoolInv, [SpoolNext]_spoolVars
    PROVE  \A n \in issued : n \notin DOMAIN pending => n \notin DOMAIN pending'
<1>1. TAKE n \in issued
<1>2. HAVE n \notin DOMAIN pending
<1>3. n \in BatchNames /\ n \notin TempNames
  BY SpoolInvSplit, SpoolAssumption DEF RestOK
<1>4. CASE CommitWrite
  <2>1. DOMAIN pending' \subseteq DOMAIN pending \cup {call.name}
    BY <1>4 DEF CommitWrite, Put, Without
  <2>2. call.name \in DOMAIN pending \/ call.name \notin issued
    BY <1>4, SpoolInvSplit DEF CommitWrite, CallInv, Batches
  <2> QED
    BY <1>2, <2>1, <2>2
<1> QED
  BY <1>2, <1>3, <1>4, StepAdds

(* NoResurrection for every spool: a retry that was decided before its     *)
(* batch was acknowledged, expired or quarantined does not write it again. *)
THEOREM Resurrection == SpoolSpec => NoResurrection
<1>1. SpoolInv /\ [SpoolNext]_spoolVars =>
        [\A n \in issued : n \notin DOMAIN pending => n \notin DOMAIN pending']_spoolVars
  BY StepNoResurrection
<1> QED
  BY <1>1, SpoolInvariant, PTL DEF SpoolSpec, NoResurrection

-----------------------------------------------------------------------------
(* The bytes of a quarantine directory are the sum over its files, and a   *)
(* set of files fits if its sum leaves room for the one that comes in.     *)
LEMMA QuarantineSums ==
    ASSUME NEW q, NEW kept, NEW size
    PROVE  /\ QuarantineBytes(q) = SumOf(q, DOMAIN q)
           /\ Fits(q, kept, size) => SumOf(q, kept) + size =< MaxQuarantineBytes
  BY DEF QuarantineBytes, Fits, SumOf

(* Removing files from the quarantine does not make it larger.             *)
LEMMA BytesShrink ==
    ASSUME QuarantineOK, QuarantineBytesBounded, NEW kept \in SUBSET DOMAIN quarantine,
           quarantine' = Restrict(quarantine, kept)
    PROVE  QuarantineBytesBounded'
<1> DEFINE R == Restrict(quarantine, kept)
<1>1. IsFiniteSet(DOMAIN quarantine) /\ IsFiniteSet(kept)
  BY FS_Subset DEF QuarantineOK
<1>2. \A x \in DOMAIN quarantine : quarantine[x] \in Nat
  BY DEF QuarantineOK
<1>3. DOMAIN R = kept /\ \A x \in kept : R[x] = quarantine[x]
  BY DEF Restrict
<1> HIDE DEF R
<1>4. SumOf(R, kept) = SumOf(quarantine, kept)
  BY <1>1, <1>3, SumSame
<1>5. SumOf(quarantine, kept) =< SumOf(quarantine, DOMAIN quarantine)
  BY <1>1, <1>2, SumMonotone
<1>6. /\ SumOf(quarantine, kept) \in Nat
      /\ SumOf(quarantine, DOMAIN quarantine) \in Nat
  BY <1>1, <1>2, SumNat
<1>7. /\ QuarantineBytes(quarantine) = SumOf(quarantine, DOMAIN quarantine)
      /\ QuarantineBytes(R) = SumOf(R, DOMAIN R)
  BY QuarantineSums
<1>8. QuarantineBytes(R) =< MaxQuarantineBytes
  BY <1>3, <1>4, <1>5, <1>6, <1>7, SpoolAssumption DEF QuarantineBytesBounded
<1> QED
  BY <1>8 DEF R, QuarantineBytesBounded

(* A file that moves in after a complete pruning fits.                     *)
LEMMA BytesGrow ==
    ASSUME QuarantineOK, NEW size \in Nat, NEW n,
           NEW kept \in PruneQuarantine(quarantine, size),
           quarantine' = Put(Restrict(quarantine, kept), n, size)
    PROVE  QuarantineBytesBounded'
<1> DEFINE R == Restrict(quarantine, kept)
           P == Put(R, n, size)
<1>1. kept \in SUBSET DOMAIN quarantine /\ Fits(quarantine, kept, size)
  BY DEF PruneQuarantine, NewestOf
<1>2. IsFiniteSet(kept) /\ IsFiniteSet(kept \ {n}) /\ IsFiniteSet(kept \cup {n})
  BY <1>1, FS_Subset, FS_AddElement DEF QuarantineOK
<1>3. \A x \in kept : quarantine[x] \in Nat
  BY <1>1 DEF QuarantineOK
<1>4. DOMAIN R = kept /\ \A x \in kept : R[x] = quarantine[x]
  BY DEF Restrict
<1> HIDE DEF R
<1>5. /\ DOMAIN P = kept \cup {n} /\ P[n] = size
      /\ \A x \in kept \ {n} : P[x] = quarantine[x]
  BY <1>4 DEF Put
<1> HIDE DEF P
<1>6. SumOf(P, kept \cup {n}) = size + SumOf(P, kept \ {n})
  <2>1. \A x \in kept \cup {n} : P[x] \in Nat
    BY <1>3, <1>5
  <2>2. (kept \cup {n}) \ {n} = kept \ {n}
    OBVIOUS
  <2>3. SumOf(P, kept \cup {n}) = P[n] + SumOf(P, (kept \cup {n}) \ {n})
    BY <1>2, <2>1, SumRemove
  <2> QED
    BY <1>5, <2>2, <2>3
<1>7. SumOf(P, kept \ {n}) = SumOf(quarantine, kept \ {n})
  BY <1>2, <1>5, SumSame
<1>8. SumOf(quarantine, kept \ {n}) =< SumOf(quarantine, kept)
  BY <1>2, <1>3, SumMonotone
<1>9. SumOf(quarantine, kept \ {n}) \in Nat /\ SumOf(quarantine, kept) \in Nat
  BY <1>2, <1>3, SumNat
<1>10. /\ SumOf(quarantine, kept) + size =< MaxQuarantineBytes
       /\ QuarantineBytes(P) = SumOf(P, kept \cup {n})
  BY <1>1, <1>5, QuarantineSums
<1>11. QuarantineBytes(P) =< MaxQuarantineBytes
  BY <1>6, <1>7, <1>8, <1>9, <1>10, SpoolAssumption
<1> QED
  BY <1>11 DEF P, R, QuarantineBytesBounded

(* Both ways in which the quarantine changes.                              *)
LEMMA BytesMove ==
    ASSUME PendingOK, QuarantineOK, QuarantineBytesBounded,
           NEW n \in DOMAIN pending,
           Removed(n) \/ QuarantinePath(n) \/ PrunedOnly(n)
    PROVE  QuarantineBytesBounded'
<1> DEFINE size == EncodedBytes(pending[n])
<1>1. size \in Nat
  BY EncodedBytesNat DEF PendingOK
<1>2. CASE quarantine' = quarantine
  BY <1>2 DEF QuarantineBytesBounded
<1>3. CASE PrunedOnly(n)
  <2>1. PICK kept \in NewestOf(quarantine) : quarantine' = Restrict(quarantine, kept)
    BY <1>3 DEF PrunedOnly
  <2>2. kept \in SUBSET DOMAIN quarantine
    BY DEF NewestOf
  <2> QED
    BY <2>1, <2>2, BytesShrink
<1>4. CASE \E kept \in PruneQuarantine(quarantine, size) :
             quarantine' = Put(Restrict(quarantine, kept), n, size)
  <2> HIDE DEF size
  <2> QED
    BY <1>1, <1>4, BytesGrow
<1> QED
  BY <1>2, <1>3, <1>4 DEF Removed, QuarantinePath

(* A step of a method moves one file of the pending directory or leaves    *)
(* the quarantine alone.                                                   *)
LEMMA StepMoves ==
    ASSUME SpoolInv, SpoolStep
    PROVE  \/ quarantine' = quarantine
           \/ \E n \in DOMAIN pending : Removed(n) \/ QuarantinePath(n) \/ PrunedOnly(n)
<1>1. CASE CleanupEntry
  <2>1. call.todo \subseteq DOMAIN pending
    BY <1>1, SpoolInvSplit DEF CleanupEntry, CallInv
  <2> QED
    BY <1>1, <2>1 DEF CleanupEntry
<1>2. CASE CleanupError
  <2>1. Visited \subseteq DOMAIN pending
    BY <1>2, VisitedPending, SpoolInvSplit DEF CleanupError
  <2> QED
    BY <1>2, <2>1 DEF CleanupError
<1>3. CASE SelectUnreadable
  BY <1>3 DEF SelectUnreadable, Batches
<1>4. CASE Ack
  BY <1>4 DEF Ack, Removed
<1>5. CASE Quarantine
  BY <1>5 DEF Quarantine
<1>6. CASE SelectDue \/ Admit \/ Refuse \/ Reschedule \/ RescheduleError
           \/ CommitWrite \/ AbortWrite
  BY <1>6 DEF SelectDue, Admit, Refuse, Reschedule, RescheduleError, CommitWrite, AbortWrite
<1> QED
  BY <1>1, <1>2, <1>3, <1>4, <1>5, <1>6 DEF SpoolStep

(* Every step of the spool keeps the quarantine within its byte limit.     *)
LEMMA StepBytes ==
    ASSUME SpoolInv, QuarantineBytesBounded, [SpoolNext]_spoolVars
    PROVE  QuarantineBytesBounded'
<1>1. CASE SpoolStep
  BY <1>1, StepMoves, BytesMove, SpoolInvSplit DEF QuarantineBytesBounded
<1>2. ASSUME NEW op, NEW now, NEW name, NEW file, Begin(op, now, name, file)
      PROVE  quarantine' = quarantine
  BY <1>2 DEF Begin
<1>3. CASE \/ \E body \in BodySizes : BeginEnqueue(body)
           \/ \E now \in 0..clock : BeginNext(now)
           \/ \E n \in issued :
                \/ \E attempt \in Attempts, nextAt \in Times : BeginRetry(n, attempt, nextAt)
                \/ BeginAck(n)
                \/ BeginQuarantine(n)
  BY <1>2, <1>3 DEF BeginEnqueue, BeginNext, BeginRetry, BeginAck, BeginQuarantine,
                    QuarantineBytesBounded
<1>4. CASE \/ \E n \in issued : Corrupt(n)
           \/ Return \/ TakeNotify \/ Tick \/ SpoolCrash \/ UNCHANGED spoolVars
  BY <1>4 DEF Corrupt, Return, TakeNotify, Tick, SpoolCrash, spoolVars,
              QuarantineBytesBounded
<1> QED
  BY <1>1, <1>3, <1>4 DEF SpoolNext

(* pruneQuarantineLocked keeps the quarantine within its byte limit too,   *)
(* for batches that grew by retries and for moves that fail half way.      *)
THEOREM QuarantineSize == SpoolSpec => []QuarantineBytesBounded
<1>1. SpoolInit => QuarantineBytesBounded
  <2> SUFFICES ASSUME SpoolInit PROVE QuarantineBytesBounded
    OBVIOUS
  <2>1. DOMAIN quarantine = {}
    BY DEF SpoolInit
  <2>2. QuarantineBytes(quarantine) = SumOf(quarantine, DOMAIN quarantine)
    BY QuarantineSums
  <2>3. QuarantineBytes(quarantine) = 0
    BY <2>1, <2>2, SumEmpty, Zenon
  <2> QED
    BY <2>3, SpoolAssumption DEF QuarantineBytesBounded
<1>2. SpoolInv /\ QuarantineBytesBounded /\ [SpoolNext]_spoolVars => QuarantineBytesBounded'
  BY StepBytes
<1> QED
  BY <1>1, <1>2, SpoolInvariant, PTL DEF SpoolSpec
=============================================================================
