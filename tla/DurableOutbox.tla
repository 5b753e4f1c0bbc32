---------------------------- MODULE DurableOutbox ----------------------------
(***************************************************************************)
(* What the probe-result pipeline promises, without files, locks, goroutines*)
(* or requests: a persisted batch stays held until there is a reason to    *)
(* drop it, a batch is never held twice, and its age counts from the time  *)
(* it was made.  ProbeUploader is shown to implement it.                   *)
(***************************************************************************)
EXTENDS Integers

CONSTANTS Batch, TTL

VARIABLES
    now,        \* the clock
    held,       \* batch -> creation time, for the batches not yet dropped
    known,      \* every batch that has ever been held
    delivered,  \* batches the receiver has stored
    refused,    \* batches the receiver has rejected for good
    damaged     \* batches whose stored bytes could not be read

outboxVars == <<now, held, known, delivered, refused, damaged>>

Drop(n) == [m \in DOMAIN held \ {n} |-> held[m]]

Persist(n, created) ==
    /\ n \notin known
    /\ held' = [m \in DOMAIN held \cup {n} |-> IF m = n THEN created ELSE held[m]]
    /\ known' = known \cup {n}
    /\ UNCHANGED <<now, delivered, refused, damaged>>

Deliver(n) ==
    /\ n \in known
    /\ delivered' = delivered \cup {n}
    /\ UNCHANGED <<now, held, known, refused, damaged>>

Refuse(n) ==
    /\ n \in known
    /\ refused' = refused \cup {n}
    /\ UNCHANGED <<now, held, known, delivered, damaged>>

(* A batch becomes unreadable, and is dropped at once or later.            *)
Spoil(n) ==
    /\ n \in DOMAIN held
    /\ damaged' = damaged \cup {n}
    /\ held' \in {held, Drop(n)}
    /\ UNCHANGED <<now, known, delivered, refused>>

(* The four reasons to drop a batch: delivered, refused, damaged, too old. *)
Release(n) ==
    /\ n \in DOMAIN held
    /\ n \in delivered \cup refused \cup damaged \/ now - held[n] >= TTL
    /\ held' = Drop(n)
    /\ UNCHANGED <<now, known, delivered, refused, damaged>>

Advance ==
    /\ now' = now + 1
    /\ UNCHANGED <<held, known, delivered, refused, damaged>>

OutboxInit ==
    /\ now = 0
    /\ held = << >>
    /\ known = {} /\ delivered = {} /\ refused = {} /\ damaged = {}

OutboxNext ==
    \/ Advance
    \/ \E n \in Batch :
         \/ \E created \in 0..now : Persist(n, created)
         \/ Deliver(n) \/ Refuse(n) \/ Spoil(n) \/ Release(n)

OutboxSpec == OutboxInit /\ [][OutboxNext]_outboxVars
=============================================================================
