----------------------------- MODULE DurableAudit -----------------------------
(****************************************************************************)
(* The durable audit journal and its recovery                               *)
(* (crates/authority-core/src/durable_audit.rs, audit.rs).                  *)
(*                                                                          *)
(* One process at a time holds the journal file (an exclusive lock).  Every *)
(* append is written and synced before the operation goes on; a failed      *)
(* append may leave nothing, a torn frame or a complete frame on disk, and  *)
(* seals the writer.  The process may stop at any point.  The next one      *)
(* parses the file again and finishes what it finds unfinished as           *)
(* CommitUnknown before it serves.                                          *)
(*                                                                          *)
(* A frame is abstracted to the fields the parser interprets; its sequence  *)
(* number is its position in the file.  CAPACITY is the most frames the     *)
(* file can hold; fewer may fit.                                            *)
(****************************************************************************)
EXTENDS Integers, Sequences, FiniteSets

CONSTANTS
  MAX_ATTEMPT_ID,                \* u64::MAX of the attempt identities
  CAPACITY,                      \* frames the journal may hold
  MAX_BOOTS                      \* bound on the processes of the instance

ASSUME AuditAssumption ==
  /\ MAX_ATTEMPT_ID \in Nat
  /\ CAPACITY \in Nat
  /\ MAX_BOOTS \in Nat

AttemptIds == 0 .. MAX_ATTEMPT_ID

TerminalOutcome == {"Denied", "FailedBeforeCommit", "Committed", "CommitUnknown"}

ReconciledCommit == {"Committed", "NotCommitted"}

VARIABLES
  disk,                          \* the complete frames of the file
  torn,                          \* whether an incomplete frame follows them
  phase,                         \* of the process: down, open, recovering, attached
  unusable,                      \* DurableState.unusable: the writer is sealed
  attempts,                      \* DurableState.attempts: id -> recovered attempt
  next_attempt_sequence,         \* AuditState; MAX_ATTEMPT_ID + 1 stands for None
  state_instance,
  inherited,                     \* attempts that recovery has still to finish
  guard,                         \* id -> stage of its AttemptGuard in this process
  landed,                        \* attempts whose external effect happened
  boot                           \* counts the processes that opened the file

diskVars == <<disk, torn>>
logVars == <<unusable, attempts>>
trailVars == <<next_attempt_sequence, state_instance, inherited>>

auditVars == <<diskVars, phase, logVars, trailVars, guard, landed, boot>>

Frame == [kind : {"start", "finish", "reconcile"}, id : AttemptIds,
          instance : 0 .. MAX_ATTEMPT_ID,
          outcome : TerminalOutcome \cup ReconciledCommit \cup {"Started"},
          boot : 0 .. MAX_BOOTS]

StartFrame(id) == [kind |-> "start", id |-> id, instance |-> state_instance,
                   outcome |-> "Started", boot |-> boot]
FinishFrame(id, o) == [kind |-> "finish", id |-> id, instance |-> 0, outcome |-> o, boot |-> 0]

ReconcileFrame(id, v) == [kind |-> "reconcile", id |-> id, instance |-> 0, outcome |-> v, boot |-> 0]

----------------------------------------------------------------------------
(* parse_journal.                                                           *)

At(d, kind, id) == {i \in DOMAIN d : d[i].kind = kind /\ d[i].id = id}

\* The parser accepts the frames: one start per attempt, at most one finish and
\* after the start, at most one verdict and after a CommitUnknown finish.
WellFormed(d) ==
  /\ \A i, j \in DOMAIN d : d[i].kind = d[j].kind /\ d[i].id = d[j].id => i = j
  /\ \A i \in DOMAIN d :
       /\ d[i].kind = "finish" => \E j \in At(d, "start", d[i].id) : j < i
       /\ d[i].kind = "reconcile" =>
            \E j \in At(d, "finish", d[i].id) : j < i /\ d[j].outcome = "CommitUnknown"

\* The attempts the parser builds from accepted frames.
Parsed(d) ==
  [id \in {d[i].id : i \in {j \in DOMAIN d : d[j].kind = "start"}} |->
     [instance |-> d[CHOOSE i \in At(d, "start", id) : TRUE].instance,
      boot |-> d[CHOOSE i \in At(d, "start", id) : TRUE].boot,
      outcome |-> IF At(d, "finish", id) = {} THEN "Started"
                  ELSE d[CHOOSE i \in At(d, "finish", id) : TRUE].outcome,
      reconciliation |-> IF At(d, "reconcile", id) = {} THEN "None"
                         ELSE d[CHOOSE i \in At(d, "reconcile", id) : TRUE].outcome]]

\* The next identity after the largest known one.
next_sequence(a) ==
  CHOOSE n \in 0 .. MAX_ATTEMPT_ID + 1 :
    (\A id \in DOMAIN a : id < n) /\ (n = 0 \/ n - 1 \in DOMAIN a)

----------------------------------------------------------------------------
(* append_frame.                                                            *)

Usable == phase # "down" /\ ~unusable

\* Mutant: the capacity is not checked.
AppendedUnbounded(f) ==
  /\ disk' = Append(disk, f)
  /\ UNCHANGED <<torn, unusable>>

\* The frame is written and synced.
Appended(f) ==
  /\ Len(disk) < CAPACITY
  /\ disk' = Append(disk, f)
  /\ UNCHANGED <<torn, unusable>>

\* RecordTooLarge or CapacityExceeded: nothing is written and the writer stays
\* usable.  Frames differ in size, so a later one may fit where this did not.
Unwritten == UNCHANGED <<diskVars, logVars>>

\* Mutant: a failed append leaves the writer in use.
SealedUsable(f) ==
  /\ Len(disk) < CAPACITY /\ disk' = Append(disk, f)
  /\ UNCHANGED <<torn, logVars>>

\* Mutant: a failed append truncates one frame too many.
SealedTruncating(f) ==
  /\ unusable' = TRUE
  /\ disk # << >>
  /\ disk' = SubSeq(disk, 1, Len(disk) - 1)
  /\ UNCHANGED <<torn, attempts>>

\* A validation, write or sync failure seals the writer; the frame may have
\* reached the disk not at all, in part or whole.
Sealed(f) ==
  /\ unusable' = TRUE
  /\ \/ UNCHANGED diskVars
     \/ Len(disk) < CAPACITY /\ disk' = Append(disk, f) /\ UNCHANGED torn
     \/ Len(disk) < CAPACITY /\ torn' = TRUE /\ UNCHANGED disk
  /\ UNCHANGED attempts

Failed(f) == Unwritten \/ Sealed(f)

----------------------------------------------------------------------------
(* The process.                                                             *)

Init ==
  /\ disk = << >>
  /\ torn = FALSE
  /\ phase = "down"
  /\ unusable = FALSE
  /\ attempts = << >>
  /\ next_attempt_sequence = 0
  /\ state_instance = 0
  /\ inherited = {}
  /\ guard = << >>
  /\ landed = {}
  /\ boot = 0

\* create or open: the parser refuses a torn file for good.
open ==
  /\ phase = "down"
  /\ boot < MAX_BOOTS
  /\ ~torn
  /\ WellFormed(disk)
  /\ phase' = "open"
  /\ boot' = boot + 1
  /\ unusable' = FALSE
  /\ attempts' = Parsed(disk)
  /\ UNCHANGED <<diskVars, trailVars, guard, landed>>

\* The process stops, wherever it is.
crash ==
  /\ phase # "down"
  /\ phase' = "down"
  /\ unusable' = FALSE
  /\ attempts' = << >>
  /\ next_attempt_sequence' = 0
  /\ state_instance' = 0
  /\ inherited' = {}
  /\ guard' = << >>
  /\ UNCHANGED <<diskVars, landed, boot>>

\* new_with_backend: only a journal without attempts may start at instance 0.
new_with_backend ==
  /\ phase = "open" /\ Usable
  /\ DOMAIN attempts = {}
  /\ next_attempt_sequence' = next_sequence(attempts)
  /\ state_instance' = 0
  /\ phase' = "attached"
  /\ UNCHANGED <<diskVars, logVars, inherited, guard, landed, boot>>

\* Mutant: every process uses instance 0.
begin_recovery_same_instance ==
  /\ phase = "open" /\ Usable
  /\ next_sequence(attempts) <= MAX_ATTEMPT_ID
  /\ state_instance' = 0
  /\ inherited' = {id \in DOMAIN attempts : attempts[id].outcome = "Started"}
  /\ phase' = "recovering"
  /\ UNCHANGED <<diskVars, logVars, next_attempt_sequence, guard, landed, boot>>

\* recover_with_backend fixes the instance and the inherited attempts first.
begin_recovery ==
  /\ phase = "open" /\ Usable
  /\ next_sequence(attempts) <= MAX_ATTEMPT_ID
  /\ state_instance' = next_sequence(attempts)
  /\ inherited' = {id \in DOMAIN attempts : attempts[id].outcome = "Started"}
  /\ phase' = "recovering"
  /\ UNCHANGED <<diskVars, logVars, next_attempt_sequence, guard, landed, boot>>

\* Mutant: an attempt that a crash interrupted counts as failed.
recover_as_failed(id) ==
  /\ phase = "recovering"
  /\ id \in inherited /\ \A i \in inherited : id <= i
  /\ ~unusable
  /\ Appended(FinishFrame(id, "FailedBeforeCommit"))
  /\ attempts' = [attempts EXCEPT ![id].outcome = "FailedBeforeCommit"]
  /\ inherited' = inherited \ {id}
  /\ UNCHANGED <<phase, next_attempt_sequence, state_instance, guard, landed, boot>>

\* One inherited attempt, in identity order, is finished as CommitUnknown; a
\* failure ends the recovery and the trail is not built.
recover_attempt(id) ==
  /\ phase = "recovering"
  /\ id \in inherited /\ \A i \in inherited : id <= i
  /\ \/ /\ ~unusable
        /\ Appended(FinishFrame(id, "CommitUnknown"))
        /\ attempts' = [attempts EXCEPT ![id].outcome = "CommitUnknown"]
        /\ inherited' = inherited \ {id}
        /\ UNCHANGED phase
     \/ /\ Failed(FinishFrame(id, "CommitUnknown"))
        /\ inherited' = {}
        /\ phase' = "open"
  /\ UNCHANGED <<next_attempt_sequence, state_instance, guard, landed, boot>>

\* Mutant: the trail serves before every inherited attempt is finished.
end_recovery_early ==
  /\ phase = "recovering" /\ Usable
  /\ next_attempt_sequence' = next_sequence(attempts)
  /\ phase' = "attached"
  /\ UNCHANGED <<diskVars, logVars, state_instance, inherited, guard, landed, boot>>

end_recovery ==
  /\ phase = "recovering" /\ Usable
  /\ inherited = {}
  /\ next_attempt_sequence' = next_sequence(attempts)
  /\ phase' = "attached"
  /\ UNCHANGED <<diskVars, logVars, state_instance, inherited, guard, landed, boot>>

\* Mutant: the guard is handed out although the start is not on disk.
begin_attempt_unsynced ==
  LET id == next_attempt_sequence
  IN  /\ phase = "attached" /\ Usable
      /\ id <= MAX_ATTEMPT_ID
      /\ Failed(StartFrame(id))
      /\ guard' = [i \in DOMAIN guard \cup {id} |-> IF i = id THEN "started" ELSE guard[i]]
      /\ next_attempt_sequence' = id + 1
      /\ UNCHANGED <<phase, state_instance, inherited, landed, boot>>

\* start_request_set and begin_attempt: a failed append restores the sequence.
begin_attempt ==
  LET id == next_attempt_sequence
  IN  /\ phase = "attached" /\ Usable
      /\ id <= MAX_ATTEMPT_ID
      /\ id \notin DOMAIN attempts
      /\ \/ /\ Appended(StartFrame(id))
            /\ attempts' = [i \in DOMAIN attempts \cup {id} |->
                              IF i = id
                              THEN [instance |-> state_instance, boot |-> boot,
                                    outcome |-> "Started", reconciliation |-> "None"]
                              ELSE attempts[i]]
            /\ next_attempt_sequence' = id + 1
            /\ guard' = [i \in DOMAIN guard \cup {id} |-> IF i = id THEN "started" ELSE guard[i]]
         \/ Failed(StartFrame(id)) /\ UNCHANGED <<next_attempt_sequence, guard>>
      /\ UNCHANGED <<phase, state_instance, inherited, landed, boot>>

\* The final check denies, or the executor runs and classifies its outcome.
execute(id, o) ==
  /\ id \in DOMAIN guard /\ guard[id] = "started"
  /\ guard' = [guard EXCEPT ![id] = o]
  /\ landed' = IF o = "Committed" THEN landed \cup {id} ELSE landed
  /\ UNCHANGED <<diskVars, phase, logVars, trailVars, boot>>

\* An executor that cannot tell, although the effect landed.
execute_unseen(id) ==
  /\ id \in DOMAIN guard /\ guard[id] = "started"
  /\ guard' = [guard EXCEPT ![id] = "CommitUnknown"]
  /\ landed' = landed \cup {id}
  /\ UNCHANGED <<diskVars, phase, logVars, trailVars, boot>>

\* AttemptGuard::finish consumes the guard, whether or not the append succeeds.
finish_attempt(id) ==
  /\ id \in DOMAIN guard /\ guard[id] \in TerminalOutcome
  /\ guard' = [i \in DOMAIN guard \ {id} |-> guard[i]]
  /\ \/ /\ ~unusable
        /\ id \in DOMAIN attempts /\ attempts[id].outcome = "Started"
        /\ \/ /\ Appended(FinishFrame(id, guard[id]))
              /\ attempts' = [attempts EXCEPT ![id].outcome = guard[id]]
           \/ Failed(FinishFrame(id, guard[id]))
     \/ /\ unusable
        /\ UNCHANGED <<diskVars, logVars>>
  /\ UNCHANGED <<phase, trailVars, landed, boot>>

\* Mutant: a verdict may be given twice.
reconcile_again(id) ==
  LET verdict == IF id \in landed THEN "Committed" ELSE "NotCommitted"
  IN  /\ Usable
      /\ id \in DOMAIN attempts
      /\ attempts[id].outcome = "CommitUnknown"
      /\ Appended(ReconcileFrame(id, verdict))
      /\ attempts' = [attempts EXCEPT ![id].reconciliation = verdict]
      /\ UNCHANGED <<phase, trailVars, guard, landed, boot>>

\* The provider's later verdict on an unknown commit (external, truthful).
reconcile_attempt(id) ==
  LET verdict == IF id \in landed THEN "Committed" ELSE "NotCommitted"
  IN  /\ Usable
      /\ id \in DOMAIN attempts
      /\ attempts[id].outcome = "CommitUnknown"
      /\ attempts[id].reconciliation = "None"
      /\ \/ /\ Appended(ReconcileFrame(id, verdict))
            /\ attempts' = [attempts EXCEPT ![id].reconciliation = verdict]
         \/ Failed(ReconcileFrame(id, verdict))
      /\ UNCHANGED <<phase, trailVars, guard, landed, boot>>

Next ==
  \/ open
  \/ crash
  \/ new_with_backend
  \/ begin_recovery
  \/ \E id \in AttemptIds : recover_attempt(id)
  \/ end_recovery
  \/ begin_attempt
  \/ \E id \in AttemptIds, o \in TerminalOutcome : execute(id, o)
  \/ \E id \in AttemptIds : execute_unseen(id)
  \/ \E id \in AttemptIds : finish_attempt(id)
  \/ \E id \in AttemptIds : reconcile_attempt(id)

Spec == Init /\ [][Next]_auditVars

----------------------------------------------------------------------------
(* Properties.                                                              *)

Attempt == [instance : 0 .. MAX_ATTEMPT_ID, boot : 0 .. MAX_BOOTS,
            outcome : TerminalOutcome \cup {"Started"},
            reconciliation : ReconciledCommit \cup {"None"}]

\* The type invariant, with the bound that open enforces on the file.
TypeOK ==
  /\ disk \in Seq(Frame) /\ Len(disk) <= CAPACITY
  /\ torn \in BOOLEAN
  /\ phase \in {"down", "open", "recovering", "attached"}
  /\ unusable \in BOOLEAN
  /\ DOMAIN attempts \in SUBSET AttemptIds
  /\ attempts \in [DOMAIN attempts -> Attempt]
  /\ next_attempt_sequence \in 0 .. MAX_ATTEMPT_ID + 1
  /\ state_instance \in AttemptIds
  /\ inherited \in SUBSET DOMAIN attempts
  /\ DOMAIN guard \in SUBSET AttemptIds
  /\ guard \in [DOMAIN guard -> TerminalOutcome \cup {"started"}]
  /\ landed \in SUBSET AttemptIds
  /\ boot \in 0 .. MAX_BOOTS

\* The complete frames on disk always satisfy the parser, whichever appends
\* failed after their frame had reached the disk and wherever the process
\* stopped, so a file that does not end in a torn frame can be reopened (open
\* refuses a torn one for good).  Restoring the sequence after a failed begin is
\* only safe because that failure sealed the writer.
JournalReopens == WellFormed(disk)

\* A writer that is not sealed answers from memory exactly what a reopened
\* journal would answer, and the file ends with a whole frame.
MemoryMirrorsDisk == Usable => attempts = Parsed(disk) /\ ~torn

\* The durable records never contradict the outside world, across crashes.
DurableTruth ==
  \A id \in DOMAIN Parsed(disk) :
    LET a == Parsed(disk)[id]
    IN  /\ a.outcome = "Committed" \/ a.reconciliation = "Committed" => id \in landed
        /\ a.outcome \in {"Denied", "FailedBeforeCommit"} \/ a.reconciliation = "NotCommitted"
             => id \notin landed

\* No effect without a durable start: every effect that landed is on disk.
EffectsJournaled == landed \subseteq DOMAIN Parsed(disk)

\* A trail serves only after recovery: an attempt still Started belongs to the
\* process that is running, so an earlier one's is CommitUnknown by then.
ServesAfterRecovery ==
  phase = "attached" /\ ~unusable =>
    \A id \in DOMAIN attempts : attempts[id].outcome = "Started" => attempts[id].boot = boot

\* Two attempts recorded under one state instance were started by one process,
\* so capability names of different processes are never confused.
InstancesUnambiguous ==
  \A i, j \in DOMAIN Parsed(disk) :
    Parsed(disk)[i].instance = Parsed(disk)[j].instance => Parsed(disk)[i].boot = Parsed(disk)[j].boot

\* The record is append-only in meaning too: a terminal outcome and a verdict
\* survive every later append, failure, crash and recovery.
RecordsFinal ==
  [][\A id \in DOMAIN Parsed(disk) :
       LET a == Parsed(disk)[id]
           b == Parsed(disk)'[id]
       IN  /\ id \in DOMAIN Parsed(disk)'
           /\ b.instance = a.instance
           /\ a.outcome # "Started" => b.outcome = a.outcome
           /\ a.reconciliation # "None" => b.reconciliation = a.reconciliation]_auditVars
=============================================================================
