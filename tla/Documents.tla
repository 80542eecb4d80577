----------------------------- MODULE Documents -----------------------------
(***************************************************************************)
(* The state the document pipeline shares: the documents table, the        *)
(* extraction and finding tables hanging off it, the Celery tasks and the  *)
(* API requests in progress.  DocumentWorker and DocumentApi add the       *)
(* actions, DocumentPipeline composes them.                                *)
(*                                                                         *)
(* Every document belongs to one loan file.  Time is counted in coarse     *)
(* ticks: a task is killed after HardLimit of them, and a row not written  *)
(* for AbandonAfter of them is presumed to have no worker behind it.       *)
(***************************************************************************)
EXTENDS Naturals, FiniteSets

CONSTANTS
  Docs,            \* the documents of the loan file, uploaded or yet to be
  Processed,       \* those already processed when the behaviour begins
  Tasks,           \* Celery task messages
  Requests,        \* API requests
  ExtractorTypes,  \* types with an extractor in the EXTRACTORS registry
  OtherTypes,      \* all other catalog types, and "unknown"
  Unknown,         \* the classifier's "unknown"
  None,            \* SQL NULL
  SoftLimit, HardLimit, AbandonAfter,
  MaxRetries,
  MaxBulk

ASSUME TypesAssumption ==
  /\ Unknown \in OtherTypes
  /\ ExtractorTypes \cap OtherTypes = {}
  /\ None \notin ExtractorTypes \cup OtherTypes
  /\ Processed \subseteq Docs

\* DOCUMENT_SOFT_LIMIT_SECONDS < DOCUMENT_HARD_LIMIT_SECONDS <
\* PIPELINE_PRESUMED_ABANDONED_AFTER_SECONDS (600 < 660 < 900).
ASSUME LimitsAssumption ==
  /\ SoftLimit \in Nat /\ HardLimit \in Nat /\ AbandonAfter \in Nat
  /\ SoftLimit < HardLimit
  /\ HardLimit < AbandonAfter

ASSUME BoundsAssumption == MaxRetries \in Nat /\ MaxBulk \in Nat

VARIABLES
  status,      \* documents.status; "ABSENT" before the upload
  age,         \* ticks since documents.updated_at
  row,         \* the other columns of the document
  ext,         \* its extraction versions: the highest, those flagged current,
               \* and the type the last one was extracted as
  findings,    \* the runs whose OPEN findings are active on the document
  stale,       \* loan_files.verification_stale
  pc,          \* where each task is
  job,         \* what each task was enqueued for
  elapsed,     \* ticks since the task started
  mem,         \* what the task's session remembers
  owns,        \* has the task claimed its document and not yet released it
  req,         \* the API requests
  needsDue,    \* the documents a needs update was enqueued for
  trespassed,  \* history: documents whose status was overwritten blindly
  orphaned,    \* history: documents a process died on, or could not mark
               \* FAILED, and no task was enqueued for since
  dropped,     \* history: documents a task gave up on after a transient error,
               \* and no task was enqueued for since
  humanType    \* history: the type a person last changed the document to and
               \* no accepted reprocess has released since

rowVars  == <<status, age, row, ext, findings, stale>>
taskVars == <<pc, job, elapsed, mem, owns>>
history  == <<trespassed, orphaned, dropped, humanType>>
vars     == <<rowVars, taskVars, req, needsDue, history>>

-----------------------------------------------------------------------------

InFlight == {"CLASSIFYING", "CLASSIFIED", "EXTRACTING"}
Settled  == {"COMPLETED", "FAILED", "NEEDS_REVIEW"}
Statuses == {"ABSENT", "PENDING"} \cup InFlight \cup Settled
Types    == ExtractorTypes \cup OtherTypes
Errors   == {"none", "error", "too_large"}
Results  == {"good", "low", "failed"}

\* Mutant: a status that never expires.
InFlightForGood(d) == status[d] \in InFlight

(* is_pipeline_in_flight: the API's judgement that a worker is running.    *)
PipelineInFlight(d) == status[d] \in InFlight /\ age[d] < AbandonAfter

\* Mutants: a window the hard limit does not close, and a forgotten status.
ClaimableAtHardLimit(d) == status[d] \notin InFlight \/ age[d] >= HardLimit
ClaimableClassified(d) == status[d] \notin InFlight \ {"CLASSIFIED"} \/ age[d] > AbandonAfter

(* The WHERE clause of the claim.                                          *)
Claimable(d) == status[d] \notin InFlight \/ age[d] > AbandonAfter

Exists(d) == status[d] # "ABSENT" /\ row[d].active

(* A row as create_document writes it; a standalone document is alone in   *)
(* its version group.                                                      *)
NewRow(d) == [type |-> None, certain |-> FALSE, error |-> "none", active |-> TRUE,
              isCurrent |-> TRUE, group |-> d, version |-> 1]

NoExtraction == [latest |-> 0, current |-> {}, schema |-> None]

\* A task's pc while its process is running and can be killed.
ClaimedPc == {"read", "classify", "route", "tier3", "extract", "insert", "commit"}
Running   == {"loaded", "needs", "failing", "conflict", "exhausted"} \cup ClaimedPc
Pcs       == {"unused", "queued", "ended"} \cup Running

NoJob == [doc |-> None, kind |-> "none", retries |-> 0]
NoMem == [type |-> None, certain |-> FALSE, review |-> FALSE,
          saw |-> 0, number |-> 0, result |-> "good"]

(* A live run holds the document: it claimed it and has not yet written    *)
(* the status it ends on.                                                  *)
Holds(t, d) == owns[t] /\ job[t].doc = d
Held(d)     == \E t \in Tasks : Holds(t, d)

(* History: the documents whose status the writer replaces although some   *)
(* other run holds them, or although it is not the status the writer knew. *)
Trespass(S, self, known) ==
  trespassed' = trespassed \cup
    {d \in S : /\ status'[d] # status[d]
               /\ (\E t \in Tasks \ self : Holds(t, d)) \/ status[d] # known[d]}

(* An UPDATE of a document's columns restarts its clock.                   *)
WriteRow(d, s, r) ==
  /\ status' = [status EXCEPT ![d] = s]
  /\ age' = [age EXCEPT ![d] = 0]
  /\ row' = [row EXCEPT ![d] = r]

(* The ORM emits an attribute only when it differs from what the session   *)
(* loaded; otherwise the column keeps whatever it now holds.               *)
Emit(loaded, new, stored) == IF new = loaded THEN stored ELSE new

\* Mutant: a message that does not name its document.
PutNothing(t, d, kind) ==
  /\ pc[t] = "unused"
  /\ pc' = [pc EXCEPT ![t] = "queued"]
  /\ job' = [job EXCEPT ![t] = [NoJob EXCEPT !.kind = kind]]
  /\ UNCHANGED <<elapsed, mem, owns>>

(* A message for the worker.                                               *)
Put(t, d, kind) ==
  /\ pc[t] = "unused"
  /\ pc' = [pc EXCEPT ![t] = "queued"]
  /\ job' = [job EXCEPT ![t] = [doc |-> d, kind |-> kind, retries |-> 0]]
  /\ UNCHANGED <<elapsed, mem, owns>>

Goto(t, label) == pc' = [pc EXCEPT ![t] = label]
============================================================================
