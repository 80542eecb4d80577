--------------------------- MODULE DocumentWorker ---------------------------
(***************************************************************************)
(* The Celery tasks documents.process_document and                         *)
(* documents.reprocess_document: one action per stretch of code between    *)
(* two points at which another process can interleave (a commit, an AI     *)
(* call, a storage read).  What the AI answers is chosen by \E.            *)
(***************************************************************************)
EXTENDS Documents

Doc(t)  == job[t].doc
IsProcess(t) == job[t].kind = "process"
HasExtractor(type) == type \in ExtractorTypes

(* The task is over: its session, and any transaction left open, is gone.  *)
Leave(t) ==
  /\ Goto(t, "ended")
  /\ mem' = [mem EXCEPT ![t] = NoMem]
  /\ elapsed' = [elapsed EXCEPT ![t] = 0]
  /\ owns' = [owns EXCEPT ![t] = FALSE]
  /\ UNCHANGED job

(* The same, on the way to the needs enqueue of _process_document.         *)
Release(t, next) ==
  /\ Goto(t, next)
  /\ owns' = [owns EXCEPT ![t] = FALSE]
  /\ UNCHANGED <<job, mem, elapsed>>

Continue(t, next) ==
  /\ Goto(t, next)
  /\ UNCHANGED <<job, elapsed, owns>>

(* _load_document: an active row, or the task returns.  The session keeps  *)
(* the row as it read it.                                                  *)
Load(t) ==
  /\ pc[t] = "queued"
  /\ IF Exists(Doc(t))
       THEN /\ Goto(t, "loaded")
            /\ mem' = [mem EXCEPT ![t].type = row[Doc(t)].type,
                                  ![t].certain = row[Doc(t)].certain]
            /\ UNCHANGED <<job, elapsed, owns>>
       ELSE Leave(t)
  /\ UNCHANGED <<rowVars, req, needsDue, history>>

(* _claim_for_processing: one conditional UPDATE, committed at once.       *)
Claim(t) ==
  LET d    == Doc(t)
      into == IF IsProcess(t) THEN "CLASSIFYING" ELSE "EXTRACTING"
  IN
  /\ pc[t] = "loaded"
  /\ IF Claimable(d)
       THEN /\ WriteRow(d, into, row[d])
            /\ Goto(t, "read")
            /\ owns' = [owns EXCEPT ![t] = TRUE]
            /\ UNCHANGED <<job, elapsed, mem>>
       ELSE /\ Leave(t)
            /\ UNCHANGED <<status, age, row>>
  /\ UNCHANGED <<ext, findings, stale, req, needsDue, history>>

\* Mutant: the previous run's findings stand.
ReadOnly(t) ==
  /\ pc[t] = "read" /\ IsProcess(t)
  /\ Continue(t, "classify")
  /\ UNCHANGED <<mem, rowVars, req, needsDue, history>>

(* _process_document reads the bytes, then supersedes the OPEN findings of *)
(* the previous run and commits.                                           *)
ReadAndSupersede(t) ==
  /\ pc[t] = "read" /\ IsProcess(t)
  /\ findings' = [findings EXCEPT ![Doc(t)] = {}]
  /\ Continue(t, "classify")
  /\ UNCHANGED <<mem, status, age, row, ext, stale, req, needsDue, history>>

(* The call to the classifier never completed: NEEDS_REVIEW, and nothing   *)
(* else of the document changes but the reason.                            *)
ClassifyInfraFailure(t) ==
  /\ pc[t] = "classify"
  /\ \E why \in {"error", "too_large"} :
       WriteRow(Doc(t), "NEEDS_REVIEW", [row[Doc(t)] EXCEPT !.error = why])
  /\ Leave(t)
  /\ UNCHANGED <<ext, findings, stale, req, needsDue, history>>

(* A label the pipeline will not trust: a type-vs-document mismatch        *)
(* (stored as unknown), a confidence under the threshold, or an unknown    *)
(* whose own name is a catalog type.                                       *)
MayFlag(type, certain) == type = Unknown \/ ~certain

(* The label is stored.  A flagged one and one without an extractor are    *)
(* read by the free extractor, a trusted typed one by its own.             *)
Classify(t) ==
  LET d == Doc(t) IN
  /\ pc[t] = "classify"
  /\ \E type \in Types, certain, review \in BOOLEAN :
       /\ review => MayFlag(type, certain)
       /\ WriteRow(d, "CLASSIFIED",
            [row[d] EXCEPT !.type    = Emit(mem[t].type, type, @),
                           !.certain = Emit(mem[t].certain, certain, @)])
       /\ mem' = [mem EXCEPT ![t] = [NoMem EXCEPT !.type = type, !.review = review]]
       /\ Continue(t, IF ~review /\ HasExtractor(type) THEN "route" ELSE "tier3")
  /\ UNCHANGED <<ext, findings, stale, req, needsDue, history>>

(* _tier3_analyze: a failed analysis leaves no finding; either way the     *)
(* status is final and only a trusted label goes on to the needs list.     *)
Tier3(t) ==
  LET d == Doc(t) IN
  /\ pc[t] = "tier3"
  /\ WriteRow(d, IF mem[t].review THEN "NEEDS_REVIEW" ELSE "COMPLETED", row[d])
  /\ \E found \in SUBSET {t} :
       findings' = [findings EXCEPT ![d] = @ \cup found]
  /\ IF mem[t].review THEN Leave(t) ELSE Release(t, "needs")
  /\ UNCHANGED <<ext, stale, req, needsDue, history>>

(* _extract_branch, up to the extractor call.                              *)
StartExtraction(t) ==
  /\ pc[t] = "route"
  /\ WriteRow(Doc(t), "EXTRACTING", row[Doc(t)])
  /\ Continue(t, "extract")
  /\ UNCHANGED <<mem, ext, findings, stale, req, needsDue, history>>

(* _run_reprocess refreshes the row after its claim; a type without an     *)
(* extractor is completed as it stands, any other goes into                *)
(* _extract_branch.                                                        *)
Refresh(t) ==
  LET d == Doc(t) IN
  /\ pc[t] = "read" /\ ~IsProcess(t)
  /\ IF HasExtractor(row[d].type)
       THEN /\ status' = [status EXCEPT ![d] = "EXTRACTING"]
            /\ age' = [age EXCEPT ![d] = IF status[d] = "EXTRACTING" THEN @ ELSE 0]
            /\ Continue(t, "extract")
            /\ mem' = [mem EXCEPT ![t] = [NoMem EXCEPT !.type = row[d].type]]
       ELSE /\ status' = [status EXCEPT ![d] = "COMPLETED"]
            /\ age' = [age EXCEPT ![d] = 0]
            /\ Leave(t)
  /\ UNCHANGED <<row, ext, findings, stale, req, needsDue, history>>

(* A throttled extraction ends NEEDS_REVIEW and records no version.        *)
ExtractThrottled(t) ==
  /\ pc[t] = "extract"
  /\ WriteRow(Doc(t), "NEEDS_REVIEW", [row[Doc(t)] EXCEPT !.error = "error"])
  /\ Leave(t)
  /\ UNCHANGED <<ext, findings, stale, req, needsDue, history>>

\* Mutant: no current row is looked for.
SelectNothing(t) ==
  /\ pc[t] = "extract"
  /\ \E result \in Results : mem' = [mem EXCEPT ![t].saw = 0, ![t].result = result]
  /\ Continue(t, "insert")
  /\ UNCHANGED <<rowVars, req, needsDue, history>>

(* create_extraction_version begins by selecting the row to demote.        *)
SelectCurrent(t) ==
  LET current == ext[Doc(t)].current IN
  /\ pc[t] = "extract"
  /\ \E result \in Results, v \in IF current = {} THEN {0} ELSE current :
       mem' = [mem EXCEPT ![t].saw = v, ![t].result = result]
  /\ Continue(t, "insert")
  /\ UNCHANGED <<rowVars, req, needsDue, history>>

(* The demotion, the next version number and the insert.  Another          *)
(* session's uncommitted insert on the document blocks them; a current row *)
(* that session committed meanwhile trips UNIQUE (document_id) WHERE       *)
(* is_current.                                                             *)
InsertVersion(t) ==
  LET d == Doc(t) IN
  /\ pc[t] = "insert"
  /\ \A u \in Tasks \ {t} : ~(pc[u] = "commit" /\ Doc(u) = d)
  /\ IF ext[d].current \subseteq {mem[t].saw}
       THEN /\ Continue(t, "commit")
            /\ mem' = [mem EXCEPT ![t].number = ext[d].latest + 1]
       ELSE /\ Continue(t, "conflict")
            /\ UNCHANGED mem
  /\ UNCHANGED <<rowVars, req, needsDue, history>>

\* Mutant: the previous version stays current.
StoreWithoutDemotion(t) ==
  ext' = [ext EXCEPT ![Doc(t)] = [latest  |-> mem[t].number,
                                  current |-> @.current \cup {mem[t].number},
                                  schema  |-> mem[t].type]]

(* The commit of what create_extraction_version flushed: the new version,  *)
(* and the demotion of the one it saw.                                     *)
StoreVersion(t) ==
  ext' = [ext EXCEPT ![Doc(t)] =
            [latest  |-> mem[t].number,
             current |-> (@.current \ {mem[t].saw}) \cup {mem[t].number},
             schema  |-> mem[t].type]]

(* The rest of _extract_branch, committed as one transaction with the      *)
(* version: a good extraction completes, a poor one is reviewed, a failed  *)
(* one falls back to the free extractor.                                   *)
FinishExtraction(t) ==
  LET d    == Doc(t)
      good == mem[t].result = "good"
  IN
  /\ pc[t] = "commit"
  /\ StoreVersion(t)
  /\ WriteRow(d, IF good THEN "COMPLETED" ELSE "NEEDS_REVIEW",
                 IF good THEN row[d] ELSE [row[d] EXCEPT !.error = "error"])
  /\ \E found \in IF mem[t].result = "low" THEN {{}} ELSE SUBSET {t} :
       findings' = [findings EXCEPT ![d] = @ \cup found]
  /\ IF IsProcess(t) THEN Release(t, "needs") ELSE Leave(t)
  /\ UNCHANGED <<stale, req, needsDue, history>>

(* _enqueue_needs_update: fire-and-forget, a broker failure is swallowed.  *)
EnqueueNeeds(t) ==
  /\ pc[t] = "needs"
  /\ needsDue' \in {needsDue, needsDue \cup {Doc(t)}}
  /\ Leave(t)
  /\ UNCHANGED <<rowVars, req, history>>

-----------------------------------------------------------------------------
(* Failures.                                                               *)

(* _mark_failed.  It never raises: when even its second attempt cannot     *)
(* commit, the row keeps the status it had.  After a database error that   *)
(* second attempt, which reloads an active row, is the only one.           *)
MarkFailed(t) ==
  /\ pc[t] \in {"failing", "conflict"}
  /\ \/ /\ pc[t] = "conflict" => Exists(Doc(t))
        /\ WriteRow(Doc(t), "FAILED", [row[Doc(t)] EXCEPT !.error = "error"])
        /\ UNCHANGED orphaned
     \/ /\ UNCHANGED <<status, age, row>>
        /\ orphaned' = orphaned \cup {Doc(t)}
  /\ Leave(t)
  /\ UNCHANGED <<ext, findings, stale, req, needsDue, trespassed, dropped, humanType>>

(* An exception that leaves the session usable: _mark_failed's commit      *)
(* takes along what the run had not committed yet, the new version and the *)
(* findings recorded so far.                                               *)
FailHalfDone(t) ==
  LET d == Doc(t) IN
  /\ pc[t] \in {"tier3", "commit"}
  /\ WriteRow(d, "FAILED", [row[d] EXCEPT !.error = "error"])
  /\ \E found \in SUBSET {t} : findings' = [findings EXCEPT ![d] = @ \cup found]
  /\ IF pc[t] = "commit" THEN StoreVersion(t) ELSE UNCHANGED ext
  /\ Leave(t)
  /\ UNCHANGED <<stale, req, needsDue, history>>

(* _mark_document_failed, run by retry_or_terminal in a fresh session after *)
(* the soft limit: it asks only that the document still be there.          *)
MarkExhausted(t) ==
  LET d == Doc(t) IN
  /\ pc[t] = "exhausted"
  /\ \/ /\ Exists(d)
        /\ WriteRow(d, "FAILED", [row[d] EXCEPT !.error = "error"])
        /\ UNCHANGED orphaned
     \/ /\ UNCHANGED <<status, age, row>>
        /\ orphaned' = orphaned \cup {d}
  /\ Leave(t)
  /\ Trespass({d}, {t}, status)
  /\ UNCHANGED <<ext, findings, stale, req, needsDue, dropped, humanType>>

\* Mutant: the exception escapes the pipeline.
PipelineErrorEscapes(t) ==
  /\ pc[t] \in ClaimedPc
  /\ Leave(t)
  /\ UNCHANGED <<rowVars, req, needsDue, history>>

(* Any exception inside the pipeline's try that leaves nothing to commit.  *)
PipelineError(t) ==
  /\ pc[t] \in ClaimedPc
  /\ pc[t] = "read" => IsProcess(t) \/ HasExtractor(row[Doc(t)].type)
  /\ Continue(t, "failing")
  /\ mem' = [mem EXCEPT ![t] = NoMem]
  /\ UNCHANGED <<rowVars, req, needsDue, history>>

(* Where an error is outside it: before the claim or, in _run_reprocess,   *)
(* between the claim and the try.                                          *)
OutsideTry(t) == pc[t] = "loaded" \/ (pc[t] = "read" /\ ~IsProcess(t))

(* retry_or_terminal: a transient error there puts the task back in line.  *)
TransientError(t) ==
  /\ OutsideTry(t)
  /\ job[t].retries < MaxRetries
  /\ Goto(t, "queued")
  /\ job' = [job EXCEPT ![t].retries = @ + 1]
  /\ mem' = [mem EXCEPT ![t] = NoMem]
  /\ elapsed' = [elapsed EXCEPT ![t] = 0]
  /\ owns' = [owns EXCEPT ![t] = FALSE]
  /\ UNCHANGED <<rowVars, req, needsDue, history>>

(* Or it is the end of the task: task.retry(exc=exc) raises exc, not       *)
(* MaxRetriesExceededError, once the retries are spent, and Reject when    *)
(* the broker refuses the new message.  Neither reaches on_exhausted, and  *)
(* the document stays as it is.                                            *)
GiveUp(t) ==
  /\ OutsideTry(t)
  /\ Leave(t)
  /\ dropped' = dropped \cup {Doc(t)}
  /\ UNCHANGED <<rowVars, req, needsDue, trespassed, orphaned, humanType>>

(* SoftTimeLimitExceeded is re-raised past every handler of the pipeline   *)
(* and is terminal for the wrapper: on_exhausted runs at once.             *)
SoftTimeLimit(t) ==
  /\ pc[t] \in ClaimedPc \cup {"loaded", "needs"}
  /\ elapsed[t] >= SoftLimit
  /\ Continue(t, "exhausted")
  /\ mem' = [mem EXCEPT ![t] = NoMem]
  /\ UNCHANGED <<rowVars, req, needsDue, history>>

(* SIGKILL: the hard limit, the OOM killer or a deploy.  The message was   *)
(* acknowledged when the task started, so nothing runs it again.           *)
Kill(t) ==
  /\ pc[t] \in Running
  /\ Leave(t)
  /\ orphaned' = orphaned \cup {Doc(t)}
  /\ UNCHANGED <<rowVars, req, needsDue, trespassed, dropped, humanType>>

(* Time passes for every running task and every row in flight.  No task    *)
(* outlives the hard limit.                                                *)
Tick ==
  /\ \A t \in Tasks : pc[t] \in Running => elapsed[t] < HardLimit
  /\ \/ \E t \in Tasks : pc[t] \in Running
     \/ \E d \in Docs : status[d] \in InFlight /\ age[d] <= AbandonAfter
  /\ elapsed' = [t \in Tasks |-> IF pc[t] \in Running THEN elapsed[t] + 1 ELSE elapsed[t]]
  /\ age' = [d \in Docs |-> IF status[d] \in InFlight /\ age[d] <= AbandonAfter
                              THEN age[d] + 1 ELSE age[d]]
  /\ UNCHANGED <<status, row, ext, findings, stale, pc, job, mem, owns,
                 req, needsDue, history>>

Progress(t) ==
  \/ Load(t) \/ Claim(t) \/ ReadAndSupersede(t) \/ Refresh(t)
  \/ ClassifyInfraFailure(t) \/ Classify(t) \/ Tier3(t)
  \/ StartExtraction(t) \/ ExtractThrottled(t) \/ SelectCurrent(t)
  \/ InsertVersion(t) \/ FinishExtraction(t) \/ EnqueueNeeds(t)
  \/ MarkFailed(t) \/ MarkExhausted(t)

Fault(t) ==
  \/ PipelineError(t) \/ FailHalfDone(t) \/ TransientError(t) \/ GiveUp(t)
  \/ SoftTimeLimit(t) \/ Kill(t)
============================================================================
