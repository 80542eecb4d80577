---------------------------- MODULE DocumentApi ----------------------------
(***************************************************************************)
(* The handlers of api/documents.py that write.  Each one loads rows,      *)
(* decides, writes and commits, and only then talks to the broker, so a    *)
(* handler is several steps: Admit... reads and checks, Commit... writes   *)
(* what it decided from, Enqueue and Finish end it.  A refused request     *)
(* changes nothing and is not a step.                                      *)
(***************************************************************************)
EXTENDS Documents

ReqPcs   == {"idle", "admitted", "committed", "done"}
ReqKinds == {"none", "reprocess", "override", "upload", "replace"}
Blank    == [status |-> "ABSENT", type |-> None, certain |-> FALSE, error |-> "none"]

NoReq == [pc |-> "idle", kind |-> "none", targets |-> {}, refused |-> {},
          type |-> None, seen |-> [d \in Docs |-> Blank]]

(* What the request's session holds of the documents it will write, of the *)
(* columns it will write.                                                  *)
Seen(S, kind) ==
  [d \in Docs |->
     CASE d \in S /\ kind = "reprocess" ->
            [Blank EXCEPT !.status = status[d], !.error = row[d].error,
                          !.certain = row[d].certain]
       [] d \in S /\ kind = "override" ->
            [Blank EXCEPT !.type = row[d].type, !.error = row[d].error,
                          !.certain = row[d].certain]
       [] OTHER -> Blank]

Admit(q, kind, S, type) ==
  /\ req[q].pc = "idle"
  /\ req' = [req EXCEPT ![q] = [pc |-> "admitted", kind |-> kind, targets |-> S,
                                refused |-> {}, type |-> type, seen |-> Seen(S, kind)]]
  /\ UNCHANGED <<rowVars, taskVars, needsDue, history>>

(* reprocess_document_from_scratch: the three refusals.                    *)
AdmitReprocess(q, d) ==
  /\ Exists(d)
  /\ row[d].isCurrent
  /\ ~PipelineInFlight(d)
  /\ \E force \in BOOLEAN : row[d].certain => force
  /\ Admit(q, "reprocess", {d}, None)

(* _would_benefit                                                          *)
WouldBenefit(d) ==
  \/ row[d].type \in {None, Unknown}
  \/ status[d] \in {"NEEDS_REVIEW", "FAILED"} \cup InFlight

(* reprocess_documents: the same refusals as filters, and three more.      *)
BulkEligible(d, force, allDocuments) ==
  /\ Exists(d)
  /\ row[d].isCurrent
  /\ ~PipelineInFlight(d)
  /\ row[d].certain => force
  /\ \/ allDocuments
     \/ /\ status[d] # "PENDING"
        /\ row[d].error # "too_large"
        /\ WouldBenefit(d)

AdmitBulk(q) ==
  \E force, allDocuments \in BOOLEAN :
    LET S == {d \in Docs : BulkEligible(d, force, allDocuments)} IN
    /\ S # {}
    /\ Cardinality(S) <= MaxBulk
    /\ Admit(q, "reprocess", S, None)

(* Back to PENDING with the error cleared, for every document admitted.    *)
CommitReprocess(q) ==
  LET S == req[q].targets
      seen == req[q].seen
      written == {d \in S : seen[d].status # "PENDING" \/ seen[d].error # "none"}
  IN
  /\ req[q].pc = "admitted" /\ req[q].kind = "reprocess"
  /\ status' = [d \in Docs |-> IF d \in S THEN Emit(seen[d].status, "PENDING", status[d])
                                          ELSE status[d]]
  /\ row' = [d \in Docs |-> IF d \in S
               THEN [row[d] EXCEPT !.error = Emit(seen[d].error, "none", @)] ELSE row[d]]
  /\ age' = [d \in Docs |-> IF d \in written THEN 0 ELSE age[d]]
  /\ stale' = TRUE
  /\ req' = [req EXCEPT ![q].pc = "committed"]
  /\ Trespass(S, {}, [d \in Docs |-> seen[d].status])
  /\ UNCHANGED <<ext, findings, taskVars, needsDue, orphaned, dropped, humanType>>

(* override_document_type: refused while in flight, whatever the version.  *)
AdmitOverride(q, d) ==
  /\ Exists(d)
  /\ ~PipelineInFlight(d)
  /\ \E type \in Types : Admit(q, "override", {d}, type)

(* The human's type, its confidence of 1.0, and no error.  The status is   *)
(* left for the re-extraction.                                             *)
CommitOverride(q) ==
  /\ req[q].pc = "admitted" /\ req[q].kind = "override"
  /\ \E d \in req[q].targets :
       LET seen == req[q].seen[d] IN
       /\ row' = [row EXCEPT
            ![d].type    = Emit(seen.type, req[q].type, @),
            ![d].certain = Emit(seen.certain, TRUE, @),
            ![d].error   = Emit(seen.error, "none", @)]
       /\ age' = [age EXCEPT ![d] =
            IF seen.type = req[q].type /\ seen.certain /\ seen.error = "none"
              THEN @ ELSE 0]
       /\ humanType' = [humanType EXCEPT ![d] = IF seen.type = req[q].type THEN @ ELSE req[q].type]
  /\ stale' = TRUE
  /\ req' = [req EXCEPT ![q] = [NoReq EXCEPT !.pc = "committed", !.kind = "override",
                                             !.targets = req[q].targets]]
  /\ UNCHANGED <<status, ext, findings, taskVars, needsDue, trespassed, orphaned, dropped>>

(* upload: the bytes are stored and a PENDING row is committed.            *)
Upload(q, d) ==
  /\ req[q].pc = "idle"
  /\ status[d] = "ABSENT"
  /\ WriteRow(d, "PENDING", NewRow(d))
  /\ stale' = TRUE
  /\ req' = [req EXCEPT ![q] = [NoReq EXCEPT !.pc = "committed", !.kind = "upload",
                                             !.targets = {d}]]
  /\ UNCHANGED <<ext, findings, taskVars, needsDue, history>>

(* replace: only the current version may be replaced.                      *)
AdmitReplace(q, d) ==
  /\ Exists(d)
  /\ row[d].isCurrent
  /\ Admit(q, "replace", {d}, None)

\* Mutant: the old version is left current.
CommitReplaceKeepsOld(q, new) ==
  /\ req[q].pc = "admitted" /\ req[q].kind = "replace"
  /\ status[new] = "ABSENT"
  /\ \E old \in req[q].targets :
       WriteRow(new, "PENDING", [NewRow(new) EXCEPT !.group = row[old].group,
                                                    !.version = row[old].version + 1])
  /\ stale' = TRUE
  /\ req' = [req EXCEPT ![q] = [NoReq EXCEPT !.pc = "committed", !.kind = "replace",
                                             !.targets = {new}]]
  /\ UNCHANGED <<ext, findings, taskVars, needsDue, history>>

(* create_document and supersede_document: the old row turns historical,   *)
(* the new one joins its group one version later.                          *)
CommitReplace(q, new) ==
  /\ req[q].pc = "admitted" /\ req[q].kind = "replace"
  /\ status[new] = "ABSENT"
  /\ \E old \in req[q].targets :
       /\ row' = [row EXCEPT ![old].isCurrent = FALSE,
                             ![new] = [NewRow(new) EXCEPT !.group = row[old].group,
                                                          !.version = row[old].version + 1]]
       /\ age' = [age EXCEPT ![old] = 0, ![new] = 0]
  /\ status' = [status EXCEPT ![new] = "PENDING"]
  /\ stale' = TRUE
  /\ req' = [req EXCEPT ![q] = [NoReq EXCEPT !.pc = "committed", !.kind = "replace",
                                             !.targets = {new}]]
  /\ UNCHANGED <<ext, findings, taskVars, needsDue, history>>

Close(q) == req' = [req EXCEPT ![q] = [NoReq EXCEPT !.pc = "done"]]

(* delete: a soft delete, whatever the document is doing.                  *)
Delete(q, d) ==
  /\ req[q].pc = "idle"
  /\ Exists(d)
  /\ WriteRow(d, status[d], [row[d] EXCEPT !.active = FALSE])
  /\ Close(q)
  /\ UNCHANGED <<ext, findings, stale, taskVars, needsDue, history>>

(* resolve_staleness_endpoint writes a column of its own; what it shares   *)
(* with the pipeline is updated_at, when the resolution is a new one.      *)
ResolveStaleness(q, d) ==
  /\ req[q].pc = "idle"
  /\ Exists(d)
  /\ age' \in {age, [age EXCEPT ![d] = 0]}
  /\ Close(q)
  /\ UNCHANGED <<status, row, ext, findings, stale, taskVars, needsDue, history>>

(* The task reaches the broker, and what others left undone is its now.    *)
(* (A reprocess forced over a person's type releases it.)                  *)
Enqueue(q, d, t) ==
  /\ req[q].pc = "committed" /\ d \in req[q].targets
  /\ Put(t, d, IF req[q].kind = "override" THEN "reprocess" ELSE "process")
  /\ req' = [req EXCEPT ![q].targets = @ \ {d}]
  /\ humanType' = [humanType EXCEPT ![d] =
       IF req[q].kind = "reprocess" /\ req[q].seen[d].certain THEN None ELSE @]
  /\ orphaned' = orphaned \ {d}
  /\ dropped' = dropped \ {d}
  /\ UNCHANGED <<rowVars, needsDue, trespassed>>

\* Mutants: a refusal goes unnoticed, or ends the batch.
EnqueueFailsUnnoticed(q, d) ==
  /\ req[q].pc = "committed" /\ d \in req[q].targets
  /\ req' = [req EXCEPT ![q].targets = @ \ {d}]
  /\ UNCHANGED <<rowVars, taskVars, needsDue, history>>

EnqueueFailsAll(q, d) ==
  /\ req[q].pc = "committed" /\ d \in req[q].targets
  /\ req' = [req EXCEPT ![q].targets = {}, ![q].refused = {d}]
  /\ UNCHANGED <<rowVars, taskVars, needsDue, history>>

(* The broker refuses it.  Only the reprocess handlers look at the outcome. *)
EnqueueFails(q, d) ==
  /\ req[q].pc = "committed" /\ d \in req[q].targets
  /\ req' = [req EXCEPT ![q].targets = @ \ {d},
                        ![q].refused = IF req[q].kind = "reprocess" THEN @ \cup {d} ELSE @]
  /\ UNCHANGED <<rowVars, taskVars, needsDue, history>>

(* The refused documents are put back the way they were found.             *)
Finish(q) ==
  LET S == req[q].refused
      seen == req[q].seen
      written == {d \in S : seen[d].status # "PENDING" \/ seen[d].error # "none"}
  IN
  /\ req[q].pc = "committed" /\ req[q].targets = {}
  /\ status' = [d \in Docs |-> IF d \in S THEN Emit("PENDING", seen[d].status, status[d])
                                          ELSE status[d]]
  /\ row' = [d \in Docs |-> IF d \in S
               THEN [row[d] EXCEPT !.error = Emit("none", seen[d].error, @)] ELSE row[d]]
  /\ age' = [d \in Docs |-> IF d \in written THEN 0 ELSE age[d]]
  /\ Close(q)
  /\ Trespass(S, {}, [d \in Docs |-> "PENDING"])
  /\ UNCHANGED <<ext, findings, stale, taskVars, needsDue, orphaned, dropped, humanType>>

(* The API process dies in the middle of a request.                        *)
Abort(q) ==
  /\ req[q].pc \in {"admitted", "committed"}
  /\ Close(q)
  /\ orphaned' = orphaned \cup req[q].targets \cup req[q].refused
  /\ UNCHANGED <<rowVars, taskVars, needsDue, trespassed, dropped, humanType>>

Handle(q) ==
  \/ AdmitBulk(q) \/ CommitReprocess(q) \/ CommitOverride(q) \/ Finish(q) \/ Abort(q)
  \/ \E d \in Docs :
       \/ AdmitReprocess(q, d) \/ AdmitOverride(q, d) \/ AdmitReplace(q, d)
       \/ Upload(q, d) \/ CommitReplace(q, d) \/ Delete(q, d) \/ ResolveStaleness(q, d)
       \/ EnqueueFails(q, d)
       \/ \E t \in Tasks : Enqueue(q, d, t)
============================================================================
