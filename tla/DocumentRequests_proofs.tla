---------------------- MODULE DocumentRequests_proofs ----------------------
(***************************************************************************)
(* What the handlers of api/documents.py leave behind: a document sent     *)
(* back to PENDING has somebody coming for it, and a version group forks   *)
(* only when a replace overtakes another.                                  *)
(***************************************************************************)
EXTENDS DocumentTypes_proofs

-----------------------------------------------------------------------------
(* The tasks.                                                              *)

(* All a task does to its document's row is to set the label and the error,*)
(* and the status to one that is neither PENDING nor ABSENT.               *)
Touches(t) ==
  /\ UNCHANGED <<req, humanType>>
  /\ orphaned \subseteq orphaned' /\ dropped \subseteq dropped'
  /\ \A u \in Tasks : job'[u].doc = job[u].doc
  /\ \A u \in Tasks \ {t} : pc'[u] = pc[u]
  /\ \A d \in Docs \ {Doc(t)} : status'[d] = status[d] /\ row'[d] = row[d]
  /\ row'[Doc(t)].active = row[Doc(t)].active
  /\ row'[Doc(t)].isCurrent = row[Doc(t)].isCurrent
  /\ row'[Doc(t)].group = row[Doc(t)].group
  /\ status'[Doc(t)] \in {status[Doc(t)]} \cup InFlight \cup Settled

(* It stays with the document, or leaves it where nobody need come.        *)
Provides(t) ==
  \/ pc'[t] \in Busy
  \/ status'[Doc(t)] # "PENDING"
  \/ Doc(t) \in orphaned' \cup dropped'
  \/ ~row'[Doc(t)].active
  \/ pc[t] = "needs" /\ status'[Doc(t)] = status[Doc(t)] /\ row'[Doc(t)] = row[Doc(t)]

LEMMA WriteTouches ==
  ASSUME TypeOK, NEW d \in Docs, NEW s \in InFlight \cup Settled, NEW r \in Rows,
         r.active = row[d].active, r.isCurrent = row[d].isCurrent, r.group = row[d].group,
         WriteRow(d, s, r)
  PROVE  /\ \A e \in Docs \ {d} : status'[e] = status[e] /\ row'[e] = row[e]
         /\ row'[d].active = row[d].active /\ row'[d].isCurrent = row[d].isCurrent
         /\ row'[d].group = row[d].group
         /\ status'[d] = s
BY DEF WriteRow, TypeOK, RowsOK

LEMMA TaskTouches ==
  ASSUME TypeOK, NEW t \in Tasks, Progress(t) \/ Fault(t)
  PROVE  Touches(t) /\ Provides(t) /\ pc[t] # "unused" /\ pc'[t] # "unused"
<1> DEFINE d == Doc(t)
           r(e) == [row[d] EXCEPT !.error = e]
<1> USE DEF Goto, Leave, Release, Continue, history, Running, ClaimedPc, Busy, InFlight, Settled
<1>1. pc[t] # "unused"
  BY DEF Progress, Fault, Load, Claim, ReadAndSupersede, Refresh, ClassifyInfraFailure, Classify,
         Tier3, StartExtraction, ExtractThrottled, SelectCurrent, InsertVersion, FinishExtraction,
         EnqueueNeeds, MarkFailed, MarkExhausted, PipelineError, FailHalfDone, TransientError,
         GiveUp, OutsideTry, SoftTimeLimit, Kill
<1>2. /\ d \in Docs /\ row[d] \in Rows /\ status[d] \in Statuses
      /\ pc \in [Tasks -> Pcs] /\ \A e \in Errors : r(e) \in Rows
  BY <1>1, DocOfTask, SetError DEF TypeOK, TasksOK
<1>3. \A e \in Errors : /\ r(e).active = row[d].active /\ r(e).isCurrent = row[d].isCurrent
                        /\ r(e).group = row[d].group
  BY <1>2 DEF Rows
<1>4. CASE \/ Load(t) \/ ReadAndSupersede(t) \/ SelectCurrent(t) \/ InsertVersion(t)
           \/ PipelineError(t) \/ SoftTimeLimit(t) \/ EnqueueNeeds(t) \/ GiveUp(t) \/ Kill(t)
  <2>1. /\ UNCHANGED <<req, humanType, job, status, row>>
        /\ orphaned \subseteq orphaned' /\ dropped \subseteq dropped'
        /\ \A u \in Tasks \ {t} : pc'[u] = pc[u]
    BY <1>2, <1>4 DEF Load, ReadAndSupersede, SelectCurrent, InsertVersion, PipelineError,
                      SoftTimeLimit, EnqueueNeeds, GiveUp, Kill, rowVars
  <2>2. pc'[t] # "unused" /\ Provides(t)
    <3>1. CASE Load(t)
      BY <1>2, <2>1, <3>1 DEF Load, Exists, Provides
    <3>2. CASE \/ ReadAndSupersede(t) \/ SelectCurrent(t) \/ InsertVersion(t)
               \/ PipelineError(t) \/ SoftTimeLimit(t)
      BY <1>2, <3>2 DEF ReadAndSupersede, SelectCurrent, InsertVersion, PipelineError,
                        SoftTimeLimit, Provides
    <3>3. CASE EnqueueNeeds(t) \/ GiveUp(t) \/ Kill(t)
      BY <1>2, <2>1, <3>3 DEF EnqueueNeeds, GiveUp, Kill, Provides
    <3> QED BY <1>4, <3>1, <3>2, <3>3
  <2> QED BY <1>1, <2>1, <2>2 DEF Touches
<1>5. CASE TransientError(t)
  <2>1. /\ UNCHANGED <<req, humanType, orphaned, dropped, status, row>>
        /\ \A u \in Tasks \ {t} : pc'[u] = pc[u]
        /\ pc'[t] = "queued"
    BY <1>2, <1>5 DEF TransientError, rowVars
  <2>2. \A u \in Tasks : job'[u].doc = job[u].doc
    BY <1>5 DEF TransientError, TypeOK, TasksOK, Jobs
  <2> QED BY <1>1, <2>1, <2>2 DEF Touches, Provides
<1>6. CASE Claim(t)
  <2>1. CASE Claimable(d)
    <3>1. \E s \in InFlight : WriteRow(d, s, row[d])
      BY <1>6, <2>1 DEF Claim
    <3>2. /\ UNCHANGED <<req, humanType, orphaned, dropped, job>>
          /\ pc' = [pc EXCEPT ![t] = "read"]
      BY <1>6, <2>1 DEF Claim
    <3> QED BY <1>1, <1>2, <3>1, <3>2, WriteTouches DEF Touches, Provides
  <2>2. CASE ~Claimable(d)
    <3>1. /\ UNCHANGED <<req, humanType, orphaned, dropped, job, status, row>>
          /\ pc' = [pc EXCEPT ![t] = "ended"]
          /\ status[d] # "PENDING"
      BY <1>6, <2>2 DEF Claim, Claimable
    <3> QED BY <1>1, <1>2, <3>1 DEF Touches, Provides
  <2> QED BY <2>1, <2>2
<1>7. CASE \/ ClassifyInfraFailure(t) \/ Tier3(t) \/ StartExtraction(t) \/ ExtractThrottled(t)
           \/ FinishExtraction(t) \/ FailHalfDone(t)
  <2>1. /\ UNCHANGED <<req, humanType, orphaned, dropped, job>>
        /\ \E label \in Pcs \ {"unused"} : pc' = [pc EXCEPT ![t] = label]
    BY <1>7 DEF ClassifyInfraFailure, Tier3, StartExtraction, ExtractThrottled, FinishExtraction,
                FailHalfDone, Pcs
  <2>2. \E s \in InFlight \cup Settled, new \in {row[d]} \cup {r(e) : e \in Errors} :
          WriteRow(d, s, new)
    BY <1>7 DEF ClassifyInfraFailure, Tier3, StartExtraction, ExtractThrottled, FinishExtraction,
                FailHalfDone, Errors
  <2>3. /\ \A e \in Docs \ {d} : status'[e] = status[e] /\ row'[e] = row[e]
        /\ row'[d].active = row[d].active /\ row'[d].isCurrent = row[d].isCurrent
        /\ row'[d].group = row[d].group
        /\ status'[d] \in InFlight \cup Settled
    <3>1. PICK s \in InFlight \cup Settled, new \in {row[d]} \cup {r(e) : e \in Errors} :
            WriteRow(d, s, new)
      BY <2>2
    <3>2. /\ new \in Rows /\ new.active = row[d].active
          /\ new.isCurrent = row[d].isCurrent /\ new.group = row[d].group
      BY <1>2, <1>3
    <3> QED BY ONLY TypeOK, <1>2, <3>1, <3>2, WriteTouches
  <2> QED BY <1>1, <1>2, <2>1, <2>3 DEF Touches, Provides
<1>8. CASE Classify(t)
  <2>1. PICK type \in Types, certain \in BOOLEAN :
          WriteRow(d, "CLASSIFIED", [row[d] EXCEPT !.type    = Emit(mem[t].type, type, @),
                                                   !.certain = Emit(mem[t].certain, certain, @)])
    BY <1>8 DEF Classify
  <2> DEFINE new == [row[d] EXCEPT !.type    = Emit(mem[t].type, type, @),
                                   !.certain = Emit(mem[t].certain, certain, @)]
  <2>2. new \in Rows
    BY <1>2 DEF Emit, Rows
  <2>3. new.active = row[d].active /\ new.isCurrent = row[d].isCurrent /\ new.group = row[d].group
    BY <1>2 DEF Rows
  <2>4. /\ UNCHANGED <<req, humanType, orphaned, dropped, job>>
        /\ \E label \in {"route", "tier3"} : pc' = [pc EXCEPT ![t] = label]
    BY <1>8 DEF Classify
  <2> HIDE DEF new
  <2>5. WriteRow(d, "CLASSIFIED", new)
    BY <2>1 DEF new
  <2> QED BY <1>1, <1>2, <2>2, <2>3, <2>4, <2>5, WriteTouches DEF Touches, Provides
<1>9. CASE Refresh(t)
  <2>1. /\ UNCHANGED <<req, humanType, orphaned, dropped, job, row>>
        /\ \E label \in {"extract", "ended"} : pc' = [pc EXCEPT ![t] = label]
        /\ \E s \in {"EXTRACTING", "COMPLETED"} : status' = [status EXCEPT ![d] = s]
    BY <1>9 DEF Refresh
  <2> QED BY <1>1, <1>2, <2>1 DEF Touches, Provides, TypeOK, RowsOK
<1>10. CASE MarkFailed(t) \/ MarkExhausted(t)
  <2>1. /\ UNCHANGED <<req, humanType, dropped, job>>
        /\ pc' = [pc EXCEPT ![t] = "ended"]
        /\ orphaned \subseteq orphaned'
        /\ \/ WriteRow(d, "FAILED", r("error"))
           \/ UNCHANGED <<status, row>> /\ d \in orphaned'
    BY <1>10 DEF MarkFailed, MarkExhausted
  <2>2. CASE WriteRow(d, "FAILED", r("error"))
    <3>1. "error" \in Errors /\ "FAILED" \in InFlight \cup Settled
      BY DEF Errors
    <3>2. /\ \A e \in Docs \ {d} : status'[e] = status[e] /\ row'[e] = row[e]
          /\ row'[d].active = row[d].active /\ row'[d].isCurrent = row[d].isCurrent
          /\ row'[d].group = row[d].group
          /\ status'[d] = "FAILED"
      BY ONLY TypeOK, <1>2, <1>3, <2>2, <3>1, WriteTouches
    <3> QED BY <1>1, <1>2, <2>1, <3>2 DEF Touches, Provides
  <2>3. CASE UNCHANGED <<status, row>> /\ d \in orphaned'
    BY <1>1, <1>2, <2>1, <2>3 DEF Touches, Provides
  <2> QED BY <2>1, <2>2, <2>3
<1> QED BY <1>4, <1>5, <1>6, <1>7, <1>8, <1>9, <1>10 DEF Progress, Fault

-----------------------------------------------------------------------------
(* Somebody is coming.                                                     *)

LEMMA TaskKeepsPendingInv ==
  ASSUME TypeOK, TypeOK', PendingInv, NEW t \in Tasks, Touches(t), Provides(t), pc[t] # "unused"
  PROVE  PendingInv'
<1> USE DEF Touches
<1>1. OverridesName'
  BY DEF PendingInv, OverridesName
<1>2. ASSUME NEW d \in Docs, Parked(d)', Expected(d), d # Doc(t) \/ pc[t] \notin Busy
      PROVE  Expected(d)'
  BY <1>2 DEF Expected, Doc
<1>3. ASSUME NEW d \in Docs, Parked(d)'
      PROVE  Expected(d)'
  <2>1. CASE d # Doc(t)
    <3>1. Parked(d)
      BY <1>3, <2>1 DEF Parked, Exists
    <3> QED BY <1>2, <1>3, <2>1, <3>1 DEF PendingInv
  <2>2. CASE d = Doc(t) /\ pc'[t] \in Busy
    BY <2>2 DEF Expected, Doc
  <2>3. CASE d = Doc(t) /\ pc'[t] \notin Busy
    <3>1. pc[t] = "needs" /\ status'[d] = status[d] /\ row'[d] = row[d]
      BY <1>3, <2>3 DEF Provides, Parked, Exists
    <3>2. Parked(d)
      BY <1>3, <3>1 DEF Parked, Exists
    <3> QED BY <1>2, <1>3, <3>1, <3>2 DEF PendingInv, Busy
  <2> QED BY <2>1, <2>2, <2>3
<1> QED BY <1>1, <1>3 DEF PendingInv

(* A request's step keeps it if it leaves the tasks alone and, for every   *)
(* document it leaves parked, comes for it or was not the one who did.     *)
LEMMA RequestProvides ==
  ASSUME TypeOK, TypeOK', PendingInv, NEW q \in Requests,
         UNCHANGED <<pc, job>>,
         \A p \in Requests \ {q} : req'[p] = req[p],
         req'[q].pc = "admitted" /\ req'[q].kind = "override" => req'[q].type # None,
         \A d \in Docs : Parked(d)' =>
           \/ /\ req'[q].pc = "committed" /\ req'[q].kind = "reprocess"
              /\ d \in req'[q].targets \cup req'[q].refused
              /\ req'[q].seen[d].status # "PENDING"
           \/ /\ Parked(d)
              /\ req[q].pc = "committed" /\ req[q].kind = "reprocess"
                   /\ d \in req[q].targets \cup req[q].refused
                 => req[q].seen[d].status = "PENDING"
  PROVE  PendingInv'
<1>1. OverridesName'
  BY DEF PendingInv, OverridesName
<1>2. ASSUME NEW d \in Docs, Parked(d)'
      PROVE  Expected(d)'
  <2>1. CASE /\ req'[q].pc = "committed" /\ req'[q].kind = "reprocess"
             /\ d \in req'[q].targets \cup req'[q].refused
             /\ req'[q].seen[d].status # "PENDING"
    BY <2>1 DEF Expected
  <2>2. CASE /\ Parked(d)
             /\ req[q].pc = "committed" /\ req[q].kind = "reprocess"
                  /\ d \in req[q].targets \cup req[q].refused
                => req[q].seen[d].status = "PENDING"
    <3>1. Expected(d)
      BY <2>2 DEF PendingInv
    <3>2. CASE \E t \in Tasks : job[t].doc = d /\ pc[t] \in Busy
      BY <3>2 DEF Expected
    <3>3. CASE \E p \in Requests :
                 /\ req[p].pc = "committed" /\ req[p].kind = "reprocess"
                 /\ d \in req[p].targets \cup req[p].refused
                 /\ req[p].seen[d].status # "PENDING"
      BY <2>2, <3>3 DEF Expected
    <3> QED BY <3>1, <3>2, <3>3 DEF Expected
  <2> QED BY <1>2, <2>1, <2>2
<1> QED BY <1>1, <1>2 DEF PendingInv

LEMMA AdmitKeepsPendingInv ==
  ASSUME TypeOK, TypeOK', PendingInv, NEW q \in Requests, NEW kind, NEW S, NEW type,
         Admit(q, kind, S, type), kind = "override" => type # None
  PROVE  PendingInv'
<1>1. /\ UNCHANGED <<pc, job, status, row, humanType, orphaned, dropped>>
      /\ req[q].pc = "idle"
      /\ req'[q].pc = "admitted" /\ req'[q].kind = kind /\ req'[q].type = type
      /\ \A p \in Requests \ {q} : req'[p] = req[p]
  BY DEF Admit, rowVars, taskVars, history, TypeOK, RequestsOK
<1> QED BY <1>1, RequestProvides DEF Parked, Exists

LEMMA CommitReprocessKeepsPendingInv ==
  ASSUME TypeOK, TypeOK', PendingInv, NEW q \in Requests, CommitReprocess(q)
  PROVE  PendingInv'
<1> DEFINE S == req[q].targets
           seen == req[q].seen
<1>1. /\ UNCHANGED <<pc, job, humanType, orphaned, dropped>>
      /\ req[q].pc = "admitted" /\ req[q].kind = "reprocess"
      /\ req' = [req EXCEPT ![q].pc = "committed"]
  BY DEF CommitReprocess, taskVars
<1>2. /\ req'[q].pc = "committed" /\ req'[q].kind = "reprocess"
      /\ req'[q].targets = S /\ req'[q].seen = seen
      /\ \A p \in Requests \ {q} : req'[p] = req[p]
  BY <1>1 DEF TypeOK, RequestsOK, Reqs
<1>3. ASSUME NEW d \in Docs, d \notin S \/ seen[d].status = "PENDING"
      PROVE  status'[d] = status[d]
  BY <1>3 DEF CommitReprocess, Emit
<1>4. \A d \in Docs : row'[d].active = row[d].active /\ row'[d].type = row[d].type
  BY DEF CommitReprocess, TypeOK, RowsOK, Rows
<1>5. ASSUME NEW d \in Docs, d \notin S \/ seen[d].status = "PENDING", Parked(d)'
      PROVE  Parked(d)
  BY <1>1, <1>3, <1>4, <1>5 DEF Parked, Exists
<1> QED BY <1>1, <1>2, <1>5, RequestProvides

LEMMA OverrideKeepsPendingInv ==
  ASSUME TypeOK, TypeOK', PendingInv, NEW q \in Requests, CommitOverride(q)
  PROVE  PendingInv'
<1>1. /\ UNCHANGED <<pc, job, status, orphaned, dropped>>
      /\ req[q].pc = "admitted" /\ req[q].kind = "override"
      /\ req'[q].pc = "committed" /\ req'[q].kind = "override"
      /\ \A p \in Requests \ {q} : req'[p] = req[p]
  BY DEF CommitOverride, taskVars, NoReq, TypeOK, RequestsOK
<1>2. req[q].type # None
  BY <1>1 DEF PendingInv, OverridesName
<1>3. PICK d \in Docs :
        /\ \A e \in Docs \ {d} : row'[e] = row[e] /\ humanType'[e] = humanType[e]
        /\ row'[d].active = row[d].active
        /\ row'[d].type = Emit(req[q].seen[d].type, req[q].type, row[d].type)
        /\ humanType'[d] = IF req[q].seen[d].type = req[q].type THEN humanType[d] ELSE req[q].type
  <2>1. PICK d \in req[q].targets :
          /\ row' = [row EXCEPT
               ![d].type    = Emit(req[q].seen[d].type, req[q].type, @),
               ![d].certain = Emit(req[q].seen[d].certain, TRUE, @),
               ![d].error   = Emit(req[q].seen[d].error, "none", @)]
          /\ humanType' = [humanType EXCEPT ![d] = IF req[q].seen[d].type = req[q].type
                                                    THEN @ ELSE req[q].type]
    BY DEF CommitOverride
  <2>2. d \in Docs /\ row \in [Docs -> Rows] /\ humanType \in [Docs -> Types \cup {None}]
    BY <2>1 DEF TypeOK, RequestsOK, Reqs, RowsOK, HistoryOK
  <2>3. row'[d].active = row[d].active
    BY <2>1, <2>2 DEF Rows
  <2>4. row'[d].type = Emit(req[q].seen[d].type, req[q].type, row[d].type)
    BY <2>1, <2>2 DEF Rows
  <2> QED BY <2>1, <2>2, <2>3, <2>4
<1>4. ASSUME NEW e \in Docs, Parked(e)'
      PROVE  Parked(e)
  BY <1>1, <1>2, <1>3, <1>4 DEF Parked, Exists, Emit
<1> QED BY <1>1, <1>4, RequestProvides

(* A document that is new is yet to be read, one deleted is gone.          *)
LEMMA RowsKeepPendingInv ==
  ASSUME TypeOK, TypeOK', PendingInv, NEW q \in Requests, NEW d \in Docs,
         Upload(q, d) \/ CommitReplace(q, d) \/ Delete(q, d) \/ ResolveStaleness(q, d)
  PROVE  PendingInv'
<1>1. /\ UNCHANGED <<pc, job, humanType, orphaned, dropped>>
      /\ req[q].pc = "idle" \/ req[q].kind = "replace"
      /\ req'[q].pc \in {"committed", "done"}
      /\ \A p \in Requests \ {q} : req'[p] = req[p]
  <2>1. CASE Upload(q, d) \/ CommitReplace(q, d)
    <3>1. PICK kind \in {"upload", "replace"} :
            req' = [req EXCEPT ![q] = [NoReq EXCEPT !.pc = "committed", !.kind = kind,
                                                    !.targets = {d}]]
      BY <2>1 DEF Upload, CommitReplace
    <3>2. req'[q].pc = "committed" /\ \A p \in Requests \ {q} : req'[p] = req[p]
      BY <3>1 DEF NoReq, TypeOK, RequestsOK
    <3> QED BY <2>1, <3>2 DEF Upload, CommitReplace, taskVars, history
  <2>2. CASE Delete(q, d) \/ ResolveStaleness(q, d)
    <3>1. Close(q) /\ req[q].pc = "idle" /\ UNCHANGED <<taskVars, history>>
      BY <2>2 DEF Delete, ResolveStaleness
    <3> QED BY <3>1 DEF Close, NoReq, taskVars, history, TypeOK, RequestsOK
  <2> QED BY <2>1, <2>2
<1>2. ASSUME NEW e \in Docs, Parked(e)'
      PROVE  Parked(e)
  <2>1. CASE Upload(q, d)
    BY <1>1, <1>2, <2>1 DEF Upload, WriteRow, NewRow, Parked, Exists, TypeOK, RowsOK
  <2>2. CASE CommitReplace(q, d)
    <3>1. PICK old \in Docs :
            row' = [row EXCEPT ![old].isCurrent = FALSE,
                               ![d] = [NewRow(d) EXCEPT !.group = row[old].group,
                                                        !.version = row[old].version + 1]]
      BY <2>2 DEF CommitReplace, TypeOK, RequestsOK, Reqs
    <3>2. e # d
      BY <1>2, <3>1 DEF Parked, NewRow, TypeOK, RowsOK
    <3>3. row'[e].active = row[e].active /\ row'[e].type = row[e].type
      <4>1. row'[e] = IF e = old THEN [row[e] EXCEPT !.isCurrent = FALSE] ELSE row[e]
        BY <3>1, <3>2 DEF TypeOK, RowsOK
      <4> QED BY <4>1 DEF TypeOK, RowsOK, Rows
    <3>4. status'[e] = status[e]
      BY <2>2, <3>2 DEF CommitReplace, TypeOK, RowsOK
    <3> QED BY <1>1, <1>2, <3>3, <3>4 DEF Parked, Exists
  <2>3. CASE Delete(q, d)
    BY <1>1, <1>2, <2>3 DEF Delete, WriteRow, Parked, Exists, TypeOK, RowsOK, Rows
  <2>4. CASE ResolveStaleness(q, d)
    BY <1>1, <1>2, <2>4 DEF ResolveStaleness, Parked, Exists
  <2> QED BY <2>1, <2>2, <2>3, <2>4
<1> QED BY <1>1, <1>2, RequestProvides

LEMMA EnqueueKeepsPendingInv ==
  ASSUME TypeOK, TypeOK', PendingInv, NEW q \in Requests, NEW d \in Docs, NEW t \in Tasks,
         Enqueue(q, d, t)
  PROVE  PendingInv'
<1>1. /\ UNCHANGED <<status, row>>
      /\ orphaned' = orphaned \ {d} /\ dropped' = dropped \ {d}
      /\ pc[t] = "unused" /\ pc'[t] = "queued" /\ job'[t].doc = d
      /\ \A u \in Tasks \ {t} : pc'[u] = pc[u] /\ job'[u] = job[u]
  BY DEF Enqueue, Put, rowVars, TypeOK, TasksOK
<1>2. /\ \A p \in Requests \ {q} : req'[p] = req[p]
      /\ req'[q].pc = req[q].pc /\ req'[q].kind = req[q].kind /\ req'[q].seen = req[q].seen
      /\ req'[q].targets = req[q].targets \ {d} /\ req'[q].refused = req[q].refused
      /\ req[q].pc = "committed"
  BY DEF Enqueue, TypeOK, RequestsOK, Reqs
<1>3. \A e \in Docs \ {d} : humanType'[e] = humanType[e]
  BY DEF Enqueue, TypeOK, HistoryOK
<1>4. OverridesName'
  BY <1>2 DEF PendingInv, OverridesName
<1>5. Expected(d)'
  BY <1>1 DEF Expected, Busy
<1>6. ASSUME NEW e \in Docs \ {d}, Parked(e)'
      PROVE  Expected(e)'
  <2>1. Expected(e)
    BY <1>1, <1>3, <1>6 DEF Parked, Exists, PendingInv
  <2>2. CASE \E u \in Tasks : job[u].doc = e /\ pc[u] \in Busy
    <3>1. PICK u \in Tasks : job[u].doc = e /\ pc[u] \in Busy
      BY <2>2
    <3>2. u # t
      BY <1>1, <3>1 DEF Busy, Running, ClaimedPc
    <3> QED BY <1>1, <3>1, <3>2 DEF Expected
  <2>3. CASE \E p \in Requests :
               /\ req[p].pc = "committed" /\ req[p].kind = "reprocess"
               /\ e \in req[p].targets \cup req[p].refused
               /\ req[p].seen[e].status # "PENDING"
    BY <1>2, <1>6, <2>3 DEF Expected
  <2> QED BY <2>1, <2>2, <2>3 DEF Expected
<1> QED BY <1>4, <1>5, <1>6 DEF PendingInv

LEMMA RefusalKeepsPendingInv ==
  ASSUME TypeOK, TypeOK', PendingInv, NEW q \in Requests, NEW d \in Docs, EnqueueFails(q, d)
  PROVE  PendingInv'
<1>1. UNCHANGED <<pc, job, status, row, humanType, orphaned, dropped>>
  BY DEF EnqueueFails, rowVars, taskVars, history
<1>2. /\ \A p \in Requests \ {q} : req'[p] = req[p]
      /\ req[q].pc = "committed" /\ req'[q].pc = "committed"
      /\ req'[q].kind = req[q].kind /\ req'[q].seen = req[q].seen
      /\ req[q].kind = "reprocess" =>
           req'[q].targets \cup req'[q].refused = req[q].targets \cup req[q].refused
  BY DEF EnqueueFails, TypeOK, RequestsOK, Reqs
<1>3. \A e \in Docs : Parked(e)' => Parked(e)
  BY <1>1 DEF Parked, Exists
<1> QED BY <1>1, <1>2, <1>3, RequestProvides

(* A refused document is put back to what it was, or was PENDING before.   *)
LEMMA FinishKeepsPendingInv ==
  ASSUME TypeOK, TypeOK', PendingInv, NEW q \in Requests, Finish(q)
  PROVE  PendingInv'
<1> DEFINE S == req[q].refused
           seen == req[q].seen
<1>1. /\ UNCHANGED <<pc, job, humanType, orphaned, dropped>>
      /\ req[q].targets = {}
      /\ req'[q].pc = "done"
      /\ \A p \in Requests \ {q} : req'[p] = req[p]
  BY DEF Finish, Close, NoReq, taskVars, TypeOK, RequestsOK
<1>2. \A d \in Docs : row'[d].active = row[d].active /\ row'[d].type = row[d].type
  BY DEF Finish, TypeOK, RowsOK, Rows
<1>3. ASSUME NEW d \in Docs, Parked(d)'
      PROVE  Parked(d) /\ (d \in S => seen[d].status = "PENDING")
  <2>1. status'[d] = IF d \in S THEN Emit("PENDING", seen[d].status, status[d]) ELSE status[d]
    BY DEF Finish
  <2>2. status'[d] = "PENDING"
    BY <1>3 DEF Parked
  <2>3. d \in S => seen[d].status = "PENDING"
    BY <2>1, <2>2 DEF Emit
  <2>4. status[d] = "PENDING"
    BY <2>1, <2>2, <2>3 DEF Emit
  <2> QED BY <1>1, <1>2, <1>3, <2>3, <2>4 DEF Parked, Exists
<1> QED BY <1>1, <1>3, RequestProvides

LEMMA AbortKeepsPendingInv ==
  ASSUME TypeOK, TypeOK', PendingInv, NEW q \in Requests, Abort(q)
  PROVE  PendingInv'
<1>1. /\ UNCHANGED <<pc, job, status, row, dropped, humanType>>
      /\ orphaned' = orphaned \cup req[q].targets \cup req[q].refused
      /\ req'[q].pc = "done"
      /\ \A p \in Requests \ {q} : req'[p] = req[p]
  BY DEF Abort, Close, NoReq, rowVars, taskVars, TypeOK, RequestsOK
<1> QED BY <1>1, RequestProvides DEF Parked, Exists

LEMMA StepPendingInv ==
  ASSUME TypeOK, TypeOK', PendingInv, [Next]_vars
  PROVE  PendingInv'
<1>1. ASSUME NEW q \in Requests, Handle(q)
      PROVE  PendingInv'
  <2>1. CASE \/ AdmitBulk(q)
             \/ \E d \in Docs : AdmitReprocess(q, d) \/ AdmitReplace(q, d)
    BY <2>1, AdmitKeepsPendingInv DEF AdmitBulk, AdmitReprocess, AdmitReplace
  <2>2. CASE \E d \in Docs : AdmitOverride(q, d)
    BY <2>2, AdmitKeepsPendingInv, TypesAssumption DEF AdmitOverride, Types
  <2>3. CASE CommitReprocess(q) \/ CommitOverride(q) \/ Finish(q) \/ Abort(q)
    BY <2>3, CommitReprocessKeepsPendingInv, OverrideKeepsPendingInv, FinishKeepsPendingInv,
       AbortKeepsPendingInv
  <2>4. CASE \E d \in Docs : \/ Upload(q, d) \/ CommitReplace(q, d) \/ Delete(q, d)
                            \/ ResolveStaleness(q, d) \/ EnqueueFails(q, d)
                            \/ \E t \in Tasks : Enqueue(q, d, t)
    BY <2>4, RowsKeepPendingInv, RefusalKeepsPendingInv, EnqueueKeepsPendingInv
  <2> QED BY <1>1, <2>1, <2>2, <2>3, <2>4 DEF Handle
<1>2. CASE \E t \in Tasks : Progress(t) \/ Fault(t)
  BY <1>2, TaskTouches, TaskKeepsPendingInv
<1>3. CASE Tick \/ UNCHANGED vars
  <2>1. UNCHANGED <<pc, job, req, status, row, humanType, orphaned, dropped>>
    BY <1>3 DEF Tick, vars, rowVars, taskVars, history
  <2> QED BY <2>1 DEF PendingInv, OverridesName, Parked, Expected, Exists
<1> QED BY <1>1, <1>2, <1>3 DEF Next, Rest

(* A document once read is parked at PENDING only while a task or a        *)
(* request is coming for it, whatever the broker refuses, unless a process *)
(* died half way or a person's override stands.                            *)
THEOREM ParkedIsAwaited == Spec => []PendingIsAwaited
<1>1. Init => PendingInv
  BY DEF Init, PendingInv, OverridesName, Parked, Exists, NoReq
<1>2. TypeOK /\ TypeOK' /\ PendingInv /\ [Next]_vars => PendingInv'
  BY StepPendingInv
<1>3. PendingInv => PendingIsAwaited
  BY DEF PendingInv, PendingIsAwaited, Expected, Awaited, Busy
<1> QED BY <1>1, <1>2, <1>3, TypeCorrect, PTL DEF Spec

-----------------------------------------------------------------------------
(* Version groups.                                                         *)

(* A step after which nobody is current in a group who was not before.     *)
AddsNobody ==
  \A d \in Docs :
    /\ Exists(d)' /\ row'[d].isCurrent => Exists(d) /\ row[d].isCurrent
    /\ status'[d] # "ABSENT" => row'[d].group = row[d].group

(* A step that uploads nothing and removes nothing.                        *)
KeepsPresence == \A d \in Docs : (status'[d] = "ABSENT") <=> (status[d] = "ABSENT")

LEMMA NobodyForks ==
  ASSUME AddsNobody, NEW g, Forked(g)'
  PROVE  Forked(g)
BY DEF AddsNobody, Forked, CurrentInGroup, Exists

LEMMA TaskKeepsGroups ==
  ASSUME TypeOK, GroupInv, NEW t \in Tasks, Touches(t), pc[t] # "unused"
  PROVE  AddsNobody /\ KeepsPresence
<1>1. status[Doc(t)] # "ABSENT" /\ Doc(t) \in Docs
  BY DocOfTask DEF GroupInv, JobsExist, Doc
<1> QED BY <1>1 DEF Touches, AddsNobody, KeepsPresence, Exists, InFlight, Settled

(* What a request did to the rows of documents that are there.             *)
LEMMA RequestKeepsGroups ==
  ASSUME TypeOK, GroupInv, NEW q \in Requests, Handle(q),
         \A d \in Docs : ~Upload(q, d) /\ ~CommitReplace(q, d)
  PROVE  AddsNobody /\ KeepsPresence
<1> USE DEF rowVars
<1>1. CASE CommitReprocess(q) \/ Finish(q)
  <2>1. \A d \in Docs : /\ row'[d].active = row[d].active /\ row'[d].group = row[d].group
                        /\ row'[d].isCurrent = row[d].isCurrent
    BY <1>1 DEF CommitReprocess, Finish, TypeOK, RowsOK, Rows
  <2>2. CASE CommitReprocess(q)
    <3>1. \A d \in Docs : status'[d] # status[d] => d \in req[q].targets /\ status'[d] = "PENDING"
      BY <2>2 DEF CommitReprocess, Emit
    <3>2. KeepsPresence
      BY <3>1 DEF KeepsPresence, GroupInv, TargetsExist
    <3> QED BY <2>1, <3>2 DEF AddsNobody, KeepsPresence, Exists
  <2>3. CASE Finish(q)
    <3>1. \A d \in Docs : status'[d] # status[d] =>
            d \in req[q].refused /\ status'[d] = req[q].seen[d].status
      BY <2>3 DEF Finish, Emit
    <3>2. KeepsPresence
      BY <3>1 DEF KeepsPresence, GroupInv, TargetsExist
    <3> QED BY <2>1, <3>2 DEF AddsNobody, KeepsPresence, Exists
  <2> QED BY <1>1, <2>2, <2>3
<1>2. CASE CommitOverride(q)
  <2>1. PICK d \in req[q].targets :
          row' = [row EXCEPT
            ![d].type    = Emit(req[q].seen[d].type, req[q].type, @),
            ![d].certain = Emit(req[q].seen[d].certain, TRUE, @),
            ![d].error   = Emit(req[q].seen[d].error, "none", @)]
    BY <1>2 DEF CommitOverride
  <2>2. d \in Docs /\ row \in [Docs -> Rows]
    BY <2>1 DEF TypeOK, RequestsOK, Reqs, RowsOK
  <2>3. /\ row'[d].active = row[d].active /\ row'[d].group = row[d].group
        /\ row'[d].isCurrent = row[d].isCurrent
    BY <2>1, <2>2 DEF Rows
  <2>4. UNCHANGED status /\ \A e \in Docs \ {d} : row'[e] = row[e]
    BY <1>2, <2>1, <2>2 DEF CommitOverride
  <2> QED BY <2>3, <2>4 DEF AddsNobody, KeepsPresence, Exists
<1>3. CASE \E d \in Docs : Delete(q, d)
  <2>1. PICK d \in Docs : WriteRow(d, status[d], [row[d] EXCEPT !.active = FALSE])
    BY <1>3 DEF Delete
  <2>2. \A e \in Docs : status'[e] = status[e] /\ (e # d => row'[e] = row[e])
    BY <2>1 DEF WriteRow, TypeOK, RowsOK
  <2>3. row'[d].active = FALSE /\ row'[d].group = row[d].group
    BY <2>1 DEF WriteRow, TypeOK, RowsOK, Rows
  <2> QED BY <2>2, <2>3 DEF AddsNobody, KeepsPresence, Exists
<1>4. CASE \/ AdmitBulk(q) \/ Abort(q)
           \/ \E d \in Docs : \/ AdmitReprocess(q, d) \/ AdmitOverride(q, d) \/ AdmitReplace(q, d)
                              \/ ResolveStaleness(q, d) \/ EnqueueFails(q, d)
                              \/ \E t \in Tasks : Enqueue(q, d, t)
  <2>1. UNCHANGED <<status, row>>
    BY <1>4 DEF AdmitBulk, Abort, AdmitReprocess, AdmitOverride, AdmitReplace, Admit,
                ResolveStaleness, EnqueueFails, Enqueue
  <2> QED BY <2>1 DEF AddsNobody, KeepsPresence, Exists
<1> QED BY <1>1, <1>2, <1>3, <1>4 DEF Handle

(* An upload or a replace brings one document, in a group that exists or   *)
(* is its own.                                                             *)
LEMMA NewRowKeepsGroupsExist ==
  ASSUME TypeOK, GroupInv, NEW q \in Requests, NEW new \in Docs,
         Upload(q, new) \/ CommitReplace(q, new)
  PROVE  /\ GroupsExist'
         /\ \A d \in Docs : status[d] # "ABSENT" => status'[d] # "ABSENT"
         /\ status'[new] # "ABSENT"
<1>1. CASE Upload(q, new)
  BY <1>1 DEF Upload, WriteRow, NewRow, GroupInv, GroupsExist, TypeOK, RowsOK, Rows
<1>2. CASE CommitReplace(q, new)
  <2>1. PICK old \in req[q].targets :
          row' = [row EXCEPT ![old].isCurrent = FALSE,
                             ![new] = [NewRow(new) EXCEPT !.group = row[old].group,
                                                          !.version = row[old].version + 1]]
    BY <1>2 DEF CommitReplace
  <2>2. old \in Docs /\ status[old] # "ABSENT" /\ status[new] = "ABSENT"
    BY <1>2, <2>1 DEF CommitReplace, GroupInv, TargetsExist, TypeOK, RequestsOK, Reqs
  <2>3. /\ status'[new] = "PENDING"
        /\ \A d \in Docs \ {new} : status'[d] = status[d]
    BY <1>2 DEF CommitReplace, TypeOK, RowsOK
  <2>4. row'[new].group = row[old].group
    BY <2>1 DEF NewRow, TypeOK, RowsOK
  <2>5. \A d \in Docs \ {new} : row'[d].group = row[d].group
    <3> SUFFICES ASSUME NEW d \in Docs \ {new} PROVE row'[d].group = row[d].group
      OBVIOUS
    <3>1. row'[d] = IF d = old THEN [row[d] EXCEPT !.isCurrent = FALSE] ELSE row[d]
      BY <2>1 DEF TypeOK, RowsOK
    <3> QED BY <3>1 DEF TypeOK, RowsOK, Rows
  <2>6. \A d \in Docs : row[d].group \in Docs
    BY DEF TypeOK, RowsOK, Rows
  <2> QED BY <2>2, <2>3, <2>4, <2>5, <2>6 DEF GroupInv, GroupsExist
<1> QED BY <1>1, <1>2

LEMMA KeptGroupsExist ==
  ASSUME TypeOK, GroupsExist, AddsNobody, KeepsPresence
  PROVE  GroupsExist'
BY DEF GroupsExist, AddsNobody, KeepsPresence, TypeOK, RowsOK, Rows

(* The documents requests are about to write are there.                    *)
LEMMA RequestKeepsTargets ==
  ASSUME TypeOK, GroupInv, NEW q \in Requests, Handle(q),
         \A d \in Docs : status[d] # "ABSENT" => status'[d] # "ABSENT"
  PROVE  TargetsExist' /\ JobsExist'
<1> DEFINE Fine(r) == \A d \in r.targets \cup r.refused :
                        /\ status'[d] # "ABSENT"
                        /\ r.kind = "reprocess" \/ d \in r.refused => r.seen[d].status # "ABSENT"
<1>0. \A p \in Requests : req[p].targets \cup req[p].refused \subseteq Docs
  BY DEF TypeOK, RequestsOK, Reqs
<1>1. \A p \in Requests : Fine(req[p])
  BY <1>0 DEF GroupInv, TargetsExist
<1>2. \A p \in Requests \ {q} : req'[p] = req[p]
  BY DEF Handle, AdmitBulk, AdmitReprocess, AdmitOverride, AdmitReplace, Admit, CommitReprocess,
         CommitOverride, Finish, Abort, Close, Upload, CommitReplace, Delete, ResolveStaleness,
         EnqueueFails, Enqueue, TypeOK, RequestsOK
<1>3. Fine(req'[q]) /\ JobsExist'
  <2>1. CASE AdmitBulk(q) \/ \E d \in Docs : AdmitReprocess(q, d)
    <3>1. PICK S \in SUBSET Docs : Admit(q, "reprocess", S, None) /\ \A d \in S : Exists(d)
      <4>1. CASE AdmitBulk(q)
        BY <4>1 DEF AdmitBulk, BulkEligible
      <4>2. CASE \E d \in Docs : AdmitReprocess(q, d)
        <5>1. PICK d \in Docs : Admit(q, "reprocess", {d}, None) /\ Exists(d)
          BY <4>2 DEF AdmitReprocess
        <5> QED BY <5>1
      <4> QED BY <2>1, <4>1, <4>2
    <3>2. /\ req'[q].targets = S /\ req'[q].refused = {}
          /\ \A d \in S : req'[q].seen[d].status = status[d]
      BY <3>1 DEF Admit, Seen, Blank, TypeOK, RequestsOK
    <3>3. UNCHANGED <<status, pc, job>>
      BY <3>1 DEF Admit, rowVars, taskVars
    <3> QED BY <3>1, <3>2, <3>3 DEF Exists, GroupInv, JobsExist
  <2>2. CASE \E d \in Docs : AdmitOverride(q, d) \/ AdmitReplace(q, d)
    <3>1. PICK d \in Docs, kind \in {"override", "replace"},
                 type \in Types \cup {None} :
            Admit(q, kind, {d}, type) /\ Exists(d)
      BY <2>2 DEF AdmitOverride, AdmitReplace
    <3>2. req'[q].targets = {d} /\ req'[q].refused = {} /\ req'[q].kind = kind
      BY <3>1 DEF Admit, TypeOK, RequestsOK
    <3>3. UNCHANGED <<status, pc, job>>
      BY <3>1 DEF Admit, rowVars, taskVars
    <3> QED BY <3>1, <3>2, <3>3 DEF Exists, GroupInv, JobsExist
  <2>3. CASE CommitReprocess(q)
    <3>1. /\ req'[q].targets = req[q].targets /\ req'[q].refused = req[q].refused
          /\ req'[q].kind = req[q].kind /\ req'[q].seen = req[q].seen
          /\ UNCHANGED <<pc, job>>
      BY <2>3 DEF CommitReprocess, taskVars, TypeOK, RequestsOK, Reqs
    <3> QED BY <1>1, <3>1 DEF GroupInv, JobsExist, TypeOK, TasksOK
  <2>4. CASE CommitOverride(q)
    <3>1. /\ req'[q].targets = req[q].targets /\ req'[q].refused = {} /\ req'[q].kind = "override"
          /\ UNCHANGED <<pc, job>>
      BY <2>4 DEF CommitOverride, taskVars, NoReq, TypeOK, RequestsOK
    <3> QED BY <1>1, <3>1 DEF GroupInv, JobsExist, TypeOK, TasksOK
  <2>5. CASE \E d \in Docs : Upload(q, d) \/ CommitReplace(q, d)
    <3>1. PICK d \in Docs : Upload(q, d) \/ CommitReplace(q, d)
      BY <2>5
    <3>2. PICK kind \in {"upload", "replace"} :
            req' = [req EXCEPT ![q] = [NoReq EXCEPT !.pc = "committed", !.kind = kind,
                                                    !.targets = {d}]]
      BY <3>1 DEF Upload, CommitReplace
    <3>3. req'[q].targets = {d} /\ req'[q].refused = {} /\ req'[q].kind # "reprocess"
      BY <3>2 DEF NoReq, TypeOK, RequestsOK
    <3>4. UNCHANGED <<pc, job>>
      BY <3>1 DEF Upload, CommitReplace, taskVars
    <3> QED BY <3>1, <3>3, <3>4, NewRowKeepsGroupsExist DEF GroupInv, JobsExist, TypeOK, TasksOK
  <2>6. CASE Finish(q) \/ Abort(q) \/ \E d \in Docs : Delete(q, d) \/ ResolveStaleness(q, d)
    <3>1. req'[q].targets = {} /\ req'[q].refused = {} /\ UNCHANGED <<pc, job>>
      <4>1. Close(q) /\ UNCHANGED taskVars
        BY <2>6 DEF Finish, Abort, Delete, ResolveStaleness
      <4> QED BY <4>1 DEF Close, taskVars, NoReq, TypeOK, RequestsOK
    <3> QED BY <3>1 DEF GroupInv, JobsExist, TypeOK, TasksOK
  <2>7. CASE \E d \in Docs : EnqueueFails(q, d)
    <3>1. /\ req'[q].targets \cup req'[q].refused \subseteq req[q].targets \cup req[q].refused
          /\ req[q].kind # "reprocess" => req'[q].refused = req[q].refused
          /\ req'[q].kind = req[q].kind /\ req'[q].seen = req[q].seen
          /\ UNCHANGED <<pc, job>>
      BY <2>7 DEF EnqueueFails, taskVars, TypeOK, RequestsOK, Reqs
    <3> QED BY <1>1, <3>1 DEF GroupInv, JobsExist, TypeOK, TasksOK
  <2>8. CASE \E d \in Docs, t \in Tasks : Enqueue(q, d, t)
    <3>1. PICK d \in req[q].targets, t \in Tasks : Enqueue(q, d, t)
      BY <2>8 DEF Enqueue
    <3>2. /\ req'[q].targets \subseteq req[q].targets /\ req'[q].refused = req[q].refused
          /\ req'[q].kind = req[q].kind /\ req'[q].seen = req[q].seen
      BY <3>1 DEF Enqueue, TypeOK, RequestsOK, Reqs
    <3>3. job'[t].doc = d /\ \A u \in Tasks \ {t} : pc'[u] = pc[u] /\ job'[u] = job[u]
      BY <3>1 DEF Enqueue, Put, TypeOK, TasksOK
    <3> QED BY <1>1, <3>1, <3>2, <3>3 DEF GroupInv, JobsExist, TypeOK, TasksOK
  <2> QED BY <2>1, <2>2, <2>3, <2>4, <2>5, <2>6, <2>7, <2>8 DEF Handle
<1> QED BY <1>1, <1>2, <1>3 DEF TargetsExist

LEMMA StepGroupInv ==
  ASSUME TypeOK, GroupInv, [Next]_vars
  PROVE  GroupInv'
<1>1. ASSUME NEW q \in Requests, Handle(q)
      PROVE  GroupInv'
  <2>1. CASE \E d \in Docs : Upload(q, d) \/ CommitReplace(q, d)
    BY <1>1, <2>1, NewRowKeepsGroupsExist, RequestKeepsTargets DEF GroupInv
  <2>2. CASE \A d \in Docs : ~Upload(q, d) /\ ~CommitReplace(q, d)
    <3>1. AddsNobody /\ KeepsPresence
      BY <1>1, <2>2, RequestKeepsGroups
    <3>2. \A d \in Docs : status[d] # "ABSENT" => status'[d] # "ABSENT"
      BY <3>1 DEF KeepsPresence
    <3> QED BY <1>1, <3>1, <3>2, KeptGroupsExist, RequestKeepsTargets DEF GroupInv
  <2> QED BY <2>1, <2>2
<1>2. ASSUME NEW t \in Tasks, Progress(t) \/ Fault(t)
      PROVE  GroupInv'
  <2>1. Touches(t) /\ pc[t] # "unused"
    BY <1>2, TaskTouches
  <2>2. AddsNobody /\ KeepsPresence
    BY <2>1, TaskKeepsGroups
  <2>3. TargetsExist'
    BY <2>1, <2>2 DEF Touches, KeepsPresence, GroupInv, TargetsExist, TypeOK, RequestsOK, Reqs
  <2>4. JobsExist'
    BY <2>1, <2>2 DEF Touches, KeepsPresence, GroupInv, JobsExist, TypeOK, TasksOK
  <2> QED BY <2>2, <2>3, <2>4, KeptGroupsExist DEF GroupInv
<1>3. CASE Tick \/ UNCHANGED vars
  <2>1. UNCHANGED <<pc, job, req, status, row>>
    BY <1>3 DEF Tick, vars, rowVars, taskVars
  <2> QED BY <2>1 DEF GroupInv, GroupsExist, TargetsExist, JobsExist
<1> QED BY <1>1, <1>2, <1>3 DEF Next, Rest

(* A replace that finds its document as it was admitted takes its place.   *)
LEMMA FreshReplaceForksNothing ==
  ASSUME TypeOK, NEW q \in Requests, NEW new \in Docs, CommitReplace(q, new),
         \A d \in req[q].targets : Exists(d) /\ row[d].isCurrent,
         NEW g, Forked(g)'
  PROVE  Forked(g)
<1>1. PICK old \in Docs :
        /\ Exists(old) /\ row[old].isCurrent
        /\ row' = [row EXCEPT ![old].isCurrent = FALSE,
                              ![new] = [NewRow(new) EXCEPT !.group = row[old].group,
                                                           !.version = row[old].version + 1]]
  BY DEF CommitReplace, TypeOK, RequestsOK, Reqs
<1>2. old # new
  BY <1>1 DEF CommitReplace, Exists
<1>3. \A d \in Docs \ {old, new} : row'[d] = row[d] /\ status'[d] = status[d]
  BY <1>1 DEF CommitReplace, TypeOK, RowsOK
<1>4. ~row'[old].isCurrent /\ row'[new].group = row[old].group
  BY <1>1, <1>2 DEF NewRow, TypeOK, RowsOK, Rows
<1>5. CurrentInGroup(g)' \subseteq (CurrentInGroup(g) \ {old}) \cup {new}
  BY <1>3, <1>4 DEF CurrentInGroup, Exists
<1>6. new \in CurrentInGroup(g)' => old \in CurrentInGroup(g)
  BY <1>1, <1>4 DEF CurrentInGroup
<1>7. PICK d \in CurrentInGroup(g)', e \in CurrentInGroup(g)' : d # e
  BY DEF Forked
<1> QED BY <1>5, <1>6, <1>7 DEF Forked

LEMMA StepForks ==
  ASSUME TypeOK, GroupInv, [Next]_vars, NEW g \in Docs, ~Forked(g), Forked(g)'
  PROVE  \E q \in Requests : /\ req[q].pc = "admitted" /\ req[q].kind = "replace"
                             /\ \E d \in req[q].targets : ~(Exists(d) /\ row[d].isCurrent)
<1>1. ~AddsNobody
  BY NobodyForks
<1>2. ~(\E t \in Tasks : Progress(t) \/ Fault(t))
  BY <1>1, TaskTouches, TaskKeepsGroups
<1>3. ~(Tick \/ UNCHANGED vars)
  BY <1>1 DEF Tick, vars, rowVars, AddsNobody, Exists
<1>4. PICK q \in Requests : Handle(q)
  BY <1>2, <1>3 DEF Next, Rest
<1>5. PICK new \in Docs : Upload(q, new) \/ CommitReplace(q, new)
  BY <1>1, <1>4, RequestKeepsGroups
<1>6. CASE Upload(q, new)
  <2>1. /\ status[new] = "ABSENT" /\ row'[new].group = new
        /\ \A d \in Docs \ {new} : row'[d] = row[d] /\ status'[d] = status[d]
    BY <1>6 DEF Upload, WriteRow, NewRow, TypeOK, RowsOK
  <2>2. CurrentInGroup(new) = {}
    BY <2>1 DEF CurrentInGroup, Exists, GroupInv, GroupsExist
  <2>3. CurrentInGroup(g)' \subseteq IF g = new THEN {new} ELSE CurrentInGroup(g)
    BY <2>1, <2>2 DEF CurrentInGroup, Exists
  <2> QED BY <2>3 DEF Forked
<1>7. CASE CommitReplace(q, new)
  BY <1>7, FreshReplaceForksNothing DEF CommitReplace
<1> QED BY <1>5, <1>6, <1>7

(* A version group has two current documents only after a replace that     *)
(* committed on a document superseded or deleted since it was admitted.    *)
THEOREM ForksAreStaleReplaces == Spec => ForkNeedsStaleReplace
<1>1. Init => GroupInv
  BY DEF Init, GroupInv, GroupsExist, TargetsExist, JobsExist, NoReq, ProcessedRow, NewRow
<1>2. TypeOK /\ GroupInv /\ [Next]_vars => GroupInv'
  BY StepGroupInv
<1>3. TypeOK /\ GroupInv /\ [Next]_vars =>
        [\A g \in Docs :
           ~Forked(g) /\ Forked(g)'
             => \E q \in Requests :
                  /\ req[q].pc = "admitted" /\ req[q].kind = "replace"
                  /\ \E d \in req[q].targets : ~(Exists(d) /\ row[d].isCurrent)]_vars
  BY StepForks
<1> QED BY <1>1, <1>2, <1>3, TypeCorrect, PTL DEF Spec, ForkNeedsStaleReplace
=============================================================================
