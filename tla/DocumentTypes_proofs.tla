----------------------- MODULE DocumentTypes_proofs -----------------------
(***************************************************************************)
(* Type correctness of the document pipeline, for any number of documents, *)
(* tasks and requests and any time limits.  The claim proofs rest on it.   *)
(***************************************************************************)
EXTENDS DocumentPipeline, TLAPS

USE DEF Types, Statuses, InFlight, Settled, Errors, Results, Pcs, Running, ClaimedPc

-----------------------------------------------------------------------------
(* What the pieces of an action keep typed.                                *)

(* A task that was enqueued has a document, and the document has a row.    *)
LEMMA DocOfTask ==
  ASSUME TypeOK, NEW t \in Tasks, pc[t] # "unused"
  PROVE  /\ Doc(t) \in Docs
         /\ row[Doc(t)] \in Rows
         /\ status[Doc(t)] \in Statuses
         /\ ext[Doc(t)] \in Exts
BY DEF TypeOK, RowsOK, TasksOK, Doc

(* Writing one row, whatever is written, keeps the rows typed.             *)
LEMMA WriteRowTypes ==
  ASSUME RowsOK, NEW d \in Docs, NEW s \in Statuses, NEW r \in Rows, WriteRow(d, s, r)
  PROVE  status' \in [Docs -> Statuses] /\ age' \in [Docs -> Nat] /\ row' \in [Docs -> Rows]
BY DEF RowsOK, WriteRow

LEMMA SetError ==
  ASSUME NEW r \in Rows, NEW e \in Errors
  PROVE  [r EXCEPT !.error = e] \in Rows
BY DEF Rows

LEMMA SetFlags ==
  ASSUME NEW r \in Rows
  PROVE  [r EXCEPT !.active = FALSE] \in Rows /\ [r EXCEPT !.isCurrent = FALSE] \in Rows
BY DEF Rows

LEMMA SetVersion ==
  ASSUME NEW r \in Rows, NEW g \in Docs, NEW v \in Nat
  PROVE  [r EXCEPT !.group = g, !.version = v] \in Rows
BY DEF Rows

LEMMA SetLabel ==
  ASSUME NEW r \in Rows, NEW type \in Types \cup {None}, NEW certain \in BOOLEAN, NEW e \in Errors
  PROVE  [r EXCEPT !.type = type, !.certain = certain, !.error = e] \in Rows
BY DEF Rows

LEMMA NoMemTypes == NoMem \in Mems
BY DEF NoMem, Mems

(* A task that leaves, releases its claim or moves on stays typed.         *)
LEMMA LeaveTypes ==
  ASSUME TasksOK, NEW t \in Tasks, pc[t] # "unused", Leave(t)
  PROVE  TasksOK'
<1>1. mem' \in [Tasks -> Mems]
  BY NoMemTypes DEF TasksOK, Leave
<1>2. pc' \in [Tasks -> Pcs] /\ elapsed' \in [Tasks -> Nat] /\ owns' \in [Tasks -> BOOLEAN]
  BY DEF TasksOK, Leave, Goto
<1>3. job' = job /\ \A u \in Tasks : pc'[u] # "unused" => pc[u] # "unused"
  BY DEF TasksOK, Leave, Goto
<1> QED BY <1>1, <1>2, <1>3 DEF TasksOK

LEMMA ReleaseTypes ==
  ASSUME TasksOK, NEW t \in Tasks, pc[t] # "unused", NEW next \in Pcs, Release(t, next)
  PROVE  TasksOK'
<1>1. pc' \in [Tasks -> Pcs] /\ owns' \in [Tasks -> BOOLEAN]
  BY DEF TasksOK, Release, Goto
<1>2. /\ job' = job /\ mem' = mem /\ elapsed' = elapsed
      /\ \A u \in Tasks : pc'[u] # "unused" => pc[u] # "unused"
  BY DEF TasksOK, Release, Goto
<1> QED BY <1>1, <1>2 DEF TasksOK

LEMMA ContinueTypes ==
  ASSUME TasksOK, NEW t \in Tasks, pc[t] # "unused", NEW next \in Pcs, Continue(t, next),
         mem' \in [Tasks -> Mems]
  PROVE  TasksOK'
<1>1. pc' \in [Tasks -> Pcs]
  BY DEF TasksOK, Continue, Goto
<1>2. /\ job' = job /\ owns' = owns /\ elapsed' = elapsed
      /\ \A u \in Tasks : pc'[u] # "unused" => pc[u] # "unused"
  BY DEF TasksOK, Continue, Goto
<1> QED BY <1>1, <1>2 DEF TasksOK

(* Replacing what one session remembers.                                   *)
LEMMA SetMem ==
  ASSUME TasksOK, NEW t \in Tasks, NEW m \in Mems, mem' = [mem EXCEPT ![t] = m]
  PROVE  mem' \in [Tasks -> Mems]
BY DEF TasksOK

-----------------------------------------------------------------------------
(* The tasks.                                                              *)

LEMMA LoadTypes == ASSUME TypeOK, NEW t \in Tasks, Load(t) PROVE TypeOK'
<1>1. TasksOK'
  <2>1. CASE Exists(Doc(t))
    <3>1. [mem[t] EXCEPT !.type = row[Doc(t)].type, !.certain = row[Doc(t)].certain] \in Mems
      <4>1. Doc(t) \in Docs
        BY DocOfTask DEF Load, TypeOK
      <4>2. row[Doc(t)] \in Rows /\ mem[t] \in Mems
        BY <4>1 DEF TypeOK, RowsOK, TasksOK
      <4>3. row[Doc(t)].type \in Types \cup {None} /\ row[Doc(t)].certain \in BOOLEAN
        BY <4>2 DEF Rows
      <4> QED BY <4>2, <4>3 DEF Mems
    <3>2. mem' \in [Tasks -> Mems]
      BY <2>1, <3>1 DEF Load, TypeOK, TasksOK
    <3> QED BY <2>1, <3>2, ContinueTypes DEF Load, TypeOK, Continue
  <2>2. CASE ~Exists(Doc(t))
    BY <2>2, LeaveTypes DEF Load, TypeOK
  <2> QED BY <2>1, <2>2
<1> QED BY <1>1 DEF Load, TypeOK, RowsOK, RequestsOK, HistoryOK, rowVars, history

LEMMA ClaimTypes == ASSUME TypeOK, NEW t \in Tasks, Claim(t) PROVE TypeOK'
<1>1. Doc(t) \in Docs /\ row[Doc(t)] \in Rows
  BY DocOfTask DEF Claim
<1>2. RowsOK'
  BY <1>1, WriteRowTypes DEF Claim, TypeOK, RowsOK
<1>3. TasksOK'
  <2>1. CASE Claimable(Doc(t))
    BY <2>1 DEF Claim, Goto, TypeOK, TasksOK
  <2>2. CASE ~Claimable(Doc(t))
    BY <2>2, LeaveTypes DEF Claim, TypeOK
  <2> QED BY <2>1, <2>2
<1> QED BY <1>2, <1>3 DEF Claim, TypeOK, RequestsOK, HistoryOK, history

LEMMA ReadTypes == ASSUME TypeOK, NEW t \in Tasks, ReadAndSupersede(t) PROVE TypeOK'
<1>1. TasksOK'
  BY ContinueTypes DEF ReadAndSupersede, TypeOK, TasksOK
<1> QED BY <1>1 DEF ReadAndSupersede, TypeOK, RowsOK, RequestsOK, HistoryOK, history

LEMMA InfraFailureTypes ==
  ASSUME TypeOK, NEW t \in Tasks, ClassifyInfraFailure(t) PROVE TypeOK'
<1>1. Doc(t) \in Docs /\ row[Doc(t)] \in Rows
  BY DocOfTask DEF ClassifyInfraFailure
<1>2. PICK why \in Errors : WriteRow(Doc(t), "NEEDS_REVIEW", [row[Doc(t)] EXCEPT !.error = why])
  BY DEF ClassifyInfraFailure
<1>3. RowsOK'
  BY <1>1, <1>2, SetError, WriteRowTypes DEF ClassifyInfraFailure, TypeOK, RowsOK
<1>4. TasksOK'
  BY LeaveTypes DEF ClassifyInfraFailure, TypeOK
<1> QED BY <1>3, <1>4 DEF ClassifyInfraFailure, TypeOK, RequestsOK, HistoryOK, history

LEMMA ClassifyTypes == ASSUME TypeOK, NEW t \in Tasks, Classify(t) PROVE TypeOK'
<1> DEFINE d == Doc(t)
           labelled(type, certain) ==
             [row[d] EXCEPT !.type    = Emit(mem[t].type, type, @),
                            !.certain = Emit(mem[t].certain, certain, @)]
<1>1. d \in Docs /\ row[d] \in Rows
  BY DocOfTask DEF Classify
<1>2. PICK type \in Types, certain \in BOOLEAN, review \in BOOLEAN :
        /\ WriteRow(d, "CLASSIFIED", labelled(type, certain))
        /\ mem' = [mem EXCEPT ![t] = [NoMem EXCEPT !.type = type, !.review = review]]
        /\ Continue(t, IF ~review /\ HasExtractor(type) THEN "route" ELSE "tier3")
  BY DEF Classify
<1>3. labelled(type, certain) \in Rows
  BY <1>1 DEF Emit, Rows
<1>4. RowsOK'
  BY <1>1, <1>2, <1>3, WriteRowTypes DEF Classify, TypeOK, RowsOK
<1>5. mem' \in [Tasks -> Mems]
  BY <1>2, SetMem DEF TypeOK, NoMem, Mems
<1>6. TasksOK'
  BY <1>2, <1>5, ContinueTypes DEF Classify, TypeOK
<1> QED BY <1>4, <1>6 DEF Classify, TypeOK, RequestsOK, HistoryOK, history

LEMMA Tier3Types == ASSUME TypeOK, NEW t \in Tasks, Tier3(t) PROVE TypeOK'
<1>1. Doc(t) \in Docs /\ row[Doc(t)] \in Rows
  BY DocOfTask DEF Tier3
<1>2. findings' \in [Docs -> SUBSET Tasks]
  BY <1>1 DEF Tier3, TypeOK, RowsOK
<1>3. RowsOK'
  BY <1>1, <1>2, WriteRowTypes DEF Tier3, TypeOK, RowsOK
<1>4. TasksOK'
  BY LeaveTypes, ReleaseTypes DEF Tier3, TypeOK
<1> QED BY <1>3, <1>4 DEF Tier3, TypeOK, RequestsOK, HistoryOK, history

LEMMA StartTypes == ASSUME TypeOK, NEW t \in Tasks, StartExtraction(t) PROVE TypeOK'
<1>1. RowsOK'
  BY DocOfTask, WriteRowTypes DEF StartExtraction, TypeOK, RowsOK
<1>2. TasksOK'
  BY ContinueTypes DEF StartExtraction, TypeOK, TasksOK
<1> QED BY <1>1, <1>2 DEF StartExtraction, TypeOK, RequestsOK, HistoryOK, history

LEMMA RefreshTypes == ASSUME TypeOK, NEW t \in Tasks, Refresh(t) PROVE TypeOK'
<1> DEFINE d == Doc(t)
<1>1. d \in Docs /\ row[d] \in Rows
  BY DocOfTask DEF Refresh
<1>2. RowsOK'
  BY <1>1 DEF Refresh, TypeOK, RowsOK
<1>3. TasksOK'
  <2>1. CASE HasExtractor(row[d].type)
    <3>1. [NoMem EXCEPT !.type = row[d].type] \in Mems
      BY <1>1 DEF NoMem, Mems, Rows
    <3> QED BY <2>1, <3>1, SetMem, ContinueTypes DEF Refresh, TypeOK
  <2>2. CASE ~HasExtractor(row[d].type)
    BY <2>2, LeaveTypes DEF Refresh, TypeOK
  <2> QED BY <2>1, <2>2
<1> QED BY <1>2, <1>3 DEF Refresh, TypeOK, RequestsOK, HistoryOK, history

LEMMA ThrottledTypes == ASSUME TypeOK, NEW t \in Tasks, ExtractThrottled(t) PROVE TypeOK'
<1>1. RowsOK'
  BY DocOfTask, SetError, WriteRowTypes DEF ExtractThrottled, TypeOK, RowsOK
<1>2. TasksOK'
  BY LeaveTypes DEF ExtractThrottled, TypeOK
<1> QED BY <1>1, <1>2 DEF ExtractThrottled, TypeOK, RequestsOK, HistoryOK, history

LEMMA SelectTypes == ASSUME TypeOK, NEW t \in Tasks, SelectCurrent(t) PROVE TypeOK'
<1>1. PICK result \in Results, v \in Nat : mem' = [mem EXCEPT ![t].saw = v, ![t].result = result]
  BY DocOfTask DEF SelectCurrent, Exts
<1>2. mem[t] \in Mems
  BY DEF TypeOK, TasksOK
<1>3. [mem[t] EXCEPT !.saw = v, !.result = result] \in Mems
  BY <1>2 DEF Mems
<1>4. mem' = [mem EXCEPT ![t] = [mem[t] EXCEPT !.saw = v, !.result = result]]
  BY <1>1 DEF TypeOK, TasksOK
<1>5. mem' \in [Tasks -> Mems]
  BY <1>3, <1>4, SetMem DEF TypeOK
<1>6. TasksOK'
  BY <1>5, ContinueTypes DEF SelectCurrent, TypeOK
<1> QED BY <1>6 DEF SelectCurrent, TypeOK, RowsOK, RequestsOK, HistoryOK, rowVars, history

LEMMA InsertTypes == ASSUME TypeOK, NEW t \in Tasks, InsertVersion(t) PROVE TypeOK'
<1>1. ext[Doc(t)].latest + 1 \in Nat
  BY DocOfTask DEF InsertVersion, Exts
<1>2. [mem[t] EXCEPT !.number = ext[Doc(t)].latest + 1] \in Mems
  BY <1>1 DEF TypeOK, TasksOK, Mems
<1>3. mem' \in [Tasks -> Mems]
  BY <1>2 DEF InsertVersion, TypeOK, TasksOK
<1>4. TasksOK'
  BY <1>3, ContinueTypes DEF InsertVersion, TypeOK
<1> QED BY <1>4 DEF InsertVersion, TypeOK, RowsOK, RequestsOK, HistoryOK, rowVars, history

LEMMA StoreTypes ==
  ASSUME TypeOK, NEW t \in Tasks, Doc(t) \in Docs, StoreVersion(t)
  PROVE  ext' \in [Docs -> Exts]
<1>1. ext[Doc(t)] \in Exts /\ mem[t] \in Mems
  BY DEF TypeOK, RowsOK, TasksOK
<1> QED BY <1>1 DEF StoreVersion, TypeOK, RowsOK, Exts, Mems

LEMMA FinishTypes == ASSUME TypeOK, NEW t \in Tasks, FinishExtraction(t) PROVE TypeOK'
<1> DEFINE d == Doc(t)
<1>1. d \in Docs /\ row[d] \in Rows /\ ext[d] \in Exts /\ mem[t] \in Mems
  BY DocOfTask DEF FinishExtraction, TypeOK, TasksOK
<1>2. ext' \in [Docs -> Exts]
  BY <1>1, StoreTypes DEF FinishExtraction
<1>3. findings' \in [Docs -> SUBSET Tasks]
  BY <1>1 DEF FinishExtraction, TypeOK, RowsOK
<1>4. RowsOK'
  BY <1>1, <1>2, <1>3, SetError, WriteRowTypes DEF FinishExtraction, TypeOK, RowsOK
<1>5. TasksOK'
  BY LeaveTypes, ReleaseTypes DEF FinishExtraction, TypeOK
<1> QED BY <1>4, <1>5 DEF FinishExtraction, TypeOK, RequestsOK, HistoryOK, history

LEMMA FailHalfDoneTypes == ASSUME TypeOK, NEW t \in Tasks, FailHalfDone(t) PROVE TypeOK'
<1>1. Doc(t) \in Docs
  BY DocOfTask DEF FailHalfDone, TypeOK
<1>2. ext' \in [Docs -> Exts]
  BY <1>1, StoreTypes DEF FailHalfDone, TypeOK, RowsOK
<1>3. findings' \in [Docs -> SUBSET Tasks]
  BY <1>1 DEF FailHalfDone, TypeOK, RowsOK
<1>4. row[Doc(t)] \in Rows
  BY <1>1 DEF TypeOK, RowsOK
<1>5. RowsOK'
  BY <1>1, <1>2, <1>3, <1>4, SetError, WriteRowTypes DEF FailHalfDone, TypeOK, RowsOK
<1>6. TasksOK'
  BY LeaveTypes DEF FailHalfDone, TypeOK
<1> QED BY <1>5, <1>6 DEF FailHalfDone, TypeOK, RequestsOK, HistoryOK, history

LEMMA NeedsTypes == ASSUME TypeOK, NEW t \in Tasks, EnqueueNeeds(t) PROVE TypeOK'
<1>1. TasksOK'
  BY LeaveTypes DEF EnqueueNeeds, TypeOK
<1>2. HistoryOK'
  BY DocOfTask DEF EnqueueNeeds, TypeOK, HistoryOK, history
<1> QED BY <1>1, <1>2 DEF EnqueueNeeds, TypeOK, RowsOK, RequestsOK, rowVars

LEMMA MarkFailedTypes == ASSUME TypeOK, NEW t \in Tasks, MarkFailed(t) PROVE TypeOK'
<1>1. RowsOK'
  BY DocOfTask, SetError, WriteRowTypes DEF MarkFailed, TypeOK, RowsOK
<1>2. TasksOK'
  BY LeaveTypes DEF MarkFailed, TypeOK
<1>3. HistoryOK'
  BY DocOfTask DEF MarkFailed, TypeOK, HistoryOK
<1> QED BY <1>1, <1>2, <1>3 DEF MarkFailed, TypeOK, RequestsOK

LEMMA MarkExhaustedTypes == ASSUME TypeOK, NEW t \in Tasks, MarkExhausted(t) PROVE TypeOK'
<1>1. RowsOK'
  BY DocOfTask, SetError, WriteRowTypes DEF MarkExhausted, TypeOK, RowsOK
<1>2. TasksOK'
  BY LeaveTypes DEF MarkExhausted, TypeOK
<1>3. HistoryOK'
  BY DocOfTask DEF MarkExhausted, Trespass, TypeOK, HistoryOK
<1> QED BY <1>1, <1>2, <1>3 DEF MarkExhausted, TypeOK, RequestsOK

(* The faults that touch nothing but the tasks.                            *)
LEMMA TaskFaultTypes ==
  ASSUME TypeOK, NEW t \in Tasks, PipelineError(t) \/ TransientError(t) \/ SoftTimeLimit(t)
  PROVE  TypeOK'
<1>1. TasksOK'
  <2>1. CASE PipelineError(t)
    BY <2>1, NoMemTypes, SetMem, ContinueTypes DEF PipelineError, TypeOK
  <2>2. CASE SoftTimeLimit(t)
    BY <2>2, NoMemTypes, SetMem, ContinueTypes DEF SoftTimeLimit, TypeOK
  <2>3. CASE TransientError(t)
    <3>1. mem' \in [Tasks -> Mems] /\ pc[t] # "unused"
      BY <2>3, NoMemTypes, SetMem DEF TransientError, OutsideTry, TypeOK
    <3>2. job' = [job EXCEPT ![t].retries = @ + 1]
      BY <2>3 DEF TransientError
    <3>3. job' \in [Tasks -> Jobs] /\ \A u \in Tasks : job'[u].doc = job[u].doc
      BY <3>2 DEF TypeOK, TasksOK, Jobs
    <3>4. /\ pc' \in [Tasks -> Pcs]
          /\ elapsed' \in [Tasks -> Nat]
          /\ owns' \in [Tasks -> BOOLEAN]
          /\ \A u \in Tasks : pc'[u] # "unused" => pc[u] # "unused"
      <4>1. /\ pc' = [pc EXCEPT ![t] = "queued"]
            /\ elapsed' = [elapsed EXCEPT ![t] = 0]
            /\ owns' = [owns EXCEPT ![t] = FALSE]
        BY <2>3 DEF TransientError, Goto
      <4> QED BY <3>1, <4>1 DEF TypeOK, TasksOK
    <3> QED BY <3>1, <3>3, <3>4 DEF TypeOK, TasksOK
  <2> QED BY <2>1, <2>2, <2>3
<1>2. UNCHANGED <<rowVars, req, needsDue, history>>
  BY DEF PipelineError, TransientError, SoftTimeLimit
<1> QED BY <1>1, <1>2 DEF TypeOK, RowsOK, RequestsOK, HistoryOK, rowVars, history

LEMMA KillTypes == ASSUME TypeOK, NEW t \in Tasks, GiveUp(t) \/ Kill(t) PROVE TypeOK'
<1>1. TasksOK'
  BY LeaveTypes DEF GiveUp, OutsideTry, Kill, TypeOK
<1>2. HistoryOK'
  BY DocOfTask DEF GiveUp, OutsideTry, Kill, TypeOK, HistoryOK
<1> QED BY <1>1, <1>2 DEF GiveUp, Kill, TypeOK, RowsOK, RequestsOK, rowVars

LEMMA TickTypes == ASSUME TypeOK, Tick PROVE TypeOK'
<1>1. age' \in [Docs -> Nat] /\ elapsed' \in [Tasks -> Nat]
  BY DEF Tick, TypeOK, RowsOK, TasksOK
<1> QED BY <1>1 DEF Tick, TypeOK, RowsOK, TasksOK, RequestsOK, HistoryOK, history

LEMMA WorkerTypes ==
  ASSUME TypeOK, NEW t \in Tasks, Progress(t) \/ Fault(t) PROVE TypeOK'
BY LoadTypes, ClaimTypes, ReadTypes, InfraFailureTypes, ClassifyTypes, Tier3Types, StartTypes,
   RefreshTypes, ThrottledTypes, SelectTypes, InsertTypes, FinishTypes, FailHalfDoneTypes, NeedsTypes,
   MarkFailedTypes, MarkExhaustedTypes, TaskFaultTypes, KillTypes
   DEF Progress, Fault

-----------------------------------------------------------------------------
(* The requests.                                                           *)

USE DEF ReqPcs, ReqKinds

LEMMA BlankTypes == NoReq \in Reqs /\ Blank \in Seens
BY DEF NoReq, Reqs, Blank, Seens

LEMMA SeenTypes ==
  ASSUME RowsOK, NEW S \in SUBSET Docs, NEW kind
  PROVE  Seen(S, kind) \in [Docs -> Seens]
BY BlankTypes DEF Seen, RowsOK, Rows, Seens, Blank

LEMMA AdmitTypes ==
  ASSUME TypeOK, NEW q \in Requests, NEW kind \in ReqKinds, NEW S \in SUBSET Docs,
         NEW type \in Types \cup {None}, Admit(q, kind, S, type)
  PROVE  TypeOK'
<1>1. Seen(S, kind) \in [Docs -> Seens]
  BY SeenTypes DEF TypeOK
<1>2. RequestsOK'
  BY <1>1 DEF Admit, TypeOK, RequestsOK, Reqs
<1> QED BY <1>2 DEF Admit, TypeOK, RowsOK, TasksOK, HistoryOK, rowVars, taskVars, history

LEMMA CloseTypes ==
  ASSUME RequestsOK, NEW q \in Requests, Close(q) PROVE RequestsOK'
BY BlankTypes DEF Close, RequestsOK, Reqs

LEMMA CommitReprocessTypes ==
  ASSUME TypeOK, NEW q \in Requests, CommitReprocess(q) PROVE TypeOK'
<1>1. req[q] \in Reqs
  BY DEF TypeOK, RequestsOK
<1>2. status' \in [Docs -> Statuses] /\ age' \in [Docs -> Nat]
  BY <1>1 DEF CommitReprocess, TypeOK, RowsOK, Emit, Reqs, Seens
<1>3. row' \in [Docs -> Rows]
  <2>1. \A d \in Docs : row[d] \in Rows /\ Emit(req[q].seen[d].error, "none", row[d].error) \in Errors
    BY <1>1 DEF TypeOK, RowsOK, Emit, Rows
  <2>2. \A d \in Docs :
          [row[d] EXCEPT !.error = Emit(req[q].seen[d].error, "none", row[d].error)] \in Rows
    BY <2>1, SetError
  <2> QED BY <2>1, <2>2 DEF CommitReprocess
<1>4. RequestsOK'
  BY <1>1 DEF CommitReprocess, TypeOK, RequestsOK, Reqs
<1>5. HistoryOK'
  BY <1>1 DEF CommitReprocess, TypeOK, HistoryOK, Trespass, Reqs
<1> QED BY <1>2, <1>3, <1>4, <1>5 DEF CommitReprocess, TypeOK, RowsOK, TasksOK, taskVars

LEMMA CommitOverrideTypes ==
  ASSUME TypeOK, NEW q \in Requests, CommitOverride(q) PROVE TypeOK'
<1>1. req[q] \in Reqs
  BY DEF TypeOK, RequestsOK
<1>2. PICK d \in Docs :
        LET seen == req[q].seen[d] IN
        /\ row' = [row EXCEPT
             ![d].type    = Emit(seen.type, req[q].type, @),
             ![d].certain = Emit(seen.certain, TRUE, @),
             ![d].error   = Emit(seen.error, "none", @)]
        /\ age' = [age EXCEPT ![d] =
             IF seen.type = req[q].type /\ seen.certain /\ seen.error = "none" THEN @ ELSE 0]
        /\ humanType' = [humanType EXCEPT ![d] = IF seen.type = req[q].type THEN @ ELSE req[q].type]
  BY <1>1 DEF CommitOverride, Reqs
<1>3. row' \in [Docs -> Rows]
  <2> DEFINE seen == req[q].seen[d]
             type == Emit(seen.type, req[q].type, row[d].type)
             certain == Emit(seen.certain, TRUE, row[d].certain)
             error == Emit(seen.error, "none", row[d].error)
  <2>1. row[d] \in Rows
    BY DEF TypeOK, RowsOK
  <2>2. type \in Types \cup {None} /\ certain \in BOOLEAN /\ error \in Errors
    BY <1>1, <2>1 DEF Emit, Reqs, Rows
  <2>3. [row[d] EXCEPT !.type = type, !.certain = certain, !.error = error] \in Rows
    BY <2>1, <2>2, SetLabel
  <2>4. row' = [row EXCEPT ![d] = [row[d] EXCEPT !.type = type, !.certain = certain, !.error = error]]
    BY <1>2, <2>1 DEF TypeOK, RowsOK, Rows
  <2> HIDE DEF type, certain, error
  <2> QED BY <2>3, <2>4 DEF TypeOK, RowsOK
<1>4. age' \in [Docs -> Nat] /\ HistoryOK'
  BY <1>1, <1>2 DEF CommitOverride, TypeOK, RowsOK, HistoryOK, Reqs
<1>5. RequestsOK'
  BY <1>1, BlankTypes DEF CommitOverride, TypeOK, RequestsOK, NoReq, Reqs
<1> QED BY <1>3, <1>4, <1>5 DEF CommitOverride, TypeOK, RowsOK, TasksOK, taskVars

LEMMA NewRowTypes == ASSUME NEW d \in Docs PROVE NewRow(d) \in Rows
BY DEF NewRow, Rows

LEMMA UploadTypes ==
  ASSUME TypeOK, NEW q \in Requests, NEW d \in Docs, Upload(q, d) PROVE TypeOK'
<1>1. RowsOK'
  BY NewRowTypes, WriteRowTypes DEF Upload, TypeOK, RowsOK
<1>2. RequestsOK'
  BY BlankTypes DEF Upload, TypeOK, RequestsOK, NoReq, Reqs
<1> QED BY <1>1, <1>2 DEF Upload, TypeOK, TasksOK, HistoryOK, taskVars, history

LEMMA CommitReplaceTypes ==
  ASSUME TypeOK, NEW q \in Requests, NEW new \in Docs, CommitReplace(q, new) PROVE TypeOK'
<1>1. req[q] \in Reqs
  BY DEF TypeOK, RequestsOK
<1>2. PICK old \in Docs :
        /\ row' = [row EXCEPT ![old].isCurrent = FALSE,
                              ![new] = [NewRow(new) EXCEPT !.group = row[old].group,
                                                           !.version = row[old].version + 1]]
        /\ age' = [age EXCEPT ![old] = 0, ![new] = 0]
  BY <1>1 DEF CommitReplace, Reqs
<1>3. /\ [row[old] EXCEPT !.isCurrent = FALSE] \in Rows
      /\ [NewRow(new) EXCEPT !.group = row[old].group, !.version = row[old].version + 1] \in Rows
  <2>1. row[old] \in Rows
    BY DEF TypeOK, RowsOK
  <2>2. row[old].group \in Docs /\ row[old].version + 1 \in Nat
    BY <2>1 DEF Rows
  <2> QED BY <2>1, <2>2, NewRowTypes, SetFlags, SetVersion
<1>4. row' \in [Docs -> Rows] /\ age' \in [Docs -> Nat]
  BY <1>2, <1>3 DEF TypeOK, RowsOK
<1>5. status' \in [Docs -> Statuses]
  BY DEF CommitReplace, TypeOK, RowsOK
<1>6. RequestsOK'
  BY BlankTypes DEF CommitReplace, TypeOK, RequestsOK, NoReq, Reqs
<1> QED BY <1>4, <1>5, <1>6 DEF CommitReplace, TypeOK, RowsOK, TasksOK, HistoryOK, taskVars, history

LEMMA DeleteTypes ==
  ASSUME TypeOK, NEW q \in Requests, NEW d \in Docs, Delete(q, d) \/ ResolveStaleness(q, d)
  PROVE  TypeOK'
<1>1. status[d] \in Statuses /\ row[d] \in Rows /\ [row[d] EXCEPT !.active = FALSE] \in Rows
  BY SetFlags DEF TypeOK, RowsOK
<1>2. RowsOK'
  BY <1>1, WriteRowTypes DEF Delete, ResolveStaleness, TypeOK, RowsOK
<1>3. RequestsOK'
  BY CloseTypes DEF Delete, ResolveStaleness, TypeOK
<1> QED BY <1>2, <1>3 DEF Delete, ResolveStaleness, TypeOK, TasksOK, HistoryOK, taskVars, history

LEMMA EnqueueTypes ==
  ASSUME TypeOK, NEW q \in Requests, NEW d \in Docs, NEW t \in Tasks, Enqueue(q, d, t)
  PROVE  TypeOK'
<1>1. req[q] \in Reqs
  BY DEF TypeOK, RequestsOK
<1>2. PICK kind \in {"process", "reprocess"} : Put(t, d, kind)
  BY DEF Enqueue
<1>3. job' \in [Tasks -> Jobs]
  BY <1>2 DEF Put, TypeOK, TasksOK, Jobs
<1>4. /\ pc' \in [Tasks -> Pcs]
      /\ \A u \in Tasks : pc'[u] # "unused" => job'[u].doc \in Docs
  BY <1>2 DEF Put, TypeOK, TasksOK
<1>5. TasksOK'
  BY <1>2, <1>3, <1>4 DEF Put, TypeOK, TasksOK
<1>6. RequestsOK'
  BY <1>1 DEF Enqueue, TypeOK, RequestsOK, Reqs
<1>7. HistoryOK'
  BY DEF Enqueue, TypeOK, HistoryOK
<1> QED BY <1>5, <1>6, <1>7 DEF Enqueue, TypeOK, RowsOK, rowVars

LEMMA EnqueueFailsTypes ==
  ASSUME TypeOK, NEW q \in Requests, NEW d \in Docs, EnqueueFails(q, d) PROVE TypeOK'
<1>1. req[q] \in Reqs
  BY DEF TypeOK, RequestsOK
<1> DEFINE rest   == req[q].targets \ {d}
           noted  == IF req[q].kind = "reprocess" THEN req[q].refused \cup {d}
                                                  ELSE req[q].refused
<1>2. rest \in SUBSET Docs /\ noted \in SUBSET Docs
  BY <1>1 DEF Reqs
<1>3. [req[q] EXCEPT !.targets = rest, !.refused = noted] \in Reqs
  BY <1>1, <1>2 DEF Reqs
<1>4. req' = [req EXCEPT ![q] = [req[q] EXCEPT !.targets = rest, !.refused = noted]]
  BY DEF EnqueueFails, TypeOK, RequestsOK
<1>5. RequestsOK'
  BY <1>3, <1>4 DEF TypeOK, RequestsOK
<1> QED BY <1>5 DEF EnqueueFails, TypeOK, RowsOK, TasksOK, HistoryOK, rowVars, taskVars, history

LEMMA RequestEndTypes ==
  ASSUME TypeOK, NEW q \in Requests, Finish(q) PROVE TypeOK'
<1>1. req[q] \in Reqs
  BY DEF TypeOK, RequestsOK
<1>2. status' \in [Docs -> Statuses] /\ age' \in [Docs -> Nat]
  BY <1>1 DEF Finish, TypeOK, RowsOK, Emit, Reqs, Seens
<1>3. row' \in [Docs -> Rows]
  <2>1. \A d \in Docs : row[d] \in Rows /\ Emit("none", req[q].seen[d].error, row[d].error) \in Errors
    BY <1>1 DEF TypeOK, RowsOK, Emit, Reqs, Seens, Rows
  <2>2. \A d \in Docs :
          [row[d] EXCEPT !.error = Emit("none", req[q].seen[d].error, row[d].error)] \in Rows
    BY <2>1, SetError
  <2> QED BY <2>1, <2>2 DEF Finish
<1>4. RequestsOK'
  BY CloseTypes DEF Finish, TypeOK
<1>5. HistoryOK'
  BY <1>1 DEF Finish, TypeOK, HistoryOK, Trespass, Reqs
<1> QED BY <1>2, <1>3, <1>4, <1>5 DEF Finish, TypeOK, RowsOK, TasksOK, taskVars

LEMMA AbortTypes == ASSUME TypeOK, NEW q \in Requests, Abort(q) PROVE TypeOK'
<1>1. req[q] \in Reqs
  BY DEF TypeOK, RequestsOK
<1>2. RequestsOK'
  BY CloseTypes DEF Abort, TypeOK
<1>3. HistoryOK'
  BY <1>1 DEF Abort, TypeOK, HistoryOK, Reqs
<1> QED BY <1>2, <1>3 DEF Abort, TypeOK, RowsOK, TasksOK, rowVars, taskVars

LEMMA ApiTypes == ASSUME TypeOK, NEW q \in Requests, Handle(q) PROVE TypeOK'
<1>1. CASE AdmitBulk(q)
  BY <1>1, AdmitTypes DEF AdmitBulk
<1>2. CASE \E d \in Docs : AdmitReprocess(q, d) \/ AdmitOverride(q, d) \/ AdmitReplace(q, d)
  BY <1>2, AdmitTypes DEF AdmitReprocess, AdmitOverride, AdmitReplace
<1>3. CASE CommitReprocess(q) \/ CommitOverride(q) \/ Finish(q) \/ Abort(q)
  BY <1>3, CommitReprocessTypes, CommitOverrideTypes, RequestEndTypes, AbortTypes
<1>4. CASE \E d \in Docs : \/ Upload(q, d) \/ CommitReplace(q, d) \/ Delete(q, d)
                           \/ ResolveStaleness(q, d) \/ EnqueueFails(q, d)
                           \/ \E t \in Tasks : Enqueue(q, d, t)
  BY <1>4, UploadTypes, CommitReplaceTypes, DeleteTypes, EnqueueFailsTypes, EnqueueTypes
<1> QED BY <1>1, <1>2, <1>3, <1>4 DEF Handle

-----------------------------------------------------------------------------

LEMMA InitTypes == Init => TypeOK
<1> SUFFICES ASSUME Init PROVE TypeOK
  OBVIOUS
<1>1. PICK type \in [Processed -> Types] :
        /\ row = [d \in Docs |-> IF d \in Processed THEN ProcessedRow(d, type[d]) ELSE NewRow(d)]
        /\ ext = [d \in Docs |-> IF d \in Processed THEN ProcessedExt(type[d]) ELSE NoExtraction]
  BY DEF Init
<1>2. row \in [Docs -> Rows]
  BY <1>1 DEF ProcessedRow, NewRow, Rows
<1>3. ext \in [Docs -> Exts]
  BY <1>1 DEF ProcessedExt, NoExtraction, Exts
<1>4. TasksOK
  BY NoMemTypes DEF Init, TasksOK, NoJob, Jobs
<1>5. RequestsOK
  BY BlankTypes DEF Init, RequestsOK
<1> QED BY <1>2, <1>3, <1>4, <1>5 DEF Init, TypeOK, RowsOK, HistoryOK

LEMMA StepTypes == TypeOK /\ [Next]_vars => TypeOK'
<1> SUFFICES ASSUME TypeOK, [Next]_vars PROVE TypeOK'
  OBVIOUS
<1>1. CASE UNCHANGED vars
  BY <1>1 DEF vars, rowVars, taskVars, history, TypeOK, RowsOK, TasksOK, RequestsOK, HistoryOK
<1> QED BY <1>1, ApiTypes, WorkerTypes, TickTypes DEF Next, Rest

(* The columns, tasks and requests keep the values the schema and the      *)
(* enumerations allow, and a task that was enqueued always names a document. *)
THEOREM TypeCorrect == Spec => []TypeOK
BY InitTypes, StepTypes, PTL DEF Spec
============================================================================
