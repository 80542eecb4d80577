------------------------ MODULE DocumentLog_proofs ------------------------
(***************************************************************************)
(* However runs interleave, the extractions of a document are the log of   *)
(* ExtractionLog, and a run loses the race for the unique current row only *)
(* on a document whose status was overwritten blindly.                     *)
(***************************************************************************)
EXTENDS DocumentClaim_proofs

-----------------------------------------------------------------------------
(* What a step of one task can do to the extractions and to the others.    *)

(* A task's version is committed.                                          *)
Publishes(t) == pc[t] = "commit" /\ StoreVersion(t)

LEMMA TaskStep ==
  ASSUME TypeOK, NEW t \in Tasks, Progress(t) \/ Fault(t)
  PROVE  /\ \A u \in Tasks \ {t} : pc'[u] = pc[u] /\ mem'[u] = mem[u]
         /\ \A u \in Tasks : job'[u].doc = job[u].doc
         /\ trespassed \subseteq trespassed'
         /\ pc'[t] = "insert" => SelectCurrent(t)
         /\ pc'[t] \in {"commit", "conflict"} => InsertVersion(t)
         /\ ext' = ext \/ Publishes(t)
<1> USE DEF TypeOK, TasksOK, Goto, Leave, Release, Continue, rowVars, history
<1>1. CASE \/ Load(t) \/ Claim(t) \/ ReadAndSupersede(t) \/ Refresh(t) \/ ClassifyInfraFailure(t)
           \/ Tier3(t) \/ StartExtraction(t) \/ ExtractThrottled(t) \/ EnqueueNeeds(t)
  BY <1>1 DEF Load, Claim, ReadAndSupersede, Refresh, ClassifyInfraFailure, Tier3,
              StartExtraction, ExtractThrottled, EnqueueNeeds
<1>2. CASE Classify(t)
  <2>1. /\ UNCHANGED <<ext, job, trespassed>>
        /\ \E m : mem' = [mem EXCEPT ![t] = m]
        /\ pc' = [pc EXCEPT ![t] = "route"] \/ pc' = [pc EXCEPT ![t] = "tier3"]
    BY <1>2 DEF Classify
  <2> QED BY <2>1
<1>3. CASE SelectCurrent(t)
  <2>1. \E m : mem' = [mem EXCEPT ![t] = m]
    BY <1>3 DEF SelectCurrent
  <2> QED BY <1>3, <2>1 DEF SelectCurrent
<1>4. CASE InsertVersion(t)
  BY <1>4 DEF InsertVersion
<1>5. CASE FinishExtraction(t)
  <2>1. /\ UNCHANGED <<job, trespassed>>
        /\ \E m : mem' = [mem EXCEPT ![t] = m]
        /\ pc' = [pc EXCEPT ![t] = "needs"] \/ pc' = [pc EXCEPT ![t] = "ended"]
    BY <1>5 DEF FinishExtraction
  <2> QED BY <1>5, <2>1 DEF FinishExtraction, Publishes
<1>6. CASE MarkFailed(t) \/ MarkExhausted(t)
  BY <1>6 DEF MarkFailed, MarkExhausted, Trespass
<1>7. CASE PipelineError(t) \/ TransientError(t) \/ GiveUp(t) \/ SoftTimeLimit(t) \/ Kill(t)
  <2>1. CASE PipelineError(t) \/ GiveUp(t) \/ SoftTimeLimit(t) \/ Kill(t)
    BY <2>1 DEF PipelineError, GiveUp, SoftTimeLimit, Kill
  <2>2. CASE TransientError(t)
    <3>1. UNCHANGED <<ext, trespassed>> /\ mem' = [mem EXCEPT ![t] = NoMem]
      BY <2>2 DEF TransientError
    <3>2. pc' = [pc EXCEPT ![t] = "queued"]
      BY <2>2 DEF TransientError
    <3>3. job' = [job EXCEPT ![t].retries = @ + 1]
      BY <2>2 DEF TransientError
    <3>4. \A u \in Tasks : job'[u].doc = job[u].doc
      BY <3>3 DEF Jobs
    <3> QED BY <3>1, <3>2, <3>4
  <2> QED BY <1>7, <2>1, <2>2
<1>8. CASE FailHalfDone(t)
  BY <1>8 DEF FailHalfDone, Publishes
<1> QED BY <1>1, <1>2, <1>3, <1>4, <1>5, <1>6, <1>7, <1>8 DEF Progress, Fault

(* Steps that start no insert and publish nothing keep both invariants.    *)
LEMMA NoExtractionStep ==
  ASSUME TypeOK, LogInv, ConflictInv, ext' = ext, trespassed \subseteq trespassed',
         \A u \in Tasks : pc'[u] \in {"insert", "commit", "conflict"} =>
           pc'[u] = pc[u] /\ mem'[u] = mem[u] /\ job'[u].doc = job[u].doc
  PROVE  LogInv' /\ ConflictInv'
<1>1. CurrentIsLatest'
  BY DEF LogInv, CurrentIsLatest
<1>2. CommitterKnows'
  BY DEF LogInv, CommitterKnows, Doc
<1>3. OneCommitter'
  BY DEF LogInv, OneCommitter, Doc
<1>4. InserterKnows'
  BY DEF ConflictInv, InserterKnows, Doc
<1>5. NoConflictUnlessTrespassed'
  BY DEF ConflictInv, NoConflictUnlessTrespassed, Doc
<1> QED BY <1>1, <1>2, <1>3, <1>4, <1>5 DEF LogInv, ConflictInv

-----------------------------------------------------------------------------
(* create_extraction_version: select, then demote and insert, then commit. *)

LEMMA SelectKeepsLog ==
  ASSUME TypeOK, LogInv, ConflictInv, NEW t \in Tasks, SelectCurrent(t)
  PROVE  LogInv' /\ ConflictInv'
<1>1. /\ UNCHANGED <<ext, job, trespassed>>
      /\ \A u \in Tasks \ {t} : pc'[u] = pc[u] /\ mem'[u] = mem[u]
      /\ pc'[t] = "insert"
      /\ \/ ext[Doc(t)].current = {}
         \/ mem'[t].saw \in ext[Doc(t)].current
  BY DEF SelectCurrent, Continue, Goto, TypeOK, TasksOK, Mems, rowVars, history
<1>2. Doc(t) \in Docs
  BY DocOfTask DEF SelectCurrent
<1>3. ext[Doc(t)].current \subseteq {mem'[t].saw}
  BY <1>1, <1>2 DEF LogInv, CurrentIsLatest
<1>4. CurrentIsLatest'
  BY <1>1 DEF LogInv, CurrentIsLatest
<1>5. CommitterKnows'
  BY <1>1 DEF LogInv, CommitterKnows, Doc
<1>6. OneCommitter'
  BY <1>1 DEF LogInv, OneCommitter, Doc
<1>7. InserterKnows'
  BY <1>1, <1>3 DEF ConflictInv, InserterKnows, Doc
<1>8. NoConflictUnlessTrespassed'
  BY <1>1 DEF ConflictInv, NoConflictUnlessTrespassed, Doc
<1> QED BY <1>4, <1>5, <1>6, <1>7, <1>8 DEF LogInv, ConflictInv

LEMMA InsertKeepsLog ==
  ASSUME TypeOK, LogInv, ConflictInv, NEW t \in Tasks, InsertVersion(t)
  PROVE  LogInv' /\ ConflictInv'
<1>1. /\ UNCHANGED <<ext, job, trespassed>>
      /\ pc[t] = "insert" /\ pc'[t] # "insert"
      /\ \A u \in Tasks \ {t} : /\ pc'[u] = pc[u] /\ mem'[u] = mem[u]
                                /\ pc[u] = "commit" => Doc(u) # Doc(t)
  BY DEF InsertVersion, Continue, Goto, TypeOK, TasksOK, rowVars, history
<1>2. CurrentIsLatest' /\ InserterKnows'
  BY <1>1 DEF LogInv, CurrentIsLatest, ConflictInv, InserterKnows, Doc
<1>3. OneCommitter'
  BY <1>1 DEF LogInv, OneCommitter, Doc
<1>4. CommitterKnows' /\ NoConflictUnlessTrespassed'
  <2>1. CASE ext[Doc(t)].current \subseteq {mem[t].saw}
    <3>1. /\ pc'[t] = "commit"
          /\ mem'[t].saw = mem[t].saw /\ mem'[t].number = ext[Doc(t)].latest + 1
      BY <2>1 DEF InsertVersion, Continue, Goto, TypeOK, TasksOK, Mems
    <3>2. CommitterKnows'
      BY <1>1, <2>1, <3>1 DEF LogInv, CommitterKnows, Doc
    <3> QED BY <1>1, <3>1, <3>2 DEF ConflictInv, NoConflictUnlessTrespassed, Doc
  <2>2. CASE ~(ext[Doc(t)].current \subseteq {mem[t].saw})
    <3>1. pc'[t] = "conflict" /\ mem' = mem
      BY <2>2 DEF InsertVersion, Continue, Goto, TypeOK, TasksOK
    <3>2. Doc(t) \in trespassed
      BY <1>1, <2>2 DEF ConflictInv, InserterKnows
    <3>3. CommitterKnows'
      BY <1>1, <3>1 DEF LogInv, CommitterKnows, Doc
    <3> QED BY <1>1, <3>1, <3>2, <3>3 DEF ConflictInv, NoConflictUnlessTrespassed, Doc
  <2> QED BY <2>1, <2>2
<1> QED BY <1>2, <1>3, <1>4 DEF LogInv, ConflictInv

(* The commit publishes the next version and leaves it alone current.      *)
LEMMA PublishesNext ==
  ASSUME TypeOK, LogInv, NEW t \in Tasks, Publishes(t)
  PROVE  /\ Doc(t) \in Docs
         /\ ext'[Doc(t)].latest = ext[Doc(t)].latest + 1
         /\ ext'[Doc(t)].current = {ext[Doc(t)].latest + 1}
         /\ \A d \in Docs \ {Doc(t)} : ext'[d] = ext[d]
<1>1. Doc(t) \in Docs
  BY DocOfTask DEF Publishes
<1>2. /\ ext[Doc(t)].current \subseteq {mem[t].saw}
      /\ mem[t].number = ext[Doc(t)].latest + 1
  BY DEF Publishes, LogInv, CommitterKnows
<1>3. ext' = [ext EXCEPT ![Doc(t)] =
                [latest  |-> mem[t].number,
                 current |-> (ext[Doc(t)].current \ {mem[t].saw}) \cup {mem[t].number},
                 schema  |-> mem[t].type]]
  BY DEF Publishes, StoreVersion
<1> QED BY <1>1, <1>2, <1>3 DEF TypeOK, RowsOK

LEMMA PublishKeepsLog ==
  ASSUME TypeOK, ClaimInv, LogInv, ConflictInv, NEW t \in Tasks,
         Progress(t) \/ Fault(t), Publishes(t)
  PROVE  LogInv' /\ ConflictInv'
<1>1. /\ \A u \in Tasks \ {t} : pc'[u] = pc[u] /\ mem'[u] = mem[u]
      /\ \A u \in Tasks : job'[u].doc = Doc(u)
      /\ pc[t] = "commit"
      /\ pc'[t] \notin {"insert", "commit", "conflict"}
  BY TaskStep DEF Doc, Publishes, SelectCurrent, InsertVersion
<1>2. trespassed \subseteq trespassed'
  BY TaskStep
<1>3. \A d \in Docs : ext[d] \in Exts
  BY DEF TypeOK, RowsOK
<1>4. CurrentIsLatest'
  <2> SUFFICES ASSUME NEW d \in Docs
               PROVE  ext'[d].current = IF ext'[d].latest = 0 THEN {} ELSE {ext'[d].latest}
    BY DEF CurrentIsLatest
  <2>1. CASE d = Doc(t)
    <3>1. ext[d].latest + 1 # 0
      BY <1>3 DEF Exts
    <3> QED BY <2>1, <3>1, PublishesNext
  <2>2. CASE d # Doc(t)
    BY <2>2, PublishesNext DEF LogInv, CurrentIsLatest
  <2> QED BY <2>1, <2>2
<1>5. \A u \in Tasks : pc'[u] = "commit" => Doc(u) # Doc(t) /\ Doc(u) \in Docs
  BY <1>1, DocOfTask DEF LogInv, OneCommitter
<1>6. CommitterKnows' /\ OneCommitter'
  BY <1>1, <1>5, PublishesNext DEF LogInv, CommitterKnows, OneCommitter, Doc
<1>7. InserterKnows'
  <2> SUFFICES ASSUME NEW u \in Tasks, pc'[u] = "insert", Doc(u) \notin trespassed
               PROVE  ext'[Doc(u)].current \subseteq {mem'[u].saw}
    BY <1>1, <1>2 DEF InserterKnows, Doc
  <2>1. u # t /\ pc[u] = "insert" /\ Doc(u) \in Docs
    BY <1>1, DocOfTask
  <2>2. owns[u] /\ owns[t]
    BY <1>1, <2>1 DEF ClaimInv, OwnersWork, Working, ClaimedPc
  <2>3. Doc(u) # Doc(t)
    BY <2>1, <2>2, TwoOwners
  <2> QED BY <1>1, <2>1, <2>3, PublishesNext DEF ConflictInv, InserterKnows
<1>8. NoConflictUnlessTrespassed'
  BY <1>1, <1>2 DEF ConflictInv, NoConflictUnlessTrespassed, Doc
<1> QED BY <1>4, <1>6, <1>7, <1>8 DEF LogInv, ConflictInv

-----------------------------------------------------------------------------
(* The whole specification.                                                *)

LEMMA InitialLog ==
  ASSUME Init, NEW d \in Docs
  PROVE  /\ ext[d].latest \in Nat
         /\ ext[d].current = IF ext[d].latest = 0 THEN {} ELSE {ext[d].latest}
<1>1. ext[d] = NoExtraction \/ \E type : ext[d] = ProcessedExt(type)
  BY DEF Init
<1>2. ext[d] = NoExtraction \/ \E type : ext[d] = [latest |-> 1, current |-> {1}, schema |-> type]
  BY <1>1 DEF ProcessedExt
<1>3. CASE ext[d] = NoExtraction
  BY <1>3 DEF NoExtraction
<1>4. CASE \E type : ext[d] = [latest |-> 1, current |-> {1}, schema |-> type]
  BY <1>4
<1> QED BY <1>2, <1>3, <1>4

LEMMA InitLogInv == Init => LogInv /\ ConflictInv
<1> SUFFICES ASSUME Init PROVE LogInv /\ ConflictInv
  OBVIOUS
<1>1. CurrentIsLatest
  BY InitialLog DEF CurrentIsLatest
<1>2. \A t \in Tasks : pc[t] = "unused"
  BY DEF Init
<1> QED BY <1>1, <1>2 DEF LogInv, CommitterKnows, OneCommitter, ConflictInv, InserterKnows,
                          NoConflictUnlessTrespassed

LEMMA StepLogInv ==
  ASSUME TypeOK, ClaimInv, LogInv, ConflictInv, [Next]_vars
  PROVE  LogInv' /\ ConflictInv'
<1>1. CASE \E q \in Requests : Handle(q)
  <2>1. PICK q \in Requests : Handle(q)
    BY <1>1
  <2>2. UNCHANGED <<mem, ext>> /\ trespassed \subseteq trespassed'
    BY <2>1, RequestLeavesTasks
  <2>3. CASE UNCHANGED <<pc, job>>
    BY <2>2, <2>3, NoExtractionStep
  <2>4. CASE \E t \in Tasks, d \in Docs, kind \in {"process", "reprocess"} : Put(t, d, kind)
    <3>1. PICK t \in Tasks, d \in Docs, kind \in {"process", "reprocess"} : Put(t, d, kind)
      BY <2>4
    <3>2. /\ pc'[t] = "queued"
          /\ \A u \in Tasks \ {t} : pc'[u] = pc[u] /\ job'[u] = job[u]
      BY <3>1 DEF Put, TypeOK, TasksOK
    <3> QED BY <2>2, <3>2, NoExtractionStep
  <2> QED BY <2>1, <2>3, <2>4, RequestLeavesTasks
<1>2. CASE \E t \in Tasks : Progress(t) \/ Fault(t)
  <2>1. PICK t \in Tasks : Progress(t) \/ Fault(t)
    BY <1>2
  <2>2. CASE SelectCurrent(t) \/ InsertVersion(t) \/ Publishes(t)
    BY <2>1, <2>2, SelectKeepsLog, InsertKeepsLog, PublishKeepsLog
  <2>3. CASE ~(SelectCurrent(t) \/ InsertVersion(t) \/ Publishes(t))
    BY <2>1, <2>3, TaskStep, NoExtractionStep
  <2> QED BY <2>2, <2>3
<1>3. CASE Tick \/ UNCHANGED vars
  <2>1. UNCHANGED <<ext, pc, mem, job, trespassed>>
    BY <1>3 DEF Tick, vars, rowVars, taskVars, history
  <2> QED BY <2>1, NoExtractionStep
<1> QED BY <1>1, <1>2, <1>3 DEF Next, Rest

(* The current extraction is the newest, and the task about to commit one  *)
(* is alone on its document and demotes what is current.                   *)
THEOREM LogHolds == Spec => [](LogInv /\ ConflictInv)
<1>1. Init => LogInv /\ ConflictInv
  BY InitLogInv
<1>2. TypeOK /\ ClaimInv /\ LogInv /\ ConflictInv /\ [Next]_vars => (LogInv /\ ConflictInv)'
  BY StepLogInv
<1> QED BY <1>1, <1>2, TypeCorrect, ClaimHolds, PTL DEF Spec

(* The partial unique index bites only after a blind overwrite.            *)
THEOREM ConflictNeedsTrespass == Spec => []NoConflictUnlessTrespassed
<1>1. ConflictInv => NoConflictUnlessTrespassed
  BY DEF ConflictInv
<1> QED BY <1>1, LogHolds, PTL

-----------------------------------------------------------------------------
(* Refinement: the commit of a version publishes it, every other step      *)
(* stutters.                                                               *)

LEMMA InitMaps == Init => Log!Init
BY InitialLog DEF Log!Init

LEMMA StepMaps ==
  ASSUME TypeOK, LogInv, [Next]_vars
  PROVE  [Log!Next]_<<[d \in Docs |-> ext[d].latest], [d \in Docs |-> ext[d].current]>>
<1>1. ext' = ext \/ \E t \in Tasks : Publishes(t)
  <2>1. CASE \E q \in Requests : Handle(q)
    BY <2>1, RequestLeavesTasks
  <2>2. CASE \E t \in Tasks : Progress(t) \/ Fault(t)
    BY <2>2, TaskStep
  <2>3. CASE Tick \/ UNCHANGED vars
    BY <2>3 DEF Tick, vars, rowVars
  <2> QED BY <2>1, <2>2, <2>3 DEF Next, Rest
<1>2. CASE ext' = ext
  BY <1>2
<1>3. CASE \E t \in Tasks : Publishes(t)
  <2>1. PICK t \in Tasks : Publishes(t)
    BY <1>3
  <2>2. PICK d \in Docs : d = Doc(t)
    BY <2>1, PublishesNext
  <2>3. Log!Publish(d)
    BY <2>1, <2>2, PublishesNext DEF Log!Publish
  <2> QED BY <2>3 DEF Log!Next
<1> QED BY <1>1, <1>2, <1>3

(* services/extractions.py keeps its promise: a growing log whose newest   *)
(* version, and no other, is current.                                      *)
THEOREM PipelineImplementsLog == Spec => ImplementsLog
<1>1. Init => Log!Init
  BY InitMaps
<1>2. TypeOK /\ LogInv /\ [Next]_vars
        => [Log!Next]_<<[d \in Docs |-> ext[d].latest], [d \in Docs |-> ext[d].current]>>
  BY StepMaps
<1>3. LogInv /\ ConflictInv => LogInv
  OBVIOUS
<1> QED BY <1>1, <1>2, <1>3, TypeCorrect, LogHolds, PTL DEF Spec, ImplementsLog, Log!Spec
============================================================================
