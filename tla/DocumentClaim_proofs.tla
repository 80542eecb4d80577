------------------------- MODULE DocumentClaim_proofs ------------------------
(***************************************************************************)
(* What the claim of _claim_for_processing guarantees, for any number of   *)
(* documents, tasks and requests and any limits in the order the code      *)
(* keeps them (soft < hard < presumed abandoned), and on top of it that    *)
(* reprocessing does not double the OPEN findings of a document: a full    *)
(* run supersedes them before it classifies, and nobody who holds the      *)
(* document beside it can add any.                                         *)
(***************************************************************************)
EXTENDS DocumentTypes_proofs

-----------------------------------------------------------------------------
(* The claim invariant, step by step.                                      *)

LEMMA OwnerHasDoc ==
  ASSUME ClaimInv, TypeOK, NEW t \in Tasks, owns[t]
  PROVE  Doc(t) \in Docs /\ pc[t] # "unused" /\ pc[t] \in Running
<1>1. pc[t] # "unused" /\ pc[t] \in Running
  BY DEF ClaimInv, OwnersWork, Working, ClaimedPc, Running
<1> QED BY <1>1, DocOfTask

(* Two live runs of one document imply a blind overwrite.                  *)
LEMMA TwoOwners ==
  ASSUME ClaimInv, TypeOK, NEW t \in Tasks, NEW u \in Tasks, t # u,
         owns[t], owns[u], Doc(t) = Doc(u)
  PROVE  Doc(t) \in trespassed
<1>1. Doc(t) \in Docs
  BY OwnerHasDoc
<1> QED BY <1>1 DEF ClaimInv, ExclusiveUnlessTrespassed, Holds, Doc

(* A step of one task keeps the invariant when it claims nothing, writes   *)
(* only a document it owns, and keeps its claim only if the row stays in   *)
(* flight.                                                                 *)
LEMMA StepOfTask ==
  ASSUME TypeOK, TypeOK', ClaimInv, NEW t \in Tasks,
         trespassed' = trespassed,
         \A u \in Tasks : job'[u].doc = job[u].doc,
         \A u \in Tasks \ {t} : /\ pc'[u] = pc[u] /\ owns'[u] = owns[u]
                                /\ elapsed'[u] = elapsed[u],
         elapsed'[t] \in {0, elapsed[t]},
         pc'[t] \in Working => owns'[t],
         owns'[t] => owns[t] /\ pc'[t] \in Working \cup {"exhausted"} /\ elapsed'[t] = elapsed[t],
         \A d \in Docs : age'[d] \in {0, age[d]},
         \A d \in Docs : status'[d] # status[d] =>
           /\ owns[t] /\ d = Doc(t)
           /\ owns'[t] => status'[d] \in InFlight
  PROVE  ClaimInv'
<1>1. OwnersWork'
  BY DEF ClaimInv, OwnersWork
<1>2. WithinHardLimit'
  BY LimitsAssumption DEF ClaimInv, WithinHardLimit
<1>3. OwnedRowIsYoung'
  <2> SUFFICES ASSUME NEW u \in Tasks, owns'[u] PROVE age'[job'[u].doc] <= elapsed'[u]
    BY DEF OwnedRowIsYoung, Doc
  <2>1. owns[u] /\ elapsed'[u] = elapsed[u]
    OBVIOUS
  <2>2. job'[u].doc = Doc(u) /\ Doc(u) \in Docs
    BY <2>1, OwnerHasDoc DEF Doc
  <2>3. age[Doc(u)] <= elapsed[u]
    BY <2>1 DEF ClaimInv, OwnedRowIsYoung
  <2> QED BY <2>1, <2>2, <2>3 DEF TypeOK, TasksOK
<1>4. OwnedRowInFlight'
  <2> SUFFICES ASSUME NEW u \in Tasks, owns'[u], job'[u].doc \notin trespassed'
               PROVE  status'[job'[u].doc] \in InFlight
    BY DEF OwnedRowInFlight, Doc
  <2>1. owns[u]
    OBVIOUS
  <2>2. job'[u].doc = Doc(u) /\ Doc(u) \in Docs /\ Doc(u) \notin trespassed
    BY <2>1, OwnerHasDoc DEF Doc
  <2>3. status[Doc(u)] \in InFlight
    BY <2>1, <2>2 DEF ClaimInv, OwnedRowInFlight
  <2>4. CASE status'[Doc(u)] = status[Doc(u)]
    BY <2>2, <2>3, <2>4
  <2>5. CASE status'[Doc(u)] # status[Doc(u)]
    <3>1. owns[t] /\ Doc(u) = Doc(t) /\ (owns'[t] => status'[Doc(u)] \in InFlight)
      BY <2>2, <2>5
    <3>2. u = t
      BY <2>1, <2>2, <3>1, TwoOwners
    <3> QED BY <2>2, <3>1, <3>2
  <2> QED BY <2>4, <2>5
<1>5. ExclusiveUnlessTrespassed'
  BY DEF ClaimInv, ExclusiveUnlessTrespassed, Holds
<1> QED BY <1>1, <1>2, <1>3, <1>4, <1>5 DEF ClaimInv

(* A step of a request keeps it when it overwrites the status of a held    *)
(* document only by trespassing.                                           *)
LEMMA StepOfRequest ==
  ASSUME TypeOK, TypeOK', ClaimInv, UNCHANGED <<pc, elapsed, owns>>,
         \A u \in Tasks : owns[u] => job'[u] = job[u],
         trespassed \subseteq trespassed',
         \A d \in Docs : age'[d] \in {0, age[d]},
         \A d \in Docs : status'[d] # status[d] /\ Held(d) => d \in trespassed'
  PROVE  ClaimInv'
<1>1. OwnersWork' /\ WithinHardLimit'
  BY DEF ClaimInv, OwnersWork, WithinHardLimit
<1>2. \A u \in Tasks : owns[u] => Doc(u) \in Docs /\ job'[u].doc = Doc(u)
  BY OwnerHasDoc DEF Doc
<1>3. OwnedRowIsYoung'
  BY <1>2 DEF ClaimInv, OwnedRowIsYoung, Doc, TypeOK, TasksOK
<1>4. OwnedRowInFlight'
  <2> SUFFICES ASSUME NEW u \in Tasks, owns[u], Doc(u) \notin trespassed'
               PROVE  status'[Doc(u)] \in InFlight
    BY <1>2 DEF OwnedRowInFlight, Doc
  <2>1. Doc(u) \in Docs /\ Held(Doc(u))
    BY <1>2 DEF Held, Holds, Doc
  <2>2. status'[Doc(u)] = status[Doc(u)]
    BY <2>1
  <2> QED BY <2>2 DEF ClaimInv, OwnedRowInFlight
<1>5. ExclusiveUnlessTrespassed'
  BY <1>2 DEF ClaimInv, ExclusiveUnlessTrespassed, Holds, Doc
<1> QED BY <1>1, <1>3, <1>4, <1>5 DEF ClaimInv

(* The heart of it: the claim succeeds on a document another live run      *)
(* holds only after a blind overwrite, for a row in flight is younger than *)
(* its owner, and its owner is younger than the hard limit.                *)
LEMMA ClaimableMeansFree ==
  ASSUME TypeOK, ClaimInv, NEW u \in Tasks, owns[u], Claimable(Doc(u))
  PROVE  status[Doc(u)] \notin InFlight /\ Doc(u) \in trespassed
<1>1. Doc(u) \in Docs
  BY OwnerHasDoc
<1>2. age[Doc(u)] <= elapsed[u] /\ elapsed[u] <= HardLimit
  BY DEF ClaimInv, OwnedRowIsYoung, WithinHardLimit
<1>3. age[Doc(u)] <= AbandonAfter
  BY <1>1, <1>2, LimitsAssumption DEF TypeOK, RowsOK, TasksOK
<1>4. status[Doc(u)] \notin InFlight
  BY <1>1, <1>3, LimitsAssumption DEF Claimable, TypeOK, RowsOK
<1> QED BY <1>4 DEF ClaimInv, OwnedRowInFlight

LEMMA ClaimKeepsClaimInv ==
  ASSUME TypeOK, TypeOK', ClaimInv, NEW t \in Tasks, Claim(t)
  PROVE  ClaimInv'
<1> DEFINE d == Doc(t)
<1>1. CASE ~Claimable(d)
  BY <1>1, StepOfTask
     DEF Claim, Leave, Goto, TypeOK, TasksOK, RowsOK, Working, ClaimedPc, history
<1>2. CASE Claimable(d)
  <2>1. d \in Docs /\ pc[t] = "loaded" /\ ~owns[t]
    BY DocOfTask DEF Claim, ClaimInv, OwnersWork, Working, ClaimedPc
  <2>2. /\ pc' = [pc EXCEPT ![t] = "read"]
        /\ owns' = [owns EXCEPT ![t] = TRUE]
        /\ UNCHANGED <<job, elapsed, trespassed>>
        /\ status'[d] \in InFlight
        /\ age' = [age EXCEPT ![d] = 0]
        /\ \A e \in Docs \ {d} : status'[e] = status[e]
    BY <1>2, <2>1 DEF Claim, WriteRow, Goto, history, TypeOK, RowsOK, InFlight
  <2>3. \A u \in Tasks : owns[u] /\ Doc(u) = d => d \in trespassed
    BY <1>2, ClaimableMeansFree
  <2>4. OwnersWork'
    BY <2>2 DEF ClaimInv, OwnersWork, TypeOK, TasksOK, Working, ClaimedPc
  <2>5. WithinHardLimit'
    BY <2>2 DEF ClaimInv, WithinHardLimit
  <2>6. OwnedRowIsYoung'
    <3> SUFFICES ASSUME NEW u \in Tasks, owns'[u] PROVE age'[Doc(u)] <= elapsed[u]
      BY <2>2 DEF OwnedRowIsYoung, Doc
    <3>1. CASE Doc(u) = d
      BY <2>1, <2>2, <3>1 DEF TypeOK, RowsOK, TasksOK
    <3>2. CASE Doc(u) # d
      <4>1. owns[u] /\ Doc(u) \in Docs
        BY <2>2, <3>2, OwnerHasDoc DEF TypeOK, TasksOK
      <4> QED BY <2>2, <3>2, <4>1 DEF ClaimInv, OwnedRowIsYoung, TypeOK, RowsOK
    <3> QED BY <3>1, <3>2
  <2>7. OwnedRowInFlight'
    <3> SUFFICES ASSUME NEW u \in Tasks, owns'[u], Doc(u) \notin trespassed
                 PROVE  status'[Doc(u)] \in InFlight
      BY <2>2 DEF OwnedRowInFlight, Doc
    <3>1. CASE Doc(u) = d
      BY <2>2, <3>1
    <3>2. CASE Doc(u) # d
      <4>1. owns[u] /\ Doc(u) \in Docs
        BY <2>2, <3>2, OwnerHasDoc DEF TypeOK, TasksOK
      <4> QED BY <2>2, <3>2, <4>1 DEF ClaimInv, OwnedRowInFlight
    <3> QED BY <3>1, <3>2
  <2>8. ExclusiveUnlessTrespassed'
    <3> SUFFICES ASSUME NEW u \in Tasks, NEW v \in Tasks, u # v, owns'[u], owns'[v], Doc(u) = Doc(v)
                 PROVE  Doc(u) \in trespassed
      BY <2>2 DEF ExclusiveUnlessTrespassed, Holds, Doc
    <3>1. CASE owns[u] /\ owns[v]
      BY <3>1, TwoOwners
    <3>2. CASE u = t \/ v = t
      BY <2>2, <2>3, <3>2 DEF TypeOK, TasksOK
    <3> QED BY <2>2, <3>1, <3>2 DEF TypeOK, TasksOK
  <2> QED BY <2>4, <2>5, <2>6, <2>7, <2>8 DEF ClaimInv
<1> QED BY <1>1, <1>2

LEMMA MarkExhaustedKeepsClaimInv ==
  ASSUME TypeOK, TypeOK', ClaimInv, NEW t \in Tasks, MarkExhausted(t)
  PROVE  ClaimInv'
<1> DEFINE d == Doc(t)
<1>1. d \in Docs /\ pc[t] = "exhausted"
  BY DocOfTask DEF MarkExhausted
<1>2. /\ pc' = [pc EXCEPT ![t] = "ended"]
      /\ owns' = [owns EXCEPT ![t] = FALSE]
      /\ elapsed' = [elapsed EXCEPT ![t] = 0]
      /\ job' = job
      /\ \A e \in Docs : age'[e] \in {0, age[e]} /\ (status'[e] # status[e] => e = d)
  BY <1>1 DEF MarkExhausted, Leave, Goto, WriteRow, TypeOK, RowsOK
<1>3. /\ trespassed \subseteq trespassed'
      /\ \A u \in Tasks \ {t} : owns[u] /\ Doc(u) = d /\ status'[d] # status[d] => d \in trespassed'
  BY <1>1 DEF MarkExhausted, Trespass, Holds, Doc
<1>4. \A u \in Tasks : owns'[u] => u # t /\ owns[u] /\ Doc(u) \in Docs /\ elapsed'[u] = elapsed[u]
  BY <1>2, OwnerHasDoc DEF TypeOK, TasksOK
<1>5. OwnersWork'
  BY <1>2 DEF ClaimInv, OwnersWork, TypeOK, TasksOK, Working, ClaimedPc
<1>6. WithinHardLimit'
  BY <1>2, LimitsAssumption DEF ClaimInv, WithinHardLimit, TypeOK, TasksOK
<1>7. OwnedRowIsYoung'
  BY <1>2, <1>4 DEF ClaimInv, OwnedRowIsYoung, Doc, TypeOK, TasksOK
<1>8. OwnedRowInFlight'
  BY <1>2, <1>3, <1>4 DEF ClaimInv, OwnedRowInFlight, Doc
<1>9. ExclusiveUnlessTrespassed'
  BY <1>2, <1>3, <1>4 DEF ClaimInv, ExclusiveUnlessTrespassed, Holds, Doc
<1> QED BY <1>5, <1>6, <1>7, <1>8, <1>9 DEF ClaimInv

LEMMA TickKeepsClaimInv ==
  ASSUME TypeOK, TypeOK', ClaimInv, Tick
  PROVE  ClaimInv'
<1>1. UNCHANGED <<status, pc, job, owns, trespassed>>
  BY DEF Tick, history
<1>2. \A u \in Tasks : owns[u] => elapsed'[u] = elapsed[u] + 1 /\ age'[Doc(u)] <= age[Doc(u)] + 1
  BY OwnerHasDoc DEF Tick, TypeOK, RowsOK, TasksOK
<1>3. WithinHardLimit'
  BY LimitsAssumption DEF Tick, ClaimInv, WithinHardLimit, TypeOK, TasksOK
<1>4. OwnedRowIsYoung'
  <2> SUFFICES ASSUME NEW u \in Tasks, owns[u] PROVE age'[Doc(u)] <= elapsed'[u]
    BY <1>1 DEF OwnedRowIsYoung, Doc
  <2>1. age[Doc(u)] <= elapsed[u] /\ age[Doc(u)] \in Nat /\ elapsed[u] \in Nat /\ age'[Doc(u)] \in Nat
    BY OwnerHasDoc DEF ClaimInv, OwnedRowIsYoung, TypeOK, RowsOK, TasksOK
  <2> QED BY <1>2, <2>1
<1> QED BY <1>1, <1>3, <1>4
        DEF ClaimInv, OwnersWork, OwnedRowInFlight, ExclusiveUnlessTrespassed, Holds, Doc

(* A task between two database writes, or failing, or killed.              *)
LEMMA QuietStepKeepsClaimInv ==
  ASSUME TypeOK, TypeOK', ClaimInv, NEW t \in Tasks,
         \/ Load(t) \/ ReadAndSupersede(t) \/ SelectCurrent(t) \/ InsertVersion(t)
         \/ EnqueueNeeds(t) \/ PipelineError(t) \/ TransientError(t) \/ GiveUp(t)
         \/ SoftTimeLimit(t) \/ Kill(t)
  PROVE  ClaimInv'
<1> USE DEF Working, ClaimedPc, Goto, Leave, Continue, rowVars, history
<1>1. OwnersWork /\ pc \in [Tasks -> Pcs] /\ elapsed \in [Tasks -> Nat] /\ owns \in [Tasks -> BOOLEAN]
  BY DEF ClaimInv, TypeOK, TasksOK
<1>2. UNCHANGED <<status, age, trespassed>>
  BY DEF Load, ReadAndSupersede, SelectCurrent, InsertVersion, EnqueueNeeds, PipelineError,
         TransientError, GiveUp, SoftTimeLimit, Kill
<1>3. CASE Load(t) \/ EnqueueNeeds(t) \/ GiveUp(t) \/ Kill(t)
  <2>1. /\ job' = job
        /\ \A u \in Tasks \ {t} : pc'[u] = pc[u] /\ owns'[u] = owns[u] /\ elapsed'[u] = elapsed[u]
        /\ elapsed'[t] \in {0, elapsed[t]} /\ pc'[t] \in {"loaded", "ended"} /\ ~owns'[t]
    BY <1>1, <1>3 DEF Load, EnqueueNeeds, GiveUp, Kill, OwnersWork
  <2> QED BY <1>2, <2>1, StepOfTask
<1>4. CASE \/ ReadAndSupersede(t) \/ SelectCurrent(t) \/ InsertVersion(t) \/ PipelineError(t)
           \/ SoftTimeLimit(t)
  <2>1. /\ UNCHANGED <<job, owns, elapsed>>
        /\ \A u \in Tasks \ {t} : pc'[u] = pc[u]
        /\ pc'[t] \in Working => owns[t]
        /\ owns[t] => pc'[t] \in Working \cup {"exhausted"}
    BY <1>1, <1>4 DEF ReadAndSupersede, SelectCurrent, InsertVersion, PipelineError, SoftTimeLimit,
                      OwnersWork
  <2> QED BY <1>2, <2>1, StepOfTask
<1>5. CASE TransientError(t)
  <2>1. \A u \in Tasks : job'[u].doc = job[u].doc
    BY <1>5 DEF TransientError, TypeOK, TasksOK, Jobs
  <2>2. /\ pc' = [pc EXCEPT ![t] = "queued"]
        /\ elapsed' = [elapsed EXCEPT ![t] = 0]
        /\ owns' = [owns EXCEPT ![t] = FALSE]
    BY <1>5 DEF TransientError
  <2> QED BY <1>1, <1>2, <2>1, <2>2, StepOfTask
<1> QED BY <1>3, <1>4, <1>5

(* A task moves its document to another in-flight status.                  *)
LEMMA AdvanceKeepsClaimInv ==
  ASSUME TypeOK, TypeOK', ClaimInv, NEW t \in Tasks, NEW next \in Working,
         owns[t], Continue(t, next), trespassed' = trespassed,
         \A d \in Docs : age'[d] \in {0, age[d]},
         \A d \in Docs : status'[d] # status[d] => d = Doc(t) /\ status'[d] \in InFlight
  PROVE  ClaimInv'
<1>1. /\ UNCHANGED <<job, owns, elapsed>>
      /\ pc'[t] = next
      /\ \A u \in Tasks \ {t} : pc'[u] = pc[u]
  BY DEF Continue, Goto, TypeOK, TasksOK
<1> QED BY <1>1, StepOfTask

(* A task writes a status and gives its document up.                       *)
LEMMA SettleKeepsClaimInv ==
  ASSUME TypeOK, TypeOK', ClaimInv, NEW t \in Tasks,
         owns[t], Leave(t) \/ Release(t, "needs"), trespassed' = trespassed,
         \A d \in Docs : age'[d] \in {0, age[d]},
         \A d \in Docs : status'[d] # status[d] => d = Doc(t)
  PROVE  ClaimInv'
<1>1. /\ job' = job
      /\ pc'[t] \notin Working /\ ~owns'[t] /\ elapsed'[t] \in {0, elapsed[t]}
      /\ \A u \in Tasks \ {t} : pc'[u] = pc[u] /\ owns'[u] = owns[u] /\ elapsed'[u] = elapsed[u]
  BY DEF Leave, Release, Goto, TypeOK, TasksOK, Working, ClaimedPc
<1> QED BY <1>1, StepOfTask

LEMMA WriteKeepsClaimInv ==
  ASSUME TypeOK, TypeOK', ClaimInv, NEW t \in Tasks,
         \/ ClassifyInfraFailure(t) \/ Classify(t) \/ Tier3(t) \/ StartExtraction(t) \/ Refresh(t)
         \/ ExtractThrottled(t) \/ FinishExtraction(t) \/ FailHalfDone(t) \/ MarkFailed(t)
  PROVE  ClaimInv'
<1>1. owns[t] /\ Doc(t) \in Docs
  <2>1. pc[t] \in Working
    BY DEF ClassifyInfraFailure, Classify, Tier3, StartExtraction, Refresh, ExtractThrottled,
           FinishExtraction, FailHalfDone, MarkFailed, Working, ClaimedPc
  <2> QED BY <2>1, OwnerHasDoc DEF ClaimInv, OwnersWork
<1>2. trespassed' = trespassed
  BY DEF ClassifyInfraFailure, Classify, Tier3, StartExtraction, Refresh, ExtractThrottled,
         FinishExtraction, FailHalfDone, MarkFailed, history
<1>3. \A s, r : WriteRow(Doc(t), s, r) =>
        /\ \A d \in Docs : age'[d] \in {0, age[d]} /\ (status'[d] # status[d] => d = Doc(t))
        /\ status'[Doc(t)] = s
  BY <1>1 DEF WriteRow, TypeOK, RowsOK
<1>4. CASE Classify(t) \/ StartExtraction(t)
  <2>1. \E next \in Working : Continue(t, next)
    BY <1>4 DEF Classify, StartExtraction, Working, ClaimedPc
  <2>2. \E s \in InFlight : \E r : WriteRow(Doc(t), s, r)
    BY <1>4 DEF Classify, StartExtraction, InFlight
  <2> QED BY <1>1, <1>2, <1>3, <2>1, <2>2, AdvanceKeepsClaimInv
<1>5. CASE Refresh(t)
  <2>1. /\ \A d \in Docs : age'[d] \in {0, age[d]} /\ (status'[d] # status[d] => d = Doc(t))
        /\ HasExtractor(row[Doc(t)].type) => status'[Doc(t)] = "EXTRACTING"
    BY <1>1, <1>5 DEF Refresh, TypeOK, RowsOK
  <2>2. CASE HasExtractor(row[Doc(t)].type)
    <3>1. Continue(t, "extract") /\ "extract" \in Working /\ "EXTRACTING" \in InFlight
      BY <1>5, <2>2 DEF Refresh, Working, ClaimedPc, InFlight
    <3> QED BY <1>1, <1>2, <2>1, <2>2, <3>1, AdvanceKeepsClaimInv
  <2>3. CASE ~HasExtractor(row[Doc(t)].type)
    BY <1>1, <1>2, <1>5, <2>1, <2>3, SettleKeepsClaimInv DEF Refresh
  <2> QED BY <2>2, <2>3
<1>6. CASE \/ ClassifyInfraFailure(t) \/ Tier3(t) \/ ExtractThrottled(t)
           \/ FinishExtraction(t) \/ FailHalfDone(t) \/ MarkFailed(t)
  <2>1. Leave(t) \/ Release(t, "needs")
    BY <1>6 DEF ClassifyInfraFailure, Tier3, ExtractThrottled, FinishExtraction, FailHalfDone, MarkFailed
  <2>2. (\E s, r : WriteRow(Doc(t), s, r)) \/ UNCHANGED <<status, age>>
    BY <1>6 DEF ClassifyInfraFailure, Tier3, ExtractThrottled, FinishExtraction, FailHalfDone, MarkFailed
  <2> QED BY <1>1, <1>2, <1>3, <2>1, <2>2, SettleKeepsClaimInv
<1> QED BY <1>4, <1>5, <1>6

LEMMA RequestKeepsClaimInv ==
  ASSUME TypeOK, TypeOK', ClaimInv, NEW q \in Requests, Handle(q)
  PROVE  ClaimInv'
<1> USE DEF taskVars, rowVars, history
<1>1. CASE CommitReprocess(q) \/ Finish(q)
  <2>1. UNCHANGED <<pc, job, elapsed, owns>> /\ \A d \in Docs : age'[d] \in {0, age[d]}
    BY <1>1 DEF CommitReprocess, Finish
  <2>2. req[q].targets \in SUBSET Docs /\ req[q].refused \in SUBSET Docs
    BY DEF TypeOK, RequestsOK, Reqs
  <2>3. \A d \in Docs : status'[d] # status[d] /\ Held(d) => d \in trespassed'
    BY <1>1, <2>2 DEF CommitReprocess, Finish, Trespass, Held
  <2>4. trespassed \subseteq trespassed'
    BY <1>1 DEF CommitReprocess, Finish, Trespass
  <2> QED BY <2>1, <2>3, <2>4, StepOfRequest
<1>2. CASE \E d \in Docs : Upload(q, d) \/ CommitReplace(q, d)
  <2>1. PICK new \in Docs : Upload(q, new) \/ CommitReplace(q, new)
    BY <1>2
  <2>2. UNCHANGED <<pc, job, elapsed, owns, trespassed>>
    BY <2>1 DEF Upload, CommitReplace
  <2>3. \A d \in Docs : age'[d] \in {0, age[d]} /\ (status'[d] # status[d] => d = new)
    <3>1. CASE Upload(q, new)
      BY <3>1 DEF Upload, WriteRow, TypeOK, RowsOK
    <3>2. CASE CommitReplace(q, new)
      BY <3>2 DEF CommitReplace, TypeOK, RowsOK
    <3> QED BY <2>1, <3>1, <3>2
  <2>4. status[new] \notin InFlight
    BY <2>1 DEF Upload, CommitReplace, InFlight
  <2>5. Held(new) => new \in trespassed
    BY <2>4 DEF Held, Holds, Doc, ClaimInv, OwnedRowInFlight
  <2> QED BY <2>2, <2>3, <2>5, StepOfRequest
<1>3. CASE CommitOverride(q)
  <2>1. UNCHANGED <<pc, job, elapsed, owns, status, trespassed>>
    BY <1>3 DEF CommitOverride
  <2>2. PICK d \in req[q].targets : \E new \in {0, age[d]} : age' = [age EXCEPT ![d] = new]
    BY <1>3 DEF CommitOverride
  <2>3. \A e \in Docs : age'[e] \in {0, age[e]}
    BY <2>2 DEF TypeOK, RowsOK
  <2> QED BY <2>1, <2>3, StepOfRequest
<1>4. CASE \E d \in Docs : Delete(q, d) \/ ResolveStaleness(q, d)
  <2>1. UNCHANGED <<pc, job, elapsed, owns, trespassed>>
    BY <1>4 DEF Delete, ResolveStaleness
  <2>2. \A d \in Docs : age'[d] \in {0, age[d]} /\ status'[d] = status[d]
    BY <1>4 DEF Delete, ResolveStaleness, WriteRow, TypeOK, RowsOK
  <2> QED BY <2>1, <2>2, StepOfRequest
<1>5. CASE \E d \in Docs, t \in Tasks : Enqueue(q, d, t)
  <2>1. PICK d \in Docs, t \in Tasks, kind \in {"process", "reprocess"} :
          Put(t, d, kind) /\ UNCHANGED <<status, age, trespassed>>
    BY <1>5 DEF Enqueue
  <2>2. ~owns[t] /\ ~owns'[t] /\ pc'[t] = "queued" /\ elapsed'[t] = elapsed[t]
    BY <2>1 DEF Put, ClaimInv, OwnersWork, Working, ClaimedPc, TypeOK, TasksOK
  <2>3. \A u \in Tasks \ {t} : /\ pc'[u] = pc[u] /\ owns'[u] = owns[u]
                               /\ elapsed'[u] = elapsed[u] /\ job'[u] = job[u]
    BY <2>1 DEF Put, TypeOK, TasksOK
  <2>4. \A u \in Tasks : owns'[u] = owns[u] /\ elapsed'[u] = elapsed[u] /\ (owns[u] => Doc(u)' = Doc(u))
    BY <2>2, <2>3, <2>1 DEF Doc, Put
  <2>5. OwnersWork'
    BY <2>2, <2>3 DEF ClaimInv, OwnersWork, Working, ClaimedPc
  <2> QED BY <2>1, <2>4, <2>5
          DEF ClaimInv, WithinHardLimit, OwnedRowIsYoung, OwnedRowInFlight,
              ExclusiveUnlessTrespassed, Holds, Doc
<1>6. CASE \/ AdmitBulk(q) \/ Abort(q)
           \/ \E d \in Docs : \/ AdmitReprocess(q, d) \/ AdmitOverride(q, d) \/ AdmitReplace(q, d)
                              \/ EnqueueFails(q, d)
  <2>1. UNCHANGED <<pc, job, elapsed, owns, status, age, trespassed>>
    BY <1>6 DEF AdmitBulk, Abort, AdmitReprocess, AdmitOverride, AdmitReplace, EnqueueFails, Admit
  <2> QED BY <2>1, StepOfRequest
<1> QED BY <1>1, <1>2, <1>3, <1>4, <1>5, <1>6 DEF Handle

-----------------------------------------------------------------------------
(* The whole specification.                                                *)

LEMMA InitClaimInv == Init => ClaimInv
BY LimitsAssumption
   DEF Init, ClaimInv, OwnersWork, WithinHardLimit, OwnedRowIsYoung, OwnedRowInFlight,
       ExclusiveUnlessTrespassed, Holds, Working, ClaimedPc

LEMMA StepClaimInv ==
  ASSUME TypeOK, ClaimInv, [Next]_vars
  PROVE  ClaimInv'
<1>1. TypeOK'
  BY StepTypes
<1>2. CASE \E q \in Requests : Handle(q)
  BY <1>1, <1>2, RequestKeepsClaimInv
<1>3. CASE \E t \in Tasks : Progress(t) \/ Fault(t)
  BY <1>1, <1>3, ClaimKeepsClaimInv, MarkExhaustedKeepsClaimInv, QuietStepKeepsClaimInv,
     WriteKeepsClaimInv DEF Progress, Fault
<1>4. CASE Tick
  BY <1>1, <1>4, TickKeepsClaimInv
<1>5. CASE UNCHANGED vars
  BY <1>5 DEF vars, rowVars, taskVars, history, ClaimInv, OwnersWork, WithinHardLimit,
              OwnedRowIsYoung, OwnedRowInFlight, ExclusiveUnlessTrespassed, Holds, Doc
<1> QED BY <1>2, <1>3, <1>4, <1>5 DEF Next, Rest

(* The invariant of _claim_for_processing: whoever works on a document has *)
(* claimed it, within the limits, and its row shows it.                    *)
THEOREM ClaimHolds == Spec => []ClaimInv
<1>1. Init => ClaimInv
  BY InitClaimInv
<1>2. TypeOK /\ ClaimInv /\ [Next]_vars => ClaimInv'
  BY StepClaimInv
<1> QED BY <1>1, <1>2, TypeCorrect, PTL DEF Spec

(* At most one live run per document, but for a blind overwrite.           *)
THEOREM ExclusiveRuns == Spec => []ExclusiveUnlessTrespassed
<1>1. ClaimInv => ExclusiveUnlessTrespassed
  BY DEF ClaimInv
<1> QED BY <1>1, ClaimHolds, PTL

(* A request only ever gives a task to the broker.                         *)
LEMMA RequestLeavesTasks ==
  ASSUME NEW q \in Requests, Handle(q)
  PROVE  /\ UNCHANGED <<elapsed, mem, owns, ext>>
         /\ \/ UNCHANGED <<pc, job>>
            \/ \E t \in Tasks, d \in Docs, kind \in {"process", "reprocess"} : Put(t, d, kind)
         /\ trespassed \subseteq trespassed'
<1> USE DEF rowVars, taskVars, history
<1>1. CASE \E d \in Docs, t \in Tasks : Enqueue(q, d, t)
  <2>1. PICK d \in Docs, t \in Tasks : Enqueue(q, d, t)
    BY <1>1
  <2>2. \E kind \in {"process", "reprocess"} : Put(t, d, kind)
    BY <2>1 DEF Enqueue
  <2>3. UNCHANGED <<elapsed, mem, owns>>
    BY <2>2 DEF Put
  <2>4. UNCHANGED <<ext, trespassed>>
    BY <2>1 DEF Enqueue
  <2> QED BY <2>2, <2>3, <2>4
<1>2. CASE CommitReprocess(q) \/ Finish(q)
  BY <1>2 DEF CommitReprocess, Finish, Trespass
<1>3. CASE AdmitBulk(q) \/ \E d \in Docs : AdmitReprocess(q, d) \/ AdmitOverride(q, d) \/ AdmitReplace(q, d)
  BY <1>3 DEF AdmitBulk, AdmitReprocess, AdmitOverride, AdmitReplace, Admit
<1>4. CASE CommitOverride(q) \/ Abort(q)
  BY <1>4 DEF CommitOverride, Abort
<1>5. CASE \E d \in Docs : \/ Upload(q, d) \/ CommitReplace(q, d) \/ Delete(q, d)
                          \/ ResolveStaleness(q, d) \/ EnqueueFails(q, d)
  BY <1>5 DEF Upload, CommitReplace, Delete, ResolveStaleness, EnqueueFails
<1> QED BY <1>1, <1>2, <1>3, <1>4, <1>5 DEF Handle

LEMMA OnlyClaimTurnsOwnsOn ==
  ASSUME TypeOK, [Next]_vars, NEW t \in Tasks, ~owns[t], owns'[t]
  PROVE  Claim(t) /\ Claimable(Doc(t))
<1>1. CASE \E q \in Requests : Handle(q)
  BY <1>1, RequestLeavesTasks
<1>2. CASE \E u \in Tasks : Progress(u) \/ Fault(u)
  <2>1. PICK u \in Tasks : Progress(u) \/ Fault(u)
    BY <1>2
  <2>2. Claim(u) \/ UNCHANGED owns \/ owns' = [owns EXCEPT ![u] = FALSE]
    BY <2>1 DEF Progress, Fault, Load, ReadAndSupersede, Refresh, ClassifyInfraFailure, Classify,
                Tier3, StartExtraction, ExtractThrottled, SelectCurrent, InsertVersion,
                FinishExtraction, EnqueueNeeds, FailHalfDone, MarkFailed, MarkExhausted, PipelineError,
                TransientError, GiveUp, SoftTimeLimit, Kill, Leave, Release, Continue
  <2>3. Claim(u)
    BY <2>2 DEF TypeOK, TasksOK
  <2>4. owns' = [owns EXCEPT ![u] = Claimable(Doc(u))] \/ owns' = [owns EXCEPT ![u] = FALSE]
    BY <2>3 DEF Claim, Leave
  <2>5. u = t /\ Claimable(Doc(t))
    BY <2>3, <2>4 DEF Claim, Leave, TypeOK, TasksOK
  <2> QED BY <2>3, <2>5
<1>3. CASE Tick \/ UNCHANGED vars
  BY <1>3 DEF Tick, vars, taskVars
<1> QED BY <1>1, <1>2, <1>3 DEF Next, Rest

(* Taking over an abandoned row never takes it from a live run.            *)
THEOREM NeverStealsLiveRun == Spec => ClaimNeverStealsLiveRun
<1>1. TypeOK /\ ClaimInv /\ [Next]_vars =>
        [\A t, u \in Tasks :
           ~owns[t] /\ owns'[t] /\ t # u /\ Holds(u, Doc(t))
             => status[Doc(t)] \notin InFlight]_vars
  BY OnlyClaimTurnsOwnsOn, ClaimableMeansFree DEF Holds, Doc
<1> QED BY <1>1, TypeCorrect, ClaimHolds, PTL DEF Spec, ClaimNeverStealsLiveRun

-----------------------------------------------------------------------------
(* The findings of a claimed run.                                          *)

(* Where a claimed run is once it has superseded the last findings.        *)
Superseded == ClaimedPc \ {"read"}

-----------------------------------------------------------------------------
(* The tasks.                                                              *)

(* A step that adds no finding, and does not get past the superseding.     *)
LEMMA StepOfBystander ==
  ASSUME FindingsInv, NEW t \in Tasks,
         trespassed \subseteq trespassed',
         \A u \in Tasks : job'[u].doc = job[u].doc /\ job'[u].kind = job[u].kind,
         \A u \in Tasks \ {t} : pc'[u] = pc[u],
         pc'[t] # "unused",
         IsProcess(t) /\ pc'[t] \in Superseded => pc[t] \in Superseded,
         \A d \in Docs : findings'[d] = findings[d],
         TypeOK, TypeOK'
  PROVE  FindingsInv'
<1>1. \A d \in Docs : findings'[d] \subseteq Tasks
  BY DEF TypeOK, RowsOK
<1>2. FindersRan'
  BY <1>1 DEF FindingsInv, FindersRan
<1>3. CleanSlate'
  <2> SUFFICES ASSUME NEW u \in Tasks, IsProcess(u)', pc'[u] \in Superseded, Doc(u)' \notin trespassed'
               PROVE  \A v \in findings'[Doc(u)'] : ~IsProcess(v)'
    BY DEF CleanSlate, Superseded
  <2>1. IsProcess(u) /\ pc[u] \in Superseded /\ Doc(u)' = Doc(u) /\ Doc(u) \notin trespassed
    BY DEF IsProcess, Doc
  <2>2. Doc(u) \in Docs
    BY <2>1, DocOfTask DEF Superseded, ClaimedPc
  <2>3. \A v \in findings[Doc(u)] : ~IsProcess(v)
    BY <2>1 DEF FindingsInv, CleanSlate, Superseded
  <2> QED BY <1>1, <2>1, <2>2, <2>3 DEF IsProcess
<1>4. FindingsOfOneFullRun'
  BY <1>1 DEF FindingsInv, FindingsOfOneFullRun, IsProcess
<1> QED BY <1>2, <1>3, <1>4 DEF FindingsInv

LEMMA SupersedeKeepsFindingsInv ==
  ASSUME TypeOK, FindingsInv, NEW t \in Tasks, ReadAndSupersede(t)
  PROVE  FindingsInv'
<1>1. /\ UNCHANGED <<job, trespassed>>
      /\ pc' = [pc EXCEPT ![t] = "classify"]
      /\ findings' = [findings EXCEPT ![Doc(t)] = {}]
  BY DEF ReadAndSupersede, Continue, Goto, history
<1>2. \A d \in Docs : findings'[d] \subseteq findings[d]
  BY <1>1 DEF TypeOK, RowsOK
<1>3. FindersRan'
  BY <1>1, <1>2 DEF FindingsInv, FindersRan, TypeOK, RowsOK, TasksOK
<1>4. CleanSlate'
  <2> SUFFICES ASSUME NEW u \in Tasks, IsProcess(u), pc'[u] \in Superseded, Doc(u) \notin trespassed
               PROVE  \A v \in findings'[Doc(u)] : ~IsProcess(v)
    BY <1>1 DEF CleanSlate, Superseded, IsProcess, Doc
  <2>1. pc[u] # "unused"
    BY <1>1 DEF ReadAndSupersede, TypeOK, TasksOK, Superseded, ClaimedPc
  <2>2. Doc(u) \in Docs
    BY <2>1, DocOfTask
  <2>3. CASE u = t
    BY <1>1, <2>2, <2>3 DEF TypeOK, RowsOK
  <2>4. CASE u # t
    BY <1>1, <1>2, <2>2, <2>4 DEF FindingsInv, CleanSlate, Superseded, TypeOK, TasksOK
  <2> QED BY <2>3, <2>4
<1>5. FindingsOfOneFullRun'
  BY <1>1, <1>2 DEF FindingsInv, FindingsOfOneFullRun, IsProcess
<1> QED BY <1>3, <1>4, <1>5 DEF FindingsInv

(* A run records its findings as it gives its document up.                 *)
LEMMA FinderKeepsFindingsInv ==
  ASSUME TypeOK, ClaimInv, FindingsInv, NEW t \in Tasks,
         Tier3(t) \/ FinishExtraction(t) \/ FailHalfDone(t)
  PROVE  FindingsInv'
<1> DEFINE d == Doc(t)
<1>1. /\ pc[t] \in Superseded
      /\ UNCHANGED <<job, trespassed>>
      /\ \E label \in {"needs", "ended"} : pc' = [pc EXCEPT ![t] = label]
  BY DEF Tier3, FinishExtraction, FailHalfDone, Leave, Release, Goto, Superseded, ClaimedPc, history
<1>2. PICK found \in SUBSET {t} : findings' = [findings EXCEPT ![d] = @ \cup found]
  BY DEF Tier3, FinishExtraction, FailHalfDone
<1>3. d \in Docs /\ owns[t]
  BY <1>1, DocOfTask DEF ClaimInv, OwnersWork, Working, Superseded, ClaimedPc
<1>4. /\ findings'[d] \subseteq findings[d] \cup {t}
      /\ \A e \in Docs \ {d} : findings'[e] = findings[e]
      /\ pc'[t] \notin Superseded /\ pc'[t] # "unused"
      /\ \A u \in Tasks \ {t} : pc'[u] = pc[u]
  BY <1>1, <1>2, <1>3 DEF TypeOK, RowsOK, TasksOK, Superseded, ClaimedPc
<1>5. FindersRan'
  BY <1>4 DEF FindingsInv, FindersRan, TypeOK, RowsOK
<1>6. CleanSlate'
  <2> SUFFICES ASSUME NEW u \in Tasks, IsProcess(u), pc'[u] \in Superseded, Doc(u) \notin trespassed
               PROVE  \A v \in findings'[Doc(u)] : ~IsProcess(v)
    BY <1>1 DEF CleanSlate, Superseded, IsProcess, Doc
  <2>1. u # t /\ pc[u] \in Superseded
    BY <1>4
  <2>2. owns[u] /\ Doc(u) \in Docs
    BY <2>1, DocOfTask DEF ClaimInv, OwnersWork, Working, Superseded, ClaimedPc
  <2>3. Doc(u) # d
    BY <1>3, <2>1, <2>2, TwoOwners
  <2> QED BY <1>4, <2>1, <2>2, <2>3 DEF FindingsInv, CleanSlate, Superseded
<1>7. FindingsOfOneFullRun'
  <2> SUFFICES ASSUME NEW u \in Tasks, NEW v \in Tasks, u # v, NEW e \in Docs,
                      {u, v} \subseteq findings'[e], IsProcess(u), IsProcess(v), e \notin trespassed
               PROVE  FALSE
    BY <1>1 DEF FindingsOfOneFullRun, IsProcess
  <2>1. CASE {u, v} \subseteq findings[e]
    BY <2>1 DEF FindingsInv, FindingsOfOneFullRun
  <2>2. CASE ~({u, v} \subseteq findings[e])
    <3>1. e = d /\ t \in {u, v}
      BY <1>4, <2>2
    <3>2. IsProcess(t) /\ \A w \in findings[d] : ~IsProcess(w)
      BY <1>1, <3>1 DEF FindingsInv, CleanSlate, Superseded
    <3> QED BY <1>4, <3>1, <3>2
  <2> QED BY <2>1, <2>2
<1> QED BY <1>5, <1>6, <1>7 DEF FindingsInv

LEMMA TaskKeepsFindingsInv ==
  ASSUME TypeOK, TypeOK', ClaimInv, FindingsInv, NEW t \in Tasks, Progress(t) \/ Fault(t)
  PROVE  FindingsInv'
<1> USE DEF Goto, Leave, Release, Continue, Superseded, ClaimedPc, rowVars, history
<1>0. pc \in [Tasks -> Pcs]
  BY DEF TypeOK, TasksOK
<1>1. CASE \/ Load(t) \/ Claim(t) \/ EnqueueNeeds(t) \/ SoftTimeLimit(t) \/ GiveUp(t) \/ Kill(t)
           \/ PipelineError(t)
  <2>1. /\ \A u \in Tasks \ {t} : pc'[u] = pc[u]
        /\ pc'[t] \in {"ended", "loaded", "read", "exhausted", "failing"}
        /\ UNCHANGED <<job, findings, trespassed>>
    BY <1>0, <1>1 DEF Load, Claim, EnqueueNeeds, SoftTimeLimit, GiveUp, Kill, PipelineError
  <2> QED BY <2>1, StepOfBystander
<1>2. CASE \/ ClassifyInfraFailure(t) \/ Classify(t) \/ StartExtraction(t) \/ ExtractThrottled(t)
           \/ SelectCurrent(t) \/ InsertVersion(t)
  <2>1. /\ \A u \in Tasks \ {t} : pc'[u] = pc[u]
        /\ pc[t] \in Superseded /\ pc'[t] # "unused"
        /\ UNCHANGED <<job, findings, trespassed>>
    BY <1>0, <1>2 DEF ClassifyInfraFailure, Classify, StartExtraction, ExtractThrottled,
                      SelectCurrent, InsertVersion
  <2> QED BY <2>1, StepOfBystander
<1>3. CASE Refresh(t)
  <2>1. /\ \A u \in Tasks \ {t} : pc'[u] = pc[u]
        /\ ~IsProcess(t) /\ pc'[t] # "unused"
        /\ UNCHANGED <<job, findings, trespassed>>
    BY <1>0, <1>3 DEF Refresh
  <2> QED BY <2>1, StepOfBystander
<1>4. CASE MarkFailed(t) \/ MarkExhausted(t)
  <2>1. /\ pc' = [pc EXCEPT ![t] = "ended"]
        /\ UNCHANGED <<job, findings>>
        /\ trespassed \subseteq trespassed'
    BY <1>4 DEF MarkFailed, MarkExhausted, Trespass
  <2> QED BY <1>0, <2>1, StepOfBystander
<1>5. CASE TransientError(t)
  <2>1. /\ pc' = [pc EXCEPT ![t] = "queued"]
        /\ UNCHANGED <<findings, trespassed>>
    BY <1>5 DEF TransientError
  <2>2. \A u \in Tasks : job'[u].doc = job[u].doc /\ job'[u].kind = job[u].kind
    BY <1>5 DEF TransientError, TypeOK, TasksOK, Jobs
  <2> QED BY <1>0, <2>1, <2>2, StepOfBystander
<1>6. CASE ReadAndSupersede(t)
  BY <1>6, SupersedeKeepsFindingsInv
<1>7. CASE Tier3(t) \/ FinishExtraction(t) \/ FailHalfDone(t)
  BY <1>7, FinderKeepsFindingsInv
<1> QED BY <1>1, <1>2, <1>3, <1>4, <1>5, <1>6, <1>7 DEF Progress, Fault

-----------------------------------------------------------------------------
(* The requests.                                                           *)

LEMMA RequestLeavesFindings ==
  ASSUME NEW q \in Requests, Handle(q)
  PROVE  findings' = findings
<1> USE DEF rowVars
<1>1. CASE AdmitBulk(q) \/ CommitReprocess(q) \/ CommitOverride(q) \/ Finish(q) \/ Abort(q)
  BY <1>1 DEF AdmitBulk, CommitReprocess, CommitOverride, Finish, Abort, Admit
<1>2. CASE \E d \in Docs : \/ AdmitReprocess(q, d) \/ AdmitOverride(q, d) \/ AdmitReplace(q, d)
                          \/ Upload(q, d) \/ CommitReplace(q, d) \/ Delete(q, d)
                          \/ ResolveStaleness(q, d) \/ EnqueueFails(q, d)
  BY <1>2 DEF AdmitReprocess, AdmitOverride, AdmitReplace, Upload, CommitReplace, Delete,
              ResolveStaleness, EnqueueFails, Admit
<1>3. CASE \E d \in Docs, t \in Tasks : Enqueue(q, d, t)
  BY <1>3 DEF Enqueue
<1> QED BY <1>1, <1>2, <1>3 DEF Handle

LEMMA RequestKeepsFindingsInv ==
  ASSUME TypeOK, TypeOK', FindingsInv, NEW q \in Requests, Handle(q)
  PROVE  FindingsInv'
<1>1. findings' = findings /\ trespassed \subseteq trespassed'
  BY RequestLeavesFindings, RequestLeavesTasks
<1>2. CASE UNCHANGED <<pc, job>>
  <2> SUFFICES FindersRan' /\ CleanSlate' /\ FindingsOfOneFullRun'
    BY DEF FindingsInv
  <2> QED BY <1>1, <1>2 DEF FindingsInv, FindersRan, CleanSlate, FindingsOfOneFullRun, IsProcess, Doc
<1>3. CASE \E t \in Tasks, d \in Docs, kind \in {"process", "reprocess"} : Put(t, d, kind)
  <2>1. PICK t \in Tasks, d \in Docs, kind \in {"process", "reprocess"} : Put(t, d, kind)
    BY <1>3
  <2>2. /\ pc[t] = "unused" /\ pc'[t] = "queued"
        /\ \A u \in Tasks \ {t} : pc'[u] = pc[u] /\ job'[u] = job[u]
    BY <2>1 DEF Put, TypeOK, TasksOK
  <2>3. \A e \in Docs : t \notin findings[e] /\ findings[e] \subseteq Tasks
    BY <2>2 DEF FindingsInv, FindersRan, TypeOK, RowsOK
  <2>4. FindersRan' /\ FindingsOfOneFullRun'
    BY <1>1, <2>2, <2>3 DEF FindingsInv, FindersRan, FindingsOfOneFullRun, IsProcess
  <2>5. CleanSlate'
    <3> SUFFICES ASSUME NEW u \in Tasks, IsProcess(u)', pc'[u] \in Superseded, Doc(u)' \notin trespassed'
                 PROVE  \A v \in findings'[Doc(u)'] : ~IsProcess(v)'
      BY DEF CleanSlate, Superseded
    <3>1. u # t /\ pc[u] \in Superseded /\ IsProcess(u) /\ Doc(u)' = Doc(u)
      BY <2>2 DEF Superseded, ClaimedPc, IsProcess, Doc
    <3>2. Doc(u) \in Docs
      BY <3>1, DocOfTask DEF Superseded, ClaimedPc
    <3>3. \A v \in findings[Doc(u)] : ~IsProcess(v)
      BY <1>1, <3>1 DEF FindingsInv, CleanSlate, Superseded
    <3> QED BY <1>1, <2>2, <2>3, <3>1, <3>2, <3>3 DEF IsProcess
  <2> QED BY <2>4, <2>5 DEF FindingsInv
<1> QED BY <1>2, <1>3, RequestLeavesTasks

-----------------------------------------------------------------------------
(* The whole specification.                                                *)

LEMMA StepFindingsInv ==
  ASSUME TypeOK, TypeOK', ClaimInv, FindingsInv, [Next]_vars
  PROVE  FindingsInv'
<1>1. CASE Tick \/ UNCHANGED vars
  <2>1. UNCHANGED <<pc, job, findings, trespassed>>
    BY <1>1 DEF Tick, vars, rowVars, taskVars, history
  <2> QED BY <2>1 DEF FindingsInv, FindersRan, CleanSlate, FindingsOfOneFullRun, IsProcess, Doc
<1> QED BY <1>1, TaskKeepsFindingsInv, RequestKeepsFindingsInv DEF Next, Rest

(* However often a document is reprocessed, its OPEN findings are those of *)
(* one full run (and of re-extractions after it), but for a blind          *)
(* overwrite of its status.                                                *)
THEOREM OneRunsFindings == Spec => []FindingsOfOneFullRun
<1>1. Init => FindingsInv
  BY DEF Init, FindingsInv, FindersRan, CleanSlate, FindingsOfOneFullRun, ClaimedPc
<1>2. TypeOK /\ TypeOK' /\ ClaimInv /\ FindingsInv /\ [Next]_vars => FindingsInv'
  BY StepFindingsInv
<1>3. FindingsInv => FindingsOfOneFullRun
  BY DEF FindingsInv
<1> QED BY <1>1, <1>2, <1>3, TypeCorrect, ClaimHolds, PTL DEF Spec
=============================================================================
