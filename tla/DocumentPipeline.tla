-------------------------- MODULE DocumentPipeline --------------------------
(***************************************************************************)
(* The document pipeline: API handlers and Celery tasks interleaved over   *)
(* the same rows, with broker failures, transient errors, time limits and  *)
(* killed processes.                                                       *)
(***************************************************************************)
EXTENDS DocumentWorker, DocumentApi

(* A document processed earlier: completed, and extracted if its type has  *)
(* an extractor.                                                           *)
ProcessedRow(d, type) == [NewRow(d) EXCEPT !.type = type]
ProcessedExt(type) ==
  IF HasExtractor(type) THEN [latest |-> 1, current |-> {1}, schema |-> type]
                        ELSE NoExtraction

Init ==
  /\ status = [d \in Docs |-> IF d \in Processed THEN "COMPLETED" ELSE "ABSENT"]
  /\ age = [d \in Docs |-> 0]
  /\ \E type \in [Processed -> Types] :
       /\ row = [d \in Docs |-> IF d \in Processed THEN ProcessedRow(d, type[d]) ELSE NewRow(d)]
       /\ ext = [d \in Docs |-> IF d \in Processed THEN ProcessedExt(type[d]) ELSE NoExtraction]
  /\ findings = [d \in Docs |-> {}]
  /\ stale = FALSE
  /\ pc = [t \in Tasks |-> "unused"]
  /\ job = [t \in Tasks |-> NoJob]
  /\ elapsed = [t \in Tasks |-> 0]
  /\ mem = [t \in Tasks |-> NoMem]
  /\ owns = [t \in Tasks |-> FALSE]
  /\ req = [q \in Requests |-> NoReq]
  /\ needsDue = {}
  /\ trespassed = {}
  /\ orphaned = {}
  /\ dropped = {}
  /\ humanType = [d \in Docs |-> None]

(* Nothing is running and no request is half done: the system may rest.    *)
Rest ==
  /\ \A t \in Tasks : pc[t] \in {"unused", "ended"}
  /\ \A q \in Requests : req[q].pc \in {"idle", "done"}
  /\ UNCHANGED vars

Next ==
  \/ \E q \in Requests : Handle(q)
  \/ \E t \in Tasks : Progress(t) \/ Fault(t)
  \/ Tick
  \/ Rest

Spec == Init /\ [][Next]_vars

(* Workers keep taking and advancing tasks, the hard limit is enforced and *)
(* clocks run.  Users owe nothing.                                         *)
Fairness ==
  /\ \A t \in Tasks : WF_vars(Progress(t))
  /\ \A t \in Tasks : WF_vars(elapsed[t] >= HardLimit /\ Kill(t))
  /\ WF_vars(Tick)

FairSpec == Spec /\ Fairness

-----------------------------------------------------------------------------
(* Safety.                                                                 *)

Rows == [type : Types \cup {None}, certain : BOOLEAN, error : Errors, active : BOOLEAN,
         isCurrent : BOOLEAN, group : Docs, version : Nat]
Exts == [latest : Nat, current : SUBSET Nat, schema : Types \cup {None}]
Jobs == [doc : Docs \cup {None}, kind : {"none", "process", "reprocess"}, retries : Nat]
Mems == [type : Types \cup {None}, certain : BOOLEAN, review : BOOLEAN,
         saw : Nat, number : Nat, result : Results]
Seens == [status : Statuses, type : Types \cup {None}, certain : BOOLEAN, error : Errors]
Reqs == [pc : ReqPcs, kind : ReqKinds, targets : SUBSET Docs, refused : SUBSET Docs,
         type : Types \cup {None}, seen : [Docs -> Seens]]

RowsOK ==
  /\ status \in [Docs -> Statuses]
  /\ age \in [Docs -> Nat]
  /\ row \in [Docs -> Rows]
  /\ ext \in [Docs -> Exts]
  /\ findings \in [Docs -> SUBSET Tasks]
  /\ stale \in BOOLEAN

TasksOK ==
  /\ pc \in [Tasks -> Pcs]
  /\ job \in [Tasks -> Jobs]
  /\ \A t \in Tasks : pc[t] # "unused" => job[t].doc \in Docs
  /\ elapsed \in [Tasks -> Nat]
  /\ mem \in [Tasks -> Mems]
  /\ owns \in [Tasks -> BOOLEAN]

RequestsOK == req \in [Requests -> Reqs]

HistoryOK ==
  /\ needsDue \subseteq Docs
  /\ trespassed \cup orphaned \cup dropped \subseteq Docs
  /\ humanType \in [Docs -> Types \cup {None}]

(* The type invariant.                                                     *)
TypeOK == RowsOK /\ TasksOK /\ RequestsOK /\ HistoryOK

(* _claim_for_processing gives each document at most one live run.  What   *)
(* can still break that is a status overwritten blindly: a request that    *)
(* commits PENDING, or restores a status, over the claim of a run it never *)
(* saw, or the failure marker of a task that never claimed.                *)
ExclusiveUnlessTrespassed ==
  \A t, u \in Tasks, d \in Docs :
    Holds(t, d) /\ Holds(u, d) /\ t # u => d \in trespassed

(* The claim takes over an abandoned row, never one a live run still has   *)
(* in flight: the hard limit kills the run before the row looks abandoned. *)
ClaimNeverStealsLiveRun ==
  [][\A t, u \in Tasks :
       ~owns[t] /\ owns'[t] /\ t # u /\ Holds(u, Doc(t))
         => status[Doc(t)] \notin InFlight]_vars

(* A run loses the race for UNIQUE (document_id) WHERE is_current, and so  *)
(* ends FAILED next to another run's extraction, only on a document whose  *)
(* status was overwritten blindly.                                         *)
NoConflictUnlessTrespassed ==
  \A t \in Tasks : pc[t] = "conflict" => Doc(t) \in trespassed

(* However the runs interleave, fail or are killed, a document's           *)
(* extractions are the log ExtractionLog describes.                        *)
Log == INSTANCE ExtractionLog WITH
         latest  <- [d \in Docs |-> ext[d].latest],
         current <- [d \in Docs |-> ext[d].current]

ImplementsLog == Log!Spec

(* The inductive invariants behind the four properties above: a working    *)
(* task owns its document, no task outlives the hard limit, an owned row   *)
(* is no older than its owner and, unless overwritten, in flight           *)
(* (DocumentClaim_proofs); the current extraction is the newest, and the   *)
(* task about to commit one is alone and demotes it (DocumentLog_proofs).  *)
Working == ClaimedPc \cup {"failing", "conflict"}

OwnersWork ==
  \A t \in Tasks : /\ pc[t] \in Working => owns[t]
                   /\ owns[t] => pc[t] \in Working \cup {"exhausted"}
WithinHardLimit == \A t \in Tasks : elapsed[t] <= HardLimit
OwnedRowIsYoung == \A t \in Tasks : owns[t] => age[Doc(t)] <= elapsed[t]
OwnedRowInFlight ==
  \A t \in Tasks : owns[t] /\ Doc(t) \notin trespassed => status[Doc(t)] \in InFlight
ClaimInv ==
  /\ OwnersWork /\ WithinHardLimit /\ OwnedRowIsYoung /\ OwnedRowInFlight
  /\ ExclusiveUnlessTrespassed

CurrentIsLatest ==
  \A d \in Docs : ext[d].current = IF ext[d].latest = 0 THEN {} ELSE {ext[d].latest}
CommitterKnows ==
  \A t \in Tasks : pc[t] = "commit" =>
    ext[Doc(t)].current \subseteq {mem[t].saw} /\ mem[t].number = ext[Doc(t)].latest + 1
OneCommitter ==
  \A t, u \in Tasks : pc[t] = "commit" /\ pc[u] = "commit" /\ Doc(t) = Doc(u) => t = u
LogInv == CurrentIsLatest /\ CommitterKnows /\ OneCommitter

InserterKnows ==
  \A t \in Tasks : pc[t] = "insert" /\ Doc(t) \notin trespassed
                     => ext[Doc(t)].current \subseteq {mem[t].saw}
ConflictInv == InserterKnows /\ NoConflictUnlessTrespassed

(* Superseding before classification leaves the OPEN findings of one full  *)
(* run: reprocessing never doubles them.                                   *)
FindingsOfOneFullRun ==
  \A t, u \in Tasks, d \in Docs :
    {t, u} \subseteq findings[d] /\ IsProcess(t) /\ IsProcess(u) /\ t # u
      => d \in trespassed

(* Its inductive invariant: a full run at work has emptied the slate, and  *)
(* alone holds the document (DocumentClaim_proofs).                        *)
CleanSlate ==
  \A t \in Tasks :
    IsProcess(t) /\ pc[t] \in ClaimedPc \ {"read"} /\ Doc(t) \notin trespassed
      => \A u \in findings[Doc(t)] : ~IsProcess(u)
FindersRan == \A d \in Docs : \A u \in findings[d] : pc[u] # "unused"
FindingsInv == FindersRan /\ CleanSlate /\ FindingsOfOneFullRun

(* A document someone once read is parked at PENDING with a task behind it *)
(* that will read it, or a request that has yet to enqueue it or put it    *)
(* back.  Three things can leave it with nobody, until it is enqueued      *)
(* again: a process that died, or had no database to mark it in; a task    *)
(* that gave up on a transient error; a person's override, which may lose  *)
(* its task.                                                               *)
Awaited(d) ==
  \/ \E t \in Tasks : job[t].doc = d /\ pc[t] \in {"queued"} \cup Running
  \/ \E q \in Requests :
       /\ req[q].pc = "committed" /\ req[q].kind = "reprocess"
       /\ d \in req[q].targets \cup req[q].refused

Parked(d) ==
  /\ Exists(d) /\ status[d] = "PENDING" /\ row[d].type # None
  /\ humanType[d] = None /\ d \notin orphaned \cup dropped

PendingIsAwaited == \A d \in Docs : Parked(d) => Awaited(d)

(* Its inductive invariant: who is behind such a document will write its   *)
(* status.  A request that found the document PENDING does not, and a task *)
(* that only has its needs update to send does not (this and the next are  *)
(* proved in DocumentRequests_proofs).                                     *)
Busy == ({"queued"} \cup Running) \ {"needs"}
Expected(d) ==
  \/ \E t \in Tasks : job[t].doc = d /\ pc[t] \in Busy
  \/ \E q \in Requests :
       /\ req[q].pc = "committed" /\ req[q].kind = "reprocess"
       /\ d \in req[q].targets \cup req[q].refused
       /\ req[q].seen[d].status # "PENDING"
OverridesName ==
  \A q \in Requests :
    req[q].pc = "admitted" /\ req[q].kind = "override" => req[q].type # None
PendingInv == OverridesName /\ \A d \in Docs : Parked(d) => Expected(d)

(* A version group forks into two current documents only when a replace    *)
(* commits on a document that was superseded after it was admitted.        *)
CurrentInGroup(g) == {d \in Docs : Exists(d) /\ row[d].isCurrent /\ row[d].group = g}
Forked(g) == \E d, e \in CurrentInGroup(g) : d # e

ForkNeedsStaleReplace ==
  [][\A g \in Docs :
       ~Forked(g) /\ Forked(g)'
         => \E q \in Requests :
              /\ req[q].pc = "admitted" /\ req[q].kind = "replace"
              /\ \E d \in req[q].targets : ~(Exists(d) /\ row[d].isCurrent)]_vars

(* Its inductive invariant: whatever a group is named after, a request is  *)
(* about to write or a task works on, was uploaded.                        *)
GroupsExist == \A d \in Docs : status[d] # "ABSENT" => status[row[d].group] # "ABSENT"
TargetsExist ==
  \A q \in Requests : \A d \in req[q].targets \cup req[q].refused :
    /\ status[d] # "ABSENT"
    /\ req[q].kind = "reprocess" \/ d \in req[q].refused => req[q].seen[d].status # "ABSENT"
JobsExist == \A t \in Tasks : pc[t] # "unused" => status[job[t].doc] # "ABSENT"
GroupInv == GroupsExist /\ TargetsExist /\ JobsExist

-----------------------------------------------------------------------------
(* Liveness.                                                               *)

(* "Every handled path reaches a terminal status": a live run settles its  *)
(* document, unless its process dies, or it is a re-extraction that meets  *)
(* a transient error after its claim: its retry finds the claim taken, or  *)
(* there is no retry.                                                      *)
GaveClaimAway(d) ==
  \E t \in Tasks : job[t].doc = d /\ job[t].kind = "reprocess" /\ job[t].retries > 0

StartedRunSettles ==
  \A d \in Docs :
    status[d] \in InFlight /\ Held(d)
      ~> status[d] \notin InFlight \/ d \in orphaned \cup dropped \/ GaveClaimAway(d)

(* A document is never in flight for good: it settles, or its claim        *)
(* expires and the API accepts it again.                                   *)
NeverStuckInFlight ==
  \A d \in Docs : PipelineInFlight(d) ~> ~PipelineInFlight(d)

-----------------------------------------------------------------------------
(* What the source says of itself and the code does not keep.              *)

(* "Take exclusive ownership of a document's pipeline run, atomically."    *)
ClaimIsExclusive ==
  \A t, u \in Tasks, d \in Docs : Holds(t, d) /\ Holds(u, d) => t = u

(* "On exhaustion - set a visible terminal-failed state (never a silent    *)
(* permanent pending)": a task that gives up leaves no document PENDING    *)
(* with nobody behind it.                                                  *)
NeverSilentlyPending ==
  \A d \in Docs :
    Exists(d) /\ status[d] = "PENDING" /\ d \in dropped => Awaited(d)

(* "This PATCH sets the authoritative type": until a reprocess is accepted *)
(* the document keeps the type the person gave it.                         *)
HumanTypeIsAuthoritative ==
  \A d \in Docs : humanType[d] # None => row[d].type = humanType[d]

(* "It ... cleared": a document that failed, was reprocessed and then       *)
(* succeeded does not reach COMPLETED still carrying the error of a run     *)
(* that no longer exists.                                                  *)
CompletedCarriesNoError ==
  \A d \in Docs :
    status[d] = "COMPLETED" /\ d \notin trespassed => row[d].error = "none"

(* "Tier 1 with a registered extractor -> the EXTRACTORS registry": a      *)
(* completed document no person has retyped, and whose type has an         *)
(* extractor, was last read by that extractor.                             *)
CompletedWasRead ==
  \A d \in Docs :
    /\ status[d] = "COMPLETED" /\ row[d].type \in ExtractorTypes
    /\ humanType[d] = None /\ d \notin trespassed
    => ext[d].schema = row[d].type
============================================================================
