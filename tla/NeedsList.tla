----------------------------- MODULE NeedsList -----------------------------
(***************************************************************************)
(* The needs list of one loan file and everyone who writes it: the tasks   *)
(* needs.update_for_document and needs.propose_ai_needs, the needs sync of *)
(* a verification run, and the API requests of processors, over documents  *)
(* that settle, are read again, replaced and deleted.                      *)
(*                                                                         *)
(* A process reads the list, decides, flushes its UPDATEs (which takes the *)
(* row locks, waiting for another process's) and commits.  It writes the   *)
(* columns that differ from what it read: READ COMMITTED, with the ORM's   *)
(* change detection.  The tasks and the sync also take a Redis lock on the *)
(* file; requests do not.                                                  *)
(***************************************************************************)
EXTENDS NeedsEngine, Functions

CONSTANTS
  Passes,      \* needs tasks and needs syncs
  Requests     \* API requests

ASSUME ProcsAssumption == Passes \cap Requests = {} /\ None \notin Passes \cup Requests

Procs == Passes \cup Requests

VARIABLES
  need,      \* the needs_items rows
  doc,       \* the documents, as far as needs depend on them
  due,       \* documents with an update message in the broker
  pc,        \* where each process is
  job,       \* what each process does, to which document, and the need an
             \* update rejects
  saw,       \* the rows as a process loaded them
  out,       \* the rows as it wants them
  lock,      \* holder of needs-lock:<file>, or None
  unlocked,  \* history: passes that go on without the lock: they never had it,
             \* outlived it, or freed it before committing
  raced,     \* history: how those stood who committed since a process read
  outdated,  \* history: processes since whose reading a document changed
  lapsed     \* history: superseded documents that came to answer a need

pipeline == <<doc, due>>
locking  == <<lock, unlocked>>
vars     == <<need, pipeline, pc, job, saw, out, locking, raced, outdated, lapsed>>

Blank   == [n \in Needs |-> NoNeed]
NoJob   == [kind |-> "none", doc |-> None, rejects |-> None]
NoDoc   == [status |-> "ABSENT", type |-> None, active |-> FALSE, current |-> TRUE, full |-> TRUE]
NewDoc  == [NoDoc EXCEPT !.status = "RUNNING", !.active = TRUE]
Readers == {p \in Procs : pc[p] \in {"planned", "held", "proposed"}}

Goto(p, label) == pc' = [pc EXCEPT ![p] = label]

(* What p's session takes a row to be stored as.  A need that an update    *)
(* rejects was flushed as RECEIVED first.                                  *)
Known(p, n) == IF n = job[p].rejects THEN [saw[p][n] EXCEPT !.status = "RECEIVED"] ELSE saw[p][n]
Changed(p)  == {n \in Needs : out[p][n] # Known(p, n)}

(* A pass in the stretch the lock is there to serialize.  The sync leaves  *)
(* the lock when its savepoint closes, long before its run commits.        *)
Inside(p) == \/ pc[p] \in {"inside", "planned", "proposed"}
             \/ pc[p] = "held" /\ job[p].kind # "verify"

Free == {n \in Needs : need[n] = NoNeed /\ \A p \in Procs : out[p][n] = NoNeed}
Slots(asks) == UNION {Bijection(rows, asks) : rows \in SUBSET Free}

-----------------------------------------------------------------------------
(* The document pipeline, as the needs list sees it.                       *)

(* A document row changed under those who read it.                         *)
DocumentsMove ==
  /\ outdated' = outdated \cup Readers
  /\ UNCHANGED <<need, job, saw, out, locking, raced, lapsed>>

\* Mutant: the message carries the type in place of the document.
SettleSendsType(d) ==
  /\ doc[d].status = "RUNNING"
  /\ \E status \in {"COMPLETED", "NEEDS_REVIEW"}, type \in Types :
       /\ doc' = [doc EXCEPT ![d].status = status, ![d].type = type]
       /\ due' = due \cup {type}
  /\ DocumentsMove
  /\ UNCHANGED pc

(* A run ends: COMPLETED, or NEEDS_REVIEW (which stands for FAILED too).   *)
(* A full run gives the type and enqueues the needs update, unless the     *)
(* label is not trusted, the extraction was throttled or the broker        *)
(* refuses; a re-extraction keeps the type and enqueues nothing.           *)
Settle(d) ==
  /\ doc[d].status = "RUNNING"
  /\ \E status \in {"COMPLETED", "NEEDS_REVIEW"},
        type \in IF doc[d].full THEN Types ELSE {doc[d].type} :
       doc' = [doc EXCEPT ![d].status = status, ![d].type = type, ![d].full = TRUE]
  /\ due' \in {due, IF doc[d].full THEN due \cup {d} ELSE due}
  /\ DocumentsMove
  /\ UNCHANGED pc

(* A request on a document, in one step as far as needs are concerned.     *)
(* Reprocess reads it again in full.                                       *)
Reprocess(q, d) ==
  /\ doc[d].status \in {"COMPLETED", "NEEDS_REVIEW"} /\ doc[d].active /\ doc[d].current
  /\ doc' = [doc EXCEPT ![d].status = "RUNNING"]

(* A type override; its re-extraction does not classify.                   *)
OverrideType(q, d) ==
  /\ doc[d].status \in {"COMPLETED", "NEEDS_REVIEW"} /\ doc[d].active
  /\ \E type \in Types :
       doc' = [doc EXCEPT ![d].status = "RUNNING", ![d].full = FALSE, ![d].type = type]

Delete(q, d) ==
  /\ doc[d].active
  /\ doc' = [doc EXCEPT ![d].active = FALSE]

TouchDocument(q) ==
  /\ pc[q] = "unused"
  /\ \E d \in Docs : Reprocess(q, d) \/ OverrideType(q, d) \/ Delete(q, d)
  /\ Goto(q, "ended")
  /\ DocumentsMove
  /\ UNCHANGED due

-----------------------------------------------------------------------------
(* Reading, flushing, committing.                                          *)

Emit(stored, loaded, new) ==
  [f \in DOMAIN stored |-> IF new[f] = loaded[f] THEN stored[f] ELSE new[f]]

(* The row locks of the processes that have flushed and not committed.     *)
Locked(p, n) ==
  \E q \in Procs \ {p} : pc[q] \in {"held", "proposed"} /\ n \in Changed(q)

Plan(p, N) ==
  /\ saw' = [saw EXCEPT ![p] = need]
  /\ out' = [out EXCEPT ![p] = N]

Forget(p) ==
  /\ saw' = [saw EXCEPT ![p] = Blank]
  /\ out' = [out EXCEPT ![p] = Blank]
  /\ raced' = [raced EXCEPT ![p] = {}]
  /\ outdated' = outdated \ {p}

End(p, label) ==
  /\ Goto(p, label)
  /\ job' = [job EXCEPT ![p] = NoJob]
  /\ unlocked' = unlocked \ {p}

(* The rows p has flushed as it flushed them, the others as they are now.  *)
Current(p) == [n \in Needs |-> IF n \in Changed(p) THEN out[p][n] ELSE need[n]]

Linking(p) == {out[p][n].doc : n \in {m \in Needs : out[p][m].doc # saw[p][m].doc}} \ {None}

Standing(p) == IF p \in Requests THEN "request"
               ELSE IF p \in unlocked THEN "unlocked" ELSE "locked"

(* p's changes become the stored rows, and p is done with them.            *)
Commit(p) ==
  /\ need' = [n \in Needs |-> Emit(need[n], Known(p, n), out[p][n])]
  /\ saw' = [saw EXCEPT ![p] = Blank]
  /\ out' = [out EXCEPT ![p] = Blank]
  /\ End(p, "committed")
  /\ raced' = [q \in Procs |-> IF q = p THEN {}
                ELSE IF q \in Readers /\ Changed(p) # {} THEN raced[q] \cup {Standing(p)}
                ELSE raced[q]]

\* Mutant: whoever leaves frees the lock.
ReleaseAnyones(p) == lock' = None

(* lock.release() fails, and the failure is swallowed, for one who no      *)
(* longer holds the lock.                                                  *)
Release(p) == lock' = IF lock = p THEN None ELSE lock

-----------------------------------------------------------------------------
(* The passes.                                                             *)

(* loan_file_needs_lock: the lock, or after blocking_timeout no lock.      *)
Enter(p) ==
  /\ Goto(p, "inside")
  /\ \/ lock = None /\ lock' = p /\ UNCHANGED unlocked
     \/ lock # None /\ unlocked' = unlocked \cup {p} /\ UNCHANGED lock
  /\ UNCHANGED <<need, doc, saw, out, raced, outdated, lapsed>>

Start(p, kind, d) ==
  /\ pc[p] = "unused"
  /\ Enter(p)
  /\ job' = [job EXCEPT ![p] = [kind |-> kind, doc |-> d, rejects |-> None]]

StartUpdate(p)  == \E d \in due : Start(p, "update", d) /\ due' = due \ {d}
StartPropose(p) == Start(p, "propose", None) /\ UNCHANGED due
StartSync(p)    == Start(p, "verify", None) /\ UNCHANGED due

(* Redis drops a lock after 30 s, whatever its holder is doing.            *)
LockExpires ==
  /\ lock # None
  /\ lock' = None
  /\ unlocked' = IF Inside(lock) THEN unlocked \cup {lock} ELSE unlocked
  /\ UNCHANGED <<need, pipeline, pc, job, saw, out, raced, outdated, lapsed>>

(* The deterministic match of an update task; a document gone meanwhile    *)
(* ends it.                                                                *)
Match(p) ==
  LET d == job[p].doc IN
  /\ pc[p] = "inside" /\ job[p].kind = "update"
  /\ IF doc[d].active
       THEN /\ Plan(p, ApplyDocument(need, doc, d))
            /\ job' = [job EXCEPT ![p].rejects =
                         IF doc[d].status = "COMPLETED" THEN None ELSE Reached(need, doc, d)]
            /\ Goto(p, "planned")
            /\ UNCHANGED locking
       ELSE /\ End(p, "ended")
            /\ Release(p)
            /\ UNCHANGED <<saw, out>>
  /\ UNCHANGED <<need, pipeline, raced, outdated, lapsed>>

(* The UPDATE statements.  The sync then closes its savepoint and frees    *)
(* the lock.                                                               *)
Flush(p) ==
  /\ pc[p] = "planned" /\ p \in Passes
  /\ \A n \in Changed(p) : ~Locked(p, n)
  /\ Goto(p, "held")
  /\ IF job[p].kind = "verify"
       THEN Release(p) /\ unlocked' = unlocked \cup {p}
       ELSE UNCHANGED locking
  /\ UNCHANGED <<need, pipeline, job, saw, out, raced, outdated, lapsed>>

(* The AI proposes needs, and duplicates are consolidated.  A proposal the *)
(* list carries under the very same name or title is dropped; under which  *)
(* names and titles it carries a type is not modelled.                     *)
Propose(p) ==
  /\ \/ pc[p] = "held" /\ job[p].kind = "update"
     \/ pc[p] = "inside" /\ job[p].kind = "propose"
  /\ LET N == IF pc[p] = "inside" THEN need ELSE Current(p) IN
     \E rows \in SUBSET Free : \E at \in [rows -> Types \X {None}], losers \in SUBSET Needs :
       LET P == Seed(N, at, "AI", "PROPOSED") IN
       /\ Redundant(P, losers)
       /\ out' = [out EXCEPT ![p] = Consolidate(P, losers)]
       /\ saw' = [saw EXCEPT ![p] =
                    [n \in Needs |-> IF pc[p] = "held" /\ n \in Changed(p)
                                       THEN saw[p][n] ELSE need[n]]]
       /\ \A n \in Needs : out'[p][n] # saw'[p][n] => ~Locked(p, n)
  /\ Goto(p, "proposed")
  /\ UNCHANGED <<need, pipeline, job, locking, raced, outdated, lapsed>>

(* The needs sync of a run: floor, rematch, seeding from findings, repair. *)
(* The findings want documents of types not on file; needs of one type may *)
(* be stored under an alias of it.                                         *)
OnFile == {doc[d].type : d \in {e \in Docs : doc[e].active}}

Sync(p) ==
  /\ pc[p] = "inside" /\ job[p].kind = "verify"
  /\ \E floor \in Slots(FloorLacks(need)), wanted \in SUBSET (Types \ OnFile) :
       LET matched == Rematch(Seed(need, floor, "FLOOR", "CONFIRMED"), doc) IN
       \E at \in Slots(Unasked(matched, wanted) \X {None}), alias \in SUBSET Needs :
         /\ DOMAIN at \cap DOMAIN floor = {}
         /\ Plan(p, Repair(Seed(matched, at, "FINDING", "CONFIRMED"), alias))
  /\ Goto(p, "planned")
  /\ UNCHANGED <<need, pipeline, job, locking, raced, outdated, lapsed>>

(* An update commits inside its lock, a sync whenever its run does.        *)
Finish(p) ==
  /\ pc[p] = IF job[p].kind = "verify" THEN "held" ELSE "proposed"
  /\ p \in Passes
  /\ Commit(p)
  /\ Release(p)
  /\ outdated' = outdated \ {p}
  /\ lapsed' = lapsed \cup {d \in Linking(p) : ~doc[d].current}
  /\ UNCHANGED pipeline

(* An exception: the transaction is rolled back and the lock released.     *)
(* The task is queued again, or gives up, with its retries spent or the    *)
(* retry refused: the model does not count them.                           *)
Fail(p) ==
  /\ pc[p] \in {"inside", "planned", "held", "proposed"} /\ p \in Passes
  /\ \/ /\ End(p, "unused")
        /\ due' = due \cup ({job[p].doc} \ {None})
     \/ /\ End(p, "ended")
        /\ UNCHANGED due
  /\ Release(p)
  /\ Forget(p)
  /\ UNCHANGED <<need, doc, lapsed>>

(* A worker dies: nothing is retried, and its lock stays.                  *)
Kill(p) ==
  /\ pc[p] \in {"inside", "planned", "held", "proposed"} /\ p \in Passes
  /\ End(p, "ended")
  /\ Forget(p)
  /\ UNCHANGED <<need, pipeline, lock, lapsed>>

-----------------------------------------------------------------------------
(* The requests.  Each reads, and commits in a later step.                 *)

Ask(q, kind, d, N) ==
  /\ pc[q] = "unused"
  /\ Goto(q, "planned")
  /\ job' = [job EXCEPT ![q] = [kind |-> kind, doc |-> d, rejects |-> None]]
  /\ Plan(q, N)
  /\ UNCHANGED <<need, pipeline, locking, raced, outdated, lapsed>>

Revise(q, n, row) ==
  /\ need[n].active
  /\ Ask(q, "revise", None, [need EXCEPT ![n] = row])

AddNeed(q) ==
  \E ask \in Types \X (Borrowers \cup {None}), n \in Free :
    /\ \A m \in Free : n <= m
    /\ Ask(q, "revise", None, [need EXCEPT ![n] = NewNeed(ask, "MANUAL", "CONFIRMED")])

ConfirmNeed(q) ==
  \E n \in Needs : Revise(q, n, [need[n] EXCEPT !.disp = "CONFIRMED"])

AdjustNeed(q) ==
  \E n \in Needs, type \in Types :
    Revise(q, n, [need[n] EXCEPT !.type = type, !.disp = "CONFIRMED"])

(* RECEIVED -> VERIFIED; any other state but VERIFIED itself is refused.   *)
ConfirmCoverage(q) ==
  \E n \in Needs :
    Revise(q, n, [need[n] EXCEPT !.status = IF @ = "RECEIVED" THEN "VERIFIED" ELSE @])

(* Waived, or dismissed, which differs in the disposition recorded.        *)
WaiveNeed(q) == \E n \in Needs : Revise(q, n, Waive(need[n]))

\* Mutant: the needs of the old version stay answered.
ReplaceWithoutReopening(q) ==
  \E d \in Docs :
    /\ doc[d].active /\ doc[d].current /\ doc[d].status # "ABSENT"
    /\ \E e \in Docs : doc[e].status = "ABSENT"
    /\ Ask(q, "replace", d, need)

(* supersede_document: the needs its document satisfied are reopened.      *)
Replace(q) ==
  \E d \in Docs :
    /\ doc[d].active /\ doc[d].current /\ doc[d].status # "ABSENT"
    /\ \E e \in Docs : doc[e].status = "ABSENT"
    /\ Ask(q, "replace", d, ReopenSatisfiedBy(need, d))

(* The request's commit.  A replacement arrives with it.                   *)
Answer(q) ==
  LET d == job[q].doc IN
  /\ pc[q] = "planned" /\ q \in Requests
  /\ \A n \in Changed(q) : ~Locked(q, n)
  /\ Commit(q)
  /\ IF job[q].kind = "replace"
       THEN /\ \E e \in Docs :
                 /\ doc[e].status = "ABSENT"
                 /\ doc' = [doc EXCEPT ![d].current = FALSE,
                              ![e] = NewDoc]
            /\ lapsed' = IF raced[q] = {} THEN lapsed ELSE lapsed \cup {d}
            /\ outdated' = (outdated \cup Readers) \ {q}
       ELSE /\ outdated' = outdated \ {q}
            /\ UNCHANGED <<doc, lapsed>>
  /\ UNCHANGED <<due, lock>>

(* The request fails before it commits.                                    *)
Abandon(q) ==
  /\ pc[q] = "planned" /\ q \in Requests
  /\ End(q, "ended")
  /\ Forget(q)
  /\ UNCHANGED <<need, pipeline, lock, lapsed>>

-----------------------------------------------------------------------------

(* A list as earlier versions may have left it, floor needs, two of one    *)
(* type possibly, none of them answered yet; and the documents uploaded so *)
(* far, the others being replacements to come.                             *)
Init ==
  /\ \E ask \in FloorAsks \cup {None} :
       need = [n \in Needs |-> IF ask # None /\ n \in {1, 2}
                                 THEN NewNeed(ask, "FLOOR", "CONFIRMED") ELSE NoNeed]
  /\ \E last \in Docs : doc = [d \in Docs |-> IF d <= last THEN NewDoc ELSE NoDoc]
  /\ due = {}
  /\ pc = [p \in Procs |-> "unused"]
  /\ job = [p \in Procs |-> NoJob]
  /\ saw = [p \in Procs |-> Blank]
  /\ out = [p \in Procs |-> Blank]
  /\ lock = None
  /\ unlocked = {}
  /\ raced = [p \in Procs |-> {}]
  /\ outdated = {}
  /\ lapsed = {}

Pass(p) ==
  \/ StartUpdate(p) \/ StartPropose(p) \/ StartSync(p)
  \/ Match(p) \/ Flush(p) \/ Propose(p) \/ Sync(p) \/ Finish(p) \/ Fail(p) \/ Kill(p)

Request(q) ==
  \/ AddNeed(q) \/ ConfirmNeed(q) \/ AdjustNeed(q) \/ ConfirmCoverage(q)
  \/ WaiveNeed(q) \/ Replace(q)
  \/ TouchDocument(q) \/ Answer(q) \/ Abandon(q)

(* Nobody is half way: the file may rest.                                  *)
Rest ==
  /\ \A p \in Procs : pc[p] \in {"unused", "committed", "ended"}
  /\ UNCHANGED vars

Next ==
  \/ \E d \in Docs : Settle(d)
  \/ \E p \in Passes : Pass(p)
  \/ \E q \in Requests : Request(q)
  \/ LockExpires
  \/ Rest

Spec == Init /\ [][Next]_vars

-----------------------------------------------------------------------------
(* Safety.                                                                 *)

Kinds == {"none", "update", "propose", "verify", "revise", "replace"}

(* The type invariant.                                                     *)
TypeOK ==
  /\ need \in [Needs -> NeedRows]
  /\ doc \in [Docs -> DocRows]
  /\ due \cup lapsed \subseteq Docs
  /\ pc \in [Procs -> {"unused", "inside", "planned", "held", "proposed", "committed", "ended"}]
  /\ job \in [Procs -> [kind : Kinds, doc : Docs \cup {None}, rejects : Needs \cup {None}]]
  /\ saw \in [Procs -> [Needs -> NeedRows]]
  /\ out \in [Procs -> [Needs -> NeedRows]]
  /\ lock \in Passes \cup {None}
  /\ unlocked \subseteq Passes
  /\ raced \in [Procs -> SUBSET {"locked", "unlocked", "request"}]
  /\ outdated \subseteq Procs

Commits(p) == pc[p] # "committed" /\ pc'[p] = "committed"

(* "Serializes needs updates PER FILE": two passes are in the stretch the  *)
(* lock guards only if one of them never got it or outlived it; a pass     *)
(* that leaves never lets a third one in beside a holder.                  *)
SerialUnlessUnlocked ==
  \A p, q \in Passes : Inside(p) /\ Inside(q) /\ p # q => {p, q} \cap unlocked # {}

(* "Duplicate transitions, a lost satisfied_by_document_id": the document  *)
(* that answered a need gives way to another one only if the writer had    *)
(* read the list before that answer was committed, which takes a pass      *)
(* without the lock, or a sync, which frees it before its run commits; or  *)
(* if a request meanwhile made an answer of what the pass read as open.    *)
AnswerLostOnlyToARace ==
  [][\A n \in Needs :
       /\ need[n].active /\ need[n].status \in Answers /\ need[n].doc # None
       /\ need'[n].doc \notin {need[n].doc, None}
       => \E p \in Passes :
            /\ Commits(p)
            /\ \/ /\ raced[p] \ {"request"} # {}
                  /\ p \in unlocked \/ "unlocked" \in raced[p]
               \/ /\ "request" \in raced[p]
                  /\ saw[p][n].status \in OpenStates /\ saw[p][n].doc = need[n].doc]_vars

(* A need a processor waived or dismissed stays so, whatever documents     *)
(* arrive and however often passes run, unless its writer read it before   *)
(* the waiver or the document it was waived with is replaced.              *)
WaiverStands ==
  [][\A n \in Needs :
       need[n].active /\ need[n].status = "WAIVED" /\ need'[n].status # "WAIVED"
       => \E p \in Procs : Commits(p) /\ (raced[p] # {} \/ job[p].kind = "replace")]_vars

(* "MANUAL IS STILL NEVER MERGED": no pass waives or deletes what a        *)
(* processor asked for, not even one that read the list too early.         *)
ManualNeedsStand ==
  [][\A n \in Needs :
       need[n].origin = "MANUAL" /\ Live(need[n]) /\ ~Live(need'[n])
       => \E q \in Requests : Commits(q)]_vars

(* Merging, repairing and seeding never lose a requirement: a type some    *)
(* live need asked for before a pass is still asked for after it, unless   *)
(* someone else wrote the list meanwhile, or a proposal is consolidated    *)
(* into a need that was waived.                                            *)
RequirementsSurvivePasses ==
  [][\A p \in Passes :
       Commits(p) /\ raced[p] = {}
       => Asked(need) \subseteq
            Asked(need') \cup IF job[p].kind = "verify" THEN {} ELSE Waived(need)]_vars

(* However updates were lost, refused or never sent, an undisturbed sync   *)
(* leaves no need open that was there before it beside a completed         *)
(* document no need carries, unless it gave the place of that document,    *)
(* at a need still open, to another.                                       *)
Undisturbed(p) == job[p].kind = "verify" /\ Commits(p) /\ raced[p] = {} /\ p \notin outdated
Usable(d) == doc[d].active /\ doc[d].status = "COMPLETED"
StillOpen(d) == {n \in Needs : /\ need[n].active /\ need'[n].active
                               /\ need'[n].type \in Fits[doc[d].type]
                               /\ need'[n].status \in OpenStates}
Displaced(d) == \E n \in Carriers(need, d) :
                  need[n].status \in OpenStates /\ need'[n].doc \notin {d, None}

RematchCatchesUp ==
  [][\A p \in Passes, d \in Docs :
       Undisturbed(p) /\ Usable(d) /\ StillOpen(d) # {}
         => d \in Linked(need') \/ Displaced(d)]_vars

(* "A DOCUMENT IS CONSUMED ONCE": an undisturbed sync gives a document to  *)
(* no need while another carries it.                                       *)
RematchConsumesOnce ==
  [][\A p \in Passes, d \in Docs :
       Undisturbed(p) /\ ~(Carriers(need', d) \subseteq Carriers(need, d))
         => Cardinality(Carriers(need', d)) = 1]_vars

(* A superseded version answers a need only if a pass linked it after it   *)
(* was superseded, or while it was: every need it answered before was      *)
(* reopened for the new version.                                           *)
SupersededAnswersNothingOld ==
  \A n \in Needs :
    LET d == need[n].doc IN
    need[n].active /\ d # None => doc[d].current \/ d \in lapsed

-----------------------------------------------------------------------------
(* What the source says of itself and the code does not keep.              *)

(* "The need sat PENDING beside the document that answers it", "the list   *)
(* reported 'did not pass processing' next to a perfectly usable           *)
(* document": after an undisturbed sync no need stays open beside a        *)
(* completed document that answers no other.                               *)
NoNeedOpenBesideItsDocument ==
  [][\A p \in Passes, d \in Docs :
       Undisturbed(p) /\ Usable(d) /\ StillOpen(d) # {}
         => \E n \in Carriers(need', d) : need'[n].status \notin OpenStates]_vars
============================================================================
