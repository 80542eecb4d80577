# MortgageBoss AI in TLA+

MortgageBoss AI helps a mortgage processor assemble a loan file: documents are
uploaded, an AI classifies and reads them, a needs list says what is missing,
and a verification run checks the file against a rule engine and leaves findings
a person resolves. The backend (`src/backend/app`) is a FastAPI service and
Celery workers over PostgreSQL, with Redis as broker and lock server. The
frontend, the infrastructure and the deployment scripts hold no protocol of
their own.

This directory holds TLA+ modules for its four stateful parts (the document
pipeline, the needs list, the verification runs and their findings), the TLC
configurations that check them on small instances, and TLAPS proofs. The
sections below list the system's parts, the modules, what is checked and
proved, what the code does not keep of what it says, and what is left.

## 1. The system

| Component | Code | State | Operations |
|---|---|---|---|
| Document API | `api/documents.py`, `services/documents.py`, `services/document_versioning.py` | rows of `documents` (status, type, confidence, error, version group, soft delete), `loan_files.verification_stale` | upload, replace, override type, reprocess, bulk reprocess, delete, resolve staleness |
| Document worker | `tasks/document_processing.py`, `tasks/retry.py`, `services/extractions.py`, `services/document_findings.py` | the same rows, `extractions`, OPEN findings of a document, the Celery messages and the worker's session | `process_document`, `reprocess_document` |
| Needs list | `services/needs_engine.py`, `services/needs_*.py`, `tasks/needs.py`, `api/needs.py` | `needs_items`, a Redis lock per loan file | apply a document, propose, consolidate, floor, rematch, seed from findings, repair, reopen on replace, requests of processors |
| Verification runs | `api/verification.py`, `services/verification_run.py`, `tasks/verification_rules.py`, `core/run_limits.py` | `verifications` (RUNNING, COMPLETED, FAILED, the stored hard limit), the task of each run | request, enqueue, pass, retry, mark failed, watchdog |
| Findings of a verification | `services/rule_findings.py`, `services/finding_resolution.py` | findings keyed by (file, rule, subject), the figures of the loan file they correct | mint, carry forward, revive, retire; apply, override, accept risk, ratify, undo |
| Cross-source sweep | `tasks/cross_source.py`, `services/cross_source.py` | none any more | retired: its task logs and returns |
| AI client, extractors | `ai/` | circuit breaker, rate limits | classify, extract, analyse |
| MISMO import | `mismo/` | none beyond one transaction | import a file |
| Calculators | `services/dti.py`, `ltv.py`, `mi.py` | none | pure arithmetic |
| Loan files, borrowers, activity log | `services/loan_files.py` ... | their tables | CRUD |
| Authentication, tenancy | `api/auth.py`, `core/jwt.py` | users, refresh tokens | login, refresh; a filter on every query |
| Document catalog, staleness | `documents/` | static tables | lookups, a date comparison |
| Redis lock, sessions | `core/redis.py`, `core/database.py`, `models/base.py` | lock keys; the identity map of a session | acquire, release, commit |

**How they interact.** The API commits a row and then enqueues a Celery message:
two systems, no common transaction. A document worker claims its row with one
conditional `UPDATE` and commits after each stage, with an AI call between
stages; a finished document enqueues a needs update. A run request commits a
RUNNING row and enqueues a rule-engine pass; the pass evaluates the rules,
reconciles the findings, brings the needs list up to date in a savepoint of the
same transaction, and completes its run with the commit. Processors resolve
findings and edit needs at any time. API and workers share nothing but the rows
and the Redis lock of the needs list. No job is scheduled by the clock: what was
abandoned is noticed by the next reader, be it the claim's expiry or the run's
watchdog.

**What is hard here.** Interleaving: tasks and requests on one row, whose guards
are read in one transaction and acted on in the next. Stale state: sessions keep
objects across commits (`expire_on_commit=False`), and the ORM writes an
attribute only when it differs from the value *it* remembers. Failure: a message
is acknowledged when the task starts, so a killed worker's work is never
redelivered; the broker may refuse a message after the commit, or take it and
raise; an exception can strike at every stage. Locks: the needs lock expires
after 30 s under tasks of up to 180 s, is skipped when it cannot be had in
30 s, and is freed by a run's sync before the run commits. Time: soft limit,
hard limit and abandonment window (600 s < 660 s < 900 s) of a document, and
soft limit, hard limit and watchdog of a run, which depend on its size, have to
stay in order. Order: corrections of one figure can be undone in another order
than they were made. `PROJECT.json` lists each hazard at its line, with the
property that covers it.

**What makes each component correct.**
Document worker: one live run per document; never take over a live run; one
current extraction, the newest; no doubled findings; every started run settles.
Document API: whatever was set PENDING has a task coming; one current version
per group; a person's type stands. Needs list: passes over one file are serial;
an answer is not lost to another; a document answers one need; a processor's
waiver and a processor's own need stand; no requirement is lost by merging.
Verification runs: one RUNNING run and one pass per file; FAILED is final and
publishes nothing; the watchdog never fails a living run, and no run stays
RUNNING for ever. Findings: a person's decision survives the next pass; what a
pass detects stands; the figures of the file are what the applied findings say.

## 2. Modules

| Module | Models | Correspondence |
|---|---|---|
| `Documents` | the state API and worker share | `status`, `age`, `row` are the columns of `documents`; `ext` its extractions; `findings` the tasks whose OPEN findings are on it; `stale` the loan file's flag; `pc`, `job`, `elapsed`, `mem`, `owns` the Celery messages and the sessions of the tasks running them; `req` the API requests |
| `DocumentWorker` | `process_document`, `reprocess_document` | one action per stretch of code between two points where another process can act; faults are actions of their own |
| `DocumentApi` | the writing handlers of `api/documents.py` | `Admit...` reads and checks, `Commit...` writes, `Enqueue`/`EnqueueFails` talk to the broker, `Finish` puts refused documents back, `Abort` is a process that dies |
| `ExtractionLog` | abstract: what `create_extraction_version` promises | a log of versions whose newest alone is current |
| `DocumentPipeline` | the composition, its specification, properties and inductive invariants | `Next` interleaves both sides, faults and the clock |
| `NeedsEngine` | what the needs engine computes | pure operators from a needs list and the documents to the list a pass would write: `ApplyDocument`, `Rematch`, `Seed`, `Repair`, `Consolidate`, `ReopenSatisfiedBy` |
| `NeedsList` | everyone who writes the list, concurrently | `need` is `needs_items`, `doc` and `due` the documents and update messages, `saw`/`out` what a process loaded and wants, `lock` the Redis key |
| `RunLimits` | `core/run_limits.py` and the watchdog's slack | `Soft`, `Hard`, `Watchdog` |
| `VerificationRuns` | the runs, their requests, passes and clock | `run` is `verifications`, `pass` each run's Celery task, `asker` each request |
| `RuleFindings` | reconciliation and resolution | `finding` is `findings`, `figure` the loan file's figures, `verdict` what a pass read and decided, `deed` what a request is about to commit |
| `MCDocumentPipeline`, `MCNeedsList`, `MCRuleFindings` | symmetry, and the figure all findings correct, for TLC | |
| `*_proofs` | theorems (section 4) | |

**A document task**, by `pc`: `queued`, `loaded` (the row is in the session),
`read` (claimed, CLASSIFYING committed), `classify` (old findings superseded),
then either `tier3` or `route` (CLASSIFIED), `extract` (EXTRACTING), `insert`
(the current extraction was selected), `commit` (the new version is inserted, not
committed), `needs`, `ended`. Side roads: `failing` (an exception, on its way to
`_mark_failed`; `FailHalfDone` when the session is still usable and its commit
takes the flushed version and findings along), `conflict` (the unique index was
hit), `exhausted` (the soft limit, on its way to `_mark_document_failed`). A
`reprocess_document` task goes from `read` straight to `extract` after refreshing
the row. An error outside the pipeline's `try` (`OutsideTry`) is a transient one for
`retry_or_terminal`: `TransientError` puts the task back in line, `GiveUp` ends it
where it is, with its retries spent or its retry refused, and the document as it was.

**A needs pass**: `unused`, `inside` (past `loan_file_needs_lock`, with the lock or,
after the blocking timeout, without), `planned` (it has read the list and
decided), `held` (its UPDATEs are flushed, so others wait for those rows; the
sync of a run frees the lock here), `proposed` (the AI's proposals and the
consolidation are added), `committed`; or `ended` by a document that is gone,
an exception, or a kill that leaves the lock behind. A needs request is
`planned` when it has read and `committed` or `ended` in a later step. The three kinds
of pass are `update` (`needs.update_for_document`), `propose`
(`needs.propose_ai_needs`) and `verify` (the needs sync of a run: floor, rematch,
seeding from findings, repair, in this order).

**A run's pass**: `none`, `queued`, `working`, then `locked` or, if the run was
read FAILED, `barred` (both hold the row's `FOR UPDATE` lock), gone with the
commit; `exhausted` is on its way to the failure marker after a terminal failure. A
failed attempt (`Falter`) takes that road, is queued again, or leaves its run
RUNNING for the watchdog. **A request**: `idle`,
`stuck` (it read an overdue run), `creating` (it found none in flight),
`enqueueing` (its run is committed), `refused` (the enqueue raised).

**A finding** has an outcome (what the rules say) and a resolution (what a
person said). A pass reads at `Evaluate` and commits at `Publish`; a request reads
at `Apply`, `Override`, `Ratify` or `Undo` and commits at `Commit`.

### What is abstracted

Everywhere: one loan file, since locks, versions, runs and flags never cross
files; each element of `Requests`, `Tasks` or `Passes` is one request or message
of a behaviour (a refused request changes nothing and is no step).

Documents:

* *The AI.* Its answer is an arbitrary choice: any type, any confidence, any
  quality, a refusal, a throttle, an exception. Types are split into those with a
  registered extractor (`ExtractorTypes`) and the rest (`OtherTypes`).
* *Confidence* is whether it is at least 1.0, which only a person sets through the
  override but a classifier may also report; that is all the handlers ask of it.
* *Errors.* `processing_error` is `none`, `too_large` (the one text the bulk
  reprocess recognises) or `error`. A failure's text is taken as written even
  when it equals the remembered one; elision of an equal value is modelled for the
  columns that handlers and classification write (`Emit`).
* *Time.* A tick ages running tasks and in-flight rows. `age` is only kept for
  rows in flight, the only ones whose age anyone reads.
* *Sessions.* `mem` keeps the remembered columns while they matter. An
  uncommitted insert is `pc = "commit"`: it blocks a second insert on the document
  the way the unique index does, and is gone if the task dies.
* *Celery* is not part of the repository (`uv.lock` pins 5.6.3) and is modelled by
  its documented behaviour. `retry_or_terminal` calls `task.retry(exc=exc)` and
  catches `MaxRetriesExceededError`; with `exc` given, Celery raises `exc` itself
  when the retries are spent, and `Reject` when the new message cannot be published.
  So `on_exhausted` runs for terminal failures only, the soft limit among them.
* *Bulk requests* read their documents in one query; the enqueues are one step each,
  in any order, since documents are enqueued independently.
* `stale` is written as the code writes it; who reads it is not modelled.
  `document_borrower_links` are left out.

Needs:

* A *type* is a class of the names that `equivalent_need_type` takes for one; whom a
  need is asked of is a field of its own (`who`). A document is matched by its type
  alone, whoever the need is asked of, and `Fits` gives the types it answers, its own,
  alternatives and umbrellas, which no equivalence expresses. Which needs of a type
  are stored under an alias is an arbitrary set at each repair, and which proposals
  read the same as something of their type one at each consolidation, over all groups
  at once; so are the types the findings or the AI want. The AI may
  propose a type the list carries under another name. What this leaves out: names of one
  class that differ in the documents they accept.
* A need that a document rejects is flushed twice, RECEIVED and then REJECTED
  (`rejects`, `Known`), so its status is written although it may equal the one that
  was read.
* NEEDS_REVIEW stands for FAILED, a dismissal for a waiver (they differ in what is
  recorded). REQUESTED is left out: nothing in the service enters it. The reason,
  prose, duplicate and coverage columns, and the requests that act on the latter
  two, are left out; so is what the AI retracts, which only sets coverage flags.
* The statements of one flush are one step. A task that failed is queued again or
  gives up, without counting its retries. Requests on documents are one step here; their
  interleaving is `DocumentPipeline`'s subject.

Runs:

* The number of documents is arbitrary at each creation, since it is read then. A
  request answered from the cache changes nothing: the fingerprint the cache
  compares is no longer written by any pass.
* The soft limit is a failure that may strike at any time before the hard limit.
  The failure marker is untimed. A run's age matters only while it is RUNNING and
  is kept until it is overdue.

Findings:

* OPEN stands for NEEDS_REVIEW and SATISFIED for COULDNT_CHECK as outcomes;
  override stands for accepting the risk. Which findings a pass detects, with what
  verdict, and which rules could enumerate their subjects is arbitrary. Findings
  whose application changes no figure, notes, prose, provenance, document requests
  and the snapshot's own findings are left out.
* Passes overlap freely here, more than `VerificationRuns` lets them.

History variables record and never guard. `trespassed`: documents whose status
was overwritten by someone who did not know it; `orphaned`: those a process died
on or could not mark, and `dropped`: those whose task gave up on a transient error,
both until the document is enqueued again; `humanType`: the type a person gave, until an accepted
reprocess gives it up. `unlocked`: passes without the lock; `raced`, `outdated`:
who committed, and whether a document changed, since a process read; `lapsed`:
superseded documents that came to answer a need. `overlapped`, `strayed`,
`published`: requests that created runs side by side, tasks that began late or
were retried or were taken by a broker that raised, passes that committed.
`stale`, `contested`, `decided`, `blurred`: requests and passes overtaken since
they read, and figures whose record was lost or bypassed.

## 3. What TLC checks

| Run | Instance | Question |
|---|---|---|
| `claims` | 1 processed document, 2 tasks, 2 requests, limits 0/1/2, no retry | what can two tasks and two requests do to one document |
| `versions` | 3 documents (1 processed), 1 task, 2 requests, 1 retry, bulk of 2 | uploads, replaces and bulk reprocessing |
| `liveness` | 1 processed document, 1 task, 2 requests, limits 1/2/3, 1 retry | does a started run end, and does a dead one ever let go |
| `needs` | 2 needs, 2 documents of one graded type, 2 passes, 1 request | what can passes, with and without the lock, and a processor do to the list |
| `runs` | 2 runs, 2 requests, up to 1 document, 1 retry, a unit for each limit | is there one run at a time, and is every one done with |
| `findings` | 2 findings that correct one figure (1 evaluated), 2 passes, 2 processors, 2 of them under way at once | do decisions and figures survive passes and each other |
| `bug_...` | as the run of the same component (`bug_pending` with 1 retry, `bug_rematch` with 1 need and 1 document) | section 5 |

**The document pipeline** (`claims`, `versions`, `liveness`):

* `TypeOK`: the type invariant.
* `ExclusiveUnlessTrespassed`: two live runs share a document only after its
  status was overwritten blindly. This isolates the cause: the claim itself, the
  pipeline's own writes and the expiry never break exclusion.
* `ClaimNeverStealsLiveRun`: the expiry never hands over an in-flight row whose
  run is alive.
* `NoConflictUnlessTrespassed`: likewise for the unique index on the current
  extraction.
* `ImplementsLog`: the pipeline refines `ExtractionLog`, in every interleaving,
  trespassed or not. The refinement mapping reads `latest` and `current` off `ext`.
* `FindingsOfOneFullRun`: superseding before classification keeps reprocessing
  from doubling a document's OPEN findings.
* `PendingIsAwaited`: a document that was read before is never parked at PENDING
  with neither a task nor a request behind it, also when the broker refuses some of
  a batch. Excepted are documents that a process died on or could not mark, that a
  person retyped, or whose task gave up on a transient error: that one is section 5's
  `bug_pending`. All of it only until the document is enqueued again.
* `ForkNeedsStaleReplace`: two current versions in a group come from a replace
  that commits on a document superseded since it was admitted, and from nothing
  else. (They do come from that: no constraint forbids it.)
* `StartedRunSettles`: a live run settles its document, in whatever way its pipeline
  fails, unless its process dies or it gives its claim away to a retry.
* `NeverStuckInFlight`: no document is in flight for good.

**The needs list** (`needs`):

* `TypeOK`, and `SerialUnlessUnlocked`: two passes are in the stretch the lock
  guards only if one of them never got it, outlived it or freed it.
* `AnswerLostOnlyToARace`: the document that answered a need gives way to another
  only through a pass that had read the list before that answer was committed, one
  of the two without the lock. The sync of a run is such a pass: it frees the lock
  when its savepoint closes, before its run commits. Or a request made an answer
  of the need under a pass that had read it as open: a coverage confirmation that
  comes late, on a need rejected in between, turns it VERIFIED, and the pass goes on
  to give it another document.
* `WaiverStands`: a waived need stays waived, unless its writer had read it before,
  or the document it carries is replaced (`reopen_needs_satisfied_by` writes PENDING
  whatever the status was: a waived need that carries the document comes back).
* `ManualNeedsStand`: no pass waives or deletes a processor's own need, not even one
  that read the list too early.
* `RequirementsSurvivePasses`: merging, repairing and seeding lose no type that was
  asked for; only a proposal may be consolidated into a need that was waived.
* `RematchCatchesUp`: however updates were lost, refused or never sent, a sync that
  nobody disturbed leaves no earlier need open beside a completed document that no
  need carries, unless it took that document's place, at a need it had been rejected
  by, for another: the rematch does not go back to what it displaces.
* `RematchConsumesOnce`: a sync gives a document to no need while another carries it.
  (The match on arrival has no such guard, and may.)
* `SupersededAnswersNothingOld`: a superseded document answers only needs it was
  linked to during or after the replace; the older ones were reopened.

**The verification runs** (`runs`):

* `TypeOK`; `OneRunningUnlessOverlapped`, `OnePassUnlessStrayed`: a second run
  RUNNING, or a second pass at work on the file, needs requests that overlapped, or
  for the pass a task that went astray.
* `FailedIsSticky`: nothing turns a FAILED run into anything else, whoever comes late.
* `FailedRunsPublishNothing`: only the run of a stray task is FAILED with a set of
  fresh findings. A retry is one: it runs on the age of the first attempt, so the
  watchdog can fail the run under it.
* `WatchdogSparesTheLiving`: no run whose first attempt began within the slack is
  failed while it works, for the limit stored with it.
* `RunSettles` (liveness): no run stays RUNNING for ever, unless another was created
  beside it: the watchdog only looks at the latest.

**The findings** (`findings`):

* `TypeOK`; `FiguresExplained`: a figure holds what an APPLIED finding put there, or
  what was stated when none is, however the corrections were applied, undone and
  applied again. Excepted are figures whose record was lost to a request that
  overtook another, overridden while APPLIED, or undone out of order (`Blurs`).
* `RetirementSparesDecisions`: a finding that stops applying is one nobody had
  resolved, unless somebody did between the pass's read and its commit.
* `DetectedStands`: what a pass detects is not left among what no longer applies,
  revived rows included, unless another pass published meanwhile.

The exceptions these properties make are not hypothetical, and several are hazards of
their own, as the notes in `PROJECT.json` say: a property does not catch the case it
excepts, it shows that this is the only way to it. With an exception struck
out TLC finds the property violated, most of them on the instance of its run. Four
take a larger one, on which a constraint steered TLC by hand: the replace in
`WaiverStands` (two requests, one need, one pass), the request in
`AnswerLostOnlyToARace` (two requests, one need, three passes), the waived need in
`RequirementsSurvivePasses` (two requests, two needs, two passes) and the document
displaced in `RematchCatchesUp` (three documents, three passes, three requests, two
needs). The last three were found by proving the properties, not by running them: the
instance of `needs` is too small to reach them, and only the proofs of section 4 show
that the exceptions are complete. So the code does all of that, and the property says
that there is no other way.

**Bounds, and why they are enough.** The claim, its expiry and the unique index
are about one document, so one suffices for them; documents meet only in
bulk requests and version groups, which `versions` covers with three. Two tasks
and two requests are the smallest number with which a request can pass its check
before one run and commit during it while another takes the row. The limits are
small numbers in the order the code gives them; 0/1/2 lets the soft limit strike
at every stage, one tick before the kill, and a row outlive both. `liveness` uses
1/2/3 so that runs also finish without a limit in sight. `MaxRetries` is 1 where
retries matter (the code's retries differ only in number). `MaxBulk` is the
refusal of a batch that is too large, at 1 or 2.

Two needs of one type and two documents are the smallest list with duplicates to
repair, an older need to prefer, a document to consume and a version to replace;
two passes are the smallest number that race. Needs of different types meet
in what is seeded and in a document that fits several: `needs` has one type that is
graded (`SimplePresence` is empty, so documents leave it RECEIVED), asked of nobody in
particular (`Borrowers` is empty), and `Fits` is a document's own type; the proofs of
section 4 are for any of these. It was run by hand with two types, one of them verified
by presence and its documents fitting both, the other asked of a borrower, two
documents, and two passes or a pass and a request (about 300 000 states each). With one
more need or request the state space passes what a run can visit; with one need, two
passes and two requests (3.1 million states) it was run by hand. In `runs` two
runs and two requests are the smallest number that overlap, and Rate 100, MinSoft 0,
MaxSoft 1 make the limit of an empty file and of one with a document differ, so
that a limit derived from the file as it is now would be caught. In `findings`
the chain of corrections of one figure is as long as the findings it has; one of
the two is of a rule no longer evaluated, so that a pass cannot retire it. Passes
and requests follow one another without end, but only two are under way at once
(`MaxAtOnce`): while one of them waits to commit, the other can do anything, any
number of times. By hand it was also run with both findings evaluated, and with
one finding and three under way.

`Rest` lets a system with nothing to do stutter, so that a state where something
is under way and nothing can move would be reported as a deadlock. Tasks,
requests, passes, processors and the documents not yet uploaded are
interchangeable; the runs with liveness use no symmetry.

**Fairness.** `liveness`: weak fairness of a task's `Progress` (a worker that has
taken a message goes on, and AI and storage calls have timeouts), of the kill at
the hard limit (Celery's parent process enforces it) and of `Tick`. Nothing is
assumed of users, of the broker's answers, or that faults are rare.
`StartedRunSettles` therefore excuses documents whose process died or could not mark
them (`orphaned`), and the re-extraction that meets a transient error after its claim:
its retry finds the claim taken (`GaveClaimAway`), or there is none (`dropped`). That
happens, against the comment on `_claim_for_processing` ("a retrying task has never
owned anything"): `_run_reprocess` refreshes the row, and `reprocess_document_extraction`
may commit, between the claim and the `try`. `NeverStuckInFlight` excuses nothing: whatever
happened, the expiry of the claim opens the document again. `runs`: weak fairness of
the clock with the kill at the hard limit, and of the requests: one that has started
is served, and somebody goes on reading the file, since the client that shows a run
polls it. Nothing is assumed of the passes: they may be lost, killed or fail.

## 4. What is proved

TLAPS proves these for every value of the constants, from the named assumptions
of the modules that declare them (`TypesAssumption`, `LimitsAssumption` and
`BoundsAssumption` of `Documents`; `NumberingAssumption`, `FiniteDocsAssumption`,
`NeedTypesAssumption`, `FitsAssumption` and `NoneAssumption` of `NeedsEngine`; `ProcsAssumption` of `NeedsList`;
`LimitsAssumption` of `RunLimits`, `RunsAssumption`; `FindingsAssumption`):

| Module | Theorem | Says |
|---|---|---|
| `DocumentTypes_proofs` | `TypeCorrect` | `TypeOK` always holds |
| `DocumentClaim_proofs` | `ClaimHolds` | the inductive invariant `ClaimInv` |
| | `ExclusiveRuns` | `ExclusiveUnlessTrespassed` |
| | `NeverStealsLiveRun` | `ClaimNeverStealsLiveRun` |
| | `OneRunsFindings` | `FindingsOfOneFullRun` |
| `DocumentLog_proofs` | `LogHolds` | the inductive invariants `LogInv` and `ConflictInv` |
| | `ConflictNeedsTrespass` | `NoConflictUnlessTrespassed` |
| | `PipelineImplementsLog` | the pipeline implements `ExtractionLog!Spec` |
| `DocumentRequests_proofs` | `ParkedIsAwaited` | `PendingIsAwaited` |
| | `ForksAreStaleReplaces` | `ForkNeedsStaleReplace` |
| `NeedsEngine_proofs` | `RematchReplays` | however many documents are replayed, each answers one need at most, and none that could answer one is left over |
| | `SyncRows` | a sync keeps every row's promises, asks for what it found asked for, catches up, and consumes each document once |
| `NeedsList_proofs` | `LockIsHeld`, `SerialPasses` | `LockInv`, hence `SerialUnlessUnlocked` |
| | `NeedsInvariant`, `NeedsTyped` | the inductive invariant `NeedsInv`, hence `TypeOK` |
| | `SupersededIsReopened` | `SupersededAnswersNothingOld` |
| | `AnswersAreKept`, `WaiversStand` | `AnswerLostOnlyToARace`, `WaiverStands` |
| | `ManualStands`, `RequirementsSurvive` | `ManualNeedsStand`, `RequirementsSurvivePasses` |
| | `SyncCatchesUp`, `SyncConsumesOnce` | `RematchCatchesUp`, `RematchConsumesOnce` |
| `VerificationRuns_proofs` | `LimitsOrdered` | soft < hard < watchdog for every document count |
| | `RunsInvariant`, `RunsTyped` | the inductive invariant `IInv`, hence `TypeOK` |
| | `OneRunning`, `OnePass` | `OneRunningUnlessOverlapped`, `OnePassUnlessStrayed` |
| | `NothingFailedIsPublished`, `FailedStays` | `FailedRunsPublishNothing`, `FailedIsSticky` |
| | `WatchdogSpares` | `WatchdogSparesTheLiving` |
| `RuleFindings_proofs` | `FindingsInvariant`, `FindingsTyped` | the inductive invariant `IInv`, hence `TypeOK` |
| | `FiguresAreExplained` | `FiguresExplained` |
| | `DecisionsAreSpared`, `DetectedStand` | `RetirementSparesDecisions`, `DetectedStands` |

*The claim.* Exclusion is not inductive: a second claim is possible when the row
left the in-flight set, or when it looks abandoned. `OwnedRowInFlight` excludes
the first unless the document was trespassed. The second needs time: an owned row
is never older than its owner (`OwnedRowIsYoung`: every write restarts the row's
clock, and the claim is one), no task outlives the hard limit
(`WithinHardLimit`), and the hard limit lies below the abandonment window. Hence
`ClaimableMeansFree`, from which both theorems follow. It is the one place
where that order is used: the three constants the code keeps in two files
have to stay in it.

*The log.* A version is published (`StoreVersion`, by a run that ends or by one
that fails half done) only if what it demotes is what is current and its number
is the next one (`CommitterKnows`). That holds because only one task per document
can be between insert and commit (`OneCommitter`): the database makes the second
insert wait, and refuses it when the first commits. So the refinement holds even
after a trespass, while the conflict itself (`InserterKnows`) cannot occur without
one.

*A document's findings.* That superseding comes before classification shows in
`CleanSlate`: a full run past that step has left no finding of any full run on its
document. It stays so while the run works because nobody else's run is alive there,
which is `ClaimInv`.

*Pending documents.* "A task or a request is behind it" is not inductive: the last
task behind a document may be one that only has its needs update left, and the last
request one that found the document PENDING and will not put it back. `Expected`
leaves both out and is still maintained: a request that sets PENDING what was not
remembers the status it saw and has it among its targets until it is enqueued,
and a task that leaves without settling was killed or could not mark it (`orphaned`),
or gave up on a transient error (`dropped`). Both are cleared when the document is
enqueued again, since the new task is then behind it.

*Forks.* A group gains a current document only by upload, which starts its own
group, and by replace, which demotes one it names. That the new group is empty needs
`GroupInv`: whatever a group is named after, or a request or a task is about, was
uploaded.

*The needs lock.* A pass inside holds the lock unless it is recorded to be without
it; Redis frees the key of nobody else on release. What the passes compute plays no
part.

*What a pass computes.* The replay of a sync is a recursive function on sets of
documents. No induction theorem of the library can be used for it, so the argument is
spelled out: take the set of pairs of a set of documents replayed so far and the list
they give, suppose it is closed under replaying one more, newer than those; if some
replay were not among them, there would be a least number below which one is not
(`RematchInduction`; documents are replayed oldest first, and `FiniteDocsAssumption`
says that there is a newest). `RematchReplays` takes for the
pairs those in which every document got one open need of its type or left none open.
Then each stage of a sync is described row by row (`SyncRow`), and `SyncRows` puts
them together.

*What a process knows of the list.* A process writes the list it read long ago. What
its commit may break follows from what it still knows then, and that is the inductive
invariant `NeedsInv`: the rows it loaded are still the same needs, and the rows it
adds were free and are nobody else's (`Claims`: a row is never used again for another
need, and no two inserts take the same one); the list is as it read it as long as
nobody else commits, and as long as only requests do, each need carries the document
it saw or none (`Informed`); a sync catches up as long as no document moves
(`Synced`); the need it flushed twice was there and is to be REJECTED (`Rejecting`);
and what it wants is what its errand may do to the rows it saw (`Planned`). Nothing of this is known of a process that is not at work (`Idling`), and
nobody races a pass under the lock unless that pass is without it (`RacedLocked`,
from `LockInv`). A row is written field by field, where it differs from what was
read, so each property of a commit comes down to one row: what is stored, what was
seen, what is wanted.

*Runs.* `OnTime` is the watchdog's argument: as long as the task of a live pass has
not gone astray its run is RUNNING, its age exceeds the pass's by at most the slack,
and the pass is within the limit stored with the run; so the run is not overdue.
`StuckIsOverdue` carries that over to a request that read it before. `LatestRuns`
says why one run at a time is enough to look at, `LockHolds` why what the pass read
under the row's lock is still so at its commit, `OwnRun` and `PublishedIsSettled` that
nobody but its own request or pass fails a run that publishes.

*Figures.* What holds a figure together is not the figure but a chain (`Chain`): the
`from` records of the APPLIED findings, with the figure at one end and the stated
value at the other, without a branch. Applying extends it at the end, undoing the
last shortens it. `Fresh` says that a request nobody overtook still describes the
rows as they are; `PassKnows` the same for a pass.

Only model-checked are the three liveness properties, `StartedRunSettles`,
`NeverStuckInFlight` and `RunSettles`: reasoning under fairness is beyond the prover
used here. Every invariant and every action property the runs check is proved.

## 5. Where the code differs from what it says

Each is a run that TLC finds violated; `PROJECT.json` quotes the lines.

1. `bug_claim`: "Take exclusive ownership of a document's pipeline run,
   atomically". A reprocess admitted just before a task's claim commits PENDING
   over it, its task claims too, and two runs work on one document.
2. `bug_type`: "human-set type is authoritative". The override is accepted on a
   PENDING document and the classification already queued then replaces it.
3. `bug_error`: reprocessing clears the error so that a document cannot complete
   still carrying it. With two queued tasks the first one's failure is written
   after the clearing, and the second completes without touching it.
4. `bug_pending`: "on exhaustion - set a visible terminal-failed state (never a silent
   permanent pending)". `retry_or_terminal` waits for `MaxRetriesExceededError`, but
   Celery raises the error it was given (`exc=`) when the retries are spent, and
   `Reject` when the retry cannot be published. A document whose task keeps failing
   before its claim stays PENDING, unmarked, with nobody behind it. The tests replace
   Celery by a stand-in that raises `MaxRetriesExceededError`.
5. `bug_read`: "Tier 1 with a registered extractor -> the EXTRACTORS registry".
   A task that loaded the row before another stored a label does not write a label
   equal to what it remembers, and completes a document with a type it was not read
   as.
6. `bug_rematch`: the rematch exists because a need "sat PENDING beside the document
   that answers it". A document that was rejected by its need and then re-extracted
   successfully sends no update, and the rematch passes it over as consumed, because
   the rejected need carries it: the need stays open for good.

## 6. Plan

Done: the document pipeline; the needs engine and the needs list; the limits and
runs; the findings; and for each what section 4 lists. What would come next:

1. The duplicate and coverage flags of needs, with the requests that act on them.
   `confirm_duplicate_merge` folds a need away without looking at it again, so a need
   flagged long ago can be one that was answered since.
2. The stale flag's readers, and with them the delete that does not raise it.
3. `DocumentPipeline` and `NeedsList` composed through the needs update, in place of
   `Settle`, which abstracts the pipeline.
4. Two more limits known and not modelled: a document deleted or retyped goes on
   answering the need it was linked to, and a pass that refreshes a finding replaces its
   details, notes kept there included.

Not modelled, and why:

* *Cross-source sweep*: retired. Its task logs and returns, and nothing enqueues it.
* *AI client, circuit breaker, extractors, prompts*: their outcome is an arbitrary
  choice in the models, which covers whatever they do.
* *Snapshot, tag materialisation, rules and their evaluation*: pure functions of the
  file's data, large and table-driven; which findings they detect is arbitrary in
  `RuleFindings`. The evaluation harness and the scripts are tools, not the service.
* *MISMO import*: one XML file parsed into rows in one transaction.
* *Calculators, document catalog, staleness dates*: pure arithmetic and tables.
* *Loan files, borrowers, properties, activity log*: single rows in one
  transaction each.
* *Authentication and tenancy*: scoping is a filter on every query; there is no
  protocol of several steps.
* *Object storage, migrations, frontend, infrastructure*: no state of the protocols
  above.

They are sequential, single-transaction, pure or gone, and tests reach them well.
That is also why the modules cover a small share of the source: most of it computes
over one file's data, and the parts in which actors meet are few.
