-------------------------- MODULE VerificationRuns --------------------------
(***************************************************************************)
(* The verification runs of one loan file: the requests that create and    *)
(* reconcile them, the rule-engine pass each of them enqueues, and time.   *)
(*                                                                         *)
(* A request reads the latest run and acts on what it read in a later      *)
(* step.  A pass is delivered once and never redelivered; a failure of it  *)
(* is retried, marked or, when its worker is killed or its retries are     *)
(* spent, noticed by nobody but the watchdog, which every reader runs.     *)
(***************************************************************************)
EXTENDS RunLimits, FiniteSets

CONSTANTS
  Runs,           \* verification runs, numbered in order of creation
  Requests,       \* API requests
  MaxDocuments,   \* bound on the documents of the file
  MaxRetries      \* attempts after the first

ASSUME RunsAssumption ==
  /\ Runs \subseteq Nat \ {0}
  /\ MaxDocuments \in Nat /\ MaxRetries \in Nat

VARIABLES
  run,         \* the verifications rows
  pass,        \* what has become of each run's task
  asker,       \* how far each request to run or to read has come
  overlapped,  \* history: a request made a run while another was about to
  strayed,     \* history: runs whose task began late, was retried, was
               \* accepted by a broker that then raised, or failed after its
               \* commit
  published    \* history: runs whose pass committed its findings

runVars == <<run, pass, asker, overlapped, strayed, published>>

NoRun   == [status |-> "NONE", age |-> 0, limit |-> 0]
NoPass  == [at |-> "none", ran |-> 0, tries |-> 0]
Idle    == [at |-> "idle", run |-> 0]

Created == {r \in Runs : run[r].status # "NONE"}
Running(r) == run[r].status = "RUNNING"

(* 0, or the last run created.                                             *)
Latest  == IF Created = {} THEN 0 ELSE CHOOSE r \in Created : \A s \in Created : s <= r

InFlight == Latest # 0 /\ Running(Latest)

Live(r) == pass[r].at \in {"working", "locked", "barred"}

(* SELECT ... FOR UPDATE: other writers of the row wait for the pass.      *)
RowLocked(r) == pass[r].at \in {"locked", "barred"}

Move(r, label) == pass' = [pass EXCEPT ![r].at = label]
Leave(r) == pass' = [pass EXCEPT ![r] = NoPass]
Reach(q, label, r) == asker' = [asker EXCEPT ![q] = [at |-> label, run |-> r]]

(* The age of a run matters while it is RUNNING.                           *)
SetStatus(r, status) == run' = [run EXCEPT ![r].status = status, ![r].age = 0]

-----------------------------------------------------------------------------
(* The requests.                                                           *)

\* Mutant: the limit is derived from the file as it is now (before LP-635).
OverdueByFile(r) == \E documents \in 0..MaxDocuments : run[r].age > Watchdog(Hard(documents))

\* Mutant: nobody looks (before LP-89).
NeverOverdue(r) == FALSE

(* The watchdog's question, by the limit stored with the run.              *)
Overdue(r) == run[r].age > Watchdog(run[r].limit)

(* A read of the file, or a request to run, finds its latest run stuck.    *)
Look(q) ==
  /\ asker[q].at = "idle"
  /\ Latest # 0 /\ Running(Latest) /\ Overdue(Latest)
  /\ Reach(q, "stuck", Latest)
  /\ UNCHANGED <<run, pass, overlapped, strayed, published>>

(* The watchdog's commit, whatever became of the run meanwhile.  A request *)
(* to run goes on.                                                         *)
GiveUp(q) ==
  LET r == asker[q].run IN
  /\ asker[q].at = "stuck" /\ ~RowLocked(r)
  /\ SetStatus(r, "FAILED")
  /\ Reach(q, "idle", 0) \/ (~InFlight' /\ Created # Runs /\ Reach(q, "creating", 0))
  /\ UNCHANGED <<pass, overlapped, strayed, published>>

\* Mutant: a second run is not refused.
RequestAnyRun(q) ==
  /\ asker[q].at = "idle" /\ Created # Runs
  /\ Reach(q, "creating", 0)
  /\ UNCHANGED <<run, pass, overlapped, strayed, published>>

(* run_verification: a run in flight is returned, as is a completed one    *)
(* whose inputs are unchanged, and the request ends; or it goes on.        *)
RequestRun(q) ==
  /\ asker[q].at = "idle" /\ Created # Runs
  /\ ~InFlight
  /\ Reach(q, "creating", 0)
  /\ UNCHANGED <<run, pass, overlapped, strayed, published>>

(* The new run is committed together with its limit.                       *)
Create(q) ==
  /\ asker[q].at = "creating"
  /\ \E r \in Runs \ Created :
       /\ \A s \in Runs \ Created : r <= s
       /\ \E documents \in 0..MaxDocuments :
            run' = [run EXCEPT ![r] = [status |-> "RUNNING", age |-> 0, limit |-> Hard(documents)]]
       /\ Reach(q, "enqueueing", r)
  /\ overlapped' = (overlapped \/ \E p \in Requests \ {q} : asker[p].at = "creating")
  /\ UNCHANGED <<pass, strayed, published>>

(* The broker takes the task, or raises, perhaps after taking it.          *)
Enqueue(q) ==
  LET r == asker[q].run IN
  /\ asker[q].at = "enqueueing"
  /\ \/ Move(r, "queued") /\ Reach(q, "idle", 0) /\ UNCHANGED strayed
     \/ Reach(q, "refused", r) /\ UNCHANGED <<pass, strayed>>
     \/ Move(r, "queued") /\ Reach(q, "refused", r) /\ strayed' = strayed \cup {r}
  /\ UNCHANGED <<run, overlapped, published>>

(* A run whose pass was not enqueued is FAILED.                            *)
Refuse(q) ==
  LET r == asker[q].run IN
  /\ asker[q].at = "refused" /\ ~RowLocked(r)
  /\ SetStatus(r, "FAILED")
  /\ Reach(q, "idle", 0)
  /\ UNCHANGED <<pass, overlapped, strayed, published>>

(* The API process dies before it has dealt with the run it committed.     *)
Crash(q) ==
  /\ asker[q].at \in {"enqueueing", "refused"}
  /\ Reach(q, "idle", 0)
  /\ UNCHANGED <<run, pass, overlapped, strayed, published>>

-----------------------------------------------------------------------------
(* The rule-engine pass.                                                   *)

(* The message disappears: a restarted broker, or a worker that fetched it *)
(* and died.                                                               *)
Lose(r) ==
  /\ pass[r].at = "queued"
  /\ Leave(r)
  /\ UNCHANGED <<run, asker, overlapped, strayed, published>>

(* An attempt begins, whatever the status of the run is.                   *)
Begin(r) ==
  /\ pass[r].at = "queued"
  /\ pass' = [pass EXCEPT ![r].at = "working", ![r].ran = 0]
  /\ strayed' = IF pass[r].tries > 0 \/ ~Running(r) \/ run[r].age > Slack
                  THEN strayed \cup {r} ELSE strayed
  /\ UNCHANGED <<run, asker, overlapped, published>>

(* The rules have run and the findings are flushed; the status is read     *)
(* again, under the row's lock.                                            *)
Lock(r) ==
  /\ pass[r].at = "working"
  /\ Move(r, IF run[r].status = "FAILED" THEN "barred" ELSE "locked")
  /\ UNCHANGED <<run, asker, overlapped, strayed, published>>

\* Mutant: the pass completes its run whatever it read.
FinishRegardless(r) ==
  /\ RowLocked(r)
  /\ SetStatus(r, "COMPLETED")
  /\ published' = published \cup {r}
  /\ Leave(r)
  /\ UNCHANGED <<asker, overlapped, strayed>>

\* Mutant: the attempts are not counted.
FalterForever(r) == pass' = [pass EXCEPT ![r].at = "queued", ![r].ran = 0, ![r].tries = @ + 1]

(* One failed attempt.  A terminal failure, the soft limit among them, goes *)
(* to the marker.  Any other is retried; with the retries spent, or the    *)
(* retry refused by the broker, the task ends and the run stays as it is.  *)
Falter(r) ==
  \/ pass' = [pass EXCEPT ![r].at = "exhausted", ![r].ran = 0]
  \/ /\ pass[r].tries < MaxRetries
     /\ pass' = [pass EXCEPT ![r].at = "queued", ![r].ran = 0, ![r].tries = @ + 1]
  \/ Leave(r)

(* The commit.  FAILED wins, and the findings are published either way.    *)
(* An error after it is an error of the attempt all the same.              *)
Finish(r) ==
  /\ RowLocked(r)
  /\ IF pass[r].at = "locked" THEN SetStatus(r, "COMPLETED") ELSE UNCHANGED run
  /\ published' = published \cup {r}
  /\ \/ Leave(r) /\ UNCHANGED strayed
     \/ Falter(r) /\ strayed' = strayed \cup {r}
  /\ UNCHANGED <<asker, overlapped>>

(* An exception before the commit, which rolls everything back.            *)
Fail(r) ==
  /\ Live(r)
  /\ Falter(r)
  /\ UNCHANGED <<run, asker, overlapped, strayed, published>>

(* The marker of a terminal failure, in a session of its own, whenever and *)
(* on whatever the status is; or it fails as well.                         *)
MarkFailed(r) ==
  /\ pass[r].at = "exhausted"
  /\ Leave(r)
  /\ SetStatus(r, "FAILED") \/ UNCHANGED run
  /\ UNCHANGED <<asker, overlapped, strayed, published>>

(* The worker is killed, at the hard limit at the latest.                  *)
Kill(r) ==
  /\ Live(r) \/ pass[r].at = "exhausted"
  /\ Leave(r)
  /\ UNCHANGED <<run, asker, overlapped, strayed, published>>

HardKill(r) == pass[r].ran = run[r].limit /\ Kill(r)

-----------------------------------------------------------------------------

(* A second passes, for RUNNING runs until their age no longer matters.    *)
Ages(r) == Running(r) /\ run[r].age <= Watchdog(run[r].limit)
Tick ==
  /\ \E r \in Runs : Ages(r) \/ Live(r)
  /\ \A r \in Runs : Live(r) => pass[r].ran < run[r].limit
  /\ run' = [r \in Runs |-> IF Ages(r) THEN [run[r] EXCEPT !.age = @ + 1] ELSE run[r]]
  /\ pass' = [r \in Runs |-> IF Live(r) THEN [pass[r] EXCEPT !.ran = @ + 1] ELSE pass[r]]
  /\ UNCHANGED <<asker, overlapped, strayed, published>>

RunsInit ==
  /\ run = [r \in Runs |-> NoRun]
  /\ pass = [r \in Runs |-> NoPass]
  /\ asker = [q \in Requests |-> Idle]
  /\ overlapped = FALSE
  /\ strayed = {}
  /\ published = {}

Serve(q)   == GiveUp(q) \/ Create(q) \/ Enqueue(q) \/ Refuse(q)
Working(r) == Lose(r) \/ Begin(r) \/ Lock(r) \/ Finish(r) \/ Fail(r)
                \/ MarkFailed(r) \/ Kill(r)

(* Nothing is under way: the file may rest.                                *)
Rest ==
  /\ \A q \in Requests : asker[q].at = "idle" \/ (asker[q].at = "creating" /\ Created = Runs)
  /\ \A r \in Runs : pass[r].at = "none"
  /\ UNCHANGED runVars

RunsNext ==
  \/ \E q \in Requests : Look(q) \/ RequestRun(q) \/ Serve(q) \/ Crash(q)
  \/ \E r \in Runs : Working(r)
  \/ Tick \/ Rest

RunsSpec == RunsInit /\ [][RunsNext]_runVars

(* Time passes, workers at their hard limit are killed, requests that have *)
(* started are served, and somebody goes on reading the file: the client   *)
(* of a run polls it.                                                      *)
RunsFairness ==
  /\ WF_runVars(Tick \/ \E r \in Runs : HardKill(r))
  /\ WF_runVars(\E q \in Requests : Look(q) \/ Serve(q))

FairRunsSpec == RunsSpec /\ RunsFairness
-----------------------------------------------------------------------------
(* Safety.                                                                 *)

(* The type invariant.                                                     *)
RunOK   == run \in [Runs -> [status : {"NONE", "RUNNING", "COMPLETED", "FAILED"},
                            age : Nat, limit : Nat]]
PassOK  == pass \in [Runs -> [at : {"none", "queued", "working", "locked", "barred", "exhausted"},
                             ran : Nat, tries : 0..MaxRetries]]
AskerOK == asker \in [Requests -> [at : {"idle", "stuck", "creating", "enqueueing", "refused"},
                                  run : Runs \cup {0}]]
TypeOK ==
  /\ RunOK /\ PassOK /\ AskerOK
  /\ overlapped \in BOOLEAN
  /\ strayed \subseteq Runs /\ published \subseteq Runs

(* "FAILED always wins": neither a pass that finishes after the watchdog   *)
(* gave up on it, nor one whose message was believed lost, nor a retry     *)
(* turns a FAILED run into anything else.                                  *)
FailedIsSticky ==
  [][\A r \in Runs : run[r].status = "FAILED" => run'[r].status = "FAILED"]_runVars

(* "REFUSE A SECOND CONCURRENT RUN ON THIS FILE": two runs are RUNNING at  *)
(* once only if the requests for them overlapped.                          *)
OneRunningUnlessOverlapped ==
  \A r, s \in Runs : Running(r) /\ Running(s) /\ r # s => overlapped

(* Two passes work on one file, and may collide on its findings, only if   *)
(* their requests overlapped or the task of one of them went astray.       *)
OnePassUnlessStrayed ==
  \A r, s \in Runs : Live(r) /\ Live(s) /\ r # s => overlapped \/ {r, s} \cap strayed # {}

(* "A watchdog that fails a run its own task was still legitimately        *)
(* working on is a worse failure": it never does while the first attempt   *)
(* works that began within the slack.                                      *)
WatchdogSparesTheLiving ==
  [][\A q \in Requests, r \in Runs :
       /\ asker[q] = [at |-> "stuck", run |-> r] /\ asker'[q].at # "stuck"
       /\ Running(r) /\ Live(r)
       => r \in strayed]_runVars

(* "A FAILED run carrying a full set of fresh findings is worse than       *)
(* either": only the run of a task that went astray does.                  *)
FailedRunsPublishNothing ==
  \A r \in published : run[r].status = "FAILED" => r \in strayed

-----------------------------------------------------------------------------
(* Liveness.                                                               *)

(* No run stays RUNNING, and no file blocked, for ever, whatever became of *)
(* the run's task, unless another was created beside it: the watchdog only *)
(* looks at the latest.                                                    *)
RunSettles == (\E r \in Runs : Running(r)) ~> (overlapped \/ \A r \in Runs : ~Running(r))
============================================================================
