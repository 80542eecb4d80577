----------------------- MODULE VerificationRuns_proofs -----------------------
(***************************************************************************)
(* The limits of a verification run are ordered for every document count,  *)
(* and however requests, passes and the watchdog interleave, the safety    *)
(* properties of VerificationRuns hold, for any number of runs, requests,  *)
(* documents and retries and for every rate, floor, ceiling, step and      *)
(* slack.                                                                  *)
(***************************************************************************)
EXTENDS VerificationRuns, TLAPS

-----------------------------------------------------------------------------
(* The limits.                                                             *)

(* "MUST stay ordered" (run_limits.py): for every document count the soft  *)
(* limit is within its floor and its ceiling, the hard limit is later and  *)
(* the watchdog later still, so a pass is warned, then killed, then        *)
(* given up on, never in another order.                                    *)
THEOREM LimitsOrdered ==
  ASSUME NEW documents \in Nat
  PROVE  /\ Soft(documents) \in MinSoft..MaxSoft
         /\ Soft(documents) < Hard(documents)
         /\ Hard(documents) < Watchdog(Hard(documents))
<1>1. \A n \in Int : n \div 100 \in Int
  OBVIOUS
<1>2. documents * Rate \in Int
  BY LimitsAssumption
<1>3. Soft(documents) \in MinSoft..MaxSoft
  <2> DEFINE budget == (documents * Rate) \div 100
  <2>1. budget \in Int
    BY <1>1, <1>2
  <2> HIDE DEF budget
  <2>2. Soft(documents) = IF budget < MinSoft THEN MinSoft
                          ELSE IF budget > MaxSoft THEN MaxSoft ELSE budget
    BY DEF Soft, budget
  <2> QED BY <2>1, <2>2, LimitsAssumption
<1> QED BY <1>3, LimitsAssumption DEF Hard, Watchdog

LEMMA HardIsNat ==
  ASSUME NEW documents \in Nat
  PROVE  Hard(documents) \in Nat
BY LimitsOrdered, LimitsAssumption DEF Hard

-----------------------------------------------------------------------------
(* The inductive invariant.                                                *)

(* Runs are created in order, and before a request or a pass can be about  *)
(* them.                                                                   *)
AboutCreated ==
  /\ \A r \in Created, s \in Runs : s < r => s \in Created
  /\ Created # {} => \E r \in Created : \A s \in Created : s <= r
  /\ \A r \in Runs : pass[r].at # "none" => r \in Created
  /\ \A q \in Requests : asker[q].at \in {"stuck", "enqueueing", "refused"}
                           => asker[q].run \in Created

(* What a pass read under the row's lock is still so.                      *)
LockHolds ==
  \A r \in Runs : /\ pass[r].at = "locked" => run[r].status # "FAILED"
                  /\ pass[r].at = "barred" => run[r].status = "FAILED"

(* Unless requests overlapped, only the latest run is RUNNING, and none is *)
(* while one is about to be created.                                       *)
LatestRuns ==
  ~overlapped =>
    /\ \A r \in Runs : Running(r) => \A s \in Created : s <= r
    /\ \A q \in Requests : asker[q].at = "creating" => \A r \in Runs : ~Running(r)

(* A request deals alone with the run it created, whose task, if there is  *)
(* one although the broker raised, went astray.                            *)
Dealing(q, r) == asker[q].at \in {"enqueueing", "refused"} /\ asker[q].run = r
OwnRun ==
  /\ \A q, p \in Requests, r \in Runs : Dealing(q, r) /\ Dealing(p, r) => q = p
  /\ \A q \in Requests, r \in Runs :
       Dealing(q, r) => r \in strayed \/ (pass[r].at = "none" /\ r \notin published)

(* The attempt that did not go astray is younger than the slack and the    *)
(* time it ran, within its limit.                                          *)
OnTime ==
  \A r \in Runs : Live(r) /\ r \notin strayed =>
    Running(r) /\ run[r].age <= Slack + pass[r].ran /\ pass[r].ran <= run[r].limit

(* A RUNNING run somebody is about to give up on is overdue.               *)
StuckIsOverdue ==
  \A q \in Requests, r \in Runs :
    asker[q] = [at |-> "stuck", run |-> r] /\ Running(r) => Overdue(r)

(* A run whose task did not go astray and has published is done with.      *)
PublishedIsSettled ==
  \A r \in published \ strayed :
    /\ run[r].status = "COMPLETED" /\ pass[r].at = "none"
    /\ \A q \in Requests : asker[q].at # "stuck" \/ asker[q].run # r

IInv == TypeOK /\ AboutCreated /\ LockHolds /\ LatestRuns /\ OwnRun /\ OnTime
          /\ StuckIsOverdue /\ PublishedIsSettled

-----------------------------------------------------------------------------
(* What the helpers are and do.                                            *)

LEMMA LatestIsCreated ==
  ASSUME AboutCreated
  PROVE  Created # {} => Latest \in Created /\ \A s \in Created : s <= Latest
BY DEF AboutCreated, Latest

LEMMA LatestIsLast ==
  ASSUME NEW r \in Created, \A s \in Created : s <= r
  PROVE  Latest = r
<1>1. Latest \in Created /\ \A s \in Created : s <= Latest
  BY DEF Latest
<1>2. r \in Nat /\ Latest \in Nat
  BY <1>1, RunsAssumption DEF Created
<1> QED BY <1>1, <1>2

(* The run a request is about.                                             *)
LEMMA AskersRun ==
  ASSUME AboutCreated, NEW q \in Requests, asker[q].at \in {"stuck", "enqueueing", "refused"}
  PROVE  asker[q].run \in Runs
BY DEF AboutCreated, Created

LEMMA ReachTypes ==
  ASSUME AskerOK, NEW q \in Requests, NEW r \in Runs \cup {0},
         NEW label \in {"idle", "stuck", "creating", "enqueueing", "refused"}, Reach(q, label, r)
  PROVE  AskerOK'
BY DEF AskerOK, Reach

LEMMA MoveTypes ==
  ASSUME PassOK, NEW r \in Runs,
         NEW label \in {"none", "queued", "working", "locked", "barred", "exhausted"}, Move(r, label)
  PROVE  PassOK'
BY DEF PassOK, Move

LEMMA LeaveTypes ==
  ASSUME PassOK, NEW r \in Runs, Leave(r)
  PROVE  PassOK'
BY RunsAssumption DEF PassOK, Leave, NoPass

LEMMA StatusTypes ==
  ASSUME RunOK, NEW r \in Runs, NEW status \in {"COMPLETED", "FAILED"}, SetStatus(r, status)
  PROVE  RunOK'
BY DEF RunOK, SetStatus

LEMMA FalterTypes ==
  ASSUME PassOK, NEW r \in Runs, Falter(r)
  PROVE  /\ PassOK'
         /\ \A s \in Runs \ {r} : pass'[s] = pass[s]
         /\ pass'[r].at \in {"exhausted", "queued", "none"}
         /\ pass'[r].at = "queued" => pass'[r].tries > 0
<1>1. CASE pass' = [pass EXCEPT ![r].at = "exhausted", ![r].ran = 0]
  BY <1>1 DEF PassOK
<1>2. CASE /\ pass[r].tries < MaxRetries
           /\ pass' = [pass EXCEPT ![r].at = "queued", ![r].ran = 0, ![r].tries = @ + 1]
  <2>1. pass[r].tries + 1 \in 0..MaxRetries /\ pass[r].tries + 1 > 0
    BY <1>2, RunsAssumption DEF PassOK
  <2> QED BY <1>2, <2>1 DEF PassOK
<1>3. CASE Leave(r)
  BY <1>3, LeaveTypes DEF Leave, NoPass, PassOK
<1> QED BY <1>1, <1>2, <1>3 DEF Falter

-----------------------------------------------------------------------------
(* Every step preserves each part of it.                                   *)

(* The type invariant.                                                     *)
LEMMA TypeOKStep ==
  ASSUME TypeOK, AboutCreated, [RunsNext]_runVars
  PROVE  TypeOK'
<1> USE DEF TypeOK
<1>1. ASSUME NEW q \in Requests, Look(q)
      PROVE  TypeOK'
  <2>1. Latest \in Runs
    BY <1>1, LatestIsCreated DEF Look, Latest, Created
  <2> QED BY <1>1, <2>1, ReachTypes DEF Look, RunOK, PassOK
<1>2. ASSUME NEW q \in Requests, GiveUp(q)
      PROVE  TypeOK'
  <2>1. RunOK'
    BY <1>2, AskersRun, StatusTypes DEF GiveUp
  <2>2. AskerOK'
    BY <1>2, ReachTypes DEF GiveUp
  <2> QED BY <1>2, <2>1, <2>2 DEF GiveUp, PassOK
<1>3. ASSUME NEW q \in Requests, RequestRun(q)
      PROVE  TypeOK'
  BY <1>3, ReachTypes DEF RequestRun, RunOK, PassOK
<1>4. ASSUME NEW q \in Requests, Create(q)
      PROVE  TypeOK'
  <2>1. RunOK'
    BY <1>4, HardIsNat, RunsAssumption DEF Create, RunOK
  <2>2. AskerOK'
    BY <1>4, ReachTypes DEF Create
  <2> QED BY <1>4, <2>1, <2>2 DEF Create, PassOK
<1>5. ASSUME NEW q \in Requests, Enqueue(q)
      PROVE  TypeOK'
  <2>1. asker[q].run \in Runs
    BY <1>5, AskersRun DEF Enqueue
  <2>2. PassOK'
    BY <1>5, <2>1, MoveTypes DEF Enqueue, PassOK
  <2>3. AskerOK'
    BY <1>5, <2>1, ReachTypes DEF Enqueue
  <2> QED BY <1>5, <2>1, <2>2, <2>3 DEF Enqueue, RunOK
<1>6. ASSUME NEW q \in Requests, Refuse(q)
      PROVE  TypeOK'
  <2>1. RunOK'
    BY <1>6, AskersRun, StatusTypes DEF Refuse
  <2> QED BY <1>6, <2>1, ReachTypes DEF Refuse, PassOK
<1>7. ASSUME NEW q \in Requests, Crash(q)
      PROVE  TypeOK'
  BY <1>7, ReachTypes DEF Crash, RunOK, PassOK
<1>8. ASSUME NEW r \in Runs, Lose(r)
      PROVE  TypeOK'
  BY <1>8, LeaveTypes DEF Lose, RunOK, AskerOK
<1>9. ASSUME NEW r \in Runs, Begin(r)
      PROVE  TypeOK'
  <2>1. strayed' \subseteq Runs
    BY <1>9 DEF Begin
  <2>2. PassOK'
    BY <1>9 DEF Begin, PassOK
  <2> QED BY <1>9, <2>1, <2>2 DEF Begin, RunOK, AskerOK
<1>10. ASSUME NEW r \in Runs, Lock(r)
       PROVE  TypeOK'
  BY <1>10, MoveTypes DEF Lock, RunOK, AskerOK
<1>11. ASSUME NEW r \in Runs, Finish(r)
       PROVE  TypeOK'
  <2>1. RunOK'
    BY <1>11, StatusTypes DEF Finish, RunOK
  <2>2. PassOK'
    BY <1>11, LeaveTypes, FalterTypes DEF Finish
  <2> QED BY <1>11, <2>1, <2>2 DEF Finish, AskerOK
<1>12. ASSUME NEW r \in Runs, Fail(r)
       PROVE  TypeOK'
  BY <1>12, FalterTypes DEF Fail, RunOK, AskerOK
<1>13. ASSUME NEW r \in Runs, MarkFailed(r)
       PROVE  TypeOK'
  <2>1. RunOK'
    BY <1>13, StatusTypes DEF MarkFailed, RunOK
  <2> QED BY <1>13, <2>1, LeaveTypes DEF MarkFailed, AskerOK
<1>14. ASSUME NEW r \in Runs, Kill(r)
       PROVE  TypeOK'
  BY <1>14, LeaveTypes DEF Kill, RunOK, AskerOK
<1>15. CASE Tick
  <2>1. RunOK'
    BY <1>15 DEF Tick, RunOK
  <2>2. PassOK'
    BY <1>15 DEF Tick, PassOK
  <2> QED BY <1>15, <2>1, <2>2 DEF Tick, AskerOK
<1>16. CASE Rest \/ UNCHANGED runVars
  BY <1>16 DEF Rest, runVars, RunOK, PassOK, AskerOK
<1> QED BY <1>1, <1>2, <1>3, <1>4, <1>5, <1>6, <1>7, <1>8,
         <1>9, <1>10, <1>11, <1>12, <1>13, <1>14, <1>15, <1>16 DEF RunsNext, Serve, Working

(* Runs are created once and for all.                                      *)
LEMMA StatusCreates ==
  ASSUME RunOK, NEW r \in Created, NEW status \in {"COMPLETED", "FAILED"}, SetStatus(r, status)
  PROVE  Created' = Created
BY DEF RunOK, SetStatus, Created

(* A new run is after all those there are.                                 *)
LEMMA CreateIsLast ==
  ASSUME TypeOK, AboutCreated, NEW r \in Runs \ Created, \A s \in Runs \ Created : r <= s,
         NEW row \in [status : {"RUNNING"}, age : Nat, limit : Nat], run' = [run EXCEPT ![r] = row]
  PROVE  /\ Created' = Created \cup {r}
         /\ \A s \in Created' : s <= r
         /\ \A s \in Created', u \in Runs : u < s => u \in Created'
<1>1. Created' = Created \cup {r}
  BY DEF Created, TypeOK, RunOK
<1>2. Runs \subseteq Nat /\ Created \subseteq Runs
  BY RunsAssumption DEF Created
<1>3. \A s \in Created : s < r
  <2> SUFFICES ASSUME NEW s \in Created, ~(s < r) PROVE FALSE
    OBVIOUS
  <2>1. r \in Nat /\ s \in Nat /\ s # r
    BY <1>2
  <2>2. r < s
    BY <2>1
  <2> QED BY <2>2 DEF AboutCreated
<1>4. \A s \in Runs : s < r => s \in Created
  <2> SUFFICES ASSUME NEW s \in Runs, s < r, s \notin Created PROVE FALSE
    OBVIOUS
  <2>1. r \in Nat /\ s \in Nat /\ r <= s
    BY <1>2
  <2> QED BY <2>1
<1>5. \A s \in Created, u \in Runs : u < s => u \in Created
  BY DEF AboutCreated
<1>6. ASSUME NEW s \in Created' PROVE s <= r
  <2>1. r \in Nat /\ s \in Nat /\ (s = r \/ s < r)
    BY <1>1, <1>2, <1>3
  <2> QED BY <2>1
<1> QED BY <1>1, <1>4, <1>5, <1>6

LEMMA CreateAppends ==
  ASSUME TypeOK, AboutCreated, NEW q \in Requests, Create(q)
  PROVE  \E r \in Created' :
           /\ Created' = Created \cup {r}
           /\ Reach(q, "enqueueing", r)
           /\ run'[r].status = "RUNNING" /\ \A s \in Runs \ {r} : run'[s] = run[s]
           /\ \A s \in Created' : s <= r
           /\ \A s \in Created', u \in Runs : u < s => u \in Created'
<1>1. PICK r \in Runs \ Created :
             /\ \A s \in Runs \ Created : r <= s
             /\ \E documents \in 0..MaxDocuments :
                  run' = [run EXCEPT ![r] = [status |-> "RUNNING", age |-> 0, limit |-> Hard(documents)]]
             /\ Reach(q, "enqueueing", r)
  BY DEF Create
<1>2. PICK row \in [status : {"RUNNING"}, age : Nat, limit : Nat] : run' = [run EXCEPT ![r] = row]
  <2>1. PICK documents \in 0..MaxDocuments :
          run' = [run EXCEPT ![r] = [status |-> "RUNNING", age |-> 0, limit |-> Hard(documents)]]
    BY <1>1
  <2>2. Hard(documents) \in Nat
    BY <2>1, HardIsNat, RunsAssumption
  <2> QED BY <2>1, <2>2
<1>3. /\ Created' = Created \cup {r}
      /\ \A s \in Created' : s <= r
      /\ \A s \in Created', u \in Runs : u < s => u \in Created'
  BY <1>1, <1>2, CreateIsLast
<1>4. run'[r].status = "RUNNING" /\ \A s \in Runs \ {r} : run'[s] = run[s]
  BY <1>1, <1>2 DEF TypeOK, RunOK
<1> QED BY <1>1, <1>3, <1>4

(* Requests and passes are about runs created in order.                    *)
LEMMA AboutCreatedStep ==
  ASSUME TypeOK, AboutCreated, [RunsNext]_runVars
  PROVE  AboutCreated'
<1> USE DEF TypeOK, AboutCreated
<1>1. ASSUME NEW q \in Requests, Look(q)
      PROVE  AboutCreated'
  <2>1. Latest \in Created
    BY <1>1, LatestIsCreated DEF Look, Latest
  <2>2. Created' = Created
    BY <1>1 DEF Look, Created
  <2> QED BY <1>1, <2>1, <2>2 DEF Look, Reach, AskerOK
<1>2. ASSUME NEW q \in Requests, GiveUp(q)
      PROVE  AboutCreated'
  <2>1. Created' = Created
    BY <1>2, StatusCreates DEF GiveUp, AboutCreated
  <2> QED BY <1>2, <2>1 DEF GiveUp, Reach, AskerOK
<1>3. ASSUME NEW q \in Requests, RequestRun(q)
      PROVE  AboutCreated'
  <2>1. Created' = Created
    BY <1>3 DEF RequestRun, Created
  <2> QED BY <1>3, <2>1 DEF RequestRun, Reach, AskerOK
<1>4. ASSUME NEW q \in Requests, Create(q)
      PROVE  AboutCreated'
  <2>1. PICK r \in Created' :
                 /\ Created' = Created \cup {r}
                 /\ Reach(q, "enqueueing", r)
                 /\ \A s \in Created' : s <= r
                 /\ \A s \in Created', u \in Runs : u < s => u \in Created'
    BY <1>4, CreateAppends
  <2>2. \A s \in Runs : pass'[s].at # "none" => s \in Created'
    BY <1>4, <2>1 DEF Create
  <2>3. \A p \in Requests : asker'[p].at \in {"stuck", "enqueueing", "refused"}
                             => asker'[p].run \in Created'
    BY <2>1 DEF Reach, AskerOK
  <2> QED BY <2>1, <2>2, <2>3
<1>5. ASSUME NEW q \in Requests, Enqueue(q)
      PROVE  AboutCreated'
  <2>1. Created' = Created
    BY <1>5 DEF Enqueue, Created
  <2>2. asker[q].run \in Created
    BY <1>5 DEF Enqueue
  <2>3. \A r \in Runs : pass'[r].at # "none" => r \in Created
    BY <1>5, <2>2 DEF Enqueue, Move, PassOK
  <2>4. \A p \in Requests : asker'[p].at \in {"stuck", "enqueueing", "refused"}
                             => asker'[p].run \in Created
    BY <1>5, <2>2 DEF Enqueue, Reach, AskerOK
  <2> QED BY <2>1, <2>3, <2>4
<1>6. ASSUME NEW q \in Requests, Refuse(q)
      PROVE  AboutCreated'
  <2>1. Created' = Created
    BY <1>6, StatusCreates DEF Refuse, AboutCreated
  <2> QED BY <1>6, <2>1 DEF Refuse, Reach, AskerOK
<1>7. ASSUME NEW q \in Requests, Crash(q)
      PROVE  AboutCreated'
  <2>1. Created' = Created
    BY <1>7 DEF Crash, Created
  <2> QED BY <1>7, <2>1 DEF Crash, Reach, AskerOK
<1>8. ASSUME NEW r \in Runs, Lose(r)
      PROVE  AboutCreated'
  <2>1. Created' = Created
    BY <1>8 DEF Lose, Created
  <2> QED BY <1>8, <2>1 DEF Lose, Leave, NoPass, PassOK
<1>9. ASSUME NEW r \in Runs, Begin(r)
      PROVE  AboutCreated'
  <2>1. Created' = Created
    BY <1>9 DEF Begin, Created
  <2> QED BY <1>9, <2>1 DEF Begin, PassOK
<1>10. ASSUME NEW r \in Runs, Lock(r)
       PROVE  AboutCreated'
  <2>1. Created' = Created
    BY <1>10 DEF Lock, Created
  <2> QED BY <1>10, <2>1 DEF Lock, Move, PassOK
<1>11. ASSUME NEW r \in Runs, Finish(r)
       PROVE  AboutCreated'
  <2>1. r \in Created
    BY <1>11 DEF Finish, RowLocked, AboutCreated
  <2>2. Created' = Created
    BY <1>11, <2>1, StatusCreates DEF Finish, Created
  <2>3. \A s \in Runs \ {r} : pass'[s] = pass[s]
    BY <1>11, FalterTypes DEF Finish, Leave, PassOK
  <2> QED BY <1>11, <2>1, <2>2, <2>3 DEF Finish
<1>12. ASSUME NEW r \in Runs, Fail(r)
       PROVE  AboutCreated'
  <2>1. r \in Created
    BY <1>12 DEF Fail, Live, AboutCreated
  <2>2. Created' = Created
    BY <1>12 DEF Fail, Created
  <2>3. \A s \in Runs \ {r} : pass'[s] = pass[s]
    BY <1>12, FalterTypes DEF Fail
  <2> QED BY <1>12, <2>1, <2>2, <2>3 DEF Fail
<1>13. ASSUME NEW r \in Runs, MarkFailed(r)
       PROVE  AboutCreated'
  <2>1. r \in Created
    BY <1>13 DEF MarkFailed, AboutCreated
  <2>2. Created' = Created
    BY <1>13, <2>1, StatusCreates DEF MarkFailed, Created
  <2>3. \A s \in Runs \ {r} : pass'[s] = pass[s]
    BY <1>13 DEF MarkFailed, Leave, PassOK
  <2> QED BY <1>13, <2>1, <2>2, <2>3 DEF MarkFailed
<1>14. ASSUME NEW r \in Runs, Kill(r)
       PROVE  AboutCreated'
  <2>1. Created' = Created
    BY <1>14 DEF Kill, Created
  <2> QED BY <1>14, <2>1 DEF Kill, Leave, NoPass, PassOK
<1>15. CASE Tick
  <2>1. Created' = Created
    BY <1>15 DEF Tick, Created, RunOK
  <2>2. \A r \in Runs : pass'[r].at = pass[r].at
    BY <1>15 DEF Tick, PassOK
  <2> QED BY <1>15, <2>1, <2>2 DEF Tick
<1>16. CASE Rest \/ UNCHANGED runVars
  BY <1>16 DEF Rest, runVars, Created
<1> QED BY <1>1, <1>2, <1>3, <1>4, <1>5, <1>6, <1>7, <1>8,
         <1>9, <1>10, <1>11, <1>12, <1>13, <1>14, <1>15, <1>16 DEF RunsNext, Serve, Working

(* The row's lock keeps what was read under it.                            *)
LEMMA LockHoldsStep ==
  ASSUME TypeOK, AboutCreated, LockHolds, [RunsNext]_runVars
  PROVE  LockHolds'
<1> USE DEF TypeOK, RunOK, PassOK, LockHolds, Move, Leave, SetStatus, NoPass, RowLocked
<1>1. ASSUME NEW q \in Requests, Look(q)
      PROVE  LockHolds'
  BY <1>1 DEF Look
<1>2. ASSUME NEW q \in Requests, GiveUp(q)
      PROVE  LockHolds'
  BY <1>2 DEF GiveUp, AboutCreated, Created
<1>3. ASSUME NEW q \in Requests, RequestRun(q)
      PROVE  LockHolds'
  BY <1>3 DEF RequestRun
<1>4. ASSUME NEW q \in Requests, Create(q)
      PROVE  LockHolds'
  BY <1>4 DEF Create, AboutCreated, Created
<1>5. ASSUME NEW q \in Requests, Enqueue(q)
      PROVE  LockHolds'
  BY <1>5 DEF Enqueue, AboutCreated, Created
<1>6. ASSUME NEW q \in Requests, Refuse(q)
      PROVE  LockHolds'
  BY <1>6 DEF Refuse, AboutCreated, Created
<1>7. ASSUME NEW q \in Requests, Crash(q)
      PROVE  LockHolds'
  BY <1>7 DEF Crash
<1>8. ASSUME NEW r \in Runs, Lose(r)
      PROVE  LockHolds'
  BY <1>8 DEF Lose
<1>9. ASSUME NEW r \in Runs, Begin(r)
      PROVE  LockHolds'
  BY <1>9 DEF Begin
<1>10. ASSUME NEW r \in Runs, Lock(r)
       PROVE  LockHolds'
  BY <1>10 DEF Lock
<1>11. ASSUME NEW r \in Runs, Finish(r)
       PROVE  LockHolds'
  <2>1. /\ pass'[r].at \in {"none", "queued", "exhausted"}
        /\ \A s \in Runs \ {r} : pass'[s] = pass[s]
    BY <1>11, FalterTypes DEF Finish
  <2>2. \A s \in Runs \ {r} : run'[s] = run[s]
    BY <1>11 DEF Finish
  <2> QED BY <2>1, <2>2
<1>12. ASSUME NEW r \in Runs, Fail(r)
       PROVE  LockHolds'
  BY <1>12, FalterTypes DEF Fail
<1>13. ASSUME NEW r \in Runs, MarkFailed(r)
       PROVE  LockHolds'
  BY <1>13 DEF MarkFailed
<1>14. ASSUME NEW r \in Runs, Kill(r)
       PROVE  LockHolds'
  BY <1>14 DEF Kill
<1>15. CASE Tick
  BY <1>15 DEF Tick
<1>16. CASE Rest \/ UNCHANGED runVars
  BY <1>16 DEF Rest, runVars, Ages
<1> QED BY <1>1, <1>2, <1>3, <1>4, <1>5, <1>6, <1>7, <1>8,
         <1>9, <1>10, <1>11, <1>12, <1>13, <1>14, <1>15, <1>16 DEF RunsNext, Serve, Working

(* A request deals alone with its run.                                     *)
LEMMA OwnRunStep ==
  ASSUME TypeOK, AboutCreated, PublishedIsSettled, OwnRun, [RunsNext]_runVars
  PROVE  OwnRun'
<1> USE DEF TypeOK, PassOK, AskerOK, OwnRun, Dealing, Move, Leave, NoPass, Reach, RowLocked, Live
<1>1. ASSUME NEW q \in Requests, Look(q)
      PROVE  OwnRun'
  BY <1>1 DEF Look
<1>2. ASSUME NEW q \in Requests, GiveUp(q)
      PROVE  OwnRun'
  BY <1>2 DEF GiveUp
<1>3. ASSUME NEW q \in Requests, RequestRun(q)
      PROVE  OwnRun'
  BY <1>3 DEF RequestRun
<1>4. ASSUME NEW q \in Requests, Create(q)
      PROVE  OwnRun'
  BY <1>4 DEF Create, AboutCreated, Created, PublishedIsSettled
<1>5. ASSUME NEW q \in Requests, Enqueue(q)
      PROVE  OwnRun'
  <2>1. /\ asker'[q].at = "refused" => asker'[q].run = asker[q].run
        /\ asker'[q].at \in {"idle", "refused"}
        /\ \A p \in Requests \ {q} : asker'[p] = asker[p]
    BY <1>5 DEF Enqueue
  <2>2. \A r \in Runs : r # asker[q].run => pass'[r] = pass[r]
    BY <1>5 DEF Enqueue
  <2>3. /\ UNCHANGED published /\ strayed \subseteq strayed'
        /\ asker'[q].at = "refused" => UNCHANGED pass \/ asker[q].run \in strayed'
    BY <1>5 DEF Enqueue
  <2>4. asker[q].at = "enqueueing"
    BY <1>5 DEF Enqueue
  <2> QED BY <2>1, <2>2, <2>3, <2>4
<1>6. ASSUME NEW q \in Requests, Refuse(q)
      PROVE  OwnRun'
  BY <1>6 DEF Refuse
<1>7. ASSUME NEW q \in Requests, Crash(q)
      PROVE  OwnRun'
  BY <1>7 DEF Crash
<1>8. ASSUME NEW r \in Runs, Lose(r)
      PROVE  OwnRun'
  BY <1>8 DEF Lose
<1>9. ASSUME NEW r \in Runs, Begin(r)
      PROVE  OwnRun'
  BY <1>9 DEF Begin
<1>10. ASSUME NEW r \in Runs, Lock(r)
       PROVE  OwnRun'
  BY <1>10 DEF Lock
<1>11. ASSUME NEW r \in Runs, Finish(r)
       PROVE  OwnRun'
  BY <1>11, FalterTypes DEF Finish
<1>12. ASSUME NEW r \in Runs, Fail(r)
       PROVE  OwnRun'
  BY <1>12, FalterTypes DEF Fail
<1>13. ASSUME NEW r \in Runs, MarkFailed(r)
       PROVE  OwnRun'
  BY <1>13 DEF MarkFailed
<1>14. ASSUME NEW r \in Runs, Kill(r)
       PROVE  OwnRun'
  BY <1>14 DEF Kill
<1>15. CASE Tick
  BY <1>15 DEF Tick
<1>16. CASE Rest \/ UNCHANGED runVars
  BY <1>16 DEF Rest, runVars, Ages
<1> QED BY <1>1, <1>2, <1>3, <1>4, <1>5, <1>6, <1>7, <1>8,
         <1>9, <1>10, <1>11, <1>12, <1>13, <1>14, <1>15, <1>16 DEF RunsNext, Serve, Working

(* Unless requests overlapped, only the latest run is RUNNING.              *)
LEMMA LatestRunsStep ==
  ASSUME TypeOK, AboutCreated, LatestRuns, [RunsNext]_runVars
  PROVE  LatestRuns'
<1> USE DEF TypeOK, RunOK, AskerOK, LatestRuns, SetStatus, Reach, Running, Created
<1>1. ASSUME NEW q \in Requests, Look(q)
      PROVE  LatestRuns'
  BY <1>1, LatestIsLast, RunsAssumption DEF Look
<1>2. ASSUME NEW q \in Requests, GiveUp(q)
      PROVE  LatestRuns'
  <2>1. asker[q].run \in Created
    BY <1>2 DEF GiveUp, AboutCreated
  <2>2. Created' = Created /\ overlapped' = overlapped
    BY <1>2, <2>1, StatusCreates DEF GiveUp
  <2>3. \A r \in Runs : Running(r)' => Running(r)
    BY <1>2 DEF GiveUp
  <2>4. \A p \in Requests \ {q} : asker'[p] = asker[p]
    BY <1>2 DEF GiveUp
  <2>5. ~overlapped => \A r \in Runs : Running(r)' => \A s \in Created' : s <= r
    BY <2>2, <2>3
  <2>6. ASSUME ~overlapped, asker'[q].at = "creating", NEW r \in Runs, Running(r)'
        PROVE  FALSE
    <3>1. ~InFlight'
      BY <1>2, <2>6 DEF GiveUp
    <3>2. r \in Created' /\ \A s \in Created' : s <= r
      BY <2>2, <2>3, <2>5, <2>6
    <3>3. Latest' \in Created' /\ r <= Latest' /\ Latest' <= r
      BY <3>2 DEF Latest
    <3>4. Latest' = r /\ r # 0
      BY <2>2, <3>3, RunsAssumption
    <3> QED BY <2>6, <3>1, <3>4 DEF InFlight
  <2> QED BY <2>2, <2>3, <2>4, <2>5, <2>6
<1>3. ASSUME NEW q \in Requests, RequestRun(q)
      PROVE  LatestRuns'
  BY <1>3, LatestIsLast, RunsAssumption DEF RequestRun, InFlight
<1>4. ASSUME NEW q \in Requests, Create(q)
      PROVE  LatestRuns'
  <2>1. PICK r \in Created' :
                 /\ Reach(q, "enqueueing", r)
                 /\ \A s \in Runs \ {r} : run'[s] = run[s]
                 /\ \A s \in Created' : s <= r
    BY <1>4, CreateAppends
  <2>2. ASSUME ~overlapped'
        PROVE  /\ \A p \in Requests : asker'[p].at # "creating"
               /\ \A s \in Runs : Running(s)' => s = r
    BY <1>4, <2>1, <2>2 DEF Create
  <2> QED BY <2>1, <2>2
<1>5. ASSUME NEW q \in Requests, Enqueue(q)
      PROVE  LatestRuns'
  BY <1>5, LatestIsLast, RunsAssumption DEF Enqueue
<1>6. ASSUME NEW q \in Requests, Refuse(q)
      PROVE  LatestRuns'
  BY <1>6, LatestIsLast, RunsAssumption DEF Refuse, AboutCreated
<1>7. ASSUME NEW q \in Requests, Crash(q)
      PROVE  LatestRuns'
  BY <1>7, LatestIsLast, RunsAssumption DEF Crash
<1>8. ASSUME NEW r \in Runs, Lose(r)
      PROVE  LatestRuns'
  BY <1>8, LatestIsLast, RunsAssumption DEF Lose
<1>9. ASSUME NEW r \in Runs, Begin(r)
      PROVE  LatestRuns'
  BY <1>9, LatestIsLast, RunsAssumption DEF Begin
<1>10. ASSUME NEW r \in Runs, Lock(r)
       PROVE  LatestRuns'
  BY <1>10, LatestIsLast, RunsAssumption DEF Lock
<1>11. ASSUME NEW r \in Runs, Finish(r)
       PROVE  LatestRuns'
  BY <1>11, LatestIsLast, RunsAssumption DEF Finish, RowLocked, AboutCreated
<1>12. ASSUME NEW r \in Runs, Fail(r)
       PROVE  LatestRuns'
  BY <1>12, LatestIsLast, RunsAssumption DEF Fail
<1>13. ASSUME NEW r \in Runs, MarkFailed(r)
       PROVE  LatestRuns'
  <2>1. Created' = Created
    BY <1>13, StatusCreates DEF MarkFailed, AboutCreated
  <2>2. \A s \in Runs : Running(s)' => Running(s)
    BY <1>13 DEF MarkFailed
  <2> QED BY <1>13, <2>1, <2>2 DEF MarkFailed
<1>14. ASSUME NEW r \in Runs, Kill(r)
       PROVE  LatestRuns'
  BY <1>14, LatestIsLast, RunsAssumption DEF Kill
<1>15. CASE Tick
  BY <1>15 DEF Tick, Ages, AboutCreated
<1>16. CASE Rest \/ UNCHANGED runVars
  BY <1>16 DEF Rest, runVars, Ages
<1> QED BY <1>1, <1>2, <1>3, <1>4, <1>5, <1>6, <1>7, <1>8,
         <1>9, <1>10, <1>11, <1>12, <1>13, <1>14, <1>15, <1>16 DEF RunsNext, Serve, Working

(* The attempt that did not go astray is on time.                          *)
LEMMA OnTimeStep ==
  ASSUME TypeOK, AboutCreated, OwnRun, StuckIsOverdue, OnTime, [RunsNext]_runVars
  PROVE  OnTime'
<1> USE DEF TypeOK, RunOK, PassOK, OnTime, SetStatus, Move, Leave, NoPass, Live, RowLocked, Running
<1>1. ASSUME NEW q \in Requests, Look(q)
      PROVE  OnTime'
  BY <1>1, LimitsAssumption DEF Look
<1>2. ASSUME NEW q \in Requests, GiveUp(q)
      PROVE  OnTime'
  <2>1. asker[q].run \in Runs
    BY <1>2, AskersRun DEF GiveUp
  <2>2. ASSUME Live(asker[q].run), asker[q].run \notin strayed
        PROVE  FALSE
    <3> DEFINE r == asker[q].run
    <3>1. asker[q] = [at |-> "stuck", run |-> r]
      BY <1>2 DEF GiveUp, AskerOK
    <3>2. Running(r) /\ run[r].age <= Slack + pass[r].ran /\ pass[r].ran <= run[r].limit
      BY <2>1, <2>2
    <3>3. run[r].age > run[r].limit + Slack
      BY <2>1, <3>1, <3>2 DEF StuckIsOverdue, Overdue, Watchdog
    <3>4. {run[r].age, run[r].limit, pass[r].ran, Slack} \subseteq Nat
      BY <2>1, LimitsAssumption
    <3> HIDE DEF r
    <3> QED BY <3>2, <3>3, <3>4
  <2>3. \A r \in Runs \ {asker[q].run} : run'[r] = run[r]
    BY <1>2 DEF GiveUp
  <2> QED BY <1>2, <2>2, <2>3 DEF GiveUp
<1>3. ASSUME NEW q \in Requests, RequestRun(q)
      PROVE  OnTime'
  BY <1>3, LimitsAssumption DEF RequestRun
<1>4. ASSUME NEW q \in Requests, Create(q)
      PROVE  OnTime'
  BY <1>4, LimitsAssumption DEF Create, AboutCreated, Created
<1>5. ASSUME NEW q \in Requests, Enqueue(q)
      PROVE  OnTime'
  BY <1>5, LimitsAssumption DEF Enqueue, AboutCreated, Created
<1>6. ASSUME NEW q \in Requests, Refuse(q)
      PROVE  OnTime'
  BY <1>6, LimitsAssumption DEF Refuse, OwnRun, Dealing
<1>7. ASSUME NEW q \in Requests, Crash(q)
      PROVE  OnTime'
  BY <1>7, LimitsAssumption DEF Crash
<1>8. ASSUME NEW r \in Runs, Lose(r)
      PROVE  OnTime'
  BY <1>8, LimitsAssumption DEF Lose
<1>9. ASSUME NEW r \in Runs, Begin(r)
      PROVE  OnTime'
  BY <1>9, LimitsAssumption DEF Begin
<1>10. ASSUME NEW r \in Runs, Lock(r)
       PROVE  OnTime'
  BY <1>10, LimitsAssumption DEF Lock
<1>11. ASSUME NEW r \in Runs, Finish(r)
       PROVE  OnTime'
  BY <1>11, FalterTypes DEF Finish
<1>12. ASSUME NEW r \in Runs, Fail(r)
       PROVE  OnTime'
  BY <1>12, FalterTypes DEF Fail
<1>13. ASSUME NEW r \in Runs, MarkFailed(r)
       PROVE  OnTime'
  BY <1>13, LimitsAssumption DEF MarkFailed
<1>14. ASSUME NEW r \in Runs, Kill(r)
       PROVE  OnTime'
  BY <1>14, LimitsAssumption DEF Kill
<1>15. CASE Tick
  <2>1. ASSUME NEW r \in Runs, Live(r)', r \notin strayed'
        PROVE  /\ Running(r)'
               /\ run'[r].age <= Slack + pass'[r].ran
               /\ pass'[r].ran <= run'[r].limit
    <3>1. Running(r) /\ Live(r) /\ run[r].age <= Slack + pass[r].ran
      BY <1>15, <2>1 DEF Tick
    <3>2. /\ run'[r].status = run[r].status /\ run'[r].limit = run[r].limit
          /\ run'[r].age \in {run[r].age, run[r].age + 1}
      BY <1>15 DEF Tick
    <3>3. pass'[r].ran = pass[r].ran + 1 /\ pass[r].ran < run[r].limit
      BY <1>15, <3>1 DEF Tick
    <3>4. {run[r].age, run[r].limit, pass[r].ran, Slack} \subseteq Nat
      BY LimitsAssumption
    <3>5. run'[r].age <= Slack + pass'[r].ran /\ pass'[r].ran <= run'[r].limit
      BY <3>1, <3>2, <3>3, <3>4
    <3> QED BY <3>1, <3>2, <3>5
  <2> QED BY <2>1
<1>16. CASE Rest \/ UNCHANGED runVars
  BY <1>16 DEF Rest, runVars, Ages
<1> QED BY <1>1, <1>2, <1>3, <1>4, <1>5, <1>6, <1>7, <1>8,
         <1>9, <1>10, <1>11, <1>12, <1>13, <1>14, <1>15, <1>16 DEF RunsNext, Serve, Working

(* A RUNNING run somebody is about to give up on is overdue.               *)
LEMMA StuckIsOverdueStep ==
  ASSUME TypeOK, AboutCreated, StuckIsOverdue, [RunsNext]_runVars
  PROVE  StuckIsOverdue'
<1> USE DEF TypeOK, RunOK, AskerOK, StuckIsOverdue, SetStatus, Reach, Running, Overdue, Watchdog
<1>1. ASSUME NEW q \in Requests, Look(q)
      PROVE  StuckIsOverdue'
  BY <1>1, LimitsAssumption DEF Look
<1>2. ASSUME NEW q \in Requests, GiveUp(q)
      PROVE  StuckIsOverdue'
  BY <1>2, LimitsAssumption DEF GiveUp, AboutCreated, Created
<1>3. ASSUME NEW q \in Requests, RequestRun(q)
      PROVE  StuckIsOverdue'
  BY <1>3, LimitsAssumption DEF RequestRun
<1>4. ASSUME NEW q \in Requests, Create(q)
      PROVE  StuckIsOverdue'
  BY <1>4, LimitsAssumption DEF Create, AboutCreated, Created
<1>5. ASSUME NEW q \in Requests, Enqueue(q)
      PROVE  StuckIsOverdue'
  BY <1>5, LimitsAssumption DEF Enqueue
<1>6. ASSUME NEW q \in Requests, Refuse(q)
      PROVE  StuckIsOverdue'
  BY <1>6, LimitsAssumption DEF Refuse, AboutCreated, Created
<1>7. ASSUME NEW q \in Requests, Crash(q)
      PROVE  StuckIsOverdue'
  BY <1>7, LimitsAssumption DEF Crash
<1>8. ASSUME NEW r \in Runs, Lose(r)
      PROVE  StuckIsOverdue'
  BY <1>8, LimitsAssumption DEF Lose
<1>9. ASSUME NEW r \in Runs, Begin(r)
      PROVE  StuckIsOverdue'
  BY <1>9, LimitsAssumption DEF Begin
<1>10. ASSUME NEW r \in Runs, Lock(r)
       PROVE  StuckIsOverdue'
  BY <1>10, LimitsAssumption DEF Lock
<1>11. ASSUME NEW r \in Runs, Finish(r)
       PROVE  StuckIsOverdue'
  BY <1>11, LimitsAssumption DEF Finish
<1>12. ASSUME NEW r \in Runs, Fail(r)
       PROVE  StuckIsOverdue'
  BY <1>12, LimitsAssumption DEF Fail
<1>13. ASSUME NEW r \in Runs, MarkFailed(r)
       PROVE  StuckIsOverdue'
  <2>1. \A s \in Runs : run'[s] = run[s] \/ run'[s].status = "FAILED"
    BY <1>13 DEF MarkFailed
  <2>2. asker' = asker
    BY <1>13 DEF MarkFailed
  <2> QED BY <2>1, <2>2
<1>14. ASSUME NEW r \in Runs, Kill(r)
       PROVE  StuckIsOverdue'
  BY <1>14, LimitsAssumption DEF Kill
<1>15. CASE Tick
  <2>1. ASSUME NEW r \in Runs
        PROVE  /\ run'[r].status = run[r].status /\ run'[r].limit = run[r].limit
               /\ run'[r].age \in {run[r].age, run[r].age + 1}
               /\ {run[r].age, run[r].limit} \subseteq Nat
    BY <1>15 DEF Tick
  <2>2. asker' = asker
    BY <1>15 DEF Tick
  <2> QED BY <2>1, <2>2, LimitsAssumption
<1>16. CASE Rest \/ UNCHANGED runVars
  BY <1>16 DEF Rest, runVars, Ages
<1> QED BY <1>1, <1>2, <1>3, <1>4, <1>5, <1>6, <1>7, <1>8,
         <1>9, <1>10, <1>11, <1>12, <1>13, <1>14, <1>15, <1>16 DEF RunsNext, Serve, Working

(* A run whose task did not go astray and has published is done with.      *)
LEMMA PublishedIsSettledStep ==
  ASSUME TypeOK, AboutCreated, LockHolds, OwnRun, OnTime, StuckIsOverdue, PublishedIsSettled, [RunsNext]_runVars
  PROVE  PublishedIsSettled'
<1> USE DEF TypeOK, RunOK, PassOK, AskerOK, PublishedIsSettled, SetStatus, Move, Leave, NoPass, Reach, RowLocked, Live, Running
<1>1. ASSUME NEW q \in Requests, Look(q)
      PROVE  PublishedIsSettled'
  <2>1. Running(Latest) /\ asker' = [asker EXCEPT ![q] = [at |-> "stuck", run |-> Latest]]
    BY <1>1 DEF Look
  <2> QED BY <1>1, <2>1 DEF Look
<1>2. ASSUME NEW q \in Requests, GiveUp(q)
      PROVE  PublishedIsSettled'
  <2>1. asker[q].at = "stuck" /\ asker[q].run \in Runs
    BY <1>2, AskersRun DEF GiveUp
  <2>2. asker[q].run \notin published \ strayed
    BY <2>1
  <2>3. \A r \in Runs \ {asker[q].run} : run'[r] = run[r]
    BY <1>2 DEF GiveUp
  <2>4. asker'[q].at # "stuck" /\ \A p \in Requests \ {q} : asker'[p] = asker[p]
    BY <1>2 DEF GiveUp
  <2>5. UNCHANGED <<pass, strayed, published>>
    BY <1>2 DEF GiveUp
  <2>6. \A r \in published \ strayed : r \in Runs /\ run'[r] = run[r]
    BY <2>2, <2>3
  <2>7. \A r \in published \ strayed, p \in Requests :
          asker'[p].at # "stuck" \/ asker'[p].run # r
    BY <2>4
  <2> QED BY <2>5, <2>6, <2>7
<1>3. ASSUME NEW q \in Requests, RequestRun(q)
      PROVE  PublishedIsSettled'
  BY <1>3, LimitsAssumption DEF RequestRun
<1>4. ASSUME NEW q \in Requests, Create(q)
      PROVE  PublishedIsSettled'
  BY <1>4, LimitsAssumption DEF Create, AboutCreated, Created
<1>5. ASSUME NEW q \in Requests, Enqueue(q)
      PROVE  PublishedIsSettled'
  <2>1. UNCHANGED <<run, published>> /\ strayed \subseteq strayed'
    BY <1>5 DEF Enqueue
  <2>2. asker[q].run \in Runs => asker[q].run \notin published \ strayed
    BY <1>5 DEF Enqueue, OwnRun, Dealing
  <2>3. \A r \in Runs : r # asker[q].run => pass'[r] = pass[r]
    BY <1>5 DEF Enqueue
  <2>4. asker'[q].at # "stuck" /\ \A p \in Requests \ {q} : asker'[p] = asker[p]
    BY <1>5 DEF Enqueue
  <2>5. ASSUME NEW r \in published \ strayed
        PROVE  /\ pass'[r] = pass[r]
               /\ \A p \in Requests : asker'[p].at # "stuck" \/ asker'[p].run # r
    BY <2>2, <2>3, <2>4
  <2> QED BY <2>1, <2>5
<1>6. ASSUME NEW q \in Requests, Refuse(q)
      PROVE  PublishedIsSettled'
  BY <1>6, LimitsAssumption DEF Refuse, OwnRun, Dealing
<1>7. ASSUME NEW q \in Requests, Crash(q)
      PROVE  PublishedIsSettled'
  BY <1>7, LimitsAssumption DEF Crash
<1>8. ASSUME NEW r \in Runs, Lose(r)
      PROVE  PublishedIsSettled'
  BY <1>8, LimitsAssumption DEF Lose
<1>9. ASSUME NEW r \in Runs, Begin(r)
      PROVE  PublishedIsSettled'
  BY <1>9, LimitsAssumption DEF Begin
<1>10. ASSUME NEW r \in Runs, Lock(r)
       PROVE  PublishedIsSettled'
  BY <1>10, LimitsAssumption DEF Lock
<1>11. ASSUME NEW r \in Runs, Finish(r)
       PROVE  PublishedIsSettled'
  <2>1. ASSUME r \notin strayed'
        PROVE  /\ run'[r].status = "COMPLETED" /\ pass'[r].at = "none"
               /\ \A p \in Requests : asker'[p].at # "stuck" \/ asker'[p].run # r
    <3>1. r \notin strayed /\ Leave(r) /\ asker' = asker
      BY <1>11, <2>1 DEF Finish
    <3>2. Running(r) /\ run[r].age <= Slack + pass[r].ran /\ pass[r].ran <= run[r].limit
      BY <1>11, <3>1 DEF Finish, OnTime
    <3>3. pass[r].at = "locked"
      BY <1>11, <3>2 DEF Finish, LockHolds
    <3>4. SetStatus(r, "COMPLETED")
      BY <1>11, <3>3 DEF Finish
    <3>5. ASSUME NEW p \in Requests, asker[p].at = "stuck", asker[p].run = r
          PROVE  FALSE
      <4>1. asker[p] = [at |-> "stuck", run |-> r]
        BY <3>5
      <4>2. run[r].age > run[r].limit + Slack
        BY <3>2, <4>1 DEF StuckIsOverdue, Overdue, Watchdog
      <4>3. {run[r].age, run[r].limit, pass[r].ran, Slack} \subseteq Nat
        BY LimitsAssumption
      <4> QED BY <3>2, <4>2, <4>3
    <3> QED BY <3>1, <3>4, <3>5
  <2>2. \A s \in Runs \ {r} : run'[s] = run[s] /\ pass'[s] = pass[s]
    BY <1>11, FalterTypes DEF Finish
  <2>3. published' = published \cup {r} /\ strayed \subseteq strayed' /\ strayed' \subseteq strayed \cup {r}
    BY <1>11 DEF Finish
  <2>4. asker' = asker
    BY <1>11 DEF Finish
  <2> QED BY <2>1, <2>2, <2>3, <2>4
<1>12. ASSUME NEW r \in Runs, Fail(r)
       PROVE  PublishedIsSettled'
  BY <1>12, FalterTypes DEF Fail
<1>13. ASSUME NEW r \in Runs, MarkFailed(r)
       PROVE  PublishedIsSettled'
  BY <1>13, LimitsAssumption DEF MarkFailed
<1>14. ASSUME NEW r \in Runs, Kill(r)
       PROVE  PublishedIsSettled'
  BY <1>14, LimitsAssumption DEF Kill
<1>15. CASE Tick
  BY <1>15 DEF Tick
<1>16. CASE Rest \/ UNCHANGED runVars
  BY <1>16 DEF Rest, runVars, Ages
<1> QED BY <1>1, <1>2, <1>3, <1>4, <1>5, <1>6, <1>7, <1>8,
         <1>9, <1>10, <1>11, <1>12, <1>13, <1>14, <1>15, <1>16 DEF RunsNext, Serve, Working

-----------------------------------------------------------------------------
(* The theorems.                                                           *)

LEMMA InitIInv == RunsInit => IInv
<1> SUFFICES ASSUME RunsInit PROVE IInv
  OBVIOUS
<1> USE DEF RunsInit
<1>1. RunOK /\ AskerOK
  BY DEF RunOK, AskerOK, NoRun, Idle
<1>2. PassOK
  BY RunsAssumption DEF PassOK, NoPass
<1>3. /\ \A r \in Runs : run[r].status = "NONE" /\ pass[r].at = "none"
      /\ \A q \in Requests : asker[q].at = "idle"
  BY DEF NoRun, NoPass, Idle
<1>4. Created = {}
  BY <1>3 DEF Created
<1>5. AboutCreated /\ LockHolds /\ OwnRun
  BY <1>3, <1>4 DEF AboutCreated, LockHolds, OwnRun, Dealing
<1>6. LatestRuns /\ OnTime /\ StuckIsOverdue /\ PublishedIsSettled
  BY <1>3 DEF LatestRuns, Running, OnTime, Live, StuckIsOverdue, PublishedIsSettled
<1> QED BY <1>1, <1>2, <1>5, <1>6 DEF IInv, TypeOK

LEMMA NextIInv == IInv /\ [RunsNext]_runVars => IInv'
<1> SUFFICES ASSUME IInv, [RunsNext]_runVars PROVE IInv'
  OBVIOUS
<1> USE DEF IInv
<1>1. TypeOK' /\ AboutCreated'
  BY TypeOKStep, AboutCreatedStep
<1>2. LockHolds' /\ LatestRuns' /\ OwnRun'
  BY LockHoldsStep, LatestRunsStep, OwnRunStep
<1>3. OnTime' /\ StuckIsOverdue' /\ PublishedIsSettled'
  BY OnTimeStep, StuckIsOverdueStep, PublishedIsSettledStep
<1> QED BY <1>1, <1>2, <1>3

(* The inductive invariant holds throughout.                               *)
THEOREM RunsInvariant == RunsSpec => []IInv
<1>1. RunsInit => IInv
  BY InitIInv
<1>2. IInv /\ [RunsNext]_runVars => IInv'
  BY NextIInv
<1> QED BY <1>1, <1>2, PTL DEF RunsSpec

(* The variables keep their types.                                         *)
THEOREM RunsTyped == RunsSpec => []TypeOK
<1>1. IInv => TypeOK
  BY DEF IInv
<1> QED BY <1>1, RunsInvariant, PTL

(* Two runs of the file are RUNNING at once only if the requests for them  *)
(* overlapped.                                                             *)
THEOREM OneRunning == RunsSpec => []OneRunningUnlessOverlapped
<1>1. IInv => OneRunningUnlessOverlapped
  <2> SUFFICES ASSUME IInv, NEW r \in Runs, NEW s \in Runs, Running(r), Running(s), r # s, ~overlapped
               PROVE  FALSE
    BY DEF OneRunningUnlessOverlapped
  <2>1. r <= s /\ s <= r
    BY DEF IInv, LatestRuns, Running, Created
  <2> QED BY <2>1, RunsAssumption
<1> QED BY <1>1, RunsInvariant, PTL

(* Two passes work on the file at once only if the requests for them       *)
(* overlapped or a task went astray: began late, was retried, or was taken *)
(* by a broker that raised.                                                *)
THEOREM OnePass == RunsSpec => []OnePassUnlessStrayed
<1>1. IInv => OnePassUnlessStrayed
  <2> SUFFICES ASSUME IInv, NEW r \in Runs, NEW s \in Runs, Live(r), Live(s), r # s,
                      r \notin strayed, s \notin strayed, ~overlapped
               PROVE  FALSE
    BY DEF OnePassUnlessStrayed
  <2>1. Running(r) /\ Running(s)
    BY DEF IInv, OnTime
  <2>2. r <= s /\ s <= r
    BY <2>1 DEF IInv, LatestRuns, Running, Created
  <2> QED BY <2>2, RunsAssumption
<1> QED BY <1>1, RunsInvariant, PTL

(* The findings a pass committed are never those of a FAILED run, unless   *)
(* its task went astray.                                                   *)
THEOREM NothingFailedIsPublished == RunsSpec => []FailedRunsPublishNothing
<1>1. IInv => FailedRunsPublishNothing
  BY DEF IInv, PublishedIsSettled, FailedRunsPublishNothing
<1> QED BY <1>1, RunsInvariant, PTL

(* A FAILED run stays FAILED, whoever finishes, retries or marks it.       *)
THEOREM FailedStays == RunsSpec => FailedIsSticky
<1>1. IInv /\ [RunsNext]_runVars =>
        [\A r \in Runs : run[r].status = "FAILED" => run'[r].status = "FAILED"]_runVars
  <2> SUFFICES ASSUME IInv, RunsNext, NEW r \in Runs, run[r].status = "FAILED"
               PROVE  run'[r].status = "FAILED"
    OBVIOUS
  <2> USE DEF IInv, TypeOK, RunOK, SetStatus
  <2>1. ASSUME NEW q \in Requests, Look(q) \/ RequestRun(q) \/ Enqueue(q) \/ Crash(q)
        PROVE  run'[r].status = "FAILED"
    BY <2>1 DEF Look, RequestRun, Enqueue, Crash
  <2>2. ASSUME NEW q \in Requests, GiveUp(q) \/ Refuse(q)
        PROVE  run'[r].status = "FAILED"
    BY <2>2 DEF GiveUp, Refuse
  <2>3. ASSUME NEW q \in Requests, Create(q)
        PROVE  run'[r].status = "FAILED"
    BY <2>3 DEF Create, Created
  <2>4. ASSUME NEW s \in Runs, Lose(s) \/ Begin(s) \/ Lock(s) \/ Fail(s) \/ Kill(s)
        PROVE  run'[r].status = "FAILED"
    BY <2>4 DEF Lose, Begin, Lock, Fail, Kill
  <2>5. ASSUME NEW s \in Runs, Finish(s)
        PROVE  run'[r].status = "FAILED"
    BY <2>5 DEF Finish, LockHolds
  <2>6. ASSUME NEW s \in Runs, MarkFailed(s)
        PROVE  run'[r].status = "FAILED"
    BY <2>6 DEF MarkFailed
  <2>7. CASE Tick \/ Rest
    BY <2>7 DEF Tick, Rest, runVars
  <2> QED BY <2>1, <2>2, <2>3, <2>4, <2>5, <2>6, <2>7 DEF RunsNext, Serve, Working
<1> QED BY <1>1, RunsInvariant, PTL DEF RunsSpec, FailedIsSticky

(* The watchdog never gives up on a run whose first attempt, begun within  *)
(* the slack, is still at work.                                            *)
THEOREM WatchdogSpares == RunsSpec => WatchdogSparesTheLiving
<1>1. IInv /\ [RunsNext]_runVars =>
        [\A q \in Requests, r \in Runs :
           /\ asker[q] = [at |-> "stuck", run |-> r] /\ asker'[q].at # "stuck"
           /\ Running(r) /\ Live(r)
           => r \in strayed]_runVars
  <2> SUFFICES ASSUME IInv, NEW q \in Requests, NEW r \in Runs, Running(r), Live(r), r \notin strayed,
                      asker[q] = [at |-> "stuck", run |-> r]
               PROVE  FALSE
    OBVIOUS
  <2>1. run[r].age <= Slack + pass[r].ran /\ pass[r].ran <= run[r].limit
    BY DEF IInv, OnTime
  <2>2. run[r].age > run[r].limit + Slack
    BY DEF IInv, StuckIsOverdue, Overdue, Watchdog
  <2>3. {run[r].age, run[r].limit, pass[r].ran, Slack} \subseteq Nat
    BY LimitsAssumption DEF IInv, TypeOK, RunOK, PassOK
  <2> QED BY <2>1, <2>2, <2>3
<1> QED BY <1>1, RunsInvariant, PTL DEF RunsSpec, WatchdogSparesTheLiving
============================================================================
