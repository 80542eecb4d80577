-------------------------- MODULE NeedsList_proofs --------------------------
(***************************************************************************)
(* The needs list, for any needs, types, documents, passes and requests.   *)
(*                                                                         *)
(* First the Redis lock, where what a pass computes plays no part.  Then   *)
(* the types, and what every reader of the list knows: its rows are the    *)
(* needs it loaded (Claims); its list is the stored one until somebody     *)
(* else commits, and differs in documents given back as long as only       *)
(* requests do (Informed); what it plans is what its errand may do         *)
(* (Planned, from NeedsEngine_proofs); the need an update flushed twice    *)
(* was there and is to be REJECTED (Rejecting).  The properties of a       *)
(* commit follow from what its reader knows.                               *)
(***************************************************************************)
EXTENDS NeedsList, NeedsEngine_proofs

-----------------------------------------------------------------------------
(* The inductive invariant.                                                *)

LockTypes ==
  /\ pc \in [Procs -> {"unused", "inside", "planned", "held", "proposed", "committed", "ended"}]
  /\ job = [q \in Procs |-> [kind |-> job[q].kind, doc |-> job[q].doc, rejects |-> job[q].rejects]]
  /\ lock \in Passes \cup {None}
  /\ unlocked \subseteq Passes

(* A pass inside holds the lock, unless it is known to go on without it.   *)
InsideHolds == \A p \in Passes : Inside(p) /\ p \notin unlocked => lock = p

LockInv == LockTypes /\ InsideHolds

-----------------------------------------------------------------------------
(* How a process moves.                                                    *)

LEMMA Moved ==
  ASSUME LockTypes, NEW p \in Procs,
         NEW label \in {"unused", "inside", "planned", "held", "proposed", "committed", "ended"},
         Goto(p, label)
  PROVE  /\ pc' \in [Procs -> {"unused", "inside", "planned", "held", "proposed", "committed", "ended"}]
         /\ pc'[p] = label /\ \A q \in Procs \ {p} : pc'[q] = pc[q]
BY DEF Goto, LockTypes

(* A process that stays on its errand moves on within its stretch.         *)
LEMMA OnwardKeeps ==
  ASSUME LockInv, NEW p \in Procs, NEW label \in {"inside", "planned", "held", "proposed", "ended"},
         Goto(p, label), UNCHANGED <<lock, unlocked>>,
         UNCHANGED job \/ \E n : job' = [job EXCEPT ![p].rejects = n],
         p \in Passes /\ label # "ended" => Inside(p)
  PROVE  LockInv'
<1>1. LockTypes'
  BY Moved DEF LockInv, LockTypes
<1>2. \A q \in Procs : job'[q].kind = job[q].kind
  BY DEF LockInv, LockTypes
<1>3. \A q \in Passes : Inside(q)' => Inside(q)
  BY <1>2, Moved DEF LockInv, Inside, Procs
<1> QED BY <1>1, <1>3 DEF LockInv, InsideHolds

(* A process that ends frees its own lock, or nobody's.                    *)
LEMMA EndKeeps ==
  ASSUME LockInv, NEW p \in Procs, NEW label \in {"unused", "committed", "ended"},
         End(p, label), Release(p) \/ UNCHANGED lock
  PROVE  LockInv'
<1>1. /\ pc' \in [Procs -> {"unused", "inside", "planned", "held", "proposed", "committed", "ended"}]
      /\ pc'[p] = label /\ \A q \in Procs \ {p} : pc'[q] = pc[q]
  BY Moved DEF End, LockInv
<1>2. /\ job' = [q \in Procs |-> [kind |-> job'[q].kind, doc |-> job'[q].doc, rejects |-> job'[q].rejects]]
      /\ \A q \in Procs \ {p} : job'[q] = job[q]
  BY DEF End, NoJob, LockInv, LockTypes
<1>3. LockTypes'
  BY <1>1, <1>2 DEF End, Release, LockInv, LockTypes
<1>4. ASSUME NEW q \in Passes, Inside(q)', q \notin unlocked'
      PROVE  lock' = q
  <2>1. q # p
    BY <1>1, <1>4 DEF Inside, Procs
  <2>2. Inside(q) /\ q \notin unlocked
    BY <1>1, <1>2, <1>4, <2>1 DEF Inside, End, Procs
  <2> QED BY <2>1, <2>2 DEF LockInv, InsideHolds, Release
<1> QED BY <1>3, <1>4 DEF LockInv, InsideHolds

(* A process that sets out has its errand, and rejects nothing yet.        *)
LEMMA SetsOut ==
  ASSUME LockTypes, NEW p \in Procs, NEW kind, NEW d,
         job' = [job EXCEPT ![p] = [kind |-> kind, doc |-> d, rejects |-> None]]
  PROVE  /\ job' = [q \in Procs |-> [kind |-> job'[q].kind, doc |-> job'[q].doc, rejects |-> job'[q].rejects]]
         /\ \A q \in Procs \ {p} : job'[q] = job[q]
<1> DEFINE r == [kind |-> kind, doc |-> d, rejects |-> None]
<1>1. job' = [job EXCEPT ![p] = r]
  OBVIOUS
<1>2. r = [kind |-> r.kind, doc |-> r.doc, rejects |-> r.rejects]
  OBVIOUS
<1> HIDE DEF r
<1>3. job'[p] = r /\ \A q \in Procs \ {p} : job'[q] = job[q]
  BY <1>1 DEF LockTypes
<1>4. \A q \in Procs : job'[q] = [kind |-> job'[q].kind, doc |-> job'[q].doc, rejects |-> job'[q].rejects]
  BY <1>2, <1>3 DEF LockTypes
<1>5. job' = [q \in Procs |-> job'[q]]
  BY <1>1 DEF LockTypes
<1> QED BY <1>3, <1>4, <1>5

-----------------------------------------------------------------------------
(* The actions.                                                            *)

LEMMA StartKeeps ==
  ASSUME LockInv, NEW p \in Passes, NEW kind, NEW d, Start(p, kind, d)
  PROVE  LockInv'
<1>1. p \in Procs /\ Goto(p, "inside")
  BY DEF Start, Enter, Procs
<1>2. /\ pc' \in [Procs -> {"unused", "inside", "planned", "held", "proposed", "committed", "ended"}]
      /\ \A q \in Procs \ {p} : pc'[q] = pc[q]
  BY <1>1, Moved DEF LockInv
<1>3. /\ job' = [q \in Procs |-> [kind |-> job'[q].kind, doc |-> job'[q].doc, rejects |-> job'[q].rejects]]
      /\ \A q \in Procs \ {p} : job'[q] = job[q]
  BY <1>1, SetsOut DEF Start, LockInv
<1>4. LockTypes'
  BY <1>2, <1>3 DEF Start, Enter, LockInv, LockTypes
<1>5. ASSUME NEW q \in Passes \ {p}, Inside(q)', q \notin unlocked'
      PROVE  lock' = q
  <2>1. Inside(q) /\ q \notin unlocked
    BY <1>2, <1>3, <1>5 DEF Inside, Start, Enter, Procs
  <2>2. lock = q /\ q # None
    BY <2>1, ProcsAssumption DEF LockInv, InsideHolds, Procs
  <2> QED BY <2>2 DEF Start, Enter
<1>6. p \notin unlocked' => lock' = p
  BY DEF Start, Enter
<1> QED BY <1>4, <1>5, <1>6 DEF LockInv, InsideHolds

LEMMA StartsKeep ==
  ASSUME LockInv, NEW p \in Passes, StartUpdate(p) \/ StartPropose(p) \/ StartSync(p)
  PROVE  LockInv'
BY StartKeeps DEF StartUpdate, StartPropose, StartSync

LEMMA MatchKeeps ==
  ASSUME LockInv, NEW p \in Passes, Match(p)
  PROVE  LockInv'
<1>1. p \in Procs /\ Inside(p)
  BY DEF Match, Inside, Procs
<1>2. CASE /\ Goto(p, "planned") /\ UNCHANGED locking
           /\ \E n : job' = [job EXCEPT ![p].rejects = n]
  BY <1>1, <1>2, OnwardKeeps DEF locking
<1>3. CASE End(p, "ended") /\ Release(p)
  BY <1>1, <1>3, EndKeeps
<1> QED BY <1>2, <1>3 DEF Match

LEMMA FlushKeeps ==
  ASSUME LockInv, NEW p \in Passes, Flush(p)
  PROVE  LockInv'
<1>1. p \in Procs /\ Inside(p) /\ Goto(p, "held") /\ UNCHANGED job
  BY DEF Flush, Inside, Procs
<1>2. CASE job[p].kind # "verify"
  BY <1>1, <1>2, OnwardKeeps DEF Flush, locking
<1>3. CASE job[p].kind = "verify"
  <2>1. /\ pc' \in [Procs -> {"unused", "inside", "planned", "held", "proposed", "committed", "ended"}]
        /\ pc'[p] = "held" /\ \A q \in Procs \ {p} : pc'[q] = pc[q]
    BY <1>1, Moved DEF LockInv
  <2>2. LockTypes'
    BY <1>1, <1>3, <2>1 DEF Flush, Release, LockInv, LockTypes
  <2>3. ASSUME NEW q \in Passes, Inside(q)', q \notin unlocked'
        PROVE  lock' = q
    <3>1. q # p
      BY <1>3, <2>3 DEF Flush
    <3>2. Inside(q) /\ q \notin unlocked
      BY <1>1, <1>3, <2>1, <2>3, <3>1 DEF Inside, Flush, Procs
    <3> QED BY <1>3, <3>1, <3>2 DEF LockInv, InsideHolds, Release, Flush
  <2> QED BY <2>2, <2>3 DEF LockInv, InsideHolds
<1> QED BY <1>2, <1>3

LEMMA WorkKeeps ==
  ASSUME LockInv, NEW p \in Passes, Propose(p) \/ Sync(p)
  PROVE  LockInv'
<1>1. PICK label \in {"planned", "proposed"} : Goto(p, label)
  BY DEF Propose, Sync
<1>2. p \in Procs /\ Inside(p) /\ UNCHANGED <<job, locking>>
  BY DEF Propose, Sync, Inside, Procs
<1> QED BY <1>1, <1>2, OnwardKeeps DEF locking

LEMMA PassEndKeeps ==
  ASSUME LockInv, NEW p \in Passes, Finish(p) \/ Fail(p) \/ Kill(p)
  PROVE  LockInv'
<1>1. p \in Procs
  BY DEF Procs
<1>2. /\ End(p, "committed") \/ End(p, "unused") \/ End(p, "ended")
      /\ Release(p) \/ UNCHANGED lock
  BY DEF Finish, Fail, Kill, Commit
<1> QED BY <1>1, <1>2, EndKeeps

(* A request has no part in the lock.                                      *)
LEMMA AskKeeps ==
  ASSUME LockInv, NEW q \in Requests, NEW kind, NEW d, NEW N,
         Ask(q, kind, d, N)
  PROVE  LockInv'
<1>1. q \in Procs /\ q \notin Passes
  BY ProcsAssumption DEF Procs
<1>2. /\ pc' \in [Procs -> {"unused", "inside", "planned", "held", "proposed", "committed", "ended"}]
      /\ \A p \in Procs \ {q} : pc'[p] = pc[p]
  BY <1>1, Moved DEF Ask, LockInv
<1>3. /\ job' = [p \in Procs |-> [kind |-> job'[p].kind, doc |-> job'[p].doc, rejects |-> job'[p].rejects]]
      /\ \A p \in Procs \ {q} : job'[p] = job[p]
  BY <1>1, SetsOut DEF Ask, LockInv
<1>4. LockTypes'
  BY <1>2, <1>3 DEF Ask, locking, LockInv, LockTypes
<1>5. \A p \in Passes : Inside(p)' => Inside(p)
  BY <1>1, <1>2, <1>3 DEF Inside, Procs
<1> QED BY <1>4, <1>5 DEF Ask, locking, LockInv, InsideHolds

LEMMA RequestKeeps ==
  ASSUME LockInv, NEW q \in Requests, Request(q)
  PROVE  LockInv'
<1>1. q \in Procs /\ q \notin Passes
  BY ProcsAssumption DEF Procs
<1>2. ASSUME NEW kind, NEW d, NEW N, Ask(q, kind, d, N)
      PROVE  LockInv'
  BY <1>2, AskKeeps
<1>3. CASE AddNeed(q)
  BY <1>2, <1>3 DEF AddNeed
<1>4. CASE ConfirmNeed(q) \/ AdjustNeed(q) \/ ConfirmCoverage(q) \/ WaiveNeed(q)
  BY <1>2, <1>4 DEF ConfirmNeed, AdjustNeed, ConfirmCoverage, WaiveNeed, Revise
<1>5. CASE Replace(q)
  BY <1>2, <1>5 DEF Replace
<1>6. CASE TouchDocument(q)
  BY <1>1, <1>6, OnwardKeeps DEF TouchDocument, DocumentsMove, locking
<1>7. CASE Answer(q) \/ Abandon(q)
  <2>1. (End(q, "committed") \/ End(q, "ended")) /\ UNCHANGED lock
    BY <1>7 DEF Answer, Abandon, Commit
  <2> QED BY <1>1, <2>1, EndKeeps
<1> QED BY <1>3, <1>4, <1>5, <1>6, <1>7 DEF Request

(* Redis drops the lock: its holder, if inside, is known to go on.         *)
LEMMA ExpiryKeeps ==
  ASSUME LockInv, LockExpires
  PROVE  LockInv'
<1>1. UNCHANGED <<pc, job>> /\ lock' = None
  BY DEF LockExpires
<1>2. LockTypes'
  BY <1>1 DEF LockExpires, LockInv, LockTypes
<1>3. ASSUME NEW p \in Passes, Inside(p)', p \notin unlocked'
      PROVE  FALSE
  <2>1. Inside(p) /\ p \notin unlocked
    BY <1>1, <1>3 DEF Inside, LockExpires
  <2>2. lock = p
    BY <2>1 DEF LockInv, InsideHolds
  <2> QED BY <1>3, <2>1, <2>2 DEF LockExpires
<1> QED BY <1>2, <1>3 DEF LockInv, InsideHolds

-----------------------------------------------------------------------------
(* The theorems.                                                           *)

LEMMA InitLockInv == Init => LockInv
BY DEF Init, NoJob, Kinds, Inside, Procs, LockInv, LockTypes, InsideHolds

LEMMA NextLockInv == LockInv /\ [Next]_vars => LockInv'
<1> SUFFICES ASSUME LockInv, [Next]_vars PROVE LockInv'
  OBVIOUS
<1>1. ASSUME NEW d \in Docs, Settle(d)
      PROVE  LockInv'
  BY <1>1 DEF Settle, DocumentsMove, locking, LockInv, LockTypes, InsideHolds, Inside
<1>2. ASSUME NEW p \in Passes, Pass(p)
      PROVE  LockInv'
  BY <1>2, StartsKeep, MatchKeeps, FlushKeeps, WorkKeeps, PassEndKeeps DEF Pass
<1>3. ASSUME NEW q \in Requests, Request(q)
      PROVE  LockInv'
  BY <1>3, RequestKeeps
<1>4. CASE LockExpires
  BY <1>4, ExpiryKeeps
<1>5. CASE Rest \/ UNCHANGED vars
  BY <1>5 DEF Rest, vars, locking, LockInv, LockTypes, InsideHolds, Inside
<1> QED BY <1>1, <1>2, <1>3, <1>4, <1>5 DEF Next

(* A pass inside the stretch the lock guards holds it, unless it never got *)
(* it, outlived it or freed it.                                            *)
THEOREM LockIsHeld == Spec => []LockInv
BY InitLockInv, NextLockInv, PTL DEF Spec

(* Two passes are inside together only if one of them is without the lock. *)
THEOREM SerialPasses == Spec => []SerialUnlessUnlocked
<1>1. LockInv => SerialUnlessUnlocked
  BY DEF LockInv, InsideHolds, SerialUnlessUnlocked
<1> QED BY <1>1, LockIsHeld, PTL

-----------------------------------------------------------------------------
(* The types.                                                              *)

ListsTyped == need \in NeedLists /\ saw \in [Procs -> NeedLists] /\ out \in [Procs -> NeedLists]
DocsTyped  == doc \in [Docs -> DocRows] /\ due \subseteq Docs /\ lapsed \subseteq Docs
Jobs       == [kind : Kinds, doc : Docs \cup {None}, rejects : Needs \cup {None}]
ProcsTyped ==
  /\ job \in [Procs -> Jobs]
  /\ raced \in [Procs -> SUBSET {"locked", "unlocked", "request"}]
  /\ outdated \subseteq Procs

(* An update and a replacement are of a document, and a sync past its      *)
(* savepoint has freed the lock.                                           *)
Errands ==
  /\ \A p \in Procs : job[p].kind \in {"update", "replace"} => job[p].doc \in Docs
  /\ \A p \in Passes : pc[p] = "held" /\ job[p].kind = "verify" => p \in unlocked

Typed == LockInv /\ ListsTyped /\ DocsTyped /\ ProcsTyped /\ Errands

LEMMA TypedIsTypeOK == Typed => TypeOK
BY DEF Typed, LockInv, LockTypes, ListsTyped, DocsTyped, ProcsTyped, Jobs, NeedLists, TypeOK

LEMMA BlankType == NoNeed \in NeedRows /\ Blank \in NeedLists
BY DEF NoNeed, Blank, NeedRows, NeedStatuses, NeedLists

LEMMA EmitFields ==
  ASSUME NEW c \in NeedRows, NEW a \in NeedRows, NEW b \in NeedRows
  PROVE  LET e == Emit(c, a, b) IN
         /\ e \in NeedRows
         /\ e.active = IF b.active = a.active THEN c.active ELSE b.active
         /\ e.status = IF b.status = a.status THEN c.status ELSE b.status
         /\ e.type = IF b.type = a.type THEN c.type ELSE b.type
         /\ e.who = IF b.who = a.who THEN c.who ELSE b.who
         /\ e.origin = IF b.origin = a.origin THEN c.origin ELSE b.origin
         /\ e.disp = IF b.disp = a.disp THEN c.disp ELSE b.disp
         /\ e.doc = IF b.doc = a.doc THEN c.doc ELSE b.doc
         /\ a = c => e = b
         /\ a = b => e = c
BY DEF Emit, NeedRows

(* A session that flushed k last, and loaded a, commits b.                 *)
Flushing(k, a, b) ==
  k = a \/ (k = [a EXCEPT !.status = "RECEIVED"] /\ b.status = "REJECTED" /\ a.origin # "NONE")

LEMMA WrittenFields ==
  ASSUME NEW c \in NeedRows, NEW a \in NeedRows, NEW b \in NeedRows, NEW k, Flushing(k, a, b)
  PROVE  LET e == Emit(c, k, b) IN
         /\ k \in NeedRows /\ e \in NeedRows
         /\ e.active = IF b.active = a.active THEN c.active ELSE b.active
         /\ e.status = IF b.status = a.status /\ k = a THEN c.status ELSE b.status
         /\ e.type = IF b.type = a.type THEN c.type ELSE b.type
         /\ e.origin = IF b.origin = a.origin THEN c.origin ELSE b.origin
         /\ e.disp = IF b.disp = a.disp THEN c.disp ELSE b.disp
         /\ e.doc = IF b.doc = a.doc THEN c.doc ELSE b.doc
         /\ a = c => e = b
         /\ k = a /\ a = b => e = c
<1>1. CASE k = a
  BY <1>1, EmitFields
<1>2. CASE k = [a EXCEPT !.status = "RECEIVED"] /\ b.status = "REJECTED"
  <2>1. /\ k \in NeedRows /\ k.status = "RECEIVED" /\ k.active = a.active /\ k.type = a.type
        /\ k.who = a.who /\ k.origin = a.origin /\ k.disp = a.disp /\ k.doc = a.doc
    BY <1>2 DEF NeedRows, NeedStatuses
  <2> DEFINE e == Emit(c, k, b)
  <2>0. /\ e \in NeedRows
        /\ e.active = IF b.active = k.active THEN c.active ELSE b.active
        /\ e.status = IF b.status = k.status THEN c.status ELSE b.status
        /\ e.type = IF b.type = k.type THEN c.type ELSE b.type
        /\ e.who = IF b.who = k.who THEN c.who ELSE b.who
        /\ e.origin = IF b.origin = k.origin THEN c.origin ELSE b.origin
        /\ e.disp = IF b.disp = k.disp THEN c.disp ELSE b.disp
        /\ e.doc = IF b.doc = k.doc THEN c.doc ELSE b.doc
    <3>1. k \in NeedRows
      BY <2>1
    <3> QED BY <3>1, EmitFields
  <2> HIDE DEF e
  <2>2. /\ e \in NeedRows
        /\ e.active = IF b.active = a.active THEN c.active ELSE b.active
        /\ e.status = b.status
        /\ e.type = IF b.type = a.type THEN c.type ELSE b.type
        /\ e.who = IF b.who = a.who THEN c.who ELSE b.who
        /\ e.origin = IF b.origin = a.origin THEN c.origin ELSE b.origin
        /\ e.disp = IF b.disp = a.disp THEN c.disp ELSE b.disp
        /\ e.doc = IF b.doc = a.doc THEN c.doc ELSE b.doc
    BY <1>2, <2>0, <2>1
  <2>3. a = c => e = b
    BY <2>2 DEF NeedRows
  <2>4. ~(k = a /\ a = b)
    BY <1>2, <2>1
  <2>5. e.status = IF b.status = a.status /\ k = a THEN c.status ELSE b.status
    BY <1>2, <2>1, <2>2
  <2> QED BY <2>1, <2>2, <2>3, <2>4, <2>5 DEF e
<1> QED BY <1>1, <1>2 DEF Flushing

(* The lists as each kind of step leaves them.                             *)
LEMMA PlanTyped ==
  ASSUME ListsTyped, NEW p \in Procs, NEW S \in NeedLists, NEW N \in NeedLists,
         saw' = [saw EXCEPT ![p] = S], out' = [out EXCEPT ![p] = N], UNCHANGED need
  PROVE  ListsTyped'
BY DEF ListsTyped

LEMMA ForgetTyped ==
  ASSUME ListsTyped, NEW p \in Procs, Forget(p), UNCHANGED need
  PROVE  ListsTyped'
BY BlankType, PlanTyped DEF Forget

LEMMA KnownType ==
  ASSUME ListsTyped, NEW p \in Procs, NEW n \in Needs
  PROVE  Known(p, n) \in NeedRows
<1>1. saw[p][n] \in NeedRows
  BY DEF ListsTyped, NeedLists
<1>2. [saw[p][n] EXCEPT !.status = "RECEIVED"] \in NeedRows
  BY <1>1 DEF NeedRows, NeedStatuses
<1> QED BY <1>1, <1>2 DEF Known

LEMMA CommitTyped ==
  ASSUME ListsTyped, NEW p \in Procs, Commit(p)
  PROVE  ListsTyped'
<1>1. \A n \in Needs : need[n] \in NeedRows /\ Known(p, n) \in NeedRows /\ out[p][n] \in NeedRows
  BY KnownType DEF ListsTyped, NeedLists
<1>2. \A n \in Needs : Emit(need[n], Known(p, n), out[p][n]) \in NeedRows
  BY <1>1, EmitFields
<1>3. need' = [n \in Needs |-> Emit(need[n], Known(p, n), out[p][n])]
  BY DEF Commit
<1>4. need' \in NeedLists
  BY <1>2, <1>3 DEF NeedLists
<1> QED BY <1>4, BlankType DEF Commit, ListsTyped

-----------------------------------------------------------------------------
(* What is planned.                                                        *)

(* A request gives no document to a need.  A replacement takes its         *)
(* document back from the needs in use that carry it; any other revision   *)
(* leaves documents alone and what was waived waived.                      *)
RequestRow(kind, d, a, b) ==
  /\ a.origin # "NONE" => b.active = a.active
  /\ b.doc \in {a.doc, None}
  /\ kind = "replace" => (a.active /\ a.doc = d => b.doc = None)
  /\ kind # "replace" => b.doc = a.doc /\ (a.active /\ a.status = "WAIVED" => b.status = "WAIVED")

(* List N is what p, on its errand, may make of list S.                    *)
Planned(p, kind, d, S, N) ==
  /\ WellFormed(S) /\ WellFormed(N)
  /\ \A n \in Needs : /\ Kept(S[n], N[n])
                      /\ p \in Passes => PassRow(kind, S[n], N[n])
                      /\ p \in Requests => RequestRow(kind, d, S[n], N[n])

(* N is made of the stored rows, in use or free, and drops no requirement. *)
MadeOfStored(p, kind, d, N) ==
  /\ N \in NeedLists /\ Planned(p, kind, d, need, N)
  /\ \A n \in Needs : need[n] = NoNeed /\ N[n] # NoNeed => n \in Free
  /\ p \in Passes => Asked(need) \subseteq Asked(N)

LEMMA MatchPlans ==
  ASSUME ListsTyped, WellFormed(need), NEW p \in Passes, NEW d \in Docs, NEW c
  PROVE  /\ MadeOfStored(p, "update", c, ApplyDocument(need, doc, d))
         /\ Reached(need, doc, d) \in Needs \cup {None}
         /\ doc[d].status # "COMPLETED" => \A n \in Needs : n = Reached(need, doc, d) =>
              need[n].origin # "NONE" /\ ApplyDocument(need, doc, d)[n].status = "REJECTED"
<1> DEFINE N == ApplyDocument(need, doc, d)
<1>1. p \notin Requests
  BY ProcsAssumption
<1>2. /\ N \in NeedLists /\ WellFormed(N)
      /\ \A n \in Needs : /\ Kept(need[n], N[n]) /\ PassRow("update", need[n], N[n])
                          /\ N[n] = NoNeed <=> need[n] = NoNeed
      /\ Asked(need) \subseteq Asked(N)
  BY MatchRows DEF ListsTyped
<1>3. \/ Reached(need, doc, d) = None
      \/ \E n \in OpenFor(need, doc, d) :
           Reached(need, doc, d) = n /\ N[n] = Fill(need[n], Outcome(need, doc, n, d), d)
  BY ApplyStep DEF ListsTyped
<1> HIDE DEF N
<1>4. Reached(need, doc, d) \in Needs \cup {None}
  BY <1>3 DEF OpenFor
<1>5. ASSUME doc[d].status # "COMPLETED", NEW n \in Needs, n = Reached(need, doc, d)
      PROVE  need[n].origin # "NONE" /\ N[n].status = "REJECTED"
  <2>1. n \in OpenFor(need, doc, d) /\ N[n] = Fill(need[n], "REJECTED", d)
    BY <1>3, <1>5, OutcomeType, NoneAssumption
  <2>2. need[n] \in NeedRows /\ "REJECTED" \in NeedStatuses
    BY DEF ListsTyped, NeedLists, NeedStatuses
  <2>3. need[n].active
    BY <2>1 DEF OpenFor
  <2> QED BY <2>1, <2>2, <2>3, FillFields, NoNeedFields DEF WellFormed
<1> QED BY <1>1, <1>2, <1>4, <1>5 DEF MadeOfStored, Planned, N

(* Whom new rows are for.                                                  *)
LEMMA SlotsSeed ==
  ASSUME NEW asks \in SUBSET Asks, NEW at \in Slots(asks)
  PROVE  Seeds(at) /\ DOMAIN at \subseteq Free
<1>1. PICK rows \in SUBSET Free : at \in [rows -> asks]
  BY DEF Slots, Bijection, Injection
<1> QED BY <1>1 DEF Seeds

LEMMA SyncPlans ==
  ASSUME ListsTyped, WellFormed(need), NEW p \in Passes, NEW c, Sync(p)
  PROVE  \E N : /\ Plan(p, N) /\ MadeOfStored(p, "verify", c, N)
                /\ CatchesUp(need, N, doc) /\ ConsumesOnce(need, N)
<1> DEFINE found(floor) == Rematch(Seed(need, floor, "FLOOR", "CONFIRMED"), doc)
<1>0. PICK floor \in Slots(FloorLacks(need)), wanted \in SUBSET (Types \ OnFile) :
         \E at \in Slots(Unasked(found(floor), wanted) \X {None}), alias \in SUBSET Needs :
           /\ DOMAIN at \cap DOMAIN floor = {}
           /\ Plan(p, SyncList(need, doc, floor, at, alias))
  BY DEF Sync, SyncList
<1>1. PICK at \in Slots(Unasked(found(floor), wanted) \X {None}), alias \in SUBSET Needs :
         /\ DOMAIN at \cap DOMAIN floor = {}
         /\ Plan(p, SyncList(need, doc, floor, at, alias))
  BY <1>0
<1> DEFINE N == SyncList(need, doc, floor, at, alias)
<1>2. Seeds(floor) /\ DOMAIN floor \subseteq Free
  <2>1. FloorLacks(need) \in SUBSET Asks
    BY NeedTypesAssumption DEF FloorLacks, Asks
  <2> QED BY <2>1, SlotsSeed
<1>3. Seeds(at) /\ DOMAIN at \subseteq Free
  <2> DEFINE asks == Unasked(found(floor), wanted) \X {None}
  <2>1. asks \in SUBSET Asks
    BY DEF Unasked, Asks
  <2>2. at \in Slots(asks)
    OBVIOUS
  <2> HIDE DEF asks
  <2> QED BY <2>1, <2>2, SlotsSeed
<1>4. Free \subseteq Needs /\ \A n \in Free : need[n] = NoNeed
  BY DEF Free
<1>5. Slotted(need, Free, floor, at)
  BY <1>1, <1>2, <1>3, <1>4 DEF Slotted
<1>6. /\ N \in NeedLists /\ WellFormed(N)
      /\ \A n \in Needs : /\ Kept(need[n], N[n]) /\ PassRow("verify", need[n], N[n])
                          /\ need[n] = NoNeed /\ n \notin Free => N[n] = NoNeed
      /\ Asked(need) \subseteq Asked(N)
      /\ CatchesUp(need, N, doc) /\ ConsumesOnce(need, N)
  BY <1>5, SyncRows DEF ListsTyped
<1>7. \A n \in Needs : need[n] = NoNeed /\ n \notin Free => N[n] = NoNeed
  BY <1>6, Zenon
<1> HIDE DEF N
<1>8. MadeOfStored(p, "verify", c, N)
  <2>1. p \notin Requests
    BY ProcsAssumption
  <2>2. Planned(p, "verify", c, need, N)
    BY <1>6, <2>1 DEF Planned
  <2> QED BY <1>6, <1>7, <2>2 DEF MadeOfStored
<1> QED BY <1>1, <1>6, <1>8 DEF N

(* A revision of one row in use.                                           *)
LEMMA RevisionPlans ==
  ASSUME ListsTyped, WellFormed(need), NEW q \in Requests, NEW n \in Needs, need[n].active,
         NEW row \in NeedRows,
         /\ row.origin = need[n].origin /\ row.active = need[n].active /\ row.doc = need[n].doc
         /\ row.type # None /\ row.disp \in {need[n].disp, "CONFIRMED", "WAIVED"}
         /\ need[n].status = "WAIVED" => row.status = "WAIVED"
  PROVE  MadeOfStored(q, "revise", None, [need EXCEPT ![n] = row])
<1> DEFINE N == [need EXCEPT ![n] = row]
<1>1. N \in NeedLists /\ N[n] = row /\ \A m \in Needs \ {n} : N[m] = need[m]
  BY DEF ListsTyped, NeedLists
<1> HIDE DEF N
<1>2. q \notin Passes
  BY ProcsAssumption
<1>3. need[n] # NoNeed /\ need[n].origin # "NONE" /\ (need[n].origin = "MANUAL" => need[n].disp # "PROPOSED")
  BY NoNeedFields DEF WellFormed
<1>4. ASSUME NEW m \in Needs
      PROVE  /\ Kept(need[m], N[m]) /\ RequestRow("revise", None, need[m], N[m])
             /\ N[m].origin = "NONE" => N[m] = NoNeed
             /\ N[m].origin # "NONE" => N[m].type # None
             /\ N[m].origin = "MANUAL" => N[m].disp # "PROPOSED"
             /\ need[m] = NoNeed /\ N[m] # NoNeed => m \in Free
  <2>1. CASE m = n
    BY <1>1, <1>3, <2>1 DEF Kept, RequestRow
  <2>2. CASE m # n
    <3>1. N[m] = need[m]
      BY <1>1, <2>2
    <3>2. Kept(need[m], need[m])
      BY SameRow
    <3>3. RequestRow("revise", None, need[m], need[m])
      BY DEF RequestRow
    <3> QED BY <3>1, <3>2, <3>3 DEF WellFormed
  <2> QED BY <2>1, <2>2
<1>5. WellFormed(N)
  <2> SUFFICES ASSUME NEW m \in Needs
               PROVE  /\ N[m].origin = "NONE" => N[m] = NoNeed
                      /\ N[m].origin # "NONE" => N[m].type # None
                      /\ N[m].origin = "MANUAL" => N[m].disp # "PROPOSED"
    BY DEF WellFormed
  <2> QED BY <1>4
<1>6. Planned(q, "revise", None, need, N)
  BY <1>2, <1>4, <1>5 DEF Planned
<1> QED BY <1>1, <1>2, <1>4, <1>6 DEF MadeOfStored, N

LEMMA AdditionPlans ==
  ASSUME ListsTyped, WellFormed(need), NEW q \in Requests, NEW n \in Free, NEW ask \in Asks
  PROVE  MadeOfStored(q, "revise", None, [need EXCEPT ![n] = NewNeed(ask, "MANUAL", "CONFIRMED")])
<1> DEFINE row == NewNeed(ask, "MANUAL", "CONFIRMED")
           N == [need EXCEPT ![n] = row]
<1>1. n \in Needs /\ need[n] = NoNeed
  BY DEF Free
<1>2. /\ row \in NeedRows /\ row.type # None /\ row.origin = "MANUAL" /\ row.disp = "CONFIRMED"
      /\ row.doc = None
  <2>1. row \in NeedRows
    BY DEF NeedRows, NewNeed, NeedStatuses, Asks
  <2>2. row.type = ask[1] /\ row.origin = "MANUAL" /\ row.disp = "CONFIRMED" /\ row.doc = None
    BY NewNeedFields
  <2>3. ask[1] # None
    BY NoneAssumption DEF Asks
  <2> HIDE DEF row
  <2> QED BY <2>1, <2>2, <2>3
<1> HIDE DEF row
<1>3. N \in NeedLists /\ N[n] = row /\ \A m \in Needs \ {n} : N[m] = need[m]
  BY <1>1, <1>2 DEF ListsTyped, NeedLists
<1> HIDE DEF N
<1>4. q \notin Passes
  BY ProcsAssumption
<1>5. ASSUME NEW m \in Needs
      PROVE  /\ Kept(need[m], N[m]) /\ RequestRow("revise", None, need[m], N[m])
             /\ N[m].origin = "NONE" => N[m] = NoNeed
             /\ N[m].origin # "NONE" => N[m].type # None
             /\ N[m].origin = "MANUAL" => N[m].disp # "PROPOSED"
             /\ need[m] = NoNeed /\ N[m] # NoNeed => m \in Free
  <2>1. CASE m = n
    BY <1>1, <1>2, <1>3, <2>1, NoNeedFields DEF Kept, RequestRow
  <2>2. CASE m # n
    <3>1. N[m] = need[m]
      BY <1>3, <2>2
    <3>2. Kept(need[m], need[m])
      BY SameRow
    <3>3. RequestRow("revise", None, need[m], need[m])
      BY DEF RequestRow
    <3> QED BY <3>1, <3>2, <3>3 DEF WellFormed
  <2> QED BY <2>1, <2>2
<1>6. WellFormed(N)
  <2> SUFFICES ASSUME NEW m \in Needs
               PROVE  /\ N[m].origin = "NONE" => N[m] = NoNeed
                      /\ N[m].origin # "NONE" => N[m].type # None
                      /\ N[m].origin = "MANUAL" => N[m].disp # "PROPOSED"
    BY DEF WellFormed
  <2> QED BY <1>5
<1>7. Planned(q, "revise", None, need, N)
  BY <1>4, <1>5, <1>6 DEF Planned
<1> QED BY <1>3, <1>4, <1>5, <1>7 DEF MadeOfStored, N, row

LEMMA ReplacementPlans ==
  ASSUME ListsTyped, WellFormed(need), NEW q \in Requests, NEW d \in Docs
  PROVE  MadeOfStored(q, "replace", d, ReopenSatisfiedBy(need, d))
<1> DEFINE N == ReopenSatisfiedBy(need, d)
<1>1. \A n \in Needs : need[n] \in NeedRows
  BY DEF ListsTyped, NeedLists
<1>2. \A a \in NeedRows : LET b == [a EXCEPT !.status = "PENDING", !.doc = None] IN
        /\ b \in NeedRows /\ b.active = a.active /\ b.type = a.type /\ b.origin = a.origin
        /\ b.disp = a.disp /\ b.doc = None
  BY DEF NeedRows, NeedStatuses
<1>3. ASSUME NEW n \in Needs
      PROVE  \/ N[n] = need[n] /\ ~(need[n].active /\ need[n].doc = d)
             \/ need[n].active /\ N[n] = [need[n] EXCEPT !.status = "PENDING", !.doc = None]
  BY DEF ReopenSatisfiedBy
<1>4. N = [n \in Needs |-> N[n]]
  BY DEF ReopenSatisfiedBy
<1> HIDE DEF N
<1>5. N \in NeedLists
  <2>1. \A n \in Needs : N[n] \in NeedRows
    BY <1>1, <1>2, <1>3
  <2> QED BY <1>4, <2>1 DEF NeedLists
<1>6. q \notin Passes
  BY ProcsAssumption
<1>7. ASSUME NEW n \in Needs
      PROVE  /\ Kept(need[n], N[n]) /\ RequestRow("replace", d, need[n], N[n])
             /\ N[n].origin = "NONE" => N[n] = NoNeed
             /\ N[n].origin # "NONE" => N[n].type # None
             /\ N[n].origin = "MANUAL" => N[n].disp # "PROPOSED"
             /\ need[n] = NoNeed => N[n] = NoNeed
  <2>1. CASE N[n] = need[n] /\ ~(need[n].active /\ need[n].doc = d)
    <3>1. Kept(need[n], need[n])
      BY SameRow
    <3>2. RequestRow("replace", d, need[n], need[n])
      BY <2>1 DEF RequestRow
    <3> QED BY <2>1, <3>1, <3>2 DEF WellFormed
  <2>2. CASE need[n].active /\ N[n] = [need[n] EXCEPT !.status = "PENDING", !.doc = None]
    <3>1. need[n] # NoNeed
      BY <2>2, NoNeedFields
    <3>2. /\ need[n].origin # "NONE" /\ need[n].type # None
          /\ need[n].origin = "MANUAL" => need[n].disp # "PROPOSED"
      BY <3>1 DEF WellFormed
    <3>3. /\ N[n].active = need[n].active /\ N[n].type = need[n].type /\ N[n].origin = need[n].origin
          /\ N[n].disp = need[n].disp /\ N[n].doc = None
      <4> DEFINE a == need[n]
      <4>1. a \in NeedRows /\ N[n] = [a EXCEPT !.status = "PENDING", !.doc = None]
        BY <1>1, <2>2
      <4> HIDE DEF a
      <4> QED BY <1>2, <4>1 DEF a
    <3> QED BY <3>1, <3>2, <3>3 DEF Kept, RequestRow
  <2> QED BY <1>3, <2>1, <2>2
<1>8. WellFormed(N)
  <2> SUFFICES ASSUME NEW m \in Needs
               PROVE  /\ N[m].origin = "NONE" => N[m] = NoNeed
                      /\ N[m].origin # "NONE" => N[m].type # None
                      /\ N[m].origin = "MANUAL" => N[m].disp # "PROPOSED"
    BY DEF WellFormed
  <2> QED BY <1>7
<1>9. Planned(q, "replace", d, need, N)
  BY <1>6, <1>7, <1>8 DEF Planned
<1> QED BY <1>5, <1>6, <1>7, <1>9 DEF MadeOfStored, N

Asking(q) == AddNeed(q) \/ ConfirmNeed(q) \/ AdjustNeed(q) \/ ConfirmCoverage(q) \/ WaiveNeed(q) \/ Replace(q)

LEMMA RequestPlans ==
  ASSUME ListsTyped, WellFormed(need), NEW q \in Requests, Asking(q)
  PROVE  \E kind \in {"revise", "replace"}, d \in Docs \cup {None}, N \in NeedLists :
           /\ Ask(q, kind, d, N) /\ MadeOfStored(q, kind, d, N)
           /\ kind = "replace" => d \in Docs
<1>1. ASSUME NEW N, Ask(q, "revise", None, N), MadeOfStored(q, "revise", None, N)
      PROVE  \E kind \in {"revise", "replace"}, d \in Docs \cup {None}, M \in NeedLists :
               /\ Ask(q, kind, d, M) /\ MadeOfStored(q, kind, d, M)
               /\ kind = "replace" => d \in Docs
  BY <1>1 DEF MadeOfStored
<1>2. ASSUME NEW n \in Needs, need[n].active
      PROVE  /\ need[n] \in NeedRows /\ need[n].type # None
  <2>1. need[n].origin # "NONE"
    BY <1>2, NoNeedFields DEF WellFormed
  <2> QED BY <2>1 DEF ListsTyped, NeedLists, WellFormed
<1>3. CASE AddNeed(q)
  <2>1. PICK ask \in Asks, n \in Free : Ask(q, "revise", None, [need EXCEPT ![n] = NewNeed(ask, "MANUAL", "CONFIRMED")])
    BY <1>3 DEF AddNeed, Asks
  <2> QED BY <1>1, <2>1, AdditionPlans
<1>4. CASE ConfirmNeed(q)
  <2>1. PICK n \in Needs : Revise(q, n, [need[n] EXCEPT !.disp = "CONFIRMED"])
    BY <1>4 DEF ConfirmNeed
  <2> DEFINE row == [need[n] EXCEPT !.disp = "CONFIRMED"]
  <2>2. need[n].active /\ Ask(q, "revise", None, [need EXCEPT ![n] = row])
    BY <2>1 DEF Revise
  <2>3. /\ row \in NeedRows /\ row.origin = need[n].origin /\ row.active = need[n].active
        /\ row.doc = need[n].doc /\ row.type # None /\ row.disp = "CONFIRMED" /\ row.status = need[n].status
    BY <1>2, <2>2 DEF NeedRows
  <2> HIDE DEF row
  <2> QED BY <1>1, <2>2, <2>3, RevisionPlans
<1>5. CASE AdjustNeed(q)
  <2>1. PICK n \in Needs, t \in Types : Revise(q, n, [need[n] EXCEPT !.type = t, !.disp = "CONFIRMED"])
    BY <1>5 DEF AdjustNeed
  <2> DEFINE row == [need[n] EXCEPT !.type = t, !.disp = "CONFIRMED"]
  <2>2. need[n].active /\ Ask(q, "revise", None, [need EXCEPT ![n] = row])
    BY <2>1 DEF Revise
  <2>3. /\ row \in NeedRows /\ row.origin = need[n].origin /\ row.active = need[n].active
        /\ row.doc = need[n].doc /\ row.type = t /\ row.disp = "CONFIRMED" /\ row.status = need[n].status
    BY <1>2, <2>2 DEF NeedRows
  <2>4. row.type # None
    BY <2>3, NoneAssumption
  <2> HIDE DEF row
  <2> QED BY <1>1, <2>2, <2>3, <2>4, RevisionPlans
<1>6. CASE ConfirmCoverage(q)
  <2>1. PICK n \in Needs : Revise(q, n, [need[n] EXCEPT !.status = IF @ = "RECEIVED" THEN "VERIFIED" ELSE @])
    BY <1>6 DEF ConfirmCoverage
  <2> DEFINE row == [need[n] EXCEPT !.status = IF @ = "RECEIVED" THEN "VERIFIED" ELSE @]
  <2>2. need[n].active /\ Ask(q, "revise", None, [need EXCEPT ![n] = row])
    BY <2>1 DEF Revise
  <2>3. /\ row \in NeedRows /\ row.origin = need[n].origin /\ row.active = need[n].active
        /\ row.doc = need[n].doc /\ row.type # None /\ row.disp = need[n].disp
        /\ need[n].status = "WAIVED" => row.status = "WAIVED"
    BY <1>2, <2>2 DEF NeedRows, NeedStatuses
  <2> HIDE DEF row
  <2> QED BY <1>1, <2>2, <2>3, RevisionPlans
<1>7. CASE WaiveNeed(q)
  <2>1. PICK n \in Needs : Revise(q, n, Waive(need[n]))
    BY <1>7 DEF WaiveNeed
  <2>2. need[n].active /\ Ask(q, "revise", None, [need EXCEPT ![n] = Waive(need[n])])
    BY <2>1 DEF Revise
  <2>3. /\ need[n].type # None /\ Waive(need[n]) \in NeedRows /\ Waive(need[n]).status = "WAIVED"
        /\ Waive(need[n]).disp = "WAIVED" /\ Waive(need[n]).active = need[n].active
        /\ Waive(need[n]).type = need[n].type /\ Waive(need[n]).origin = need[n].origin
        /\ Waive(need[n]).doc = need[n].doc
    BY <1>2, <2>2, WaiveFields
  <2> QED BY <1>1, <2>2, <2>3, RevisionPlans
<1>8. CASE Replace(q)
  <2>1. PICK d \in Docs : Ask(q, "replace", d, ReopenSatisfiedBy(need, d))
    BY <1>8 DEF Replace
  <2> QED BY <2>1, ReplacementPlans DEF MadeOfStored
<1> QED BY <1>3, <1>4, <1>5, <1>6, <1>7, <1>8 DEF Asking

-----------------------------------------------------------------------------
(* What a process knows.                                                   *)

(* The rows p loaded are still the same needs, and the rows it adds were   *)
(* free and are nobody else's.                                             *)
Claims(p) == \A n \in Needs :
  /\ saw[p][n].origin # "NONE" => need[n].origin = saw[p][n].origin
  /\ saw[p][n].origin = "NONE" /\ out[p][n].origin # "NONE"
     => need[n] = NoNeed /\ \A q \in Procs \ {p} : out[q][n] = NoNeed

(* List N asks for every type S asks for, proposals merged into a waived   *)
(* need aside.                                                             *)
Survive(kind, S, N) == Asked(S) \subseteq Asked(N) \cup IF kind = "verify" THEN {} ELSE Waived(S)

(* As long as nobody else commits p knows the list as it is; as long as    *)
(* only requests do, each need carries the document p saw, or none.        *)
Informed(p) ==
  /\ raced[p] = {} => saw[p] = need /\ (p \in Passes => Survive(job[p].kind, saw[p], out[p]))
  /\ raced[p] \subseteq {"request"} => \A n \in Needs : need[n].doc \in {saw[p][n].doc, None}

Synced(p) ==
  job[p].kind = "verify" /\ p \notin outdated
  => CatchesUp(saw[p], out[p], doc) /\ ConsumesOnce(saw[p], out[p])

(* A need an update rejects was in use, and is rejected in what it wants.  *)
Rejecting(p) == \A n \in Needs :
  n = job[p].rejects => saw[p][n].origin # "NONE" /\ out[p][n].status = "REJECTED"

Knows(p) ==
  /\ Planned(p, job[p].kind, job[p].doc, saw[p], out[p])
  /\ Claims(p) /\ Informed(p) /\ Synced(p) /\ Rejecting(p)

Knowing == WellFormed(need) /\ \A p \in Readers : Knows(p)

Idle(p) == /\ saw[p] = Blank /\ out[p] = Blank /\ raced[p] = {} /\ p \notin outdated
           /\ job[p].rejects = None
Idling  == \A p \in Procs \ Readers : Idle(p)

(* Two passes race under the lock only if the loser was without it.        *)
RacedLocked == \A p \in Passes : "locked" \in raced[p] => p \in unlocked

NeedsInv == Typed /\ Idling /\ Knowing /\ RacedLocked /\ SupersededAnswersNothingOld

-----------------------------------------------------------------------------
(* The proposals.                                                          *)

(* A process changes the rows it wants otherwise than it read them, and    *)
(* the need an update rejects.                                             *)
LEMMA KnownRow ==
  ASSUME ListsTyped, NEW p \in Procs, Rejecting(p), NEW n \in Needs
  PROVE  /\ Flushing(Known(p, n), saw[p][n], out[p][n])
         /\ n \in Changed(p) <=> out[p][n] # saw[p][n] \/ n = job[p].rejects
<1>1. saw[p][n] \in NeedRows
  BY DEF ListsTyped, NeedLists
<1>2. [saw[p][n] EXCEPT !.status = "RECEIVED"].status = "RECEIVED"
  BY <1>1 DEF NeedRows
<1>3. CASE n = job[p].rejects
  BY <1>2, <1>3 DEF Known, Flushing, Rejecting, Changed
<1>4. CASE n # job[p].rejects
  BY <1>4 DEF Known, Flushing, Changed
<1> QED BY <1>3, <1>4

(* The lists a task seeds its proposals into: as it found the rows, and as *)
(* it has flushed them.                                                    *)
Found(p)   == [n \in Needs |-> IF pc[p] = "held" /\ n \in Changed(p) THEN saw[p][n] ELSE need[n]]
Flushed(p) == IF pc[p] = "inside" THEN need ELSE Current(p)

LEMMA FoundRows ==
  ASSUME ListsTyped, Knowing, NEW p \in Passes, pc[p] \in {"inside", "held"}, job[p].kind # "verify"
  PROVE  /\ Found(p) \in NeedLists /\ Flushed(p) \in NeedLists
         /\ \A n \in Needs :
              \/ Found(p)[n] = need[n] /\ Flushed(p)[n] = need[n]
              \/ /\ pc[p] = "held"
                 /\ Found(p)[n] = saw[p][n] /\ Flushed(p)[n] = out[p][n]
<1>1. p \in Procs
  BY DEF Procs
<1>2. saw[p] \in NeedLists /\ out[p] \in NeedLists /\ need \in NeedLists
  BY <1>1 DEF ListsTyped
<1>3. CASE pc[p] = "inside"
  <2>1. Flushed(p) = need /\ Found(p) = [n \in Needs |-> need[n]]
    BY <1>3 DEF Flushed, Found
  <2> QED BY <1>2, <2>1 DEF NeedLists
<1>4. CASE pc[p] = "held"
  <2>1. Flushed(p) = [n \in Needs |-> IF n \in Changed(p) THEN out[p][n] ELSE need[n]]
    BY <1>4 DEF Flushed, Current
  <2>2. Found(p) = [n \in Needs |-> IF n \in Changed(p) THEN saw[p][n] ELSE need[n]]
    BY <1>4 DEF Found
  <2>3. Found(p) \in NeedLists /\ Flushed(p) \in NeedLists
    BY <1>2, <2>1, <2>2 DEF NeedLists
  <2> QED BY <1>4, <2>1, <2>2, <2>3
<1> QED BY <1>3, <1>4

LEMMA FoundPlanned ==
  ASSUME ListsTyped, Knowing, NEW p \in Passes, pc[p] \in {"inside", "held"}, job[p].kind # "verify"
  PROVE  /\ WellFormed(Found(p)) /\ WellFormed(Flushed(p))
         /\ \A n \in Needs : /\ Kept(Found(p)[n], Flushed(p)[n])
                             /\ PassRow(job[p].kind, Found(p)[n], Flushed(p)[n])
         /\ \A n \in Free : Found(p)[n] = NoNeed /\ Flushed(p)[n] = NoNeed
<1> DEFINE B == Found(p)
           N == Flushed(p)
<1>1. ASSUME NEW n \in Needs
      PROVE  \/ B[n] = need[n] /\ N[n] = need[n]
             \/ pc[p] = "held" /\ B[n] = saw[p][n] /\ N[n] = out[p][n]
  BY FoundRows
<1>2. WellFormed(need)
  BY DEF Knowing
<1>3. pc[p] = "held" => Planned(p, job[p].kind, job[p].doc, saw[p], out[p])
  BY DEF Knowing, Knows, Readers, Procs
<1> HIDE DEF B, N
<1>4. WellFormed(B) /\ WellFormed(N)
  <2> SUFFICES ASSUME NEW n \in Needs
               PROVE  /\ B[n].origin = "NONE" => B[n] = NoNeed
                      /\ B[n].origin # "NONE" => B[n].type # None
                      /\ B[n].origin = "MANUAL" => B[n].disp # "PROPOSED"
                      /\ N[n].origin = "NONE" => N[n] = NoNeed
                      /\ N[n].origin # "NONE" => N[n].type # None
                      /\ N[n].origin = "MANUAL" => N[n].disp # "PROPOSED"
    BY DEF WellFormed
  <2>1. CASE B[n] = need[n] /\ N[n] = need[n]
    BY <1>2, <2>1 DEF WellFormed
  <2>2. CASE pc[p] = "held" /\ B[n] = saw[p][n] /\ N[n] = out[p][n]
    BY <1>3, <2>2 DEF WellFormed, Planned
  <2> QED BY <1>1, <2>1, <2>2
<1>5. ASSUME NEW n \in Needs
      PROVE  Kept(B[n], N[n]) /\ PassRow(job[p].kind, B[n], N[n])
  <2>1. CASE B[n] = need[n] /\ N[n] = need[n]
    BY <1>2, <2>1, SameRow
  <2>2. CASE pc[p] = "held" /\ B[n] = saw[p][n] /\ N[n] = out[p][n]
    BY <1>3, <2>2 DEF Planned
  <2> QED BY <1>1, <2>1, <2>2
<1>6. ASSUME NEW n \in Free
      PROVE  B[n] = NoNeed /\ N[n] = NoNeed
  <2>1. n \in Needs /\ need[n] = NoNeed /\ out[p][n] = NoNeed
    BY DEF Free, Procs
  <2>2. CASE B[n] = need[n] /\ N[n] = need[n]
    BY <2>1, <2>2
  <2>3. CASE pc[p] = "held" /\ B[n] = saw[p][n] /\ N[n] = out[p][n]
    <3>1. WellFormed(B) /\ Kept(B[n], N[n]) /\ N[n] = NoNeed
      BY <1>4, <1>5, <2>1, <2>3
    <3>2. B[n].origin = "NONE"
      BY <3>1, NoNeedFields DEF Kept
    <3> QED BY <2>1, <2>3, <3>1, <3>2 DEF WellFormed
  <2> QED BY <1>1, <2>1, <2>2, <2>3
<1> QED BY <1>4, <1>5, <1>6 DEF B, N

(* What has been flushed asks for what the task found asked for.           *)
LEMMA FlushedAsks ==
  ASSUME ListsTyped, Knowing, NEW p \in Passes, pc[p] \in {"inside", "held"}, job[p].kind # "verify",
         raced[p] = {}
  PROVE  Asked(Found(p)) \subseteq Asked(Flushed(p)) \cup Waived(Found(p))
<1>1. \A n \in Needs :
        \/ Found(p)[n] = need[n] /\ Flushed(p)[n] = need[n]
        \/ /\ pc[p] = "held"
           /\ Found(p)[n] = saw[p][n] /\ Flushed(p)[n] = out[p][n]
  BY FoundRows
<1>2. CASE pc[p] = "inside"
  <2>1. \A n \in Needs : Found(p)[n] = Flushed(p)[n]
    BY <1>1, <1>2
  <2> QED BY <2>1 DEF Asked
<1>3. CASE pc[p] = "held"
  <2>1. saw[p] = need /\ Survive(job[p].kind, saw[p], out[p])
    BY <1>3 DEF Knowing, Knows, Informed, Readers, Procs
  <2>2. \A n \in Needs : Found(p)[n] = saw[p][n]
    BY <1>1, <2>1
  <2>3. \A n \in Needs : Flushed(p)[n] = out[p][n]
    <3>1. \A n \in Needs : n \notin Changed(p) => out[p][n] = saw[p][n]
      <4>1. Rejecting(p) /\ p \in Procs
        BY <1>3 DEF Knowing, Knows, Readers, Procs
      <4> QED BY <4>1, KnownRow
    <3>2. \A n \in Needs : Flushed(p)[n] = IF n \in Changed(p) THEN out[p][n] ELSE need[n]
      BY <1>3 DEF Flushed, Current
    <3> QED BY <2>1, <3>1, <3>2
  <2>4. Asked(Found(p)) = Asked(saw[p]) /\ Waived(Found(p)) = Waived(saw[p])
    BY <2>2 DEF Asked, Waived
  <2>5. Asked(Flushed(p)) = Asked(out[p])
    BY <2>3 DEF Asked
  <2> QED BY <2>1, <2>4, <2>5 DEF Survive
<1> QED BY <1>2, <1>3

(* A pass other than a sync waives nothing.                                *)
LEMMA NothingWaived ==
  ASSUME NEW B, NEW N, WellFormed(N), NEW kind, kind # "verify",
         \A n \in Needs : Kept(B[n], N[n]) /\ PassRow(kind, B[n], N[n])
  PROVE  Waived(N) \subseteq Waived(B)
<1>1. ASSUME NEW n \in Needs, N[n].active, N[n].status = "WAIVED"
      PROVE  B[n].active /\ B[n].status = "WAIVED" /\ B[n].type = N[n].type
  BY <1>1 DEF Kept, PassRow
<1> QED BY <1>1 DEF Waived

LEMMA ProposePlans ==
  ASSUME ListsTyped, Knowing, NEW p \in Passes, Propose(p)
  PROVE  \E N \in NeedLists :
           /\ saw' = [saw EXCEPT ![p] = Found(p)] /\ out' = [out EXCEPT ![p] = N]
           /\ Planned(p, job[p].kind, job[p].doc, Found(p), N)
           /\ \A n \in Needs \ Free : /\ N[n].origin = Flushed(p)[n].origin
                                     /\ N[n].status = Flushed(p)[n].status
           /\ raced[p] = {} => Survive(job[p].kind, Found(p), N)
<1>1. /\ pc[p] \in {"inside", "held"} /\ job[p].kind # "verify"
      /\ saw' = [saw EXCEPT ![p] = Found(p)]
  BY DEF Propose, Found
<1> DEFINE B == Found(p)
           F == Flushed(p)
           kind == job[p].kind
<1>2. \E rows \in SUBSET Free : \E at \in [rows -> Types \X {None}], losers \in SUBSET Needs :
        /\ Redundant(Seed(F, at, "AI", "PROPOSED"), losers)
        /\ out' = [out EXCEPT ![p] = Consolidate(Seed(F, at, "AI", "PROPOSED"), losers)]
  BY DEF Propose, Flushed
<1> HIDE DEF F
<1>3. PICK rows \in SUBSET Free : \E at \in [rows -> Types \X {None}], losers \in SUBSET Needs :
        /\ Redundant(Seed(F, at, "AI", "PROPOSED"), losers)
        /\ out' = [out EXCEPT ![p] = Consolidate(Seed(F, at, "AI", "PROPOSED"), losers)]
  BY <1>2
<1>4. PICK at \in [rows -> Types \X {None}], losers \in SUBSET Needs :
        /\ Redundant(Seed(F, at, "AI", "PROPOSED"), losers)
        /\ out' = [out EXCEPT ![p] = Consolidate(Seed(F, at, "AI", "PROPOSED"), losers)]
  BY <1>3
<1> USE DEF F
<1> DEFINE P == Seed(F, at, "AI", "PROPOSED")
           N == Consolidate(P, losers)
<1>5. /\ Seeds(at) /\ DOMAIN at \subseteq Free /\ Free \in SUBSET Needs
      /\ Redundant(P, losers) /\ out' = [out EXCEPT ![p] = N]
  BY <1>4 DEF Seeds, Asks, Free
<1>6. /\ B \in NeedLists /\ F \in NeedLists /\ WellFormed(B) /\ WellFormed(F)
      /\ \A n \in Needs : Kept(B[n], F[n]) /\ PassRow(kind, B[n], F[n])
      /\ \A n \in Free : F[n] = NoNeed /\ B[n] = NoNeed
  BY <1>1, FoundRows, FoundPlanned
<1>7. raced[p] = {} => Asked(B) \subseteq Asked(F) \cup Waived(B)
  BY <1>1, FlushedAsks
<1>8. Waived(F) \subseteq Waived(B)
  BY <1>1, <1>6, NothingWaived
<1>9. p \notin Requests
  BY ProcsAssumption
<1> HIDE DEF B, F, kind
<1>10. kind # "verify"
  BY <1>1 DEF kind
<1>11. /\ P \in NeedLists /\ WellFormed(P)
       /\ \A n \in Needs : /\ Kept(B[n], P[n]) /\ PassRow(kind, B[n], P[n])
                           /\ n \notin Free => P[n] = F[n]
       /\ Asked(F) \subseteq Asked(P) /\ Waived(P) \subseteq Waived(F)
  BY <1>5, <1>6, <1>10, ProposalRows
<1> HIDE DEF P
<1>12. /\ N \in NeedLists /\ WellFormed(N)
       /\ \A n \in Needs : /\ Kept(B[n], N[n]) /\ PassRow(kind, B[n], N[n])
                           /\ N[n].origin = P[n].origin /\ N[n].status = P[n].status
       /\ Asked(P) \subseteq Asked(N) \cup Waived(P)
  BY <1>5, <1>6, <1>10, <1>11, ConsolidatedRows
<1> HIDE DEF N
<1>13. Planned(p, kind, job[p].doc, B, N)
  BY <1>6, <1>9, <1>12 DEF Planned
<1>14. \A n \in Needs \ Free : N[n].origin = F[n].origin /\ N[n].status = F[n].status
  BY <1>11, <1>12
<1>15. raced[p] = {} => Survive(kind, B, N)
  <2>1. Asked(F) \subseteq Asked(N) \cup Waived(B)
    BY <1>8, <1>11, <1>12
  <2> QED BY <1>7, <1>10, <2>1 DEF Survive
<1> QED BY <1>1, <1>5, <1>12, <1>13, <1>14, <1>15 DEF B, F, kind

-----------------------------------------------------------------------------
(* Steps that leave the list as it is.                                     *)

(* q is where it was, with the list it had.                                *)
Stays(q) ==
  /\ q \in Readers' <=> q \in Readers
  /\ job'[q] = job[q] /\ saw'[q] = saw[q] /\ out'[q] = out[q] /\ raced'[q] = raced[q]
  /\ q \in outdated' => q \in outdated \cup Readers
  /\ q \notin outdated' => q \notin outdated /\ (doc' = doc \/ q \notin Readers)

(* p comes to know something, or is idle; the rows it takes were free.     *)
Moves(p) ==
  /\ p \in Readers' => Knows(p)'
  /\ p \notin Readers' => Idle(p)'
  /\ \A n \in Needs : out'[p][n] # NoNeed => out[p][n] # NoNeed \/ n \in Free \/ need[n] # NoNeed

LEMMA KnowingKept ==
  ASSUME Idling, Knowing, NEW M \in SUBSET Procs, UNCHANGED need,
         \A q \in Procs \ M : Stays(q), \A p \in M : Moves(p)
  PROVE  Idling' /\ Knowing'
<1>1. ASSUME NEW q \in Procs \ M, q \in Readers'
      PROVE  Knows(q)'
  <2>1. q \in Readers /\ Knows(q) /\ Stays(q)
    BY <1>1 DEF Knowing, Stays
  <2>2. Planned(q, job[q].kind, job[q].doc, saw[q], out[q])'
    BY <2>1 DEF Knows, Stays
  <2>3. Claims(q)'
    <3> SUFFICES ASSUME NEW n \in Needs
                 PROVE  /\ saw'[q][n].origin # "NONE" => need'[n].origin = saw'[q][n].origin
                        /\ saw'[q][n].origin = "NONE" /\ out'[q][n].origin # "NONE"
                           => need'[n] = NoNeed /\ \A r \in Procs \ {q} : out'[r][n] = NoNeed
      BY DEF Claims
    <3>1. saw'[q][n].origin # "NONE" => need'[n].origin = saw'[q][n].origin
      BY <2>1 DEF Knows, Claims, Stays
    <3>2. ASSUME saw'[q][n].origin = "NONE", out'[q][n].origin # "NONE", NEW r \in Procs \ {q}
          PROVE  need'[n] = NoNeed /\ out'[r][n] = NoNeed
      <4>1. need[n] = NoNeed /\ out[r][n] = NoNeed /\ out[q][n] # NoNeed
        BY <2>1, <3>2, NoNeedFields DEF Knows, Claims, Stays
      <4>2. n \notin Free
        BY <4>1 DEF Free
      <4> QED BY <4>1, <4>2 DEF Stays, Moves
    <3>3. saw'[q][n].origin = "NONE" /\ out'[q][n].origin # "NONE" => need'[n] = NoNeed
      BY <2>1 DEF Knows, Claims, Stays
    <3> QED BY <3>1, <3>2, <3>3
  <2>4. Informed(q)'
    BY <2>1 DEF Knows, Informed, Stays
  <2>5. Synced(q)'
    BY <2>1 DEF Knows, Synced, Stays
  <2>6. Rejecting(q)'
    BY <2>1 DEF Knows, Rejecting, Stays
  <2> QED BY <2>2, <2>3, <2>4, <2>5, <2>6 DEF Knows
<1>2. ASSUME NEW q \in Procs \ M, q \notin Readers'
      PROVE  Idle(q)'
  BY <1>2 DEF Idling, Idle, Stays
<1>3. \A q \in Procs : (q \in Readers' => Knows(q)') /\ (q \notin Readers' => Idle(q)')
  BY <1>1, <1>2 DEF Moves
<1>4. Readers' \subseteq Procs
  BY DEF Readers, Procs
<1>5. WellFormed(need)'
  BY DEF Knowing
<1> QED BY <1>3, <1>4, <1>5 DEF Idling, Knowing

(* A superseded document stays what it is as long as need and current do.  *)
LEMMA SupersededKept ==
  ASSUME ListsTyped, SupersededAnswersNothingOld, UNCHANGED need, lapsed \subseteq lapsed',
         \A d \in Docs : doc'[d].current = doc[d].current
  PROVE  SupersededAnswersNothingOld'
<1>1. \A n \in Needs : need[n].doc \in Docs \cup {None}
  BY DEF ListsTyped, NeedLists, NeedRows
<1>2. \A n \in Needs : need[n].active /\ need[n].doc # None
                       => doc[need[n].doc].current \/ need[n].doc \in lapsed
  BY DEF SupersededAnswersNothingOld
<1>3. \A n \in Needs : need'[n].active /\ need'[n].doc # None
                       => doc'[need'[n].doc].current \/ need'[n].doc \in lapsed'
  BY <1>1, <1>2
<1> QED BY <1>3 DEF SupersededAnswersNothingOld

(* A process that stops reading knows nothing.                             *)
LEMMA IdleMoves ==
  ASSUME NEW p \in Procs, p \notin Readers', Idle(p)'
  PROVE  Moves(p)
<1>1. \A n \in Needs : out'[p][n] = NoNeed
  BY DEF Idle, Blank
<1> QED BY <1>1 DEF Moves

(* A step that moves nobody in or out, whatever it does to the documents.  *)
LEMMA QuietKeeps ==
  ASSUME NeedsInv, LockInv', DocsTyped', UNCHANGED <<need, job, saw, out, raced>>,
         Readers' = Readers, Errands',
         outdated' = outdated \cup Readers \/ (UNCHANGED <<doc, outdated>>),
         lapsed \subseteq lapsed', unlocked \subseteq unlocked',
         \A d \in Docs : doc'[d].current = doc[d].current
  PROVE  NeedsInv'
<1>1. Readers \subseteq Procs
  BY DEF Readers
<1>2. Typed'
  BY <1>1 DEF NeedsInv, Typed, ListsTyped, ProcsTyped
<1>3. \A q \in Procs \ {} : Stays(q)
  BY DEF Stays
<1>4. Idling' /\ Knowing'
  <2>1. Idling /\ Knowing /\ UNCHANGED need /\ {} \in SUBSET Procs /\ \A p \in {} : Moves(p)
    BY DEF NeedsInv
  <2> QED BY <1>3, <2>1, KnowingKept
<1>5. SupersededAnswersNothingOld'
  BY SupersededKept DEF NeedsInv, Typed
<1>6. RacedLocked'
  BY DEF NeedsInv, RacedLocked
<1> QED BY <1>2, <1>4, <1>5, <1>6 DEF NeedsInv


LEMMA DocChanged ==
  ASSUME doc \in [Docs -> DocRows], NEW d \in Docs, NEW r \in DocRows, r.current = doc[d].current,
         doc' = [doc EXCEPT ![d] = r]
  PROVE  doc' \in [Docs -> DocRows] /\ \A e \in Docs : doc'[e].current = doc[e].current
OBVIOUS

LEMMA SettleKeeps ==
  ASSUME NeedsInv, LockInv', NEW d \in Docs, Settle(d)
  PROVE  NeedsInv'
<1>1. doc \in [Docs -> DocRows] /\ due \subseteq Docs /\ lapsed \subseteq Docs /\ doc[d] \in DocRows
  BY DEF NeedsInv, Typed, DocsTyped
<1>2. PICK s \in {"COMPLETED", "NEEDS_REVIEW"}, t \in IF doc[d].full THEN Types ELSE {doc[d].type} :
        doc' = [doc EXCEPT ![d].status = s, ![d].type = t, ![d].full = TRUE]
  BY DEF Settle
<1>3. t \in Types \cup {None}
  BY <1>1 DEF DocRows
<1> DEFINE r == [doc[d] EXCEPT !.status = s, !.type = t, !.full = TRUE]
<1>4. r \in DocRows /\ r.current = doc[d].current
  BY <1>1, <1>3 DEF DocRows
<1>5. doc' = [doc EXCEPT ![d] = r]
  BY <1>1, <1>2
<1> HIDE DEF r
<1>6. doc' \in [Docs -> DocRows] /\ \A e \in Docs : doc'[e].current = doc[e].current
  BY <1>1, <1>4, <1>5, DocChanged
<1>7. UNCHANGED <<need, pc, job, saw, out, lock, unlocked, raced, lapsed>> /\ outdated' = outdated \cup Readers
  BY DEF Settle, DocumentsMove, locking
<1>8. DocsTyped'
  BY <1>1, <1>6, <1>7 DEF Settle, DocsTyped
<1>9. Readers' = Readers /\ Errands'
  BY <1>7 DEF Readers, Errands, NeedsInv, Typed
<1> QED BY <1>6, <1>7, <1>8, <1>9, QuietKeeps

LEMMA TouchKeeps ==
  ASSUME NeedsInv, LockInv', NEW q \in Requests, TouchDocument(q)
  PROVE  NeedsInv'
<1>1. doc \in [Docs -> DocRows] /\ due \subseteq Docs /\ lapsed \subseteq Docs
  BY DEF NeedsInv, Typed, DocsTyped
<1>2. PICK d \in Docs : Reprocess(q, d) \/ OverrideType(q, d) \/ Delete(q, d)
  BY DEF TouchDocument
<1>3. doc[d] \in DocRows
  BY <1>1
<1>4. \E r \in DocRows : r.current = doc[d].current /\ doc' = [doc EXCEPT ![d] = r]
  <2>1. CASE Reprocess(q, d)
    <3>1. doc' = [doc EXCEPT ![d] = [doc[d] EXCEPT !.status = "RUNNING"]]
      BY <1>1, <2>1 DEF Reprocess
    <3>2. /\ [doc[d] EXCEPT !.status = "RUNNING"] \in DocRows
          /\ [doc[d] EXCEPT !.status = "RUNNING"].current = doc[d].current
      BY <1>3 DEF DocRows
    <3> QED BY <3>1, <3>2
  <2>2. CASE OverrideType(q, d)
    <3>1. PICK t \in Types :
            doc' = [doc EXCEPT ![d].status = "RUNNING", ![d].full = FALSE, ![d].type = t]
      BY <2>2 DEF OverrideType
    <3> DEFINE r == [doc[d] EXCEPT !.status = "RUNNING", !.full = FALSE, !.type = t]
    <3>2. r \in DocRows /\ r.current = doc[d].current
      BY <1>3 DEF DocRows
    <3>3. doc' = [doc EXCEPT ![d] = r]
      BY <1>1, <3>1
    <3> QED BY <3>2, <3>3
  <2>3. CASE Delete(q, d)
    <3>1. doc' = [doc EXCEPT ![d] = [doc[d] EXCEPT !.active = FALSE]]
      BY <1>1, <2>3 DEF Delete
    <3>2. /\ [doc[d] EXCEPT !.active = FALSE] \in DocRows
          /\ [doc[d] EXCEPT !.active = FALSE].current = doc[d].current
      BY <1>3 DEF DocRows
    <3> QED BY <3>1, <3>2
  <2> QED BY <1>2, <2>1, <2>2, <2>3
<1>5. doc' \in [Docs -> DocRows] /\ \A e \in Docs : doc'[e].current = doc[e].current
  BY <1>1, <1>4, DocChanged
<1>6. /\ UNCHANGED <<need, due, job, saw, out, lock, unlocked, raced, lapsed>>
      /\ outdated' = outdated \cup Readers /\ pc[q] = "unused" /\ Goto(q, "ended")
  BY DEF TouchDocument, DocumentsMove, locking
<1>7. DocsTyped'
  BY <1>1, <1>5, <1>6 DEF DocsTyped
<1>8. q \in Procs /\ q \notin Passes
  BY ProcsAssumption DEF Procs
<1>9. pc'[q] = "ended" /\ \A p \in Procs \ {q} : pc'[p] = pc[p]
  BY <1>6, <1>8, Moved DEF NeedsInv, Typed, LockInv
<1>10. Readers' = Readers
  BY <1>6, <1>8, <1>9 DEF Readers
<1>11. Errands'
  BY <1>6, <1>8, <1>9 DEF Errands, NeedsInv, Typed, Procs
<1> QED BY <1>5, <1>6, <1>7, <1>10, <1>11, QuietKeeps

LEMMA ExpiryKeepsInv ==
  ASSUME NeedsInv, LockInv', LockExpires
  PROVE  NeedsInv'
<1>1. UNCHANGED <<need, doc, due, pc, job, saw, out, raced, outdated, lapsed>> /\ unlocked \subseteq unlocked'
  BY DEF LockExpires, pipeline
<1>2. Readers' = Readers
  BY <1>1 DEF Readers
<1>3. DocsTyped' /\ Errands'
  BY <1>1 DEF DocsTyped, Errands, NeedsInv, Typed
<1> QED BY <1>1, <1>2, <1>3, QuietKeeps

LEMMA FlushKeepsInv ==
  ASSUME NeedsInv, LockInv', NEW p \in Passes, Flush(p)
  PROVE  NeedsInv'
<1>1. p \in Procs
  BY DEF Procs
<1>2. /\ UNCHANGED <<need, doc, due, job, saw, out, raced, outdated, lapsed>>
      /\ pc[p] = "planned" /\ Goto(p, "held") /\ unlocked \subseteq unlocked'
      /\ job[p].kind = "verify" => p \in unlocked'
  BY DEF Flush, pipeline, locking
<1>3. pc'[p] = "held" /\ \A q \in Procs \ {p} : pc'[q] = pc[q]
  BY <1>1, <1>2, Moved DEF NeedsInv, Typed, LockInv
<1>4. Readers' = Readers
  BY <1>1, <1>2, <1>3 DEF Readers
<1>5. DocsTyped'
  BY <1>2 DEF DocsTyped, NeedsInv, Typed
<1>6. Errands'
  BY <1>2, <1>3 DEF Errands, NeedsInv, Typed, Procs
<1> QED BY <1>2, <1>4, <1>5, <1>6, QuietKeeps

LEMMA StutterKeeps ==
  ASSUME NeedsInv, LockInv', Rest \/ UNCHANGED vars
  PROVE  NeedsInv'
<1>1. UNCHANGED <<need, doc, due, pc, job, saw, out, lock, unlocked, raced, outdated, lapsed>>
  BY DEF Rest, vars, pipeline, locking
<1>2. Readers' = Readers
  BY <1>1 DEF Readers
<1>3. DocsTyped' /\ Errands'
  BY <1>1 DEF DocsTyped, Errands, NeedsInv, Typed
<1> QED BY <1>1, <1>2, <1>3, QuietKeeps

-----------------------------------------------------------------------------
(* Steps that start or end a process, and those in which one reads.        *)

(* The step is p's, and concerns nobody else.                              *)
Only(p) == \A q \in Procs \ {p} :
  /\ pc'[q] = pc[q] /\ job'[q] = job[q] /\ saw'[q] = saw[q] /\ out'[q] = out[q] /\ raced'[q] = raced[q]
  /\ q \in outdated' <=> q \in outdated
  /\ q \in unlocked => q \in unlocked'

LEMMA OnlyStays ==
  ASSUME NEW p \in Procs, Only(p), UNCHANGED doc
  PROVE  \A q \in Procs \ {p} : Stays(q)
BY DEF Only, Stays, Readers

LEMMA MoveKeeps ==
  ASSUME NeedsInv, LockInv', NEW p \in Procs, Only(p), Moves(p), UNCHANGED <<need, doc>>,
         lapsed \subseteq lapsed', ListsTyped', DocsTyped', ProcsTyped', Errands',
         p \in Passes => "locked" \notin raced'[p] \/ p \in unlocked'
  PROVE  NeedsInv'
<1>1. Typed'
  BY DEF Typed
<1>2. Idling' /\ Knowing'
  <2>1. Idling /\ Knowing /\ {p} \in SUBSET Procs /\ \A q \in {p} : Moves(q)
    BY DEF NeedsInv
  <2>2. \A q \in Procs \ {p} : Stays(q)
    BY OnlyStays
  <2> QED BY <2>1, <2>2, KnowingKept
<1>3. SupersededAnswersNothingOld'
  BY SupersededKept DEF NeedsInv, Typed
<1>4. RacedLocked'
  BY DEF NeedsInv, RacedLocked, Only, Procs
<1> QED BY <1>1, <1>2, <1>3, <1>4 DEF NeedsInv

LEMMA NoJobType == NoJob \in Jobs /\ NoJob.kind = "none" /\ NoJob.rejects = None
BY DEF NoJob, Kinds, Jobs

(* A process that ends without having committed.                           *)
LEMMA DropKeeps ==
  ASSUME NeedsInv, LockInv', NEW p \in Procs, NEW label \in {"unused", "ended"},
         End(p, label), Forget(p), UNCHANGED <<need, doc, lapsed>>, due' \subseteq Docs
  PROVE  NeedsInv'
<1>1. pc'[p] = label /\ \A q \in Procs \ {p} : pc'[q] = pc[q]
  BY Moved DEF End, NeedsInv, Typed, LockInv
<1>2. ListsTyped /\ DocsTyped /\ ProcsTyped /\ Errands
  BY DEF NeedsInv, Typed
<1>3. job'[p] = NoJob /\ \A q \in Procs \ {p} : job'[q] = job[q]
  BY <1>2 DEF End, ProcsTyped
<1>4. /\ saw'[p] = Blank /\ out'[p] = Blank /\ raced'[p] = {} /\ p \notin outdated'
      /\ \A q \in Procs \ {p} : saw'[q] = saw[q] /\ out'[q] = out[q] /\ raced'[q] = raced[q]
      /\ outdated' = outdated \ {p} /\ unlocked' = unlocked \ {p}
  BY <1>2 DEF Forget, End, ListsTyped, ProcsTyped
<1>5. Only(p)
  BY <1>1, <1>3, <1>4 DEF Only
<1>6. Moves(p)
  <2>1. p \notin Readers' /\ Idle(p)'
    BY <1>1, <1>3, <1>4, NoJobType DEF Readers, Idle, Blank
  <2> QED BY <2>1, IdleMoves
<1>7. ListsTyped'
  BY <1>2, ForgetTyped
<1>8. DocsTyped'
  BY <1>2 DEF DocsTyped
<1>9. ProcsTyped'
  <2>1. job' \in [Procs -> Jobs]
    BY <1>2, NoJobType DEF End, ProcsTyped
  <2>2. raced' \in [Procs -> SUBSET {"locked", "unlocked", "request"}]
    BY <1>2 DEF Forget, ProcsTyped
  <2> QED BY <1>2, <1>4, <2>1, <2>2 DEF ProcsTyped
<1>10. Errands'
  BY <1>1, <1>2, <1>3, <1>4, NoJobType DEF Errands, Procs
<1>11. "locked" \notin raced'[p]
  BY <1>4
<1> QED BY <1>5, <1>6, <1>7, <1>8, <1>9, <1>10, <1>11, MoveKeeps

(* A process that knows nothing has nothing to forget.                     *)
LEMMA IdleForgets ==
  ASSUME NeedsInv, NEW p \in Procs \ Readers
  PROVE  /\ saw[p] = Blank /\ out[p] = Blank /\ raced[p] = {} /\ p \notin outdated
         /\ UNCHANGED <<saw, out, raced, outdated>> => Forget(p)
<1>1. saw[p] = Blank /\ out[p] = Blank /\ raced[p] = {} /\ p \notin outdated
  BY DEF NeedsInv, Idling, Idle
<1>2. saw = [saw EXCEPT ![p] = Blank] /\ out = [out EXCEPT ![p] = Blank] /\ raced = [raced EXCEPT ![p] = {}]
  BY <1>1 DEF NeedsInv, Typed, ListsTyped, ProcsTyped
<1> QED BY <1>1, <1>2 DEF Forget

LEMMA StartKeepsInv ==
  ASSUME NeedsInv, LockInv', NEW p \in Passes, NEW kind \in {"update", "propose", "verify"},
         NEW d \in Docs \cup {None}, kind = "update" => d \in Docs,
         Start(p, kind, d), due' \subseteq Docs
  PROVE  NeedsInv'
<1>1. p \in Procs /\ p \notin Readers
  BY DEF Start, Readers, Procs
<1>2. ListsTyped /\ DocsTyped /\ ProcsTyped /\ Errands
  BY DEF NeedsInv, Typed
<1>3. /\ UNCHANGED <<need, doc, saw, out, raced, outdated, lapsed>> /\ Goto(p, "inside")
      /\ unlocked \subseteq unlocked'
  BY DEF Start, Enter
<1>4. pc'[p] = "inside" /\ \A q \in Procs \ {p} : pc'[q] = pc[q]
  BY <1>1, <1>3, Moved DEF NeedsInv, Typed, LockInv
<1>5. /\ job' \in [Procs -> Jobs]
      /\ job'[p].kind = kind /\ job'[p].doc = d /\ \A q \in Procs \ {p} : job'[q] = job[q]
      /\ job'[p].rejects = None
  <2> DEFINE r == [kind |-> kind, doc |-> d, rejects |-> None]
  <2>1. r \in Jobs /\ r.kind = kind /\ r.doc = d /\ r.rejects = None
    BY DEF Kinds, Jobs
  <2>2. job' = [job EXCEPT ![p] = r]
    BY DEF Start
  <2> HIDE DEF r
  <2> QED BY <1>1, <1>2, <2>1, <2>2 DEF ProcsTyped
<1>6. Only(p)
  BY <1>3, <1>4, <1>5 DEF Only
<1>7. Moves(p)
  <2>1. p \notin Readers' /\ Idle(p)'
    BY <1>1, <1>3, <1>4, <1>5, IdleForgets DEF Readers, Idle, Blank
  <2> QED BY <1>1, <2>1, IdleMoves
<1>8. ListsTyped' /\ DocsTyped' /\ ProcsTyped'
  BY <1>2, <1>3, <1>5 DEF ListsTyped, DocsTyped, ProcsTyped
<1>9. Errands'
  BY <1>1, <1>2, <1>3, <1>4, <1>5 DEF Errands, Procs
<1>10. "locked" \notin raced'[p]
  BY <1>1, <1>3, IdleForgets
<1> QED BY <1>1, <1>3, <1>6, <1>7, <1>8, <1>9, <1>10, MoveKeeps

LEMMA StartsKeepInv ==
  ASSUME NeedsInv, LockInv', NEW p \in Passes, StartUpdate(p) \/ StartPropose(p) \/ StartSync(p)
  PROVE  NeedsInv'
<1>1. due \subseteq Docs
  BY DEF NeedsInv, Typed, DocsTyped
<1>2. CASE StartUpdate(p)
  <2>1. PICK d \in Docs : Start(p, "update", d) /\ due' = due \ {d}
    BY <1>1, <1>2 DEF StartUpdate
  <2> QED BY <1>1, <2>1, StartKeepsInv
<1>3. CASE StartPropose(p) \/ StartSync(p)
  BY <1>1, <1>3, StartKeepsInv DEF StartPropose, StartSync
<1> QED BY <1>2, <1>3

LEMMA DropsKeep ==
  ASSUME NeedsInv, LockInv', NEW p \in Procs, Fail(p) \/ Kill(p) \/ Abandon(p)
  PROVE  NeedsInv'
<1>1. due \subseteq Docs /\ job[p].doc \in Docs \cup {None}
  BY DEF NeedsInv, Typed, DocsTyped, ProcsTyped, Jobs
<1>2. /\ Forget(p) /\ UNCHANGED <<need, doc, lapsed>> /\ due' \subseteq Docs
      /\ End(p, "unused") \/ End(p, "ended")
  BY <1>1 DEF Fail, Kill, Abandon, pipeline
<1> QED BY <1>2, DropKeeps

(* A process that has read the list and decided knows what it did.         *)
LEMMA PlanMoves ==
  ASSUME NeedsInv, NEW p \in Procs \ Readers, NEW kind, NEW d, NEW N,
         MadeOfStored(p, kind, d, N), Plan(p, N), Only(p), p \in Readers',
         UNCHANGED <<need, doc, raced, outdated>>,
         job'[p].kind = kind, job'[p].doc = d,
         \A n \in Needs : n = job'[p].rejects => need[n].origin # "NONE" /\ N[n].status = "REJECTED",
         kind = "verify" => CatchesUp(need, N, doc) /\ ConsumesOnce(need, N)
  PROVE  Moves(p)
<1>1. saw'[p] = need /\ out'[p] = N /\ \A q \in Procs \ {p} : out'[q] = out[q]
  BY DEF Plan, NeedsInv, Typed, ListsTyped
<1>2. Planned(p, kind, d, need, N) /\ (p \in Passes => Asked(need) \subseteq Asked(N))
  BY DEF MadeOfStored
<1>3. \A n \in Needs : need[n] = NoNeed /\ N[n] # NoNeed => n \in Free
  BY DEF MadeOfStored
<1>4. raced[p] = {} /\ p \notin outdated
  BY IdleForgets
<1>5. Planned(p, job[p].kind, job[p].doc, saw[p], out[p])'
  BY <1>1, <1>2
<1>6. Claims(p)'
  <2> SUFFICES ASSUME NEW n \in Needs
               PROVE  /\ saw'[p][n].origin # "NONE" => need'[n].origin = saw'[p][n].origin
                      /\ saw'[p][n].origin = "NONE" /\ out'[p][n].origin # "NONE"
                         => need'[n] = NoNeed /\ \A q \in Procs \ {p} : out'[q][n] = NoNeed
    BY DEF Claims
  <2>1. need[n].origin = "NONE" => need[n] = NoNeed
    BY DEF NeedsInv, Knowing, WellFormed
  <2>2. need[n] = NoNeed /\ N[n].origin # "NONE" => n \in Free
    BY <1>3, NoNeedFields
  <2>3. n \in Free => \A q \in Procs : out[q][n] = NoNeed
    BY DEF Free
  <2> QED BY <1>1, <2>1, <2>2, <2>3
<1>7. Informed(p)'
  BY <1>1, <1>2, <1>4 DEF Informed, Survive
<1>8. Synced(p)'
  BY <1>1 DEF Synced
<1>9. Rejecting(p)'
  BY <1>1 DEF Rejecting
<1>10. Knows(p)'
  BY <1>5, <1>6, <1>7, <1>8, <1>9 DEF Knows
<1>11. \A n \in Needs : out'[p][n] # NoNeed => n \in Free \/ need[n] # NoNeed
  BY <1>1, <1>3
<1> QED BY <1>10, <1>11 DEF Moves

LEMMA ReadKeeps ==
  ASSUME NeedsInv, LockInv', NEW p \in Procs \ Readers, NEW kind \in Kinds, NEW d \in Docs \cup {None},
         NEW N, MadeOfStored(p, kind, d, N), Plan(p, N), Goto(p, "planned"),
         UNCHANGED <<need, doc, due, unlocked, raced, outdated, lapsed>>,
         job' \in [Procs -> Jobs],
         job'[p].kind = kind, job'[p].doc = d, \A q \in Procs \ {p} : job'[q] = job[q],
         kind \in {"update", "replace"} => d \in Docs,
         \A n \in Needs : n = job'[p].rejects => need[n].origin # "NONE" /\ N[n].status = "REJECTED",
         kind = "verify" => CatchesUp(need, N, doc) /\ ConsumesOnce(need, N)
  PROVE  NeedsInv'
<1>1. ListsTyped /\ DocsTyped /\ ProcsTyped /\ Errands
  BY DEF NeedsInv, Typed
<1>2. pc'[p] = "planned" /\ \A q \in Procs \ {p} : pc'[q] = pc[q]
  BY Moved DEF NeedsInv, Typed, LockInv
<1>3. \A q \in Procs \ {p} : saw'[q] = saw[q] /\ out'[q] = out[q]
  BY <1>1 DEF Plan, ListsTyped
<1>4. Only(p)
  BY <1>2, <1>3 DEF Only
<1>5. Moves(p)
  <2>1. p \in Readers'
    BY <1>2 DEF Readers
  <2> QED BY <1>4, <2>1, PlanMoves
<1>6. ListsTyped'
  BY <1>1, PlanTyped DEF Plan, MadeOfStored, ListsTyped
<1>7. DocsTyped' /\ ProcsTyped'
  BY <1>1 DEF DocsTyped, ProcsTyped
<1>8. Errands'
  BY <1>1, <1>2 DEF Errands, Procs
<1>9. "locked" \notin raced'[p]
  BY IdleForgets
<1> QED BY <1>4, <1>5, <1>6, <1>7, <1>8, <1>9, MoveKeeps

LEMMA MatchKeepsInv ==
  ASSUME NeedsInv, LockInv', NEW p \in Passes, Match(p)
  PROVE  NeedsInv'
<1>1. /\ p \in Procs /\ p \notin Readers /\ job[p].kind = "update"
      /\ UNCHANGED <<need, doc, due, raced, outdated, lapsed>>
  BY DEF Match, Readers, Procs, pipeline
<1>2. /\ ListsTyped /\ WellFormed(need) /\ due \subseteq Docs /\ job[p].doc \in Docs
      /\ job \in [Procs -> Jobs]
  BY <1>1 DEF NeedsInv, Knowing, Typed, DocsTyped, ProcsTyped, Errands
<1>3. ASSUME NEW r, r = (IF doc[job[p].doc].status = "COMPLETED" THEN None ELSE Reached(need, doc, job[p].doc)),
             job' = [job EXCEPT ![p].rejects = r],
             Plan(p, ApplyDocument(need, doc, job[p].doc)), Goto(p, "planned"), UNCHANGED locking
      PROVE  NeedsInv'
  <2> DEFINE N == ApplyDocument(need, doc, job[p].doc)
  <2>1. /\ MadeOfStored(p, "update", job[p].doc, N)
        /\ r \in Needs \cup {None}
        /\ \A n \in Needs : n = r => need[n].origin # "NONE" /\ N[n].status = "REJECTED"
    BY <1>2, <1>3, MatchPlans, NoneAssumption
  <2>2. "update" \in Kinds
    BY DEF Kinds
  <2>3. /\ job' \in [Procs -> Jobs] /\ job'[p].kind = "update" /\ job'[p].doc = job[p].doc
        /\ job'[p].rejects = r /\ \A q \in Procs \ {p} : job'[q] = job[q]
    BY <1>1, <1>2, <1>3, <2>1 DEF Jobs
  <2> HIDE DEF N
  <2> QED BY <1>1, <1>2, <1>3, <2>1, <2>2, <2>3, ReadKeeps DEF locking, N
<1>4. CASE End(p, "ended") /\ UNCHANGED <<saw, out>>
  <2>1. Forget(p)
    BY <1>1, <1>4, IdleForgets
  <2> QED BY <1>1, <1>2, <1>4, <2>1, DropKeeps
<1> QED BY <1>3, <1>4 DEF Match

LEMMA SyncKeepsInv ==
  ASSUME NeedsInv, LockInv', NEW p \in Passes, Sync(p)
  PROVE  NeedsInv'
<1>1. /\ p \in Procs /\ p \notin Readers /\ job[p].kind = "verify" /\ Goto(p, "planned")
      /\ UNCHANGED <<need, doc, due, job, unlocked, raced, outdated, lapsed>>
  BY DEF Sync, Readers, Procs, pipeline, locking
<1>2. /\ ListsTyped /\ WellFormed(need) /\ job[p].doc \in Docs \cup {None} /\ "verify" \in Kinds
      /\ job \in [Procs -> Jobs]
  BY <1>1 DEF NeedsInv, Knowing, Typed, ProcsTyped, Jobs, Kinds
<1>3. PICK N : /\ Plan(p, N) /\ MadeOfStored(p, "verify", job[p].doc, N)
               /\ CatchesUp(need, N, doc) /\ ConsumesOnce(need, N)
  BY <1>2, SyncPlans
<1>4. \A n \in Needs : n # job[p].rejects
  BY <1>1, NoneAssumption DEF NeedsInv, Idling, Idle
<1> QED BY <1>1, <1>2, <1>3, <1>4, ReadKeeps

LEMMA AskKeepsInv ==
  ASSUME NeedsInv, LockInv', NEW q \in Requests, Asking(q)
  PROVE  NeedsInv'
<1>1. ListsTyped /\ WellFormed(need) /\ job \in [Procs -> Jobs]
  BY DEF NeedsInv, Knowing, Typed, ProcsTyped
<1>2. \E kind \in {"revise", "replace"}, d \in Docs \cup {None}, N \in NeedLists :
        /\ Ask(q, kind, d, N) /\ MadeOfStored(q, kind, d, N)
        /\ kind = "replace" => d \in Docs
  BY <1>1, RequestPlans
<1>3. PICK kind \in {"revise", "replace"}, d \in Docs \cup {None}, N \in NeedLists :
        /\ Ask(q, kind, d, N) /\ MadeOfStored(q, kind, d, N)
        /\ kind = "replace" => d \in Docs
  BY <1>2
<1>4. /\ q \in Procs /\ q \notin Readers /\ kind \in Kinds /\ Goto(q, "planned") /\ Plan(q, N)
      /\ UNCHANGED <<need, doc, due, unlocked, raced, outdated, lapsed>>
  BY <1>3 DEF Ask, Readers, Procs, Kinds, pipeline, locking
<1>5. /\ job' \in [Procs -> Jobs]
      /\ job'[q].kind = kind /\ job'[q].doc = d /\ \A p \in Procs \ {q} : job'[p] = job[p]
      /\ job'[q].rejects = None
  <2> DEFINE r == [kind |-> kind, doc |-> d, rejects |-> None]
  <2>1. r \in Jobs /\ r.kind = kind /\ r.doc = d /\ r.rejects = None
    BY <1>4 DEF Kinds, Jobs
  <2>2. job' = [job EXCEPT ![q] = r]
    BY <1>3 DEF Ask
  <2> HIDE DEF r
  <2> QED BY <1>1, <1>4, <2>1, <2>2
<1> QED BY <1>3, <1>4, <1>5, ReadKeeps, NoneAssumption

LEMMA ProposeMoves ==
  ASSUME NeedsInv, NEW p \in Passes, Propose(p)
  PROVE  Moves(p) /\ ListsTyped'
<1>1. p \in Procs /\ pc[p] \in {"inside", "held"} /\ job[p].kind # "verify"
  BY DEF Propose, Procs
<1>2. ListsTyped /\ Knowing
  BY DEF NeedsInv, Typed
<1>3. /\ UNCHANGED <<need, doc, due, job, lock, unlocked, raced, outdated, lapsed>>
      /\ Goto(p, "proposed")
  BY DEF Propose, pipeline, locking
<1>4. PICK N \in NeedLists :
        /\ saw' = [saw EXCEPT ![p] = Found(p)] /\ out' = [out EXCEPT ![p] = N]
        /\ Planned(p, job[p].kind, job[p].doc, Found(p), N)
        /\ \A n \in Needs \ Free : /\ N[n].origin = Flushed(p)[n].origin
                                  /\ N[n].status = Flushed(p)[n].status
        /\ raced[p] = {} => Survive(job[p].kind, Found(p), N)
  BY <1>2, ProposePlans
<1>5. /\ Found(p) \in NeedLists
      /\ \A n \in Needs :
           \/ Found(p)[n] = need[n] /\ Flushed(p)[n] = need[n]
           \/ /\ pc[p] = "held"
              /\ Found(p)[n] = saw[p][n] /\ Flushed(p)[n] = out[p][n]
  BY <1>1, <1>2, FoundRows
<1>6. /\ saw'[p] = Found(p) /\ out'[p] = N
      /\ \A q \in Procs \ {p} : out'[q] = out[q]
  BY <1>1, <1>2, <1>4 DEF ListsTyped
<1>7. pc[p] = "held" => Claims(p) /\ Informed(p)
  BY <1>1, <1>2 DEF Knowing, Knows, Readers
<1>8. Planned(p, job[p].kind, job[p].doc, saw[p], out[p])'
  BY <1>3, <1>4, <1>6
<1>9. Claims(p)'
  <2> SUFFICES ASSUME NEW n \in Needs
               PROVE  /\ saw'[p][n].origin # "NONE" => need'[n].origin = saw'[p][n].origin
                      /\ saw'[p][n].origin = "NONE" /\ out'[p][n].origin # "NONE"
                         => need'[n] = NoNeed /\ \A q \in Procs \ {p} : out'[q][n] = NoNeed
    BY DEF Claims
  <2>1. n \in Free => need[n] = NoNeed /\ \A q \in Procs : out[q][n] = NoNeed
    BY DEF Free
  <2>2. n \in Free \/ N[n].origin = Flushed(p)[n].origin
    BY <1>4
  <2>3. CASE Found(p)[n] = need[n] /\ Flushed(p)[n] = need[n]
    BY <1>3, <1>6, <2>1, <2>2, <2>3
  <2>4. CASE pc[p] = "held" /\ Found(p)[n] = saw[p][n] /\ Flushed(p)[n] = out[p][n]
    BY <1>3, <1>6, <1>7, <2>1, <2>2, <2>4 DEF Claims
  <2> QED BY <1>5, <2>3, <2>4
<1>10. Informed(p)'
  <2>1. ASSUME raced[p] = {}
        PROVE  Found(p) = need
    <3>1. \A n \in Needs : Found(p)[n] = need[n]
      BY <1>5, <1>7, <2>1 DEF Informed
    <3> QED BY <1>2, <1>5, <3>1 DEF ListsTyped, NeedLists
  <2>2. ASSUME raced[p] \subseteq {"request"}, NEW n \in Needs
        PROVE  need[n].doc \in {Found(p)[n].doc, None}
    BY <1>5, <1>7, <2>2 DEF Informed
  <2> QED BY <1>3, <1>4, <1>6, <2>1, <2>2 DEF Informed
<1>11. Synced(p)'
  BY <1>1, <1>3 DEF Synced
<1>12. Rejecting(p)'
  <2> SUFFICES ASSUME NEW n \in Needs, n = job[p].rejects
               PROVE  Found(p)[n].origin # "NONE" /\ N[n].status = "REJECTED"
    BY <1>3, <1>6 DEF Rejecting
  <2>1. pc[p] = "held" /\ p \in Readers
    BY <1>1, NoneAssumption DEF Readers, NeedsInv, Idling, Idle
  <2>2. Rejecting(p)
    BY <1>2, <2>1 DEF Knowing, Knows
  <2>3. n \in Changed(p) /\ saw[p][n].origin # "NONE" /\ out[p][n].status = "REJECTED"
    BY <1>1, <1>2, <2>2, KnownRow DEF Rejecting
  <2>4. Found(p)[n] = saw[p][n] /\ Flushed(p)[n] = out[p][n]
    BY <2>1, <2>3 DEF Found, Flushed, Current
  <2>5. n \notin Free
    BY <1>1, <2>3, NoNeedFields DEF Free
  <2> QED BY <1>4, <2>3, <2>4, <2>5
<1>13. Knows(p)'
  BY <1>8, <1>9, <1>10, <1>11, <1>12 DEF Knows
<1>14. p \in Readers'
  BY <1>1, <1>2, <1>3, Moved DEF NeedsInv, Typed, LockInv, Readers
<1>15. ASSUME NEW n \in Needs, N[n] # NoNeed, n \notin Free
       PROVE  out[p][n] # NoNeed \/ need[n] # NoNeed
  <2>1. N[n].origin # "NONE"
    BY <1>4, <1>15 DEF Planned, WellFormed
  <2>2. Flushed(p)[n] # NoNeed
    BY <1>4, <1>15, <2>1, NoNeedFields
  <2> QED BY <1>5, <2>2
<1>16. Moves(p)
  BY <1>6, <1>13, <1>14, <1>15 DEF Moves
<1>17. ListsTyped'
  BY <1>1, <1>2, <1>3, <1>4, <1>5, PlanTyped
<1> QED BY <1>16, <1>17

LEMMA ProposeKeepsInv ==
  ASSUME NeedsInv, LockInv', NEW p \in Passes, Propose(p)
  PROVE  NeedsInv'
<1>1. p \in Procs /\ ListsTyped /\ DocsTyped /\ ProcsTyped /\ Errands
  BY DEF NeedsInv, Typed, Procs
<1>2. /\ UNCHANGED <<need, doc, due, job, lock, unlocked, raced, outdated, lapsed>>
      /\ Goto(p, "proposed")
  BY DEF Propose, pipeline, locking
<1>3. pc'[p] = "proposed" /\ \A q \in Procs \ {p} : pc'[q] = pc[q]
  BY <1>1, <1>2, Moved DEF NeedsInv, Typed, LockInv
<1>4. \A q \in Procs \ {p} : saw'[q] = saw[q] /\ out'[q] = out[q]
  <2>1. \E B, N : saw' = [saw EXCEPT ![p] = B] /\ out' = [out EXCEPT ![p] = N]
    BY ProposePlans DEF NeedsInv, Typed
  <2> QED BY <1>1, <2>1 DEF ListsTyped
<1>5. Only(p)
  BY <1>2, <1>3, <1>4 DEF Only
<1>6. Moves(p) /\ ListsTyped'
  BY ProposeMoves
<1>7. DocsTyped' /\ ProcsTyped'
  BY <1>1, <1>2 DEF DocsTyped, ProcsTyped
<1>8. Errands'
  BY <1>1, <1>2, <1>3 DEF Errands, Procs
<1>9. "locked" \notin raced'[p] \/ p \in unlocked'
  BY <1>2 DEF NeedsInv, RacedLocked
<1> QED BY <1>1, <1>2, <1>5, <1>6, <1>7, <1>8, <1>9, MoveKeeps

-----------------------------------------------------------------------------
(* Committing.                                                             *)

RowFormed(a) == /\ a.origin = "NONE" => a = NoNeed
                /\ a.origin # "NONE" => a.type # None
                /\ a.origin = "MANUAL" => a.disp # "PROPOSED"

LEMMA WellFormedRows ==
  ASSUME NEW N
  PROVE  WellFormed(N) <=> \A n \in Needs : RowFormed(N[n])
BY DEF WellFormed, RowFormed

(* The stored row c once b has been written over what was loaded as a and  *)
(* flushed as k.                                                           *)
LEMMA EmitRow ==
  ASSUME NEW a \in NeedRows, NEW b \in NeedRows, NEW c \in NeedRows, NEW k, Flushing(k, a, b),
         RowFormed(a), RowFormed(b), RowFormed(c), Kept(a, b),
         a.origin # "NONE" => c.origin = a.origin,
         a.origin = "NONE" /\ b.origin # "NONE" => c = NoNeed
  PROVE  LET e == Emit(c, k, b) IN
         /\ e \in NeedRows /\ RowFormed(e)
         /\ c.origin # "NONE" => e.origin = c.origin
         /\ c.origin # "NONE" /\ e.active => c.active
         /\ c.origin = "NONE" => e = IF b.origin = "NONE" THEN NoNeed ELSE b
<1> DEFINE e == Emit(c, k, b)
<1>1. /\ e \in NeedRows
      /\ e.active = IF b.active = a.active THEN c.active ELSE b.active
      /\ e.status = IF b.status = a.status /\ k = a THEN c.status ELSE b.status
      /\ e.type = IF b.type = a.type THEN c.type ELSE b.type
      /\ e.origin = IF b.origin = a.origin THEN c.origin ELSE b.origin
      /\ e.disp = IF b.disp = a.disp THEN c.disp ELSE b.disp
      /\ e.doc = IF b.doc = a.doc THEN c.doc ELSE b.doc
      /\ a = c => e = b
      /\ k = a /\ a = b => e = c
  BY WrittenFields
<1> HIDE DEF e
<1>2. CASE a.origin # "NONE"
  <2>1. c.origin # "NONE" /\ b.origin = a.origin /\ c.origin = a.origin
    BY <1>2 DEF Kept
  <2>2. e.origin = c.origin
    BY <1>1, <2>1
  <2>3. e.active => c.active
    <3>1. a.active \in BOOLEAN /\ b.active \in BOOLEAN
      BY DEF NeedRows
    <3> QED BY <1>1, <1>2, <3>1 DEF Kept
  <2>4. RowFormed(e)
    BY <1>1, <2>1, <2>2 DEF RowFormed
  <2> QED BY <1>1, <2>1, <2>2, <2>3, <2>4 DEF e
<1>3. CASE a.origin = "NONE" /\ b.origin = "NONE"
  <2>1. a = b /\ a = NoNeed /\ k = a
    BY <1>3 DEF RowFormed, Flushing
  <2> QED BY <1>1, <1>3, <2>1 DEF RowFormed, e
<1>4. CASE a.origin = "NONE" /\ b.origin # "NONE"
  <2>1. a = c /\ c = NoNeed
    BY <1>4 DEF RowFormed
  <2> QED BY <1>1, <1>4, <2>1, NoNeedFields DEF e
<1> QED BY <1>2, <1>3, <1>4

(* What a commit makes of each row.                                        *)
LEMMA CommittedRow ==
  ASSUME NeedsInv, NEW p \in Readers, Commit(p), NEW n \in Needs
  PROVE  LET a == saw[p][n]
             b == out[p][n]
             c == need[n]
             e == need'[n]
         IN  /\ a \in NeedRows /\ b \in NeedRows /\ c \in NeedRows /\ e \in NeedRows
             /\ RowFormed(a) /\ RowFormed(b) /\ RowFormed(c) /\ RowFormed(e) /\ Kept(a, b)
             /\ e = Emit(c, Known(p, n), b) /\ Flushing(Known(p, n), a, b)
             /\ c.origin # "NONE" => e.origin = c.origin
             /\ c.origin # "NONE" /\ e.active => c.active
             /\ c.origin = "NONE" => e = IF b.origin = "NONE" THEN NoNeed ELSE b
<1>1. /\ ListsTyped /\ WellFormed(need) /\ p \in Procs
      /\ Planned(p, job[p].kind, job[p].doc, saw[p], out[p]) /\ Claims(p) /\ Rejecting(p)
  BY DEF NeedsInv, Typed, Knowing, Knows, Readers
<1>2. saw[p][n] \in NeedRows /\ out[p][n] \in NeedRows /\ need[n] \in NeedRows
  BY <1>1 DEF ListsTyped, NeedLists
<1>3. RowFormed(saw[p][n]) /\ RowFormed(out[p][n]) /\ RowFormed(need[n])
  BY <1>1, WellFormedRows DEF Planned
<1>4. Kept(saw[p][n], out[p][n])
  BY <1>1 DEF Planned
<1>5. /\ saw[p][n].origin # "NONE" => need[n].origin = saw[p][n].origin
      /\ saw[p][n].origin = "NONE" /\ out[p][n].origin # "NONE" => need[n] = NoNeed
  BY <1>1 DEF Claims
<1>6. need'[n] = Emit(need[n], Known(p, n), out[p][n])
  BY DEF Commit
<1>7. Flushing(Known(p, n), saw[p][n], out[p][n])
  BY <1>1, KnownRow
<1> QED BY <1>2, <1>3, <1>4, <1>5, <1>6, <1>7, EmitRow

(* Who has changed nothing commits nothing.                                *)
LEMMA CommitNothing ==
  ASSUME NeedsInv, NEW p \in Readers, Commit(p), Changed(p) = {}
  PROVE  need' = need
<1>1. \A n \in Needs : Known(p, n) = out[p][n]
  BY DEF Changed
<1>2. ASSUME NEW n \in Needs
      PROVE  need'[n] = need[n]
  BY <1>1, CommittedRow, EmitFields
<1>3. need' = [n \in Needs |-> need'[n]] /\ need = [n \in Needs |-> need[n]]
  BY DEF Commit, NeedsInv, Typed, ListsTyped, NeedLists
<1> QED BY <1>2, <1>3

(* The others still know what they knew, or know that they were raced.     *)
LEMMA CommitKnows ==
  ASSUME NeedsInv, NEW p \in Readers, Commit(p), NEW q \in Readers \ {p},
         q \notin outdated' => q \notin outdated /\ UNCHANGED doc
  PROVE  Knows(q)'
<1>1. /\ p \in Procs /\ q \in Procs /\ Knows(q) /\ Knows(p)
      /\ ListsTyped /\ ProcsTyped
  BY DEF NeedsInv, Typed, Knowing, Readers
<1>2. /\ saw'[q] = saw[q] /\ out'[q] = out[q] /\ job'[q] = job[q]
      /\ \A r \in Procs : out'[r] = IF r = p THEN Blank ELSE out[r]
  BY <1>1 DEF Commit, End, ListsTyped, ProcsTyped
<1>3. raced'[q] = IF Changed(p) # {} THEN raced[q] \cup {Standing(p)} ELSE raced[q]
  BY <1>1 DEF Commit
<1>4. Planned(q, job[q].kind, job[q].doc, saw[q], out[q])'
  BY <1>1, <1>2 DEF Knows
<1>5. Claims(q)'
  <2> SUFFICES ASSUME NEW n \in Needs
               PROVE  /\ saw'[q][n].origin # "NONE" => need'[n].origin = saw'[q][n].origin
                      /\ saw'[q][n].origin = "NONE" /\ out'[q][n].origin # "NONE"
                         => need'[n] = NoNeed /\ \A r \in Procs \ {q} : out'[r][n] = NoNeed
    BY DEF Claims
  <2>1. saw[q][n].origin # "NONE" => need'[n].origin = saw[q][n].origin
    BY <1>1, CommittedRow DEF Knows, Claims
  <2>2. ASSUME saw[q][n].origin = "NONE", out[q][n].origin # "NONE"
        PROVE  need'[n] = NoNeed /\ \A r \in Procs \ {q} : out'[r][n] = NoNeed
    <3>1. need[n] = NoNeed /\ \A r \in Procs \ {q} : out[r][n] = NoNeed
      BY <1>1, <2>2 DEF Knows, Claims
    <3>2. out[p][n].origin = "NONE" /\ need[n].origin = "NONE"
      BY <1>1, <3>1, NoNeedFields
    <3>3. need'[n] = NoNeed
      BY <3>2, CommittedRow
    <3>4. Blank[n] = NoNeed
      BY DEF Blank
    <3> QED BY <1>2, <3>1, <3>3, <3>4
  <2> QED BY <1>2, <2>1, <2>2
<1>6. Informed(q)'
  <2>1. ASSUME raced'[q] = {}
        PROVE  saw'[q] = need' /\ (q \in Passes => Survive(job'[q].kind, saw'[q], out'[q]))
    <3>1. Changed(p) = {} /\ raced[q] = {}
      BY <1>3, <2>1
    <3>2. need' = need
      BY <3>1, CommitNothing
    <3> QED BY <1>1, <1>2, <3>1, <3>2 DEF Knows, Informed
  <2>2. ASSUME raced'[q] \subseteq {"request"}, NEW n \in Needs
        PROVE  need'[n].doc \in {saw'[q][n].doc, None}
    <3>1. raced[q] \subseteq {"request"}
      BY <1>3, <2>2
    <3>2. need[n].doc \in {saw[q][n].doc, None}
      BY <1>1, <3>1 DEF Knows, Informed
    <3>3. CASE Changed(p) = {}
      BY <1>2, <3>2, <3>3, CommitNothing
    <3>4. CASE Changed(p) # {}
      <4>1. p \in Requests
        BY <1>3, <2>2, <3>4 DEF Standing
      <4>2. out[p][n].doc \in {saw[p][n].doc, None}
        BY <1>1, <4>1 DEF Knows, Planned, RequestRow
      <4>3. need'[n].doc = IF out[p][n].doc = saw[p][n].doc THEN need[n].doc ELSE out[p][n].doc
        BY CommittedRow, WrittenFields
      <4> QED BY <1>2, <3>2, <4>2, <4>3
    <3> QED BY <3>3, <3>4
  <2> QED BY <2>1, <2>2 DEF Informed
<1>7. Synced(q)'
  BY <1>1, <1>2 DEF Knows, Synced
<1>8. Rejecting(q)'
  BY <1>1, <1>2 DEF Knows, Rejecting
<1> QED BY <1>4, <1>5, <1>6, <1>7, <1>8 DEF Knows

LEMMA CommitKeeps ==
  ASSUME NeedsInv, LockInv', NEW p \in Readers, Commit(p),
         p \in Passes => pc[p] = IF job[p].kind = "verify" THEN "held" ELSE "proposed",
         outdated' \subseteq (outdated \cup Readers) \ {p},
         outdated \ {p} \subseteq outdated',
         \A q \in Readers \ {p} : q \notin outdated' => UNCHANGED doc,
         DocsTyped', SupersededAnswersNothingOld'
  PROVE  NeedsInv'
<1>1. /\ p \in Procs /\ ListsTyped /\ ProcsTyped /\ Errands /\ LockInv /\ Readers \subseteq Procs
  BY DEF NeedsInv, Typed, Readers
<1>2. pc'[p] = "committed" /\ \A q \in Procs \ {p} : pc'[q] = pc[q]
  BY <1>1, Moved DEF Commit, End, LockInv
<1>3. /\ job'[p] = NoJob /\ \A q \in Procs \ {p} : job'[q] = job[q]
      /\ job' \in [Procs -> Jobs]
      /\ unlocked' = unlocked \ {p}
  BY <1>1, NoJobType DEF Commit, End, ProcsTyped
<1>4. Readers' = Readers \ {p}
  BY <1>1, <1>2 DEF Readers
<1>5. /\ \A q \in Procs : raced'[q] = IF q = p THEN {}
                             ELSE IF q \in Readers /\ Changed(p) # {} THEN raced[q] \cup {Standing(p)}
                             ELSE raced[q]
      /\ raced' \in [Procs -> SUBSET {"locked", "unlocked", "request"}]
  <2>1. Standing(p) \in {"locked", "unlocked", "request"}
    BY DEF Standing
  <2>2. \A q \in Procs : raced[q] \in SUBSET {"locked", "unlocked", "request"}
    BY <1>1 DEF ProcsTyped
  <2> QED BY <2>1, <2>2 DEF Commit
<1>6. Typed'
  <2>1. ListsTyped'
    BY <1>1, CommitTyped
  <2>2. ProcsTyped'
    BY <1>1, <1>3, <1>5 DEF ProcsTyped
  <2>3. Errands'
    BY <1>1, <1>2, <1>3, NoJobType DEF Errands, Procs
  <2> QED BY <2>1, <2>2, <2>3 DEF Typed
<1>7. WellFormed(need)'
  <2>1. \A n \in Needs : RowFormed(need'[n])
    BY CommittedRow
  <2> QED BY <2>1, WellFormedRows
<1>8. \A q \in Readers' : Knows(q)'
  BY <1>4, CommitKnows
<1>9. Idling'
  <2> SUFFICES ASSUME NEW q \in Procs, q \notin Readers'
               PROVE  Idle(q)'
    BY DEF Idling
  <2>1. CASE q = p
    BY <1>1, <1>3, <1>5, <2>1, NoJobType DEF Commit, ListsTyped, Idle, Blank
  <2>2. CASE q # p
    <3>1. q \notin Readers /\ Idle(q)
      BY <1>4, <2>2 DEF NeedsInv, Idling
    <3> QED BY <1>1, <1>3, <1>5, <2>2, <3>1 DEF Commit, ListsTyped, Idle, Blank
  <2> QED BY <2>1, <2>2
<1>10. RacedLocked'
  <2> SUFFICES ASSUME NEW q \in Passes, "locked" \in raced'[q]
               PROVE  q \in unlocked'
    BY DEF RacedLocked
  <2>1. q \in Procs /\ q # p
    BY <1>5 DEF Procs
  <2>2. CASE "locked" \in raced[q]
    BY <1>3, <2>1, <2>2 DEF NeedsInv, RacedLocked
  <2>3. CASE q \in Readers /\ Standing(p) = "locked"
    <3>1. p \in Passes /\ p \notin unlocked
      BY <1>1, <2>3 DEF Standing, Procs
    <3>2. Inside(p)
      BY <1>1, <3>1 DEF Inside, Errands
    <3>3. Inside(q) \/ q \in unlocked
      BY <1>1, <2>3 DEF Inside, Errands, Readers
    <3> QED BY <1>1, <1>3, <2>1, <3>1, <3>2, <3>3 DEF LockInv, InsideHolds
  <2> QED BY <1>5, <2>1, <2>2, <2>3
<1> QED BY <1>6, <1>7, <1>8, <1>9, <1>10 DEF NeedsInv, Knowing

(* A need in use that carries a document after a commit carried it before, *)
(* or was given it.                                                        *)
LEMMA CarriedAfter ==
  ASSUME NeedsInv, NEW p \in Readers, Commit(p), NEW n \in Needs, need'[n].active, need'[n].doc # None
  PROVE  \/ need[n].active /\ need[n].doc = need'[n].doc
         \/ out[p][n].doc # saw[p][n].doc /\ need'[n].doc = out[p][n].doc
<1>1. /\ saw[p][n] \in NeedRows /\ out[p][n] \in NeedRows /\ need[n] \in NeedRows
      /\ RowFormed(saw[p][n]) /\ RowFormed(need[n]) /\ Kept(saw[p][n], out[p][n])
      /\ need'[n] = Emit(need[n], Known(p, n), out[p][n])
      /\ Flushing(Known(p, n), saw[p][n], out[p][n])
      /\ need[n].origin # "NONE" /\ need'[n].active => need[n].active
      /\ need[n].origin = "NONE" => need'[n] = IF out[p][n].origin = "NONE" THEN NoNeed ELSE out[p][n]
  BY CommittedRow
<1>2. need'[n].doc = IF out[p][n].doc = saw[p][n].doc THEN need[n].doc ELSE out[p][n].doc
  BY <1>1, WrittenFields
<1>3. CASE need[n].origin # "NONE"
  BY <1>1, <1>2, <1>3
<1>4. CASE need[n].origin = "NONE"
  <2>1. need[n].doc = None
    BY <1>1, <1>4, NoNeedFields DEF RowFormed
  <2> QED BY <1>2, <2>1
<1> QED BY <1>3, <1>4

LEMMA FinishKeepsInv ==
  ASSUME NeedsInv, LockInv', NEW p \in Passes, Finish(p)
  PROVE  NeedsInv'
<1>1. /\ pc[p] = IF job[p].kind = "verify" THEN "held" ELSE "proposed"
      /\ Commit(p) /\ outdated' = outdated \ {p} /\ UNCHANGED <<doc, due>>
      /\ lapsed' = lapsed \cup {d \in Linking(p) : ~doc[d].current}
  BY DEF Finish, pipeline
<1>2. p \in Procs /\ p \in Readers
  BY <1>1 DEF Readers, Procs
<1>3. ListsTyped /\ DocsTyped /\ SupersededAnswersNothingOld
  BY DEF NeedsInv, Typed
<1>4. \A n \in Needs : out[p][n].doc \in Docs \cup {None} /\ need'[n].doc \in Docs \cup {None}
  <2>1. \A n \in Needs : out[p][n] \in NeedRows /\ need'[n] \in NeedRows
    BY <1>1, <1>2, CommittedRow
  <2> QED BY <2>1 DEF NeedRows
<1>5. DocsTyped'
  <2>1. Linking(p) \subseteq Docs
    BY <1>4 DEF Linking
  <2> QED BY <1>1, <1>3, <2>1 DEF DocsTyped
<1>6. SupersededAnswersNothingOld'
  <2>1. ASSUME NEW n \in Needs, need'[n].active, need'[n].doc # None
        PROVE  doc[need'[n].doc].current \/ need'[n].doc \in lapsed'
    <3>1. CASE need[n].active /\ need[n].doc = need'[n].doc
      BY <1>1, <1>3, <2>1, <3>1 DEF SupersededAnswersNothingOld
    <3>2. CASE out[p][n].doc # saw[p][n].doc /\ need'[n].doc = out[p][n].doc
      BY <1>1, <2>1, <3>2 DEF Linking
    <3> QED BY <1>1, <1>2, <2>1, <3>1, <3>2, CarriedAfter
  <2> QED BY <1>1, <2>1 DEF SupersededAnswersNothingOld
<1>7. outdated \subseteq Procs
  BY DEF NeedsInv, Typed, ProcsTyped
<1> QED BY <1>1, <1>2, <1>5, <1>6, CommitKeeps

LEMMA AnswerKeepsInv ==
  ASSUME NeedsInv, LockInv', NEW q \in Requests, Answer(q)
  PROVE  NeedsInv'
<1> DEFINE d == job[q].doc
<1>1. /\ pc[q] = "planned" /\ Commit(q) /\ UNCHANGED due
      /\ outdated \ {q} \subseteq outdated' /\ outdated' \subseteq (outdated \cup Readers) \ {q}
      /\ job[q].kind # "replace" => UNCHANGED <<doc, lapsed>>
      /\ lapsed \subseteq lapsed'
  BY DEF Answer
<1>2. ASSUME job[q].kind = "replace"
      PROVE  /\ \E e \in Docs : doc' = [doc EXCEPT ![d].current = FALSE, ![e] = NewDoc]
             /\ lapsed' = IF raced[q] = {} THEN lapsed ELSE lapsed \cup {d}
             /\ outdated' = (outdated \cup Readers) \ {q} /\ d \in Docs
  BY <1>2 DEF Answer, NeedsInv, Typed, Errands, Procs
<1>3. q \in Procs /\ q \in Readers /\ q \notin Passes
  BY <1>1, ProcsAssumption DEF Readers, Procs
<1>4. DocsTyped /\ SupersededAnswersNothingOld /\ Knows(q)
  BY <1>3 DEF NeedsInv, Typed, Knowing
<1>5. DocsTyped'
  <2>1. NewDoc \in DocRows /\ \A r \in DocRows : [r EXCEPT !.current = FALSE] \in DocRows
    BY DEF NewDoc, NoDoc, DocRows
  <2>2. doc' \in [Docs -> DocRows]
    <3>1. CASE job[q].kind = "replace"
      <4>1. PICK e \in Docs : doc' = [doc EXCEPT ![d].current = FALSE, ![e] = NewDoc]
        BY <1>2, <3>1
      <4>2. [doc EXCEPT ![d].current = FALSE] \in [Docs -> DocRows]
        BY <1>2, <1>4, <2>1, <3>1 DEF DocsTyped
      <4> QED BY <2>1, <4>1, <4>2
    <3>2. CASE job[q].kind # "replace"
      BY <1>1, <1>4, <3>2 DEF DocsTyped
    <3> QED BY <3>1, <3>2
  <2>3. lapsed' \subseteq Docs
    <3>1. CASE job[q].kind = "replace"
      BY <1>2, <1>4, <3>1 DEF DocsTyped
    <3>2. CASE job[q].kind # "replace"
      BY <1>1, <1>4, <3>2 DEF DocsTyped
    <3> QED BY <3>1, <3>2
  <2> QED BY <1>1, <1>4, <2>2, <2>3 DEF DocsTyped
<1>6. ASSUME NEW n \in Needs, need'[n].active, need'[n].doc # None
      PROVE  doc'[need'[n].doc].current \/ need'[n].doc \in lapsed'
  <2>1. out[q][n].doc \in {saw[q][n].doc, None}
    BY <1>3, <1>4 DEF Knows, Planned, RequestRow
  <2>2. need[n].active /\ need[n].doc = need'[n].doc
    BY <1>1, <1>3, <1>6, <2>1, CarriedAfter
  <2> DEFINE x == need'[n].doc
  <2>3. x \in Docs
    <3>1. need'[n] \in NeedRows
      BY <1>1, <1>3, CommittedRow
    <3> QED BY <1>6, <3>1 DEF NeedRows
  <2>4. doc[x].current \/ x \in lapsed
    BY <1>4, <1>6, <2>2 DEF SupersededAnswersNothingOld
  <2>5. CASE job[q].kind # "replace"
    BY <1>1, <2>4, <2>5
  <2>6. CASE job[q].kind = "replace" /\ x = d /\ raced[q] = {}
    <3>1. saw[q][n] = need[n]
      BY <1>4, <2>6 DEF Knows, Informed
    <3>2. need'[n] = out[q][n]
      BY <1>1, <1>3, <3>1, CommittedRow, WrittenFields
    <3>3. out[q][n].doc = None
      BY <1>3, <1>4, <2>2, <2>6, <3>1 DEF Knows, Planned, RequestRow
    <3> QED BY <1>6, <3>2, <3>3
  <2>7. CASE job[q].kind = "replace" /\ x = d /\ raced[q] # {}
    BY <1>2, <2>7
  <2>8. CASE job[q].kind = "replace" /\ x # d
    <3>1. PICK e \in Docs : doc' = [doc EXCEPT ![d].current = FALSE, ![e] = NewDoc]
      BY <1>2, <2>8
    <3>2. NewDoc.current
      BY DEF NewDoc, NoDoc
    <3>3. doc'[x] = IF x = e THEN NewDoc ELSE doc[x]
      BY <1>4, <2>3, <2>8, <3>1 DEF DocsTyped
    <3> QED BY <1>1, <2>4, <3>2, <3>3
  <2> QED BY <2>5, <2>6, <2>7, <2>8
<1>7. SupersededAnswersNothingOld'
  BY <1>6 DEF SupersededAnswersNothingOld
<1>8. \A r \in Readers \ {q} : r \notin outdated' => UNCHANGED doc
  BY <1>1, <1>2
<1> QED BY <1>1, <1>3, <1>5, <1>7, <1>8, CommitKeeps

-----------------------------------------------------------------------------
(* The invariant.                                                          *)

LEMMA NextNeedsInv == NeedsInv /\ [Next]_vars => NeedsInv'
<1> SUFFICES ASSUME NeedsInv, [Next]_vars PROVE NeedsInv'
  OBVIOUS
<1>1. LockInv'
  BY NextLockInv DEF NeedsInv, Typed
<1>2. ASSUME NEW d \in Docs, Settle(d)
      PROVE  NeedsInv'
  BY <1>1, <1>2, SettleKeeps
<1>3. ASSUME NEW p \in Passes, Pass(p)
      PROVE  NeedsInv'
  <2>1. p \in Procs
    BY DEF Procs
  <2>2. CASE StartUpdate(p) \/ StartPropose(p) \/ StartSync(p)
    BY <1>1, <2>2, StartsKeepInv
  <2>3. CASE Match(p) \/ Flush(p) \/ Propose(p) \/ Sync(p)
    BY <1>1, <2>3, MatchKeepsInv, FlushKeepsInv, ProposeKeepsInv, SyncKeepsInv
  <2>4. CASE Finish(p) \/ Fail(p) \/ Kill(p)
    BY <1>1, <2>1, <2>4, FinishKeepsInv, DropsKeep
  <2> QED BY <1>3, <2>2, <2>3, <2>4 DEF Pass
<1>4. ASSUME NEW q \in Requests, Request(q)
      PROVE  NeedsInv'
  <2>1. q \in Procs
    BY DEF Procs
  <2>2. CASE Asking(q)
    BY <1>1, <2>2, AskKeepsInv
  <2>3. CASE TouchDocument(q) \/ Answer(q) \/ Abandon(q)
    BY <1>1, <2>1, <2>3, TouchKeeps, AnswerKeepsInv, DropsKeep
  <2> QED BY <1>4, <2>2, <2>3 DEF Request, Asking
<1>5. CASE LockExpires
  BY <1>1, <1>5, ExpiryKeepsInv
<1>6. CASE Rest \/ UNCHANGED vars
  BY <1>1, <1>6, StutterKeeps
<1> QED BY <1>2, <1>3, <1>4, <1>5, <1>6 DEF Next

LEMMA InitNeedsInv == Init => NeedsInv
<1> SUFFICES ASSUME Init PROVE NeedsInv
  OBVIOUS
<1>1. LockInv
  BY InitLockInv
<1>2. PICK ask \in FloorAsks \cup {None} :
        need = [n \in Needs |-> IF ask # None /\ n \in {1, 2}
                                  THEN NewNeed(ask, "FLOOR", "CONFIRMED") ELSE NoNeed]
  BY DEF Init
<1>3. \A n \in Needs : need[n] = NoNeed \/ \E t \in Asks : need[n] = NewNeed(t, "FLOOR", "CONFIRMED")
  BY <1>2, NeedTypesAssumption DEF Asks
<1>4. \A t \in Asks : LET r == NewNeed(t, "FLOOR", "CONFIRMED") IN
        r \in NeedRows /\ r.doc = None /\ r.type \in Types /\ r.origin = "FLOOR"
  BY DEF NewNeed, NeedRows, NeedStatuses, Asks
<1>5. \A n \in Needs : need[n] \in NeedRows /\ RowFormed(need[n]) /\ need[n].doc = None
  BY <1>3, <1>4, BlankType, NoNeedFields, NoneAssumption DEF RowFormed
<1>6. ListsTyped
  <2>1. need \in NeedLists
    BY <1>2, <1>5 DEF NeedLists
  <2> QED BY <2>1, BlankType DEF Init, ListsTyped
<1>7. DocsTyped
  <2>1. NewDoc \in DocRows /\ NoDoc \in DocRows
    BY DEF NewDoc, NoDoc, DocRows
  <2> QED BY <2>1 DEF Init, DocsTyped
<1>8. ProcsTyped /\ Errands
  BY NoJobType DEF Init, ProcsTyped, Errands, Procs
<1>9. Readers = {}
  BY DEF Init, Readers
<1>10. Idling
  BY NoJobType DEF Init, Idling, Idle
<1>11. Knowing
  BY <1>5, <1>9, WellFormedRows DEF Knowing
<1>12. RacedLocked
  BY DEF Init, RacedLocked, Procs
<1>13. SupersededAnswersNothingOld
  BY <1>5 DEF SupersededAnswersNothingOld
<1> QED BY <1>1, <1>6, <1>7, <1>8, <1>10, <1>11, <1>12, <1>13 DEF NeedsInv, Typed

(* Every value has its type, and every process that read the list knows    *)
(* what it may have of it, whoever else commits meanwhile.                 *)
THEOREM NeedsInvariant == Spec => []NeedsInv
BY InitNeedsInv, NextNeedsInv, PTL DEF Spec

(* Every kind of value stays what it is meant to be, for any needs,        *)
(* documents, passes and requests.                                         *)
THEOREM NeedsTyped == Spec => []TypeOK
<1>1. NeedsInv => TypeOK
  BY TypedIsTypeOK DEF NeedsInv
<1> QED BY <1>1, NeedsInvariant, PTL

(* A superseded version answers a need only if a pass linked it after it   *)
(* was superseded, or while it was.                                        *)
THEOREM SupersededIsReopened == Spec => []SupersededAnswersNothingOld
<1>1. NeedsInv => SupersededAnswersNothingOld
  BY DEF NeedsInv
<1> QED BY <1>1, NeedsInvariant, PTL

-----------------------------------------------------------------------------
(* What a step may do.                                                     *)

(* The list changes, and a process comes to have committed, in commits.    *)
LEMMA StepShape ==
  ASSUME [Next]_vars
  PROVE  \/ /\ need' = need
            /\ \/ pc' = pc
               \/ \E p \in Procs, label \in {"unused", "inside", "planned", "held", "proposed", "ended"} :
                    pc' = [pc EXCEPT ![p] = label]
         \/ \E p \in Procs : /\ Commit(p) /\ pc[p] \in {"planned", "held", "proposed"}
                             /\ pc' = [pc EXCEPT ![p] = "committed"]
<1> DEFINE Onward == \E p \in Procs, label \in {"unused", "inside", "planned", "held", "proposed", "ended"} :
                       pc' = [pc EXCEPT ![p] = label]
           Committing == \E p \in Procs : /\ Commit(p) /\ pc[p] \in {"planned", "held", "proposed"}
                                          /\ pc' = [pc EXCEPT ![p] = "committed"]
<1>1. ASSUME NEW p \in Procs, NEW label \in {"unused", "inside", "planned", "held", "proposed", "ended"},
             Goto(p, label)
      PROVE  Onward
  BY <1>1 DEF Goto
<1>2. ASSUME NEW d \in Docs, Settle(d)
      PROVE  need' = need /\ pc' = pc
  BY <1>2 DEF Settle, DocumentsMove
<1>3. ASSUME NEW p \in Passes, Pass(p)
      PROVE  (need' = need /\ Onward) \/ Committing
  <2>1. p \in Procs
    BY DEF Procs
  <2> HIDE DEF Onward, Committing
  <2>2. CASE StartUpdate(p) \/ StartPropose(p) \/ StartSync(p)
    BY <1>1, <2>1, <2>2 DEF StartUpdate, StartPropose, StartSync, Start, Enter
  <2>3. CASE Match(p)
    BY <1>1, <2>1, <2>3 DEF Match, End
  <2>4. CASE Flush(p) \/ Propose(p) \/ Sync(p)
    BY <1>1, <2>1, <2>4 DEF Flush, Propose, Sync
  <2>5. CASE Fail(p) \/ Kill(p)
    BY <1>1, <2>1, <2>5 DEF Fail, Kill, End
  <2>6. CASE Finish(p)
    BY <2>1, <2>6 DEF Finish, Commit, End, Goto, Committing
  <2> QED BY <1>3, <2>2, <2>3, <2>4, <2>5, <2>6 DEF Pass
<1>4. ASSUME NEW q \in Requests, Request(q)
      PROVE  (need' = need /\ Onward) \/ Committing
  <2>1. q \in Procs
    BY DEF Procs
  <2> HIDE DEF Onward, Committing
  <2>2. ASSUME NEW kind, NEW d, NEW N, Ask(q, kind, d, N)
        PROVE  need' = need /\ Onward
    BY <1>1, <2>1, <2>2 DEF Ask
  <2>3. CASE AddNeed(q)
    BY <2>2, <2>3 DEF AddNeed
  <2>4. CASE ConfirmNeed(q) \/ AdjustNeed(q) \/ ConfirmCoverage(q) \/ WaiveNeed(q)
    BY <2>2, <2>4 DEF ConfirmNeed, AdjustNeed, ConfirmCoverage, WaiveNeed, Revise
  <2>5. CASE Replace(q)
    BY <2>2, <2>5 DEF Replace
  <2>6. CASE TouchDocument(q)
    BY <1>1, <2>1, <2>6 DEF TouchDocument, DocumentsMove
  <2>7. CASE Answer(q)
    BY <2>1, <2>7 DEF Answer, Commit, End, Goto, Committing
  <2>8. CASE Abandon(q)
    BY <1>1, <2>1, <2>8 DEF Abandon, End
  <2> QED BY <1>4, <2>3, <2>4, <2>5, <2>6, <2>7, <2>8 DEF Request
<1>5. ASSUME LockExpires \/ Rest \/ UNCHANGED vars
      PROVE  need' = need /\ pc' = pc
  BY <1>5 DEF LockExpires, Rest, vars
<1> HIDE DEF Onward, Committing
<1>6. (need' = need /\ (pc' = pc \/ Onward)) \/ Committing
  BY <1>2, <1>3, <1>4, <1>5 DEF Next
<1> QED BY <1>6 DEF Onward, Committing

LEMMA ListChanges ==
  ASSUME NeedsInv, [Next]_vars, need' # need
  PROVE  \E p \in Readers : Commit(p) /\ Commits(p)
<1>1. PICK p \in Procs : /\ Commit(p) /\ pc[p] \in {"planned", "held", "proposed"}
                         /\ pc' = [pc EXCEPT ![p] = "committed"]
  BY StepShape
<1>2. pc'[p] = "committed"
  BY <1>1 DEF NeedsInv, Typed, LockInv, LockTypes
<1> QED BY <1>1, <1>2 DEF Commits, Readers

LEMMA CommitsCommit ==
  ASSUME NeedsInv, [Next]_vars, NEW p \in Procs, Commits(p)
  PROVE  p \in Readers /\ Commit(p)
<1>1. pc = [q \in Procs |-> pc[q]] /\ pc[p] # "committed" /\ pc'[p] = "committed"
  BY DEF NeedsInv, Typed, LockInv, LockTypes, Commits
<1>2. \E q \in Procs : /\ Commit(q) /\ pc[q] \in {"planned", "held", "proposed"}
                       /\ pc' = [pc EXCEPT ![q] = "committed"]
  BY <1>1, StepShape
<1> QED BY <1>1, <1>2 DEF Readers

(* An undisturbed commit makes the list what the process decided.          *)
LEMMA UnracedCommit ==
  ASSUME NeedsInv, NEW p \in Readers, Commit(p), raced[p] = {}
  PROVE  saw[p] = need /\ \A n \in Needs : need'[n] = out[p][n]
<1>1. saw[p] = need
  BY DEF NeedsInv, Knowing, Knows, Informed
<1> QED BY <1>1, CommittedRow, WrittenFields

(* A document that answers a need gives way to another only to a writer    *)
(* who read the list before that answer, without the lock or raced by one  *)
(* without it, or after a request made an answer of what it read as open.  *)
THEOREM AnswersAreKept == Spec => AnswerLostOnlyToARace
<1>1. NeedsInv /\ [Next]_vars =>
        [\A n \in Needs :
           /\ need[n].active /\ need[n].status \in Answers /\ need[n].doc # None
           /\ need'[n].doc \notin {need[n].doc, None}
           => \E p \in Passes :
                /\ Commits(p)
                /\ \/ /\ raced[p] \ {"request"} # {}
                      /\ p \in unlocked \/ "unlocked" \in raced[p]
                   \/ /\ "request" \in raced[p]
                      /\ saw[p][n].status \in OpenStates /\ saw[p][n].doc = need[n].doc]_vars
  <2> SUFFICES ASSUME NeedsInv, [Next]_vars, NEW n \in Needs,
                      need[n].active, need[n].status \in Answers, need[n].doc # None,
                      need'[n].doc \notin {need[n].doc, None}
               PROVE  \E p \in Passes :
                        /\ Commits(p)
                        /\ \/ /\ raced[p] \ {"request"} # {}
                              /\ p \in unlocked \/ "unlocked" \in raced[p]
                           \/ /\ "request" \in raced[p]
                              /\ saw[p][n].status \in OpenStates /\ saw[p][n].doc = need[n].doc
    OBVIOUS
  <2>1. PICK p \in Readers : Commit(p) /\ Commits(p)
    BY ListChanges
  <2>2. p \in Procs /\ Knows(p) /\ raced[p] \subseteq {"locked", "unlocked", "request"}
    BY DEF NeedsInv, Knowing, Readers, Typed, ProcsTyped
  <2>3. /\ out[p][n].doc # saw[p][n].doc /\ out[p][n].doc # None
    BY <2>1, CommittedRow, WrittenFields
  <2>4. p \in Passes
    BY <2>2, <2>3 DEF Knows, Planned, RequestRow, Procs
  <2>5. saw[p][n].status \in OpenStates
    BY <2>2, <2>3, <2>4 DEF Knows, Planned, PassRow
  <2>6. saw[p] # need
    BY <2>5 DEF OpenStates, Answers
  <2>7. raced[p] # {}
    BY <2>2, <2>6 DEF Knows, Informed
  <2>8. CASE raced[p] \subseteq {"request"}
    BY <2>1, <2>2, <2>4, <2>5, <2>7, <2>8 DEF Knows, Informed
  <2>9. CASE ~(raced[p] \subseteq {"request"})
    <3>1. "locked" \in raced[p] \/ "unlocked" \in raced[p]
      BY <2>2, <2>9
    <3>2. "locked" \in raced[p] => p \in unlocked
      BY <2>4 DEF NeedsInv, RacedLocked
    <3> QED BY <2>1, <2>4, <3>1, <3>2
  <2> QED BY <2>8, <2>9
<1> QED BY <1>1, NeedsInvariant, PTL DEF Spec, AnswerLostOnlyToARace

(* A need a processor waived stays so, unless its writer read it before    *)
(* the waiver or the document it was waived with is replaced.              *)
THEOREM WaiversStand == Spec => WaiverStands
<1>1. NeedsInv /\ [Next]_vars =>
        [\A n \in Needs :
           need[n].active /\ need[n].status = "WAIVED" /\ need'[n].status # "WAIVED"
           => \E p \in Procs : Commits(p) /\ (raced[p] # {} \/ job[p].kind = "replace")]_vars
  <2> SUFFICES ASSUME NeedsInv, [Next]_vars, NEW n \in Needs,
                      need[n].active, need[n].status = "WAIVED", need'[n].status # "WAIVED"
               PROVE  \E p \in Procs : Commits(p) /\ (raced[p] # {} \/ job[p].kind = "replace")
    OBVIOUS
  <2>1. PICK p \in Readers : Commit(p) /\ Commits(p)
    BY ListChanges
  <2>2. p \in Procs /\ Knows(p)
    BY DEF NeedsInv, Knowing, Readers
  <2>3. CASE raced[p] = {} /\ job[p].kind # "replace"
    <3>1. saw[p][n] = need[n] /\ need'[n] = out[p][n]
      BY <2>1, <2>3, UnracedCommit
    <3>2. need[n].origin # "NONE"
      BY <2>1, CommittedRow, NoNeedFields DEF RowFormed
    <3>3. out[p][n].status = "WAIVED"
      BY <2>2, <2>3, <3>1, <3>2 DEF Knows, Planned, PassRow, RequestRow, Procs
    <3> QED BY <3>1, <3>3
  <2> QED BY <2>1, <2>2, <2>3
<1> QED BY <1>1, NeedsInvariant, PTL DEF Spec, WaiverStands

(* No pass waives or deletes what a processor asked for.                   *)
THEOREM ManualStands == Spec => ManualNeedsStand
<1>1. NeedsInv /\ [Next]_vars =>
        [\A n \in Needs :
           need[n].origin = "MANUAL" /\ Live(need[n]) /\ ~Live(need'[n])
           => \E q \in Requests : Commits(q)]_vars
  <2> SUFFICES ASSUME NeedsInv, [Next]_vars, NEW n \in Needs,
                      need[n].origin = "MANUAL", Live(need[n]), ~Live(need'[n])
               PROVE  \E q \in Requests : Commits(q)
    OBVIOUS
  <2>1. PICK p \in Readers : Commit(p) /\ Commits(p)
    BY ListChanges
  <2>2. p \in Procs /\ Knows(p)
    BY DEF NeedsInv, Knowing, Readers
  <2>3. SUFFICES ASSUME p \in Passes PROVE FALSE
    BY <2>1, <2>2 DEF Procs
  <2> DEFINE a == saw[p][n]
             b == out[p][n]
             k == Known(p, n)
  <2>4. /\ a \in NeedRows /\ b \in NeedRows /\ need[n] \in NeedRows
        /\ RowFormed(a) /\ RowFormed(b) /\ Kept(a, b) /\ need'[n] = Emit(need[n], k, b)
        /\ Flushing(k, a, b)
    BY <2>1, CommittedRow
  <2>5. PassRow(job[p].kind, a, b)
    BY <2>2, <2>3 DEF Knows, Planned
  <2>6. /\ a.origin # "NONE" => need[n].origin = a.origin
        /\ a.origin = "NONE" /\ b.origin # "NONE" => need[n] = NoNeed
    BY <2>2 DEF Knows, Claims
  <2> HIDE DEF a, b, k
  <2>7. /\ need'[n].active = IF b.active = a.active THEN need[n].active ELSE b.active
        /\ need'[n].status = IF b.status = a.status /\ k = a THEN need[n].status ELSE b.status
        /\ k = a /\ a = b => need'[n] = need[n]
    BY <2>4, WrittenFields
  <2>8. a.origin # "NONE"
    BY <2>4, <2>6, <2>7, NoNeedFields DEF RowFormed, Flushing
  <2>9. b.origin = "MANUAL" /\ b.disp # "PROPOSED"
    BY <2>4, <2>6, <2>8 DEF Kept, RowFormed
  <2>10. need'[n].active = need[n].active
    BY <2>5, <2>7, <2>8, <2>9 DEF PassRow
  <2>11. need[n].active /\ need[n].status # "WAIVED" /\ need'[n].status = "WAIVED"
    BY <2>10 DEF Live
  <2>12. b.status = "WAIVED" /\ a.status # "WAIVED"
    BY <2>4, <2>7, <2>11 DEF Flushing
  <2> QED BY <2>5, <2>8, <2>9, <2>12 DEF PassRow
<1> QED BY <1>1, NeedsInvariant, PTL DEF Spec, ManualNeedsStand

(* A type asked for before an undisturbed pass is asked for after it,      *)
(* unless a proposal was consolidated into a waived need.                  *)
THEOREM RequirementsSurvive == Spec => RequirementsSurvivePasses
<1>1. NeedsInv /\ [Next]_vars =>
        [\A p \in Passes :
           Commits(p) /\ raced[p] = {}
           => Asked(need) \subseteq
                Asked(need') \cup IF job[p].kind = "verify" THEN {} ELSE Waived(need)]_vars
  <2> SUFFICES ASSUME NeedsInv, [Next]_vars, NEW p \in Passes, Commits(p), raced[p] = {}
               PROVE  Asked(need) \subseteq
                        Asked(need') \cup IF job[p].kind = "verify" THEN {} ELSE Waived(need)
    OBVIOUS
  <2>1. p \in Readers /\ Commit(p)
    BY CommitsCommit DEF Procs
  <2>2. saw[p] = need /\ \A n \in Needs : need'[n] = out[p][n]
    BY <2>1, UnracedCommit
  <2>3. Asked(need') = Asked(out[p])
    BY <2>2 DEF Asked
  <2>4. Survive(job[p].kind, need, out[p])
    BY <2>1, <2>2 DEF NeedsInv, Knowing, Knows, Informed
  <2> QED BY <2>3, <2>4 DEF Survive
<1> QED BY <1>1, NeedsInvariant, PTL DEF Spec, RequirementsSurvivePasses

(* An undisturbed sync commits what it made of the list and the documents  *)
(* as they still are.                                                      *)
LEMMA SyncCommits ==
  ASSUME NeedsInv, [Next]_vars, NEW p \in Passes, Undisturbed(p)
  PROVE  /\ \A n \in Needs : need'[n] = out[p][n]
         /\ CatchesUp(need, out[p], doc) /\ ConsumesOnce(need, out[p])
<1>1. p \in Readers /\ Commit(p) /\ raced[p] = {} /\ job[p].kind = "verify" /\ p \notin outdated
  BY CommitsCommit DEF Undisturbed, Procs
<1>2. saw[p] = need /\ \A n \in Needs : need'[n] = out[p][n]
  BY <1>1, UnracedCommit
<1>3. Synced(p)
  BY <1>1 DEF NeedsInv, Knowing, Knows
<1> QED BY <1>1, <1>2, <1>3 DEF Synced

(* An undisturbed sync leaves no need open beside a completed document no  *)
(* need carries, unless it gave that document's place at an open need to   *)
(* another, however many documents and needs there are.                    *)
THEOREM SyncCatchesUp == Spec => RematchCatchesUp
<1>1. NeedsInv /\ [Next]_vars =>
        [\A p \in Passes, d \in Docs :
           Undisturbed(p) /\ Usable(d) /\ StillOpen(d) # {}
             => d \in Linked(need') \/ Displaced(d)]_vars
  <2> SUFFICES ASSUME NeedsInv, [Next]_vars, NEW p \in Passes, NEW d \in Docs,
                      Undisturbed(p), Usable(d), NEW n \in StillOpen(d)
               PROVE  d \in Linked(need') \/ Displaced(d)
    OBVIOUS
  <2>1. \A m \in Needs : need'[m] = out[p][m]
    BY SyncCommits
  <2>2. CatchesUp(need, out[p], doc)
    BY SyncCommits
  <2>3. /\ n \in Needs /\ need[n].active /\ out[p][n].active
        /\ out[p][n].type \in Fits[doc[d].type] /\ out[p][n].status \in OpenStates
    BY <2>1 DEF StillOpen
  <2>4. CASE d \in Linked(out[p])
    BY <2>1, <2>4 DEF Linked
  <2>5. CASE \E m \in Carriers(need, d) : need[m].status \in OpenStates /\ out[p][m].doc \notin {d, None}
    BY <2>1, <2>5 DEF Displaced, Carriers
  <2> QED BY <2>2, <2>3, <2>4, <2>5 DEF CatchesUp, Usable
<1> QED BY <1>1, NeedsInvariant, PTL DEF Spec, RematchCatchesUp

(* It gives a document to no need while another carries it.                *)
THEOREM SyncConsumesOnce == Spec => RematchConsumesOnce
<1>1. NeedsInv /\ [Next]_vars =>
        [\A p \in Passes, d \in Docs :
           Undisturbed(p) /\ ~(Carriers(need', d) \subseteq Carriers(need, d))
             => Cardinality(Carriers(need', d)) = 1]_vars
  <2> SUFFICES ASSUME NeedsInv, [Next]_vars, NEW p \in Passes, NEW d \in Docs, Undisturbed(p),
                      ~(Carriers(need', d) \subseteq Carriers(need, d))
               PROVE  Cardinality(Carriers(need', d)) = 1
    OBVIOUS
  <2>1. ConsumesOnce(need, out[p])
    BY SyncCommits
  <2>2. Carriers(need', d) = Carriers(out[p], d)
    BY SyncCommits DEF Carriers
  <2>3. PICK n : Carriers(need', d) = {n}
    BY <2>1, <2>2 DEF ConsumesOnce
  <2> QED BY <2>3, FS_Singleton
<1> QED BY <1>1, NeedsInvariant, PTL DEF Spec, RematchConsumesOnce
=============================================================================
