---------------------------- MODULE NeedsEngine ----------------------------
(***************************************************************************)
(* What the needs engine computes: pure operators from a needs list N and  *)
(* the documents D of a loan file to the list a pass would write.          *)
(* NeedsList runs them concurrently.                                       *)
(*                                                                         *)
(* A type stands for all the names equivalent_need_type takes for one.     *)
(* What is asked of whom is a type and a borrower, or none; documents are  *)
(* matched by type alone.                                                  *)
(***************************************************************************)
EXTENDS Naturals, FiniteSets

CONSTANTS
  Needs,           \* rows of needs_items, numbered in order of creation
  Docs,            \* documents, numbered in order of upload
  Types,           \* types of needs and of documents
  Borrowers,       \* whom a need may be asked of
  Fits,            \* the types of the needs a document of a type answers: its
                   \* own, those it is an alternative for, its category's umbrella
  SimplePresence,  \* the types one document is the whole requirement of
  FloorAsks,       \* what the deterministic floor asks for
  None

ASSUME NumberingAssumption == Needs \subseteq Nat /\ Docs \subseteq Nat
ASSUME FiniteDocsAssumption == IsFiniteSet(Docs)
ASSUME NeedTypesAssumption ==
  SimplePresence \subseteq Types /\ FloorAsks \subseteq Types \X (Borrowers \cup {None})
ASSUME FitsAssumption == Fits \in [Types \cup {None} -> SUBSET Types] /\ Fits[None] = {}
ASSUME NoneAssumption == None \notin Needs \cup Docs \cup Types

NeedStatuses == {"PENDING", "RECEIVED", "VERIFIED", "REJECTED", "WAIVED"}
OpenStates   == {"PENDING", "REJECTED"}
Answers      == {"RECEIVED", "VERIFIED"}

NeedRows == [active : BOOLEAN, status : NeedStatuses,
             type : Types \cup {None}, who : Borrowers \cup {None},
             origin : {"NONE", "FLOOR", "AI", "FINDING", "MANUAL"},
             disp : {"PROPOSED", "CONFIRMED", "WAIVED"},
             doc : Docs \cup {None}]
DocRows  == [status : {"ABSENT", "RUNNING", "COMPLETED", "NEEDS_REVIEW"},
             type : Types \cup {None}, active : BOOLEAN, current : BOOLEAN, full : BOOLEAN]

NoNeed == [active |-> FALSE, status |-> "PENDING", type |-> None, who |-> None,
           origin |-> "NONE", disp |-> "PROPOSED", doc |-> None]

NewNeed(ask, origin, disp) ==
  [active |-> TRUE, status |-> "PENDING", type |-> ask[1], who |-> ask[2],
   origin |-> origin, disp |-> disp, doc |-> None]

(* The lowest element of S by `before`.                                    *)
Least(S, Before(_, _)) == CHOOSE x \in S : \A y \in S \ {x} : Before(x, y)

\* Mutant: the status of a need is not looked at.
OpenOrNot(N, D, d) ==
  {n \in Needs : N[n].active /\ N[n].type \in Fits[D[d].type]}

(* The open needs a document answers, whoever they are asked of.           *)
OpenFor(N, D, d) ==
  {n \in Needs : N[n].active /\ N[n].type \in Fits[D[d].type] /\ N[n].status \in OpenStates}

(* The need a document reaches: the oldest open one, an unfilled one       *)
(* before one a bad document already landed on.                            *)
Reached(N, D, d) ==
  LET before(n, m) == \/ N[n].status # "REJECTED" /\ N[m].status = "REJECTED"
                      \/ (N[n].status = "REJECTED" <=> N[m].status = "REJECTED") /\ n < m
  IN IF D[d].type = None \/ OpenFor(N, D, d) = {} THEN None
     ELSE Least(OpenFor(N, D, d), before)

(* A document that did not pass rejects its need; one that did verifies it *)
(* only when one document is the whole requirement.                        *)
Outcome(N, D, n, d) ==
  IF D[d].status # "COMPLETED" THEN "REJECTED"
  ELSE IF N[n].type \in SimplePresence THEN "VERIFIED" ELSE "RECEIVED"

(* apply_document_to_needs: the need a document reaches gets it.           *)
ApplyDocument(N, D, d) ==
  LET n == Reached(N, D, d)
  IN IF n = None THEN N
     ELSE [N EXCEPT ![n].status = Outcome(N, D, n, d), ![n].doc = d]

(* What a list says: the documents its needs carry and the needs that      *)
(* carry one, the types it asks for, and those it no longer does.          *)
Linked(N) == {N[n].doc : n \in {m \in Needs : N[m].active}} \ {None}
Carriers(N, d) == {n \in Needs : N[n].active /\ N[n].doc = d}
Live(row) == row.active /\ row.status # "WAIVED"
Asked(N)  == {N[n].type : n \in {m \in Needs : Live(N[m])}}
Waived(N) == {N[n].type : n \in {m \in Needs : N[m].active /\ N[m].status = "WAIVED"}}

\* Mutant: nothing is replayed (before LP-623).
RematchNothing(N, D) == N

\* Mutant: a document some need carries is offered again.
RematchAgain(N, D) ==
  LET replayed == {d \in Docs : D[d].active /\ D[d].status = "COMPLETED"}
      after[S \in SUBSET replayed] ==
        IF S = {} THEN N
        ELSE LET last == CHOOSE d \in S : \A e \in S : e <= d
             IN ApplyDocument(after[S \ {last}], D, last)
  IN after[replayed]

(* rematch_needs_for_file: the completed documents on file, superseded     *)
(* versions included and oldest first, each unless some need already       *)
(* carries it.                                                             *)
Rematch(N, D) ==
  LET replayed == {d \in Docs : D[d].active /\ D[d].status = "COMPLETED"} \ Linked(N)
      after[S \in SUBSET replayed] ==
        IF S = {} THEN N
        ELSE LET last == CHOOSE d \in S : \A e \in S : e <= d
             IN ApplyDocument(after[S \ {last}], D, last)
  IN after[replayed]

(* The types no active need asks for, whatever its status.                 *)
Unasked(N, types) == types \ {N[n].type : n \in {m \in Needs : N[m].active}}

(* What the floor asks for and no active need does: of a borrower, if it   *)
(* asks it of each, or of anybody.                                         *)
FloorLacks(N) ==
  {ask \in FloorAsks :
     \A n \in Needs : N[n].active /\ N[n].type = ask[1] => ask[2] \notin {None, N[n].who}}

(* seed_floor_needs, seed_needs_from_findings and apply_ai_needs create    *)
(* needs; at[n] is what the new row n asks for.                            *)
Seed(N, at, origin, disp) ==
  [n \in Needs |-> IF n \in DOMAIN at THEN NewNeed(at[n], origin, disp) ELSE N[n]]

Rank(status) ==
  CASE status = "VERIFIED" -> 5 [] status = "RECEIVED" -> 4
    [] status = "REJECTED" -> 3 [] OTHER -> 1

Waive(row) == [row EXCEPT !.status = "WAIVED", !.disp = "WAIVED"]

Ahead(N, n, m) == \/ Rank(N[n].status) > Rank(N[m].status)
                  \/ Rank(N[n].status) = Rank(N[m].status) /\ n < m
Group(N, n)    == {m \in Needs : Live(N[m]) /\ N[m].type = N[n].type /\ N[m].who = N[n].who}
Keeper(N, n)   == LET before(m, o) == Ahead(N, m, o) IN Least(Group(N, n), before)

\* Mutants: any duplicate is merged away; the furthest along is too.
RepairAnyOrigin(N, alias) ==
  [n \in Needs |-> IF Live(N[n]) /\ n # Keeper(N, n) THEN Waive(N[n]) ELSE N[n]]
RepairWholeGroup(N, alias) ==
  [n \in Needs |-> IF Live(N[n]) /\ N[n].origin = "FLOOR" /\ Group(N, n) # {n}
                     THEN Waive(N[n]) ELSE N[n]]

(* repair_needs_for_file: of the live needs that ask for one type of one   *)
(* borrower the furthest along is kept, the oldest if they tie.  Waived    *)
(* are those the floor minted, and those stored under an alias no document *)
(* has for a name, if the one kept has such a name or takes it from        *)
(* another (a manual one does not).                                        *)
Repair(N, alias) ==
  LET named(n) == LET k == Keeper(N, n) IN
                  IF N[k].origin = "MANUAL" THEN k \notin alias ELSE ~(Group(N, n) \subseteq alias)
      mergeable(n) == \/ N[n].origin = "FLOOR"
                      \/ N[n].origin # "MANUAL" /\ n \in alias /\ named(n)
  IN [n \in Needs |->
        IF Live(N[n]) /\ n # Keeper(N, n) /\ mergeable(n) THEN Waive(N[n]) ELSE N[n]]

(* Only a proposal nobody has acted on and no document has reached may be  *)
(* merged away.                                                            *)
MergeCandidate(row) == row.active /\ row.disp = "PROPOSED" /\ row.status = "PENDING"

(* consolidate_needs: of needs that read the same, the proposals that do   *)
(* not survive are soft-deleted.  Something of their type survives; which  *)
(* of several proposals does is up to the facts they cite.                 *)
Redundant(N, losers) ==
  \A n \in losers : /\ MergeCandidate(N[n])
                     /\ \E m \in Needs \ losers : N[m].active /\ N[m].type = N[n].type

Consolidate(N, losers) ==
  [n \in Needs |-> IF n \in losers THEN [N[n] EXCEPT !.active = FALSE] ELSE N[n]]

(* reopen_needs_satisfied_by: a direct write, whatever the status was.     *)
ReopenSatisfiedBy(N, d) ==
  [n \in Needs |-> IF N[n].active /\ N[n].doc = d
                     THEN [N[n] EXCEPT !.status = "PENDING", !.doc = None] ELSE N[n]]
============================================================================
