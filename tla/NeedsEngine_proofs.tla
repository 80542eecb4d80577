------------------------- MODULE NeedsEngine_proofs -------------------------
(***************************************************************************)
(* The needs engine, for any needs, types and documents: what matching,    *)
(* replaying, seeding, repairing and consolidating do to every row of a    *)
(* list, and what they leave asked for and carried.                        *)
(*                                                                         *)
(* NeedsEngine defines the replay of rematch_unlinked_documents as a       *)
(* recursive function on sets of documents.  What it gives for every set   *)
(* is proved without an induction theorem: the set of numbers below which  *)
(* the claim fails has no least member (RematchInduction).                 *)
(***************************************************************************)
EXTENDS NeedsEngine, TLAPS, FiniteSetTheorems, WellFoundedInduction

NeedLists == [Needs -> NeedRows]

-----------------------------------------------------------------------------
(* Numbered documents.                                                     *)

LEMMA LeastNumber ==
  ASSUME NEW S, S \subseteq Nat, S # {}
  PROVE  \E x \in S : \A y \in S : x <= y
<1>1. PICK x \in S : \A y \in S : <<y, x>> \notin OpToRel(<, Nat)
  BY NatLessThanWellFounded, WFMin
<1>2. \A y \in S : ~(y < x)
  BY <1>1 DEF OpToRel
<1> QED BY <1>2

(* There are finitely many documents, so some number is beyond them all.   *)
LEMMA DocumentsBounded ==
  ASSUME NEW S, S \subseteq Docs
  PROVE  \E k \in Nat : \A d \in S : d < k
<1>1. IsFiniteSet(S) /\ S \subseteq Nat
  BY FS_Subset, FiniteDocsAssumption, NumberingAssumption
<1>2. PICK n \in Nat : ExistsSurjection(1..n, S)
  BY <1>1, FS_NatSurjection
<1>3. PICK f \in [1..n -> S] : \A d \in S : \E i \in 1..n : f[i] = d
  BY <1>2 DEF ExistsSurjection, Surjection
<1> DEFINE Within(m) == \E k \in Nat : \A i \in 1..n : i <= m => f[i] < k
           Beyond == {m \in Nat : ~Within(m)}
<1>4. Within(0)
  OBVIOUS
<1>5. ASSUME NEW m \in Nat, Within(m)
      PROVE  Within(m + 1)
  <2>1. PICK k \in Nat : \A i \in 1..n : i <= m => f[i] < k
    BY <1>5
  <2>2. CASE m + 1 \in 1..n
    <3>1. f[m + 1] \in Nat
      BY <1>1, <2>2
    <3>2. PICK l \in Nat : k <= l /\ f[m + 1] < l
      <4>1. k + f[m + 1] + 1 \in Nat
        BY <3>1
      <4> QED BY <3>1, <4>1
    <3>3. ASSUME NEW i \in 1..n, i <= m + 1
          PROVE  f[i] < l
      <4>1. f[i] \in Nat
        BY <1>1
      <4> QED BY <2>1, <3>2, <3>3, <4>1
    <3> QED BY <3>3
  <2>3. CASE m + 1 \notin 1..n
    BY <2>1, <2>3
  <2> QED BY <2>2, <2>3
<1> HIDE DEF Within
<1>6. Beyond = {}
  <2>1. SUFFICES ASSUME Beyond # {} PROVE FALSE
    OBVIOUS
  <2>2. PICK m \in Beyond : \A l \in Beyond : m <= l
    BY <2>1, LeastNumber
  <2>3. m \in Nat /\ m # 0 /\ ~Within(m)
    BY <1>4, <2>2
  <2>4. m - 1 \in Nat /\ ~(m <= m - 1)
    BY <2>3
  <2>5. Within(m - 1)
    BY <2>2, <2>4
  <2>6. Within((m - 1) + 1) /\ (m - 1) + 1 = m
    BY <1>5, <2>3, <2>4, <2>5
  <2> QED BY <2>3, <2>6
<1>7. Within(n)
  BY <1>6
<1>8. PICK k \in Nat : \A i \in 1..n : i <= n => f[i] < k
  BY <1>7 DEF Within
<1> QED BY <1>3, <1>8

-----------------------------------------------------------------------------
(* The replay, document by document.                                       *)

Replayed(N, D) == {d \in Docs : D[d].active /\ D[d].status = "COMPLETED"} \ Linked(N)
Newest(S)      == CHOOSE d \in S : \A e \in S : e <= d
Replays(N, D, g, T) ==
  g = [S \in SUBSET T |-> IF S = {} THEN N ELSE ApplyDocument(g[S \ {Newest(S)}], D, Newest(S))]

LEMMA RematchIsReplay ==
  ASSUME NEW N, NEW D
  PROVE  Rematch(N, D) = (CHOOSE g : Replays(N, D, g, Replayed(N, D)))[Replayed(N, D)]
BY DEF Rematch, Replays, Replayed, Newest

LEMMA NewestIs ==
  ASSUME NEW S, S \subseteq Nat, NEW k \in S, \A e \in S : e <= k
  PROVE  Newest(S) = k
<1>1. Newest(S) \in S /\ \A e \in S : e <= Newest(S)
  BY DEF Newest
<1>2. Newest(S) \in Nat /\ k \in Nat /\ k <= Newest(S) /\ Newest(S) <= k
  BY <1>1
<1> QED BY <1>2

(* The recurrence has a solution over the documents below any number.      *)
LEMMA ReplaysExist ==
  ASSUME NEW N, NEW D, NEW R, R \subseteq Docs
  PROVE  \E g : Replays(N, D, g, R)
<1> DEFINE Below(k) == {d \in R : d < k}
           Solved(k) == \E g : Replays(N, D, g, Below(k))
           Unsolved  == {k \in Nat : ~Solved(k)}
<1>1. Solved(0)
  <2>1. \A d \in R : d \in Nat /\ ~(d < 0)
    BY NumberingAssumption
  <2>2. Below(0) = {}
    BY <2>1
  <2>3. Replays(N, D, [S \in SUBSET {} |-> N], {})
    BY DEF Replays
  <2> QED BY <2>2, <2>3
<1>2. ASSUME NEW k \in Nat, Solved(k)
      PROVE  Solved(k + 1)
  <2>1. PICK g : Replays(N, D, g, Below(k))
    BY <1>2
  <2> DEFINE h == [S \in SUBSET Below(k + 1) |->
                     IF k \in S THEN ApplyDocument(g[S \ {k}], D, k) ELSE g[S]]
  <2>2. ASSUME NEW S \in SUBSET Below(k + 1)
        PROVE  h[S] = IF S = {} THEN N ELSE ApplyDocument(h[S \ {Newest(S)}], D, Newest(S))
    <3>1. S \subseteq Nat /\ \A e \in S : e <= k
      BY NumberingAssumption
    <3>2. CASE k \in S
      <4>1. Newest(S) = k
        BY <3>1, <3>2, NewestIs
      <4>2. S \ {k} \in SUBSET Below(k + 1) /\ k \notin S \ {k}
        OBVIOUS
      <4>3. h[S \ {k}] = g[S \ {k}]
        BY <4>2
      <4> QED BY <3>2, <4>1, <4>3
    <3>3. CASE k \notin S
      <4>1. S \in SUBSET Below(k)
        BY <3>1, <3>3
      <4>2. h[S] = g[S]
        BY <3>3
      <4>3. h[S \ {Newest(S)}] = g[S \ {Newest(S)}]
        BY <3>3
      <4>4. g[S] = IF S = {} THEN N ELSE ApplyDocument(g[S \ {Newest(S)}], D, Newest(S))
        BY <2>1, <4>1 DEF Replays
      <4> QED BY <4>2, <4>3, <4>4
    <3> QED BY <3>2, <3>3
  <2>3. Replays(N, D, h, Below(k + 1))
    <3> DEFINE s == [S \in SUBSET Below(k + 1) |->
                      IF S = {} THEN N ELSE ApplyDocument(h[S \ {Newest(S)}], D, Newest(S))]
    <3> SUFFICES h = s
      BY DEF Replays
    <3>1. \A S \in SUBSET Below(k + 1) : h[S] = s[S]
      <4> HIDE DEF h, Below
      <4> QED BY <2>2
    <3> QED BY <3>1
  <2> QED BY <2>3
<1>3. Unsolved = {}
  <2> HIDE DEF Solved
  <2>1. SUFFICES ASSUME Unsolved # {} PROVE FALSE
    OBVIOUS
  <2>2. PICK k \in Unsolved : \A l \in Unsolved : k <= l
    BY <2>1, LeastNumber
  <2>3. k \in Nat /\ k # 0 /\ ~Solved(k)
    BY <1>1, <2>2
  <2>4. k - 1 \in Nat /\ ~(k <= k - 1)
    BY <2>3
  <2>5. Solved(k - 1)
    BY <2>2, <2>4
  <2>6. Solved((k - 1) + 1) /\ (k - 1) + 1 = k
    BY <1>2, <2>3, <2>4, <2>5
  <2> QED BY <2>3, <2>6
<1>4. PICK k \in Nat : \A d \in R : d < k
  BY DocumentsBounded
<1>5. Below(k) = R
  BY <1>4
<1>6. Solved(k)
  BY <1>3
<1> QED BY <1>5, <1>6

(* What holds of the list before the replay, and is kept by every document *)
(* newer than those replayed before it, holds of what Rematch returns.  X  *)
(* is the set of pairs of which it holds: the documents replayed so far    *)
(* and the list they give.                                                 *)
LEMMA RematchInduction ==
  ASSUME NEW N, NEW D, NEW X, <<{}, N>> \in X,
         ASSUME NEW S \in SUBSET Replayed(N, D), NEW M, <<S, M>> \in X,
                NEW d \in Replayed(N, D) \ S
         PROVE  <<S \cup {d}, ApplyDocument(M, D, d)>> \in X
  PROVE  <<Replayed(N, D), Rematch(N, D)>> \in X
<1> DEFINE R == Replayed(N, D)
           g == CHOOSE g : Replays(N, D, g, R)
           Below(k) == {d \in R : d < k}
           Kept(k)  == \A S \in SUBSET Below(k) : <<S, g[S]>> \in X
           Unkept   == {k \in Nat : ~Kept(k)}
<1>1. R \subseteq Docs /\ R \subseteq Nat
  BY NumberingAssumption DEF Replayed
<1>2. Replays(N, D, g, R)
  BY <1>1, ReplaysExist
<1> HIDE DEF g
<1>3. ASSUME NEW S \in SUBSET R
      PROVE  g[S] = IF S = {} THEN N ELSE ApplyDocument(g[S \ {Newest(S)}], D, Newest(S))
  BY <1>2 DEF Replays
<1> HIDE DEF R
<1>4. Kept(0)
  <2>1. \A d \in R : d \in Nat /\ ~(d < 0)
    BY <1>1
  <2>2. Below(0) = {}
    BY <2>1
  <2> QED BY <1>3, <2>2
<1>5. ASSUME NEW k \in Nat, Kept(k), NEW S \in SUBSET Below(k + 1)
      PROVE  <<S, g[S]>> \in X
  <2>1. S \subseteq Nat /\ \A e \in S : e <= k
    BY <1>1
  <2>2. CASE k \in S
    <3>1. Newest(S) = k
      BY <2>1, <2>2, NewestIs
    <3>2. g[S] = ApplyDocument(g[S \ {k}], D, k)
      BY <1>3, <2>2, <3>1
    <3>3. S \ {k} \in SUBSET Below(k) /\ S \ {k} \in SUBSET R /\ k \in R \ (S \ {k})
      BY <2>1, <2>2
    <3>4. <<S \ {k}, g[S \ {k}]>> \in X
      BY <1>5, <3>3
    <3>5. <<(S \ {k}) \cup {k}, ApplyDocument(g[S \ {k}], D, k)>> \in X
      BY <3>3, <3>4 DEF R
    <3>6. (S \ {k}) \cup {k} = S
      BY <2>2
    <3> QED BY <3>2, <3>5, <3>6
  <2>3. CASE k \notin S
    <3>1. S \in SUBSET Below(k)
      BY <2>1, <2>3
    <3> QED BY <1>5, <3>1
  <2> QED BY <2>2, <2>3
<1>6. Unkept = {}
  <2>1. SUFFICES ASSUME Unkept # {} PROVE FALSE
    OBVIOUS
  <2>2. PICK k \in Unkept : \A l \in Unkept : k <= l
    <3> HIDE DEF Kept
    <3> QED BY <2>1, LeastNumber
  <2>3. k \in Nat /\ k # 0 /\ ~Kept(k)
    BY <1>4, <2>2
  <2> HIDE DEF Kept
  <2>4. k - 1 \in Nat /\ ~(k <= k - 1) /\ (k - 1) + 1 = k
    BY <2>3
  <2>5. Kept(k - 1)
    BY <2>2, <2>4
  <2>6. Kept(k)
    BY <1>5, <2>4, <2>5 DEF Kept
  <2> QED BY <2>3, <2>6
<1>7. PICK k \in Nat : \A d \in R : d < k
  BY <1>1, DocumentsBounded
<1>8. Below(k) = R /\ Kept(k)
  BY <1>6, <1>7
<1>9. <<R, g[R]>> \in X
  BY <1>8
<1> QED BY <1>9, RematchIsReplay DEF R, g

-----------------------------------------------------------------------------
(* One document.                                                           *)

Sooner(N, n, m) == \/ N[n].status # "REJECTED" /\ N[m].status = "REJECTED"
                   \/ (N[n].status = "REJECTED" <=> N[m].status = "REJECTED") /\ n < m
First(N, S)     == CHOOSE n \in S : \A m \in S \ {n} : Sooner(N, n, m)

LEMMA FirstIsOpen ==
  ASSUME NEW N, NEW S, S \subseteq Needs, S # {}
  PROVE  First(N, S) \in S
<1> DEFINE unfilled == {n \in S : N[n].status # "REJECTED"}
<1>1. S \subseteq Nat
  BY NumberingAssumption
<1>2. CASE unfilled # {}
  <2>1. PICK n \in unfilled : \A m \in unfilled : n <= m
    BY <1>1, <1>2, LeastNumber
  <2>2. ASSUME NEW m \in S \ {n}
        PROVE  Sooner(N, n, m)
    <3>1. CASE N[m].status = "REJECTED"
      BY <2>1, <3>1 DEF Sooner
    <3>2. CASE N[m].status # "REJECTED"
      <4>1. n <= m /\ n \in Nat /\ m \in Nat /\ n # m
        BY <1>1, <2>1, <3>2
      <4>2. n < m
        BY <4>1
      <4> QED BY <2>1, <3>2, <4>2 DEF Sooner
    <3> QED BY <3>1, <3>2
  <2> QED BY <2>1, <2>2 DEF First
<1>3. CASE unfilled = {}
  <2>1. PICK n \in S : \A m \in S : n <= m
    BY <1>1, LeastNumber
  <2>2. \A m \in S \ {n} : Sooner(N, n, m)
    BY <1>1, <1>3, <2>1 DEF Sooner
  <2> QED BY <2>1, <2>2 DEF First
<1> QED BY <1>2, <1>3

LEMMA ReachedIs ==
  ASSUME NEW N, NEW D, NEW d
  PROVE  /\ D[d].type = None \/ OpenFor(N, D, d) = {} => Reached(N, D, d) = None
         /\ D[d].type # None /\ OpenFor(N, D, d) # {} => Reached(N, D, d) \in OpenFor(N, D, d)
<1>1. Reached(N, D, d) = IF D[d].type = None \/ OpenFor(N, D, d) = {} THEN None
                         ELSE First(N, OpenFor(N, D, d))
  BY DEF Reached, First, Sooner, Least
<1>2. OpenFor(N, D, d) \subseteq Needs
  BY DEF OpenFor
<1> QED BY <1>1, <1>2, FirstIsOpen

(* Fill(a, s, d) is row a once a document has landed on it.                *)
Fill(a, s, d) == [a EXCEPT !.status = s, !.doc = d]

LEMMA FillFields ==
  ASSUME NEW a \in NeedRows, NEW s \in NeedStatuses, NEW d \in Docs
  PROVE  /\ Fill(a, s, d) \in NeedRows
         /\ Fill(a, s, d).status = s /\ Fill(a, s, d).doc = d
         /\ Fill(a, s, d).active = a.active /\ Fill(a, s, d).type = a.type
         /\ Fill(a, s, d).origin = a.origin /\ Fill(a, s, d).disp = a.disp
BY DEF Fill, NeedRows

LEMMA OutcomeType ==
  ASSUME NEW N, NEW D, NEW n, NEW d
  PROVE  /\ Outcome(N, D, n, d) \in {"REJECTED", "VERIFIED", "RECEIVED"}
         /\ D[d].status = "COMPLETED" => Outcome(N, D, n, d) \in Answers
         /\ D[d].status # "COMPLETED" => Outcome(N, D, n, d) = "REJECTED"
BY DEF Outcome, Answers

(* A document is given to one open need it answers, or to none if there is *)
(* no such need.                                                           *)
LEMMA ApplyStep ==
  ASSUME NEW N \in NeedLists, NEW D, NEW d \in Docs
  PROVE  /\ ApplyDocument(N, D, d) \in NeedLists
         /\ \/ /\ ApplyDocument(N, D, d) = N /\ Reached(N, D, d) = None
               /\ D[d].type = None \/ OpenFor(N, D, d) = {}
            \/ /\ D[d].type # None
               /\ \E n \in OpenFor(N, D, d) :
                    /\ Reached(N, D, d) = n
                    /\ ApplyDocument(N, D, d)[n] = Fill(N[n], Outcome(N, D, n, d), d)
                    /\ \A m \in Needs \ {n} : ApplyDocument(N, D, d)[m] = N[m]
<1>1. CASE D[d].type = None \/ OpenFor(N, D, d) = {}
  BY <1>1, ReachedIs DEF ApplyDocument
<1>2. CASE D[d].type # None /\ OpenFor(N, D, d) # {}
  <2> DEFINE n == Reached(N, D, d)
             M == ApplyDocument(N, D, d)
  <2>1. n \in OpenFor(N, D, d) /\ n \in Needs /\ n # None
    BY <1>2, ReachedIs, NoneAssumption DEF OpenFor
  <2>2. M = [N EXCEPT ![n].status = Outcome(N, D, n, d), ![n].doc = d]
    BY <2>1 DEF ApplyDocument
  <2> HIDE DEF n, M
  <2>3. M[n] = Fill(N[n], Outcome(N, D, n, d), d) /\ \A m \in Needs \ {n} : M[m] = N[m]
    BY <2>1, <2>2 DEF NeedLists, Fill
  <2>4. M[n] \in NeedRows
    <3>1. N[n] \in NeedRows
      BY <2>1 DEF NeedLists
    <3>2. Outcome(N, D, n, d) \in NeedStatuses
      BY OutcomeType DEF NeedStatuses
    <3> QED BY <2>3, <3>1, <3>2, FillFields
  <2>5. M \in NeedLists
    BY <2>1, <2>2, <2>3, <2>4 DEF NeedLists
  <2> QED BY <1>2, <2>1, <2>3, <2>5 DEF n, M
<1> QED BY <1>1, <1>2

-----------------------------------------------------------------------------
(* What the replay does to the list.                                       *)

(* M is what list N became by replaying the documents S: open needs got    *)
(* one each, no two the same, and a document that reached no need found    *)
(* none open.                                                              *)
Answered(N, D, S, n, b) ==
  /\ N[n].active /\ N[n].status \in OpenStates
  /\ \E d \in S, s \in Answers : b = Fill(N[n], s, d)

AfterReplay(N, D, S, M) ==
  /\ M \in NeedLists
  /\ \A n \in Needs : M[n] = N[n] \/ Answered(N, D, S, n, M[n])
  /\ \A n, m \in Needs : M[n] # N[n] /\ M[m] # N[m] /\ M[n].doc = M[m].doc => n = m
  /\ \A d \in S : \/ \E n \in Needs : M[n] # N[n] /\ M[n].doc = d
                  \/ D[d].type = None \/ OpenFor(M, D, d) = {}

LEMMA AnsweredFields ==
  ASSUME NEW N \in NeedLists, NEW D, NEW S, S \subseteq Docs, NEW n \in Needs, NEW b,
         Answered(N, D, S, n, b)
  PROVE  /\ b \in NeedRows /\ b # N[n]
         /\ b.status \in Answers /\ b.status \notin OpenStates /\ b.doc \in S
         /\ b.active /\ b.type = N[n].type /\ b.origin = N[n].origin /\ b.disp = N[n].disp
<1>1. PICK d \in S, s \in Answers : b = Fill(N[n], s, d)
  BY DEF Answered
<1>2. N[n] \in NeedRows /\ s \in NeedStatuses /\ d \in Docs
  BY DEF NeedLists, NeedStatuses, Answers
<1>3. /\ b \in NeedRows /\ b.status = s /\ b.doc = d
      /\ b.active = N[n].active /\ b.type = N[n].type /\ b.origin = N[n].origin /\ b.disp = N[n].disp
  BY <1>1, <1>2, FillFields
<1>4. N[n].active /\ N[n].status \in OpenStates /\ s \notin OpenStates
  BY DEF Answered, Answers, OpenStates
<1> QED BY <1>3, <1>4

LEMMA ReplayStep ==
  ASSUME NEW N \in NeedLists, NEW D, NEW S \in SUBSET Replayed(N, D), NEW M,
         AfterReplay(N, D, S, M), NEW d \in Replayed(N, D) \ S
  PROVE  AfterReplay(N, D, S \cup {d}, ApplyDocument(M, D, d))
<1> DEFINE A == ApplyDocument(M, D, d)
           T == S \cup {d}
<1>1. d \in Docs /\ S \subseteq Docs /\ T \subseteq Docs /\ M \in NeedLists
      /\ \A n : Outcome(M, D, n, d) \in Answers
  BY OutcomeType DEF Replayed, AfterReplay
<1>2. ASSUME NEW n \in Needs, Answered(N, D, S, n, M[n])
      PROVE  Answered(N, D, T, n, M[n])
  BY <1>2 DEF Answered
<1>3. CASE A = M /\ (D[d].type = None \/ OpenFor(M, D, d) = {})
  BY <1>2, <1>3 DEF AfterReplay
<1>4. ASSUME NEW n \in OpenFor(M, D, d), A \in NeedLists, A[n] = Fill(M[n], Outcome(M, D, n, d), d),
             \A m \in Needs \ {n} : A[m] = M[m]
      PROVE  AfterReplay(N, D, T, A)
  <2>1. n \in Needs /\ M[n].active /\ M[n].status \in OpenStates
    BY DEF OpenFor
  <2>2. M[n] = N[n]
    BY <1>1, <2>1, AnsweredFields DEF AfterReplay
  <2>3. Answered(N, D, T, n, A[n])
    BY <1>1, <1>4, <2>1, <2>2 DEF Answered
  <2>4. A[n] # N[n] /\ A[n].status \notin OpenStates
    BY <1>1, <2>1, <2>3, AnsweredFields
  <2>5. A[n].doc = d
    <3>1. M[n] \in NeedRows /\ Outcome(M, D, n, d) \in NeedStatuses
      BY <1>1, <2>1 DEF NeedLists, Answers, NeedStatuses
    <3> QED BY <1>1, <1>4, <3>1, FillFields
  <2>6. \A m \in Needs \ {n} : A[m] # N[m] => A[m] = M[m] /\ A[m].doc \in S
    BY <1>1, <1>4, AnsweredFields DEF AfterReplay
  <2>7. \A m \in Needs : A[m] = N[m] \/ Answered(N, D, T, m, A[m])
    BY <1>2, <1>4, <2>3 DEF AfterReplay
  <2>8. \A m, o \in Needs : A[m] # N[m] /\ A[o] # N[o] /\ A[m].doc = A[o].doc => m = o
    BY <1>4, <2>5, <2>6 DEF AfterReplay
  <2>9. ASSUME NEW e \in S
        PROVE  \/ \E m \in Needs : A[m] # N[m] /\ A[m].doc = e
               \/ D[e].type = None \/ OpenFor(A, D, e) = {}
    <3>1. CASE \E m \in Needs : M[m] # N[m] /\ M[m].doc = e
      BY <1>4, <2>2, <3>1
    <3>2. CASE OpenFor(M, D, e) = {}
      BY <1>4, <2>1, <2>4, <3>2 DEF OpenFor
    <3> QED BY <3>1, <3>2 DEF AfterReplay
  <2>10. A[n] # N[n] /\ A[n].doc = d
    BY <2>4, <2>5
  <2> HIDE DEF A
  <2> QED BY <1>4, <2>1, <2>7, <2>8, <2>9, <2>10 DEF AfterReplay
<1>5. /\ A \in NeedLists
      /\ \/ A = M /\ (D[d].type = None \/ OpenFor(M, D, d) = {})
         \/ \E n \in OpenFor(M, D, d) : /\ A[n] = Fill(M[n], Outcome(M, D, n, d), d)
                                        /\ \A m \in Needs \ {n} : A[m] = M[m]
  <2>1. M \in NeedLists /\ d \in Docs
    BY <1>1
  <2> QED BY <2>1, ApplyStep
<1> HIDE DEF A
<1> QED BY <1>3, <1>4, <1>5 DEF A

(* However many documents are replayed, each answers one need at most, and *)
(* none that could answer one is left over.                                *)
THEOREM RematchReplays ==
  ASSUME NEW N \in NeedLists, NEW D
  PROVE  AfterReplay(N, D, Replayed(N, D), Rematch(N, D))
<1> DEFINE X == {x \in (SUBSET Docs) \X NeedLists : AfterReplay(N, D, x[1], x[2])}
<1>1. <<{}, N>> \in X
  BY DEF AfterReplay
<1>2. ASSUME NEW S \in SUBSET Replayed(N, D), NEW M, <<S, M>> \in X,
             NEW d \in Replayed(N, D) \ S
      PROVE  <<S \cup {d}, ApplyDocument(M, D, d)>> \in X
  <2>1. AfterReplay(N, D, S, M)
    BY <1>2
  <2>2. AfterReplay(N, D, S \cup {d}, ApplyDocument(M, D, d))
    BY <2>1, ReplayStep
  <2>3. S \cup {d} \in SUBSET Docs /\ ApplyDocument(M, D, d) \in NeedLists
    BY <2>2 DEF AfterReplay, Replayed
  <2> QED BY <2>2, <2>3
<1> HIDE DEF X
<1>3. <<Replayed(N, D), Rematch(N, D)>> \in X
  BY <1>1, <1>2, RematchInduction
<1> QED BY <1>3 DEF X

-----------------------------------------------------------------------------
(* Seeding, repairing and consolidating.                                   *)

(* What may be asked for; and which row of a list is to ask for what.      *)
Asks == Types \X (Borrowers \cup {None})
Seeds(at) == \A n \in DOMAIN at : at[n] \in Asks

(* A row is what it was, or a fresh need of what it is to ask for.         *)
LEMMA SeedRow ==
  ASSUME NEW N, NEW at, NEW origin, NEW disp, NEW n \in Needs
  PROVE  \/ Seed(N, at, origin, disp)[n] = N[n]
         \/ n \in DOMAIN at /\ Seed(N, at, origin, disp)[n] = NewNeed(at[n], origin, disp)
BY DEF Seed

LEMMA SeedType ==
  ASSUME NEW N \in NeedLists, NEW at, Seeds(at),
         NEW origin \in {"FLOOR", "AI", "FINDING"}, NEW disp \in {"PROPOSED", "CONFIRMED"}
  PROVE  Seed(N, at, origin, disp) \in NeedLists
<1> DEFINE P == Seed(N, at, origin, disp)
<1>1. \A ask \in Asks : NewNeed(ask, origin, disp) \in NeedRows
  BY DEF NewNeed, NeedRows, NeedStatuses, Asks
<1>2. \A n \in Needs : P[n] \in NeedRows
  BY <1>1, SeedRow DEF NeedLists, Seeds
<1>3. P = [n \in Needs |-> P[n]]
  BY DEF Seed
<1> QED BY <1>2, <1>3 DEF NeedLists

LEMMA KeeperStands ==
  ASSUME NEW N, NEW n \in Needs, Live(N[n])
  PROVE  /\ Keeper(N, n) \in Needs /\ Live(N[Keeper(N, n)]) /\ N[Keeper(N, n)].type = N[n].type
         /\ Keeper(N, Keeper(N, n)) = Keeper(N, n)
<1> DEFINE G == Group(N, n)
           Ranked(r) == {m \in G : Rank(N[m].status) = r}
<1>1. n \in G /\ G \subseteq Nat
  BY NumberingAssumption DEF Group
<1>2. \A m \in G : Rank(N[m].status) \in {1, 3, 4, 5}
  BY DEF Rank
<1>3. PICK r \in {1, 3, 4, 5} : Ranked(r) # {} /\ \A m \in G : Rank(N[m].status) <= r
  <2> HIDE DEF G
  <2>1. CASE Ranked(5) # {}
    BY <1>2, <2>1
  <2>2. CASE Ranked(5) = {} /\ Ranked(4) # {}
    BY <1>2, <2>2
  <2>3. CASE Ranked(5) = {} /\ Ranked(4) = {} /\ Ranked(3) # {}
    BY <1>2, <2>3
  <2>4. CASE Ranked(5) = {} /\ Ranked(4) = {} /\ Ranked(3) = {}
    BY <1>1, <1>2, <2>4
  <2> QED BY <2>1, <2>2, <2>3, <2>4
<1>4. PICK k \in Ranked(r) : \A m \in Ranked(r) : k <= m
  <2>1. Ranked(r) \subseteq Nat
    BY <1>1
  <2> QED BY <1>3, <2>1, LeastNumber
<1>5. \A m \in G \ {k} : Ahead(N, k, m)
  BY <1>1, <1>2, <1>3, <1>4 DEF Ahead
<1>6. Keeper(N, n) = CHOOSE m \in G : \A o \in G \ {m} : Ahead(N, m, o)
  BY DEF Keeper, Least
<1>7. Keeper(N, n) \in G
  <2> HIDE DEF G
  <2> QED BY <1>4, <1>5, <1>6
<1>8. Group(N, Keeper(N, n)) = G
  BY <1>7 DEF Group
<1>9. Keeper(N, Keeper(N, n)) = CHOOSE m \in G : \A o \in G \ {m} : Ahead(N, m, o)
  BY <1>8 DEF Keeper, Least
<1> QED BY <1>6, <1>7, <1>9 DEF Group

LEMMA WaiveFields ==
  ASSUME NEW a \in NeedRows
  PROVE  /\ Waive(a) \in NeedRows /\ Waive(a).status = "WAIVED" /\ Waive(a).disp = "WAIVED"
         /\ Waive(a).active = a.active /\ Waive(a).type = a.type
         /\ Waive(a).origin = a.origin /\ Waive(a).doc = a.doc
BY DEF Waive, NeedRows, NeedStatuses

(* Repair waives needs no processor asked for by hand, and of every live   *)
(* need leaves one live of its type.                                       *)
LEMMA RepairStep ==
  ASSUME NEW N \in NeedLists, NEW alias
  PROVE  /\ Repair(N, alias) \in NeedLists
         /\ \A n \in Needs :
              \/ Repair(N, alias)[n] = N[n]
              \/ Live(N[n]) /\ N[n].origin # "MANUAL" /\ Repair(N, alias)[n] = Waive(N[n])
         /\ \A n \in Needs : Live(N[n]) =>
              \E k \in Needs : Live(N[k]) /\ N[k].type = N[n].type /\ Repair(N, alias)[k] = N[k]
<1> DEFINE P == Repair(N, alias)
<1>1. ASSUME NEW n \in Needs
      PROVE  /\ P[n] = N[n] \/ (Live(N[n]) /\ N[n].origin # "MANUAL" /\ P[n] = Waive(N[n]))
             /\ n = Keeper(N, n) => P[n] = N[n]
  BY DEF Repair
<1>2. P = [n \in Needs |-> P[n]]
  BY DEF Repair
<1> HIDE DEF P
<1>3. \A n \in Needs : P[n] \in NeedRows
  BY <1>1, WaiveFields DEF NeedLists
<1>4. P \in NeedLists
  BY <1>2, <1>3 DEF NeedLists
<1>5. ASSUME NEW n \in Needs, Live(N[n])
      PROVE  \E k \in Needs : Live(N[k]) /\ N[k].type = N[n].type /\ P[k] = N[k]
  BY <1>1, <1>5, KeeperStands
<1> QED BY <1>1, <1>4, <1>5 DEF P

(* Consolidating removes the proposals that do not survive.                *)
LEMMA ConsolidateRow ==
  ASSUME NEW N, NEW losers, NEW n \in Needs
  PROVE  Consolidate(N, losers)[n] = IF n \in losers THEN [N[n] EXCEPT !.active = FALSE] ELSE N[n]
BY DEF Consolidate

LEMMA ConsolidateType ==
  ASSUME NEW N \in NeedLists, NEW losers
  PROVE  Consolidate(N, losers) \in NeedLists
<1> DEFINE P == Consolidate(N, losers)
<1>1. \A a \in NeedRows : [a EXCEPT !.active = FALSE] \in NeedRows
  BY DEF NeedRows
<1>2. ASSUME NEW n \in Needs
      PROVE  P[n] \in NeedRows
  <2>1. N[n] \in NeedRows
    BY DEF NeedLists
  <2>2. P[n] = N[n] \/ P[n] = [N[n] EXCEPT !.active = FALSE]
    BY DEF Consolidate
  <2> HIDE DEF P
  <2> QED BY <1>1, <2>1, <2>2
<1>3. P = [n \in Needs |-> P[n]]
  BY DEF Consolidate
<1> QED BY <1>2, <1>3 DEF NeedLists

-----------------------------------------------------------------------------
(* What a pass may do with the rows it read.                               *)

(* A row that is in use has a type and an origin, and what a processor     *)
(* asked for by hand is no proposal.                                       *)
WellFormed(N) == \A n \in Needs :
  /\ N[n].origin = "NONE" => N[n] = NoNeed
  /\ N[n].origin # "NONE" => N[n].type # None
  /\ N[n].origin = "MANUAL" => N[n].disp # "PROPOSED"

(* Of a row in use nobody changes the origin, makes a proposal again or    *)
(* brings it back once it is deleted.                                      *)
Kept(a, b) ==
  a.origin # "NONE" => /\ b.origin = a.origin /\ b.type # None
                       /\ b.disp \in {a.disp, "CONFIRMED", "WAIVED"}
                       /\ b.active => a.active

(* A pass does not retype a row; deletes only proposals; waives only in a  *)
(* sync, and nothing asked for by hand; leaves waived what was waived; and *)
(* gives a document only to an open need.                                  *)
PassRow(kind, a, b) ==
  /\ a.origin # "NONE" =>
       /\ b.type = a.type
       /\ b.active # a.active => b.disp = "PROPOSED"
       /\ b.status = "WAIVED" => a.status = "WAIVED" \/ (kind = "verify" /\ b.origin # "MANUAL")
       /\ a.active /\ a.status = "WAIVED" => b.status = "WAIVED"
  /\ a.origin = "NONE" => b.origin # "MANUAL" /\ (kind # "verify" => b.status # "WAIVED")
  /\ b.doc # a.doc => a.status \in OpenStates /\ b.doc # None

LEMMA NoNeedFields ==
  /\ NoNeed.origin = "NONE" /\ ~NoNeed.active /\ NoNeed.status = "PENDING"
  /\ NoNeed.doc = None /\ NoNeed.type = None /\ NoNeed.disp = "PROPOSED"
BY DEF NoNeed

LEMMA SameRow ==
  ASSUME NEW N, WellFormed(N), NEW n \in Needs, NEW kind
  PROVE  Kept(N[n], N[n]) /\ PassRow(kind, N[n], N[n])
BY DEF WellFormed, Kept, PassRow, NoNeed

(* The match of an update task.                                            *)
LEMMA MatchRows ==
  ASSUME NEW N \in NeedLists, WellFormed(N), NEW D, NEW d \in Docs, NEW kind
  PROVE  LET M == ApplyDocument(N, D, d) IN
         /\ M \in NeedLists /\ WellFormed(M)
         /\ \A n \in Needs : /\ Kept(N[n], M[n]) /\ PassRow(kind, N[n], M[n])
                             /\ M[n] = NoNeed <=> N[n] = NoNeed
         /\ Asked(N) \subseteq Asked(M)
<1> DEFINE M == ApplyDocument(N, D, d)
<1>1. /\ M \in NeedLists
      /\ \/ M = N
         \/ \E n \in OpenFor(N, D, d) : /\ M[n] = Fill(N[n], Outcome(N, D, n, d), d)
                                        /\ \A m \in Needs \ {n} : M[m] = N[m]
  BY ApplyStep
<1> HIDE DEF M
<1>2. ASSUME NEW n \in Needs
      PROVE  \/ M[n] = N[n]
             \/ /\ N[n].active /\ N[n].status \in OpenStates
                /\ M[n].active /\ M[n].type = N[n].type /\ M[n].origin = N[n].origin
                /\ M[n].disp = N[n].disp /\ M[n].doc = d
                /\ M[n].status \in {"REJECTED", "VERIFIED", "RECEIVED"}
  <2>1. CASE M[n] # N[n]
    <3>1. N[n].active /\ N[n].status \in OpenStates /\ M[n] = Fill(N[n], Outcome(N, D, n, d), d)
      BY <1>1, <2>1 DEF OpenFor
    <3>2. N[n] \in NeedRows /\ Outcome(N, D, n, d) \in NeedStatuses
      BY OutcomeType DEF NeedLists, NeedStatuses
    <3> QED BY <3>1, <3>2, FillFields, OutcomeType
  <2> QED BY <2>1
<1>3. d # None
  BY NoneAssumption
<1>4. ASSUME NEW n \in Needs
      PROVE  /\ Kept(N[n], M[n]) /\ PassRow(kind, N[n], M[n])
             /\ M[n] = NoNeed <=> N[n] = NoNeed
  <2>1. CASE M[n] = N[n]
    BY <2>1, SameRow
  <2>2. CASE M[n] # N[n]
    <3>1. N[n] # NoNeed /\ M[n] # NoNeed /\ N[n].active /\ M[n].active
      BY <1>2, <2>2, NoNeedFields
    <3>2. N[n].origin # "NONE" /\ N[n].type # None
      BY <3>1 DEF WellFormed
    <3>3. Kept(N[n], M[n])
      BY <1>2, <2>2, <3>2 DEF Kept
    <3>4. PassRow(kind, N[n], M[n])
      BY <1>2, <1>3, <2>2, <3>1, <3>2 DEF PassRow, OpenStates
    <3> QED BY <3>1, <3>3, <3>4
  <2> QED BY <2>1, <2>2
<1>5. WellFormed(M)
  <2> SUFFICES ASSUME NEW n \in Needs
               PROVE  /\ M[n].origin = "NONE" => M[n] = NoNeed
                      /\ M[n].origin # "NONE" => M[n].type # None
                      /\ M[n].origin = "MANUAL" => M[n].disp # "PROPOSED"
    BY DEF WellFormed
  <2>1. CASE M[n] = N[n]
    BY <2>1 DEF WellFormed
  <2>2. CASE M[n] # N[n]
    <3>1. N[n].origin # "NONE"
      BY <1>2, <2>2, NoNeedFields DEF WellFormed
    <3> QED BY <1>2, <2>2, <3>1 DEF WellFormed
  <2> QED BY <2>1, <2>2
<1>6. Asked(N) \subseteq Asked(M)
  <2>1. \A n \in Needs : Live(N[n]) => Live(M[n]) /\ M[n].type = N[n].type
    BY <1>2 DEF Live
  <2> QED BY <2>1 DEF Asked
<1> QED BY <1>1, <1>4, <1>5, <1>6 DEF M

(* The proposals of a task, seeded into the free rows of N, which has from *)
(* list B become what it is, and consolidated.                             *)
LEMMA NewNeedFields ==
  ASSUME NEW t, NEW origin, NEW disp
  PROVE  /\ NewNeed(t, origin, disp).active /\ NewNeed(t, origin, disp).status = "PENDING"
         /\ NewNeed(t, origin, disp).type = t[1] /\ NewNeed(t, origin, disp).origin = origin
         /\ NewNeed(t, origin, disp).disp = disp /\ NewNeed(t, origin, disp).doc = None
BY DEF NewNeed

LEMMA ProposalRows ==
  ASSUME NEW B \in NeedLists, NEW N \in NeedLists, WellFormed(B), WellFormed(N),
         NEW kind, kind # "verify",
         \A n \in Needs : Kept(B[n], N[n]) /\ PassRow(kind, B[n], N[n]),
         NEW free \in SUBSET Needs, NEW at, DOMAIN at \subseteq free, Seeds(at),
         \A n \in free : N[n] = NoNeed /\ B[n] = NoNeed
  PROVE  LET P == Seed(N, at, "AI", "PROPOSED") IN
         /\ P \in NeedLists /\ WellFormed(P)
         /\ \A n \in Needs : /\ Kept(B[n], P[n]) /\ PassRow(kind, B[n], P[n])
                             /\ n \notin free => P[n] = N[n]
         /\ Asked(N) \subseteq Asked(P) /\ Waived(P) \subseteq Waived(N)
<1> DEFINE P == Seed(N, at, "AI", "PROPOSED")
<1>1. P \in NeedLists
  BY SeedType
<1>2. ASSUME NEW n \in Needs
      PROVE  \/ P[n] = N[n]
             \/ /\ n \in free /\ N[n] = NoNeed /\ B[n] = NoNeed
                /\ P[n].active /\ P[n].status = "PENDING" /\ P[n].type \in Types
                /\ P[n].origin = "AI" /\ P[n].disp = "PROPOSED" /\ P[n].doc = None
  BY SeedRow, NewNeedFields DEF Seeds, Asks
<1> HIDE DEF P
<1>3. ASSUME NEW n \in Needs
      PROVE  /\ Kept(B[n], P[n]) /\ PassRow(kind, B[n], P[n])
             /\ n \notin free => P[n] = N[n]
  <2>1. CASE P[n] = N[n]
    BY <2>1
  <2>2. CASE P[n] # N[n]
    BY <1>2, <2>2, NoNeedFields DEF Kept, PassRow
  <2> QED BY <2>1, <2>2
<1>4. WellFormed(P)
  <2> SUFFICES ASSUME NEW n \in Needs
               PROVE  /\ P[n].origin = "NONE" => P[n] = NoNeed
                      /\ P[n].origin # "NONE" => P[n].type # None
                      /\ P[n].origin = "MANUAL" => P[n].disp # "PROPOSED"
    BY DEF WellFormed
  <2>1. CASE P[n] = N[n]
    BY <2>1 DEF WellFormed
  <2>2. CASE P[n] # N[n]
    BY <1>2, <2>2, NoneAssumption
  <2> QED BY <2>1, <2>2
<1>5. Asked(N) \subseteq Asked(P)
  <2>1. \A n \in Needs : Live(N[n]) => P[n] = N[n]
    BY <1>2, NoNeedFields DEF Live
  <2> QED BY <2>1 DEF Asked
<1>6. Waived(P) \subseteq Waived(N)
  <2>1. \A n \in Needs : P[n].status = "WAIVED" => P[n] = N[n]
    BY <1>2
  <2> QED BY <2>1 DEF Waived
<1> QED BY <1>1, <1>3, <1>4, <1>5, <1>6 DEF P

LEMMA ConsolidatedRows ==
  ASSUME NEW B \in NeedLists, NEW P \in NeedLists, WellFormed(B), WellFormed(P),
         NEW kind, kind # "verify",
         \A n \in Needs : Kept(B[n], P[n]) /\ PassRow(kind, B[n], P[n]),
         NEW losers \in SUBSET Needs, Redundant(P, losers)
  PROVE  LET C == Consolidate(P, losers) IN
         /\ C \in NeedLists /\ WellFormed(C)
         /\ \A n \in Needs : /\ Kept(B[n], C[n]) /\ PassRow(kind, B[n], C[n])
                             /\ C[n].origin = P[n].origin /\ C[n].status = P[n].status
         /\ Asked(P) \subseteq Asked(C) \cup Waived(P)
<1> DEFINE C == Consolidate(P, losers)
<1>1. C \in NeedLists
  BY ConsolidateType
<1>2. \A n \in Needs : C[n] = IF n \in losers THEN [P[n] EXCEPT !.active = FALSE] ELSE P[n]
  BY ConsolidateRow
<1> HIDE DEF C
<1>3. ASSUME NEW n \in Needs, C[n] # P[n]
      PROVE  /\ P[n].active /\ ~C[n].active /\ P[n].status = "PENDING" /\ P[n].disp = "PROPOSED"
             /\ C[n].status = P[n].status /\ C[n].type = P[n].type /\ C[n].origin = P[n].origin
             /\ C[n].disp = P[n].disp /\ C[n].doc = P[n].doc
             /\ \E m \in Needs \ losers : P[m].active /\ P[m].type = P[n].type
  <2>1. P[n] \in NeedRows
    BY DEF NeedLists
  <2>2. \A a \in NeedRows : LET c == [a EXCEPT !.active = FALSE] IN
          /\ ~c.active /\ c.status = a.status /\ c.type = a.type /\ c.origin = a.origin
          /\ c.disp = a.disp /\ c.doc = a.doc
    BY DEF NeedRows
  <2>3. C[n] = [P[n] EXCEPT !.active = FALSE] /\ n \in losers
    BY <1>2, <1>3
  <2>4. /\ MergeCandidate(P[n])
        /\ \E m \in Needs \ losers : P[m].active /\ P[m].type = P[n].type
    BY <2>3 DEF Redundant
  <2> QED BY <2>1, <2>2, <2>3, <2>4 DEF MergeCandidate
<1>4. ASSUME NEW n \in Needs
      PROVE  /\ Kept(B[n], C[n]) /\ PassRow(kind, B[n], C[n])
             /\ C[n].origin = P[n].origin /\ C[n].status = P[n].status
  <2>1. CASE C[n] = P[n]
    BY <2>1
  <2>2. CASE C[n] # P[n]
    <3>1. Kept(B[n], P[n]) /\ PassRow(kind, B[n], P[n])
      OBVIOUS
    <3>2. Kept(B[n], C[n])
      BY <1>3, <2>2, <3>1 DEF Kept
    <3>3. PassRow(kind, B[n], C[n])
      BY <1>3, <2>2, <3>1 DEF PassRow
    <3> QED BY <1>3, <2>2, <3>2, <3>3
  <2> QED BY <2>1, <2>2
<1>5. WellFormed(C)
  <2> SUFFICES ASSUME NEW n \in Needs
               PROVE  /\ C[n].origin = "NONE" => C[n] = NoNeed
                      /\ C[n].origin # "NONE" => C[n].type # None
                      /\ C[n].origin = "MANUAL" => C[n].disp # "PROPOSED"
    BY DEF WellFormed
  <2>1. CASE C[n] = P[n]
    BY <2>1 DEF WellFormed
  <2>2. CASE C[n] # P[n]
    BY <1>3, <2>2, NoNeedFields DEF WellFormed
  <2> QED BY <2>1, <2>2
<1>6. ASSUME NEW n \in Needs, Live(P[n])
      PROVE  P[n].type \in Asked(C) \cup Waived(P)
  <2>1. CASE C[n] = P[n]
    BY <1>6, <2>1 DEF Asked
  <2>2. CASE C[n] # P[n]
    <3>1. PICK m \in Needs \ losers : P[m].active /\ P[m].type = P[n].type
      BY <1>3, <2>2
    <3>2. C[m] = P[m]
      BY <1>2, <3>1
    <3> QED BY <3>1, <3>2 DEF Asked, Waived, Live
  <2> QED BY <2>1, <2>2
<1>7. Asked(P) \subseteq Asked(C) \cup Waived(P)
  BY <1>6 DEF Asked
<1> QED BY <1>1, <1>4, <1>5, <1>7 DEF C

-----------------------------------------------------------------------------
(* The needs sync of a run.                                                *)

(* Every document usable to N's open needs is carried by M, or was carried *)
(* by a need still open that M gave to another.                            *)
CatchesUp(N, M, D) == \A n \in Needs, d \in Docs :
  /\ N[n].active /\ M[n].active /\ M[n].type \in Fits[D[d].type] /\ M[n].status \in OpenStates
  /\ D[d].active /\ D[d].status = "COMPLETED"
  => \/ d \in Linked(M)
     \/ \E m \in Carriers(N, d) : N[m].status \in OpenStates /\ M[m].doc \notin {d, None}

(* A need M newly gives a document to is alone in carrying it.             *)
ConsumesOnce(N, M) == \A d \in Docs : \A n \in Carriers(M, d) \ Carriers(N, d) : Carriers(M, d) = {n}

SyncList(N, D, floor, at, alias) ==
  Repair(Seed(Rematch(Seed(N, floor, "FLOOR", "CONFIRMED"), D), at, "FINDING", "CONFIRMED"), alias)

(* The rows a sync seeds are free ones, and no row is seeded twice.        *)
Slotted(N, free, floor, at) ==
  /\ free \subseteq Needs /\ \A n \in free : N[n] = NoNeed
  /\ Seeds(floor) /\ DOMAIN floor \subseteq free
  /\ Seeds(at) /\ DOMAIN at \subseteq free /\ DOMAIN at \cap DOMAIN floor = {}

(* How a sync turns N into R: the floor's rows F, the replay M, the        *)
(* findings' rows S, the repair.                                           *)
SyncStages(N, D, free, F, M, S, R) ==
  /\ F \in NeedLists /\ M \in NeedLists /\ S \in NeedLists /\ R \in NeedLists
  /\ AfterReplay(F, D, Replayed(F, D), M)
  /\ \A n \in Needs :
       /\ \/ F[n] = N[n]
          \/ N[n] = NoNeed /\ n \in free /\ \E ask \in Asks : F[n] = NewNeed(ask, "FLOOR", "CONFIRMED")
       /\ M[n] = F[n] \/ Answered(F, D, Replayed(F, D), n, M[n])
       /\ \/ S[n] = M[n]
          \/ /\ N[n] = NoNeed /\ F[n] = NoNeed /\ M[n] = NoNeed /\ n \in free
             /\ \E ask \in Asks : S[n] = NewNeed(ask, "FINDING", "CONFIRMED")
       /\ R[n] = S[n] \/ (Live(S[n]) /\ S[n].origin # "MANUAL" /\ R[n] = Waive(S[n]))
  /\ \A n \in Needs : Live(S[n]) =>
       \E k \in Needs : Live(S[k]) /\ S[k].type = S[n].type /\ R[k] = S[k]

LEMMA SyncRow ==
  ASSUME NEW N \in NeedLists, WellFormed(N), NEW D, NEW alias,
         NEW free, NEW floor, NEW at, Slotted(N, free, floor, at)
  PROVE  LET F == Seed(N, floor, "FLOOR", "CONFIRMED")
             M == Rematch(F, D)
             S == Seed(M, at, "FINDING", "CONFIRMED")
         IN  SyncStages(N, D, free, F, M, S, Repair(S, alias))
<1> DEFINE F == Seed(N, floor, "FLOOR", "CONFIRMED")
           M == Rematch(F, D)
           S == Seed(M, at, "FINDING", "CONFIRMED")
           R == Repair(S, alias)
<1>1. F \in NeedLists
  BY SeedType DEF Slotted
<1>2. AfterReplay(F, D, Replayed(F, D), M)
  <2> HIDE DEF F
  <2> QED BY <1>1, RematchReplays
<1>3. M \in NeedLists
  BY <1>2 DEF AfterReplay
<1>4. S \in NeedLists
  <2> HIDE DEF M
  <2> QED BY <1>3, SeedType DEF Slotted
<1>5. /\ R \in NeedLists
      /\ \A n \in Needs : R[n] = S[n] \/ (Live(S[n]) /\ S[n].origin # "MANUAL" /\ R[n] = Waive(S[n]))
      /\ \A n \in Needs : Live(S[n]) =>
           \E k \in Needs : Live(S[k]) /\ S[k].type = S[n].type /\ R[k] = S[k]
  <2> HIDE DEF S
  <2> QED BY <1>4, RepairStep
<1>6. ASSUME NEW n \in Needs
      PROVE  \/ F[n] = N[n]
             \/ N[n] = NoNeed /\ n \in free /\ n \in DOMAIN floor
                /\ F[n] = NewNeed(floor[n], "FLOOR", "CONFIRMED")
  BY SeedRow DEF Slotted
<1>7. ASSUME NEW n \in Needs
      PROVE  M[n] = F[n] \/ Answered(F, D, Replayed(F, D), n, M[n])
  BY <1>2 DEF AfterReplay
<1>8. ASSUME NEW n \in Needs, n \in DOMAIN at
      PROVE  N[n] = NoNeed /\ F[n] = NoNeed /\ M[n] = NoNeed /\ n \in free
  <2>1. N[n] = NoNeed /\ n \in free
    BY <1>8 DEF Slotted
  <2>2. F[n] = NoNeed
    BY <1>6, <1>8, <2>1 DEF Slotted
  <2> HIDE DEF F, M
  <2>3. ~Answered(F, D, Replayed(F, D), n, M[n])
    BY <2>2, NoNeedFields DEF Answered
  <2> QED BY <1>7, <2>1, <2>2, <2>3
<1>9. ASSUME NEW n \in Needs
      PROVE  \/ S[n] = M[n]
             \/ /\ N[n] = NoNeed /\ F[n] = NoNeed /\ M[n] = NoNeed /\ n \in free
                /\ \E ask \in Asks : S[n] = NewNeed(ask, "FINDING", "CONFIRMED")
  <2>1. S[n] = M[n] \/ (n \in DOMAIN at /\ S[n] = NewNeed(at[n], "FINDING", "CONFIRMED"))
    BY SeedRow
  <2> HIDE DEF F, M, S
  <2> QED BY <1>8, <2>1 DEF Slotted, Seeds
<1>10. ASSUME NEW n \in Needs
       PROVE  \/ F[n] = N[n]
              \/ N[n] = NoNeed /\ n \in free /\ \E ask \in Asks : F[n] = NewNeed(ask, "FLOOR", "CONFIRMED")
  <2> HIDE DEF F
  <2> QED BY <1>6 DEF Slotted, Seeds
<1> HIDE DEF F, M, S, R
<1>11. \A n \in Needs :
         /\ \/ F[n] = N[n]
            \/ N[n] = NoNeed /\ n \in free /\ \E ask \in Asks : F[n] = NewNeed(ask, "FLOOR", "CONFIRMED")
         /\ M[n] = F[n] \/ Answered(F, D, Replayed(F, D), n, M[n])
         /\ \/ S[n] = M[n]
            \/ /\ N[n] = NoNeed /\ F[n] = NoNeed /\ M[n] = NoNeed /\ n \in free
               /\ \E ask \in Asks : S[n] = NewNeed(ask, "FINDING", "CONFIRMED")
         /\ R[n] = S[n] \/ (Live(S[n]) /\ S[n].origin # "MANUAL" /\ R[n] = Waive(S[n]))
  BY <1>5, <1>7, <1>9, <1>10
<1>12. SyncStages(N, D, free, F, M, S, R)
  BY <1>1, <1>2, <1>3, <1>4, <1>5, <1>11 DEF SyncStages
<1> QED BY <1>12 DEF F, M, S, R

(* The whole sync: it keeps every row's promise, asks for every type it    *)
(* found asked for, and catches up with the documents on file, each        *)
(* consumed once.                                                          *)
THEOREM SyncRows ==
  ASSUME NEW N \in NeedLists, WellFormed(N), NEW D, NEW alias,
         NEW free, NEW floor, NEW at, Slotted(N, free, floor, at)
  PROVE  LET R == SyncList(N, D, floor, at, alias) IN
         /\ R \in NeedLists /\ WellFormed(R)
         /\ \A n \in Needs : /\ Kept(N[n], R[n]) /\ PassRow("verify", N[n], R[n])
                             /\ N[n] = NoNeed /\ n \notin free => R[n] = NoNeed
         /\ Asked(N) \subseteq Asked(R)
         /\ CatchesUp(N, R, D) /\ ConsumesOnce(N, R)
<1> DEFINE F == Seed(N, floor, "FLOOR", "CONFIRMED")
           M == Rematch(F, D)
           S == Seed(M, at, "FINDING", "CONFIRMED")
           R == Repair(S, alias)
           T == Replayed(F, D)
<1>1. SyncStages(N, D, free, F, M, S, R)
  BY SyncRow
<1>2. R = SyncList(N, D, floor, at, alias) /\ T \subseteq Docs
  BY DEF SyncList, Replayed
<1>3. T = {d \in Docs : D[d].active /\ D[d].status = "COMPLETED"} \ Linked(F)
  BY DEF Replayed
<1> HIDE DEF F, M, S, R
<1>4. /\ F \in NeedLists /\ M \in NeedLists /\ S \in NeedLists /\ R \in NeedLists
      /\ AfterReplay(F, D, T, M)
      /\ \A n \in Needs :
           /\ \/ F[n] = N[n]
              \/ N[n] = NoNeed /\ n \in free /\ \E ask \in Asks : F[n] = NewNeed(ask, "FLOOR", "CONFIRMED")
           /\ M[n] = F[n] \/ Answered(F, D, T, n, M[n])
           /\ \/ S[n] = M[n]
              \/ /\ N[n] = NoNeed /\ F[n] = NoNeed /\ M[n] = NoNeed /\ n \in free
                 /\ \E ask \in Asks : S[n] = NewNeed(ask, "FINDING", "CONFIRMED")
           /\ R[n] = S[n] \/ (Live(S[n]) /\ S[n].origin # "MANUAL" /\ R[n] = Waive(S[n]))
      /\ \A n \in Needs : Live(S[n]) =>
           \E k \in Needs : Live(S[k]) /\ S[k].type = S[n].type /\ R[k] = S[k]
  BY <1>1 DEF SyncStages, T
<1> HIDE DEF T
(* The stages a row goes through, field by field.                          *)
<1>5. ASSUME NEW n \in Needs, F[n] # N[n]
      PROVE  /\ N[n] = NoNeed /\ n \in free /\ F[n].active /\ F[n].type \in Types /\ F[n].status = "PENDING"
             /\ F[n].origin = "FLOOR" /\ F[n].disp = "CONFIRMED" /\ F[n].doc = None
  BY <1>4, <1>5, NewNeedFields DEF Asks
<1>6. ASSUME NEW n \in Needs, M[n] # F[n]
      PROVE  /\ F[n].active /\ F[n].status \in OpenStates
             /\ M[n].status \in Answers /\ M[n].doc \in T
             /\ M[n].active = F[n].active /\ M[n].type = F[n].type
             /\ M[n].origin = F[n].origin /\ M[n].disp = F[n].disp
  <2>1. Answered(F, D, T, n, M[n])
    BY <1>4, <1>6
  <2>2. F[n].active /\ F[n].status \in OpenStates
    BY <2>1 DEF Answered
  <2>3. F[n] \in NeedRows /\ M[n] \in NeedRows
    BY <1>4 DEF NeedLists
  <2>4. F[n].active \in BOOLEAN /\ M[n].active \in BOOLEAN
    BY <2>3 DEF NeedRows
  <2>5. M[n].active /\ M[n].status \in Answers /\ M[n].doc \in T
    BY <1>4, <1>2, <2>1, AnsweredFields
  <2>6. M[n].type = F[n].type /\ M[n].origin = F[n].origin /\ M[n].disp = F[n].disp
    BY <1>4, <1>2, <2>1, AnsweredFields
  <2> QED BY <2>2, <2>4, <2>5, <2>6
<1>7. ASSUME NEW n \in Needs, S[n] # M[n]
      PROVE  /\ N[n] = NoNeed /\ F[n] = NoNeed /\ M[n] = NoNeed /\ n \in free
             /\ S[n].active /\ S[n].type \in Types /\ S[n].status = "PENDING"
             /\ S[n].origin = "FINDING" /\ S[n].disp = "CONFIRMED" /\ S[n].doc = None
  BY <1>4, <1>7, NewNeedFields DEF Asks
<1>8. ASSUME NEW n \in Needs, R[n] # S[n]
      PROVE  /\ S[n].active /\ S[n].status # "WAIVED" /\ S[n].origin # "MANUAL"
             /\ R[n].status = "WAIVED" /\ R[n].disp = "WAIVED" /\ R[n].active = S[n].active
             /\ R[n].type = S[n].type /\ R[n].origin = S[n].origin /\ R[n].doc = S[n].doc
  <2>1. S[n] \in NeedRows
    BY <1>4 DEF NeedLists
  <2> QED BY <1>4, <1>8, <2>1, WaiveFields DEF Live
<1>9. \A n \in Needs : R[n].active = S[n].active /\ R[n].doc = S[n].doc /\ R[n].type = S[n].type
  BY <1>8
(* Its promises.                                                           *)
<1>10. \A n \in Needs : N[n].origin = "NONE" <=> N[n] = NoNeed
  BY NoNeedFields DEF WellFormed
<1>11. ASSUME NEW n \in Needs
       PROVE  /\ Kept(N[n], R[n]) /\ PassRow("verify", N[n], R[n])
              /\ N[n] = NoNeed /\ n \notin free => R[n] = NoNeed
              /\ R[n].origin = "NONE" => R[n] = NoNeed
              /\ R[n].origin # "NONE" => R[n].type # None
              /\ R[n].origin = "MANUAL" => R[n].disp # "PROPOSED"
  <2>1. CASE N[n] = NoNeed
    <3>1. M[n] # F[n] => F[n] # N[n]
      BY <1>6, <2>1, NoNeedFields
    <3>2. R[n] # S[n] => S[n] # NoNeed
      BY <1>8, NoNeedFields
    <3>3. \/ R[n] = NoNeed
          \/ /\ n \in free /\ R[n].origin \in {"FLOOR", "FINDING"} /\ R[n].type \in Types
             /\ R[n].doc # None => R[n].doc \in T
      <4>1. CASE F[n] = N[n]
        BY <1>7, <1>8, <2>1, <3>1, <3>2, <4>1
      <4>2. CASE F[n] # N[n]
        <5>1. S[n] = M[n]
          BY <1>5, <1>7, <2>1, <4>2
        <5>2. n \in free /\ M[n].origin = "FLOOR" /\ M[n].type \in Types /\ (M[n].doc # None => M[n].doc \in T)
          BY <1>5, <1>6, <4>2
        <5> QED BY <1>8, <5>1, <5>2
      <4> QED BY <4>1, <4>2
    <3>4. Kept(N[n], R[n])
      BY <2>1, NoNeedFields DEF Kept
    <3>5. PassRow("verify", N[n], R[n])
      BY <2>1, <3>3, NoNeedFields DEF PassRow, OpenStates
    <3> QED BY <3>3, <3>4, <3>5, NoneAssumption, NoNeedFields
  <2>2. CASE N[n] # NoNeed
    <3>1. F[n] = N[n] /\ S[n] = M[n] /\ N[n].origin # "NONE" /\ N[n].type # None
      BY <1>5, <1>7, <1>10, <2>2 DEF WellFormed
    <3>2. N[n].origin = "MANUAL" => N[n].disp # "PROPOSED"
      BY DEF WellFormed
    <3>3. /\ R[n].origin = N[n].origin /\ R[n].type = N[n].type /\ R[n].active = N[n].active
          /\ R[n].disp \in {N[n].disp, "WAIVED"}
          /\ R[n].status = "WAIVED" => N[n].status = "WAIVED" \/ N[n].origin # "MANUAL"
          /\ N[n].active /\ N[n].status = "WAIVED" => R[n].status = "WAIVED"
          /\ R[n].doc # N[n].doc => N[n].status \in OpenStates /\ R[n].doc \in T
      <4>1. CASE M[n] = F[n]
        BY <1>8, <3>1, <4>1
      <4>2. CASE M[n] # F[n]
        BY <1>6, <1>8, <3>1, <4>2 DEF Answers, OpenStates
      <4> QED BY <4>1, <4>2
    <3>4. T \subseteq Docs /\ None \notin Docs
      BY <1>2, NoneAssumption
    <3>5. Kept(N[n], R[n])
      BY <3>1, <3>3 DEF Kept
    <3>6. PassRow("verify", N[n], R[n])
      BY <3>1, <3>3, <3>4 DEF PassRow
    <3> QED BY <2>2, <3>1, <3>2, <3>3, <3>5, <3>6
  <2> QED BY <2>1, <2>2
<1>12. WellFormed(R)
  <2> SUFFICES ASSUME NEW n \in Needs
               PROVE  /\ R[n].origin = "NONE" => R[n] = NoNeed
                      /\ R[n].origin # "NONE" => R[n].type # None
                      /\ R[n].origin = "MANUAL" => R[n].disp # "PROPOSED"
    BY DEF WellFormed
  <2> QED BY <1>11
<1>13. Asked(N) \subseteq Asked(R)
  <2>1. ASSUME NEW n \in Needs, Live(N[n])
        PROVE  \E k \in Needs : Live(R[k]) /\ R[k].type = N[n].type
    <3>1. F[n] = N[n]
      BY <1>5, <2>1, NoNeedFields DEF Live
    <3>2. Live(M[n]) /\ M[n].type = N[n].type
      BY <1>6, <2>1, <3>1 DEF Live, Answers
    <3>3. S[n] = M[n]
      BY <1>7, <2>1, NoNeedFields DEF Live
    <3> QED BY <1>4, <3>2, <3>3
  <2> QED BY <2>1 DEF Asked
<1>14. CatchesUp(N, R, D)
  <2> SUFFICES ASSUME NEW n \in Needs, NEW d \in Docs,
                      N[n].active, R[n].active, R[n].type \in Fits[D[d].type], R[n].status \in OpenStates,
                      D[d].active, D[d].status = "COMPLETED"
               PROVE  \/ d \in Linked(R)
                      \/ \E m \in Carriers(N, d) : N[m].status \in OpenStates /\ R[m].doc \notin {d, None}
    BY DEF CatchesUp
  <2>1. d # None /\ None \notin T
    BY <1>2, NoneAssumption
  <2>2. N[n] # NoNeed
    BY NoNeedFields
  <2>3. S[n] = M[n] /\ R[n] = S[n]
    BY <1>7, <1>8, <2>2 DEF OpenStates
  <2>4. D[d].type # None
    BY FitsAssumption
  <2>5. n \in OpenFor(M, D, d) /\ D[d].type # None
    BY <2>3, <2>4 DEF OpenFor
  <2>6. CASE d \in T
    <3>1. PICK m \in Needs : M[m] # F[m] /\ M[m].doc = d
      BY <1>4, <2>5, <2>6 DEF AfterReplay
    <3>2. M[m].active /\ F[m] # NoNeed
      BY <1>6, <3>1, NoNeedFields
    <3>3. R[m].active /\ R[m].doc = d
      BY <1>7, <1>9, <3>1, <3>2
    <3> QED BY <2>1, <3>3 DEF Linked
  <2>7. CASE d \notin T
    <3>1. d \in Linked(F)
      BY <1>3, <2>7
    <3>2. PICK m \in Needs : F[m].active /\ F[m].doc = d
      BY <3>1 DEF Linked
    <3>3. F[m] = N[m] /\ F[m] # NoNeed
      BY <1>5, <2>1, <3>2, NoNeedFields
    <3>4. S[m] = M[m] /\ R[m].active = M[m].active /\ R[m].doc = M[m].doc
      BY <1>7, <1>9, <3>3
    <3>5. CASE M[m] = F[m]
      BY <2>1, <3>2, <3>4, <3>5 DEF Linked
    <3>6. CASE M[m] # F[m]
      BY <1>6, <2>1, <2>7, <3>2, <3>3, <3>4, <3>6 DEF Carriers
    <3> QED BY <3>5, <3>6
  <2> QED BY <2>6, <2>7
<1>15. ConsumesOnce(N, R)
  <2> SUFFICES ASSUME NEW d \in Docs, NEW n \in Carriers(R, d) \ Carriers(N, d)
               PROVE  Carriers(R, d) = {n}
    BY DEF ConsumesOnce
  <2>1. d # None
    BY NoneAssumption
  <2>2. ASSUME NEW m \in Carriers(R, d)
        PROVE  /\ m \in Needs /\ M[m].active /\ M[m].doc = d
               /\ M[m] = F[m] => m \in Carriers(N, d) /\ d \in Linked(F)
    <3>1. m \in Needs /\ S[m].active /\ S[m].doc = d
      BY <1>9 DEF Carriers
    <3>2. S[m] = M[m]
      BY <1>7, <2>1, <3>1
    <3>3. M[m] = F[m] => F[m] = N[m]
      BY <1>5, <2>1, <3>1, <3>2
    <3> QED BY <2>1, <3>1, <3>2, <3>3 DEF Carriers, Linked
  <2>3. M[n] # F[n] /\ M[n].doc = d /\ n \in Needs
    BY <2>2
  <2>4. d \notin Linked(F)
    BY <1>3, <1>6, <2>3
  <2>5. \A m \in Carriers(R, d) : m = n
    BY <1>4, <2>2, <2>3, <2>4 DEF AfterReplay
  <2> QED BY <2>5
<1> QED BY <1>4, <1>2, <1>11, <1>12, <1>13, <1>14, <1>15
=============================================================================
