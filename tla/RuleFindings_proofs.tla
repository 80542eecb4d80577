------------------------ MODULE RuleFindings_proofs ------------------------
(***************************************************************************)
(* However passes and processors interleave, the safety properties of      *)
(* RuleFindings hold, for any findings, figures, passes and processors.    *)
(***************************************************************************)
EXTENDS RuleFindings, TLAPS

-----------------------------------------------------------------------------
(* The inductive invariant.                                                *)

(* What a pass that has read is about to publish.                          *)
PassKnows ==
  \A p \in Passes : verdict[p].read =>
    /\ \A f \in verdict[p].detected : verdict[p].now[f] \in Verdicts
    /\ p \notin contested => \A f \in Findings : verdict[p].was[f] = finding[f].outcome
    /\ \A f \in Findings \ decided[p] :
         verdict[p].now[f] = "NO_LONGER_APPLIES" /\ verdict[p].was[f] # "NO_LONGER_APPLIES"
           => f \in Evaluated /\ finding[f].resolution = "OPEN"

(* The figure and the records of its APPLIED findings form one chain: each *)
(* APPLIED finding, and what was stated, is what exactly one of them holds.*)
Chain(t) ==
  /\ figure[t] \in Applied(t) \cup {Stated}
  /\ \A f \in Applied(t) :
       /\ finding[f].from \in (Applied(t) \ {f}) \cup {Stated}
       /\ finding[f].from # figure[t]
       /\ \A g \in Applied(t) : finding[f].from = finding[g].from => f = g
Chained == \A t \in Figures \ blurred : Chain(t)

(* What a request is about to write.  Only one that applies or undoes      *)
(* touches a figure or its record.                                         *)
DeedShape ==
  \A h \in Processors : deed[h] # NoDeed =>
    /\ deed[h].f \in Findings
    /\ deed[h].resolution \in {"OVERRIDDEN", "RATIFIED", Keep}
         => deed[h].from = Keep /\ deed[h].put = Keep

(* A request whose finding and figure nobody wrote since it read them.     *)
Fresh(h) ==
  LET d == deed[h]
      row == finding[d.f]
      held == figure[Figure[d.f]]
  IN
  /\ d.resolution = "APPLIED" =>
       row.resolution = "OPEN" /\ Over(row.from, d.from) = held /\ Over(held, d.put) = d.f
  /\ d.resolution = "RATIFIED" => row.resolution = "OPEN"
  /\ d.resolution = "OPEN" =>
       Over(held, d.put) = IF row.resolution = "APPLIED" /\ row.from # None THEN row.from ELSE held
DeedsFresh == \A h \in Processors \ stale : deed[h] # NoDeed => Fresh(h)

IInv == TypeOK /\ PassKnows /\ Chained /\ DeedShape /\ DeedsFresh

-----------------------------------------------------------------------------
(* Helpers.                                                                *)

LEMMA OverWrite ==
  ASSUME NEW old, NEW new, new # Keep
  PROVE  Over(old, Write(old, new)) = new
BY DEF Over, Write

LEMMA WriteSame ==
  ASSUME NEW old
  PROVE  Write(old, old) = Keep
BY DEF Write

LEMMA ReconcileTypes ==
  ASSUME FindingOK, NEW detected \in SUBSET Findings, NEW found \in [detected -> Verdicts], NEW eligible
  PROVE  /\ Reconcile(finding, found, eligible) \in [Findings -> Outcomes]
         /\ \A f \in detected : Reconcile(finding, found, eligible)[f] \in Verdicts
         /\ \A f \in Findings :
              /\ Reconcile(finding, found, eligible)[f] = "NO_LONGER_APPLIES"
              /\ finding[f].outcome # "NO_LONGER_APPLIES"
              => f \in eligible /\ finding[f].resolution = "OPEN"
<1>1. DOMAIN found = detected /\ \A f \in detected : found[f] \in Verdicts
  OBVIOUS
<1> QED BY <1>1 DEF Reconcile, FindingOK, Outcomes, Verdicts

(* What a request is about to do once it has read.                         *)
LEMMA Asked ==
  ASSUME TypeOK, NEW h \in Processors, NEW f \in Findings, NEW resolution \in Resolutions,
         NEW from \in Findings \cup {Stated, None}, NEW put \in Findings \cup {Stated},
         Ask(h, f, resolution, from, put)
  PROVE  /\ DeedOK'
         /\ deed[h] = NoDeed
         /\ deed'[h].f = f
         /\ deed'[h].resolution = Write(finding[f].resolution, resolution)
         /\ deed'[h].from = Write(finding[f].from, from)
         /\ deed'[h].put = Write(figure[Figure[f]], put)
         /\ \A o \in Processors \ {h} : deed'[o] = deed[o]
         /\ stale' = stale \ {h}
         /\ UNCHANGED <<finding, figure, verdict, contested, decided, blurred>>
<1> DEFINE d == [f |-> f, resolution |-> Write(finding[f].resolution, resolution),
                 from |-> Write(finding[f].from, from), put |-> Write(figure[Figure[f]], put)]
<1>1. deed' = [deed EXCEPT ![h] = d]
  BY DEF Ask
<1>2. d \in [f : Findings \cup {None}, resolution : Resolutions \cup {Keep},
             from : Findings \cup {Stated, None, Keep}, put : Findings \cup {Stated, Keep}]
  BY DEF Write
<1>3. DeedOK'
  BY <1>1, <1>2 DEF TypeOK, DeedOK
<1>4. deed'[h] = d /\ \A o \in Processors \ {h} : deed'[o] = deed[o]
  BY <1>1 DEF TypeOK, DeedOK
<1> QED BY <1>3, <1>4 DEF Ask

(* A request may read at any time.                                         *)
LEMMA AskedKeeps ==
  ASSUME IInv, NEW h \in Processors, NEW f \in Findings, NEW resolution \in Resolutions,
         NEW from \in Findings \cup {Stated, None}, NEW put \in Findings \cup {Stated},
         Ask(h, f, resolution, from, put),
         deed'[h].resolution \in {"OVERRIDDEN", "RATIFIED", Keep}
           => deed'[h].from = Keep /\ deed'[h].put = Keep,
         Fresh(h)'
  PROVE  IInv'
<1>1. /\ DeedOK' /\ deed'[h].f = f /\ stale' = stale \ {h}
      /\ \A o \in Processors \ {h} : deed'[o] = deed[o]
      /\ UNCHANGED <<finding, figure, verdict, contested, decided, blurred>>
  BY Asked DEF IInv
<1>2. TypeOK'
  BY <1>1 DEF IInv, TypeOK, FindingOK, VerdictOK
<1>3. PassKnows' /\ Chained'
  BY <1>1 DEF IInv, PassKnows, Chained, Chain, Applied, OnFigure
<1>4. DeedShape'
  BY <1>1 DEF IInv, DeedShape
<1>5. \A o \in Processors \ (stale \cup {h}) : deed'[o] # NoDeed => Fresh(o)'
  BY <1>1 DEF IInv, DeedsFresh, Fresh
<1>6. DeedsFresh'
  BY <1>1, <1>5 DEF IInv, DeedsFresh
<1> QED BY <1>2, <1>3, <1>4, <1>6 DEF IInv

-----------------------------------------------------------------------------
(* What a processor reads.                                                 *)

LEMMA FigureTypes ==
  ASSUME TypeOK, NEW f \in Findings
  PROVE  /\ Figure[f] \in Figures /\ figure[Figure[f]] \in Findings \cup {Stated}
         /\ finding[f].resolution \in Resolutions /\ finding[f].from \in Findings \cup {Stated, None}
         /\ Keep \notin Findings \cup {Stated, None} \cup Resolutions
BY FindingsAssumption DEF TypeOK, FindingOK, Resolutions

LEMMA ApplyKeeps ==
  ASSUME IInv, NEW h \in Processors, NEW f \in Findings, Apply(h, f)
  PROVE  IInv'
<1> DEFINE held == figure[Figure[f]]
<1>1. held \in Findings \cup {Stated} /\ held # Keep /\ f # Keep
  BY FigureTypes DEF IInv
<1>2. Ask(h, f, "APPLIED", held, f) /\ finding[f].resolution = "OPEN"
  BY DEF Apply
<1>3. /\ deed'[h].f = f /\ deed'[h].resolution = Write("OPEN", "APPLIED")
      /\ deed'[h].from = Write(finding[f].from, held) /\ deed'[h].put = Write(held, f)
      /\ UNCHANGED <<finding, figure>>
  BY <1>1, <1>2, Asked DEF IInv, Resolutions
<1>4. deed'[h].resolution = "APPLIED"
  BY <1>3 DEF Write
<1>5. Over(finding[f].from, deed'[h].from) = held /\ Over(held, deed'[h].put) = f
  BY <1>1, <1>3, OverWrite
<1>6. Fresh(h)'
  BY <1>2, <1>3, <1>4, <1>5 DEF Fresh
<1> HIDE DEF held
<1>7. "APPLIED" \notin {"OVERRIDDEN", "RATIFIED", Keep}
  BY FindingsAssumption
<1> QED BY <1>1, <1>2, <1>4, <1>6, <1>7, AskedKeeps DEF Resolutions

(* Override and Ratify write no figure and no record.                      *)
LEMMA SignKeeps ==
  ASSUME IInv, NEW h \in Processors, NEW f \in Findings, Override(h, f) \/ Ratify(h, f)
  PROVE  IInv'
<1> DEFINE held == figure[Figure[f]]
<1>1. /\ held \in Findings \cup {Stated} /\ finding[f].from \in Findings \cup {Stated, None}
      /\ finding[f].resolution \in Resolutions
  BY FigureTypes DEF IInv
<1>2. PICK sign \in {"OVERRIDDEN", "RATIFIED"} :
        /\ Ask(h, f, sign, finding[f].from, held)
        /\ sign = "RATIFIED" => finding[f].resolution = "OPEN"
  BY DEF Override, Ratify
<1>3. /\ deed'[h].f = f /\ deed'[h].resolution = Write(finding[f].resolution, sign)
      /\ deed'[h].from = Keep /\ deed'[h].put = Keep
      /\ UNCHANGED <<finding, figure>>
  <2>1. sign \in Resolutions
    BY DEF Resolutions
  <2>2. PICK from \in Findings \cup {Stated, None}, put \in Findings \cup {Stated} :
          from = finding[f].from /\ put = figure[Figure[f]]
    BY <1>1
  <2>3. Ask(h, f, sign, from, put)
    BY <1>2, <2>2
  <2>4. /\ deed'[h].f = f /\ deed'[h].resolution = Write(finding[f].resolution, sign)
        /\ deed'[h].from = Write(finding[f].from, from)
        /\ deed'[h].put = Write(figure[Figure[f]], put)
        /\ UNCHANGED <<finding, figure>>
    BY <2>1, <2>3, Asked DEF IInv
  <2> QED BY <2>2, <2>4, WriteSame
<1>4. deed'[h].resolution \in {sign, Keep}
  BY <1>3 DEF Write
<1>5. Fresh(h)'
  BY <1>2, <1>3, <1>4, FindingsAssumption DEF Fresh
<1> HIDE DEF held
<1> QED BY <1>1, <1>2, <1>3, <1>5, AskedKeeps DEF Resolutions

LEMMA UndoKeeps ==
  ASSUME IInv, NEW h \in Processors, NEW f \in Findings, Undo(h, f)
  PROVE  IInv'
<1> DEFINE held == figure[Figure[f]]
           back == IF finding[f].resolution = "APPLIED" /\ finding[f].from # None
                     THEN finding[f].from ELSE held
<1>1. /\ held \in Findings \cup {Stated} /\ finding[f].from \in Findings \cup {Stated, None}
      /\ Keep \notin Findings \cup {Stated, None} \cup Resolutions
  BY FigureTypes DEF IInv
<1>2. back \in Findings \cup {Stated} /\ back # Keep
  BY <1>1
<1>3. Ask(h, f, "OPEN", None, back) /\ finding[f].resolution # "OPEN"
  BY DEF Undo
<1>4. /\ deed'[h].f = f /\ deed'[h].resolution = Write(finding[f].resolution, "OPEN")
      /\ deed'[h].put = Write(held, back)
      /\ UNCHANGED <<finding, figure>>
  <2>1. "OPEN" \in Resolutions
    BY DEF Resolutions
  <2> HIDE DEF back
  <2>2. /\ deed'[h].f = f /\ deed'[h].resolution = Write(finding[f].resolution, "OPEN")
        /\ deed'[h].put = Write(figure[Figure[f]], back)
        /\ UNCHANGED <<finding, figure>>
    BY <1>2, <1>3, <2>1, Asked DEF IInv
  <2> QED BY <2>2
<1>5. deed'[h].resolution = "OPEN"
  BY <1>3, <1>4 DEF Write
<1>6. Over(held, deed'[h].put) = back
  BY <1>2, <1>4, OverWrite
<1>7. Fresh(h)'
  BY <1>4, <1>5, <1>6 DEF Fresh
<1>8. "OPEN" \notin {"OVERRIDDEN", "RATIFIED", Keep}
  BY FindingsAssumption
<1> HIDE DEF held, back
<1> QED BY <1>1, <1>2, <1>3, <1>5, <1>7, <1>8, AskedKeeps DEF Resolutions

LEMMA AbandonKeeps ==
  ASSUME IInv, NEW h \in Processors, Abandon(h)
  PROVE  IInv'
<1>1. /\ deed'[h] = NoDeed /\ stale' = stale \ {h}
      /\ \A o \in Processors \ {h} : deed'[o] = deed[o]
      /\ UNCHANGED <<finding, figure, verdict, contested, decided, blurred>>
  BY DEF Abandon, IInv, TypeOK, DeedOK
<1>2. DeedOK'
  BY DEF Abandon, IInv, TypeOK, DeedOK, NoDeed
<1>3. TypeOK'
  BY <1>1, <1>2 DEF IInv, TypeOK, FindingOK, VerdictOK
<1>4. PassKnows' /\ Chained'
  BY <1>1 DEF IInv, PassKnows, Chained, Chain, Applied, OnFigure
<1>5. DeedShape' /\ DeedsFresh'
  BY <1>1 DEF IInv, DeedShape, DeedsFresh, Fresh
<1> QED BY <1>3, <1>4, <1>5 DEF IInv

-----------------------------------------------------------------------------
(* What a processor commits.                                               *)

LEMMA CommitWrites ==
  ASSUME TypeOK, DeedShape, NEW h \in Processors, Commit(h)
  PROVE  LET d == deed[h]
             t == Figure[d.f]
         IN
         /\ d.f \in Findings /\ t \in Figures /\ d # NoDeed
         /\ finding'[d.f].outcome = finding[d.f].outcome
         /\ finding'[d.f].resolution = Over(finding[d.f].resolution, d.resolution)
         /\ finding'[d.f].from = Over(finding[d.f].from, d.from)
         /\ \A f \in Findings \ {d.f} : finding'[f] = finding[f]
         /\ figure'[t] = Over(figure[t], d.put)
         /\ \A u \in Figures \ {t} : figure'[u] = figure[u]
         /\ deed'[h] = NoDeed /\ \A o \in Processors \ {h} : deed'[o] = deed[o]
         /\ UNCHANGED <<verdict, contested>>
<1>1. deed[h] # NoDeed /\ deed[h].f \in Findings
  BY DEF Commit, DeedShape
<1>2. Figure[deed[h].f] \in Figures
  BY <1>1, FindingsAssumption
<1> QED BY <1>1, <1>2 DEF Commit, TypeOK, FindingOK, DeedOK

LEMMA CommitTypes ==
  ASSUME TypeOK, DeedShape, NEW h \in Processors, Commit(h)
  PROVE  TypeOK'
<1> DEFINE d == deed[h]
           t == Figure[d.f]
<1>1. /\ d.f \in Findings /\ t \in Figures
      /\ d.resolution \in Resolutions \cup {Keep}
      /\ d.from \in Findings \cup {Stated, None, Keep} /\ d.put \in Findings \cup {Stated, Keep}
  BY CommitWrites DEF TypeOK, DeedOK
<1>2. /\ Over(finding[d.f].resolution, d.resolution) \in Resolutions
      /\ Over(finding[d.f].from, d.from) \in Findings \cup {Stated, None}
      /\ Over(figure[t], d.put) \in Findings \cup {Stated}
  BY <1>1 DEF Over, TypeOK, FindingOK
<1>3. FindingOK'
  <2>1. finding' = [finding EXCEPT ![d.f].resolution = Over(@, d.resolution),
                                   ![d.f].from = Over(@, d.from)]
    BY DEF Commit
  <2> HIDE DEF d
  <2> QED BY <1>1, <1>2, <2>1 DEF TypeOK, FindingOK
<1>4. figure' \in [Figures -> Findings \cup {Stated}]
  BY <1>1, <1>2 DEF Commit, TypeOK
<1>5. DeedOK'
  BY DEF Commit, TypeOK, DeedOK, NoDeed
<1>6. VerdictOK' /\ contested' \subseteq Passes
  BY DEF Commit, TypeOK, VerdictOK
<1>7. decided' \in [Passes -> SUBSET Findings]
  BY FindingsAssumption DEF Commit, TypeOK
<1>8. stale' \subseteq Processors /\ blurred' \subseteq Figures
  BY <1>1 DEF Commit, TypeOK
<1> QED BY <1>3, <1>4, <1>5, <1>6, <1>7, <1>8 DEF TypeOK

LEMMA CommitKeepsPasses ==
  ASSUME TypeOK, DeedShape, PassKnows, NEW h \in Processors, Commit(h)
  PROVE  PassKnows'
<1> DEFINE d == deed[h]
<1>1. /\ d.f \in Findings
      /\ \A f \in Findings : finding'[f].outcome = finding[f].outcome
      /\ \A f \in Findings \ {d.f} : finding'[f] = finding[f]
      /\ UNCHANGED <<verdict, contested>>
  BY CommitWrites
<1>2. \A p \in Passes : verdict[p].read => decided'[p] = decided[p] \cup ({d.f} \cap Evaluated)
  BY DEF Commit
<1> HIDE DEF d
<1> QED BY <1>1, <1>2 DEF PassKnows

LEMMA CommitKeepsFresh ==
  ASSUME TypeOK, DeedShape, DeedsFresh, NEW h \in Processors, Commit(h)
  PROVE  DeedShape' /\ DeedsFresh'
<1> DEFINE d == deed[h]
           t == Figure[d.f]
<1>1. /\ deed'[h] = NoDeed /\ \A o \in Processors \ {h} : deed'[o] = deed[o]
      /\ \A f \in Findings \ {d.f} : finding'[f] = finding[f]
      /\ \A u \in Figures \ {t} : figure'[u] = figure[u]
  BY CommitWrites
<1>2. DeedShape'
  BY <1>1 DEF DeedShape
<1>3. ASSUME NEW o \in Processors \ {h}, o \notin stale', deed[o] # NoDeed
      PROVE  Fresh(o)'
  <2>1. deed[o].f \in Findings /\ Figure[deed[o].f] \in Figures
    BY <1>3, FindingsAssumption DEF DeedShape
  <2>2. Fresh(o)
    BY <1>3 DEF Commit, DeedsFresh
  <2>3. finding'[deed[o].f].resolution = finding[deed[o].f].resolution
        /\ finding'[deed[o].f].from = finding[deed[o].f].from
    <3>1. CASE d.resolution = Keep
      <4>1. d.from = Keep
        BY <3>1 DEF DeedShape, Commit
      <4> QED BY <1>1, <2>1, <3>1, <4>1, CommitWrites DEF Over
    <3>2. CASE d.resolution # Keep
      <4>1. deed[o].f # d.f
        BY <1>3, <3>2 DEF Commit
      <4> QED BY <1>1, <2>1, <4>1
    <3> QED BY <3>1, <3>2
  <2>4. figure'[Figure[deed[o].f]] = figure[Figure[deed[o].f]]
    <3>1. CASE d.put = Keep
      BY <1>1, <2>1, <3>1, CommitWrites DEF Over
    <3>2. CASE d.put # Keep
      <4>1. Figure[deed[o].f] # t
        BY <1>3, <2>1, <3>2 DEF Commit, OnFigure
      <4> QED BY <1>1, <2>1, <4>1
    <3> QED BY <3>1, <3>2
  <2> QED BY <1>1, <2>2, <2>3, <2>4 DEF Fresh
<1> QED BY <1>1, <1>2, <1>3 DEF DeedsFresh

(* Only an unblurred commit has to keep the chain of its figure: it adds a *)
(* link, takes the last one away, or does not touch it.                    *)
LEMMA CommitKeepsChain ==
  ASSUME TypeOK, DeedShape, DeedsFresh, Chained, NEW h \in Processors, Commit(h)
  PROVE  Chained'
<1> DEFINE d == deed[h]
<1>0. PICK f \in Findings, t \in Figures : f = d.f /\ t = Figure[f]
  BY CommitWrites
<1>1. /\ f \in Findings /\ t \in Figures /\ d # NoDeed
      /\ finding'[f].resolution = Over(finding[f].resolution, d.resolution)
      /\ finding'[f].from = Over(finding[f].from, d.from)
      /\ \A g \in Findings \ {f} : finding'[g] = finding[g]
      /\ figure'[t] = Over(figure[t], d.put)
      /\ \A u \in Figures \ {t} : figure'[u] = figure[u]
  BY <1>0, CommitWrites
<1>2. /\ blurred \subseteq blurred'
      /\ t \notin blurred' => t \notin blurred /\ ~Blurs(h)
  BY <1>0 DEF Commit
<1>3. ASSUME NEW u \in Figures \ blurred', u # t
      PROVE  Chain(u)'
  <2>1. f \notin OnFigure(u)
    BY <1>0, <1>3 DEF OnFigure
  <2>2. Applied(u)' = Applied(u) /\ \A g \in Applied(u) : finding'[g] = finding[g]
    BY <1>1, <2>1 DEF Applied, OnFigure
  <2>3. figure'[u] = figure[u] /\ Chain(u)
    BY <1>1, <1>2, <1>3 DEF Chained
  <2> HIDE DEF d
  <2> QED BY <2>2, <2>3 DEF Chain
<1>4. ASSUME t \notin blurred'
      PROVE  Chain(t)'
  <2>1. Chain(t) /\ ~Blurs(h)
    BY <1>1, <1>2, <1>4 DEF Chained
  <2>2. d.resolution \in Resolutions \cup {Keep}
    BY DEF TypeOK, DeedOK
  <2>3. f \in OnFigure(t) /\ \A g \in OnFigure(t) : g \in Findings
    BY <1>0, <1>1 DEF OnFigure
  <2>4. CASE d.resolution = "APPLIED"
    <3>1. Fresh(h)
      BY <1>1, <2>1, <2>4, <1>0, FindingsAssumption DEF Blurs, DeedsFresh
    <3>2. /\ finding[f].resolution = "OPEN" /\ finding'[f].resolution = "APPLIED"
          /\ finding'[f].from = figure[t] /\ figure'[t] = f
      BY <1>1, <2>4, <3>1, <1>0, FindingsAssumption DEF Fresh, Over
    <3>3. f \notin Applied(t) /\ Applied(t)' = Applied(t) \cup {f} /\ Stated # f
      BY <1>1, <2>3, <3>2, FindingsAssumption DEF Applied, OnFigure
    <3>4. \A g \in Applied(t) : finding'[g] = finding[g]
      BY <1>1, <3>3 DEF Applied, OnFigure
    <3> HIDE DEF d
    <3> QED BY <2>1, <3>2, <3>3, <3>4 DEF Chain
  <2>5. CASE d.resolution = "OPEN"
    <3>1. Fresh(h)
      BY <1>1, <2>1, <2>5, <1>0, FindingsAssumption DEF Blurs, DeedsFresh
    <3>2. finding'[f].resolution = "OPEN" /\ Applied(t)' = Applied(t) \ {f}
      BY <1>1, <2>3, <2>5, FindingsAssumption DEF Over, Applied, OnFigure
    <3>3. \A g \in Applied(t) \ {f} : finding'[g] = finding[g]
      BY <1>1 DEF Applied, OnFigure
    <3>4. CASE finding[f].resolution = "APPLIED"
      <4>1. f \in Applied(t) /\ figure[t] = f
        BY <2>1, <2>3, <2>5, <3>4, <1>0 DEF Blurs, Applied
      <4>2. finding[f].from # None
        <5>1. finding[f].from \in Applied(t) \cup {Stated}
          BY <2>1, <4>1 DEF Chain
        <5> QED BY <5>1, FindingsAssumption DEF Applied, OnFigure
      <4>3. figure'[t] = finding[f].from
        BY <1>1, <2>5, <3>1, <3>4, <4>2, <1>0 DEF Fresh
      <4> HIDE DEF d
      <4> QED BY <2>1, <3>2, <3>3, <4>1, <4>3 DEF Chain
    <3>5. CASE finding[f].resolution # "APPLIED"
      <4>1. figure'[t] = figure[t]
        BY <1>1, <2>5, <3>1, <3>5, <1>0 DEF Fresh
      <4>2. f \notin Applied(t)
        BY <3>5 DEF Applied
      <4> HIDE DEF d
      <4> QED BY <2>1, <3>2, <3>3, <4>1, <4>2 DEF Chain
    <3> QED BY <3>4, <3>5
  <2>6. CASE d.resolution \in {"OVERRIDDEN", "RATIFIED", Keep}
    <3>1. /\ figure'[t] = figure[t] /\ finding'[f].from = finding[f].from
      BY <1>1, <2>6 DEF DeedShape, Over
    <3>2. finding'[f].resolution = "APPLIED" <=> finding[f].resolution = "APPLIED"
      <4>1. CASE d.resolution = "OVERRIDDEN"
        BY <1>1, <2>1, <4>1, <1>0, FindingsAssumption DEF Blurs, Over
      <4>2. CASE d.resolution = "RATIFIED"
        <5>1. Fresh(h)
          BY <1>1, <2>1, <4>2, <1>0, FindingsAssumption DEF Blurs, DeedsFresh
        <5> QED BY <1>1, <4>2, <5>1, <1>0, FindingsAssumption DEF Fresh, Over
      <4>3. CASE d.resolution = Keep
        BY <1>1, <4>3 DEF Over
      <4> QED BY <2>6, <4>1, <4>2, <4>3
    <3>3. Applied(t)' = Applied(t)
      BY <1>1, <3>2 DEF Applied, OnFigure
    <3>4. \A g \in Applied(t) : finding'[g].from = finding[g].from
      BY <1>1, <3>1 DEF Applied, OnFigure
    <3> HIDE DEF d
    <3> QED BY <2>1, <3>1, <3>3, <3>4 DEF Chain
  <2> QED BY <2>2, <2>4, <2>5, <2>6 DEF Resolutions
<1> HIDE DEF d
<1> QED BY <1>3, <1>4 DEF Chained

-----------------------------------------------------------------------------
(* The passes.                                                             *)

LEMMA EvaluateKeeps ==
  ASSUME IInv, NEW p \in Passes, Evaluate(p)
  PROVE  IInv'
<1>1. PICK eligible \in SUBSET Evaluated, detected \in SUBSET Evaluated :
        \E found \in [detected -> Verdicts] :
          verdict' = [verdict EXCEPT ![p] =
                        [read |-> TRUE, detected |-> detected,
                         was  |-> [f \in Findings |-> finding[f].outcome],
                         now  |-> Reconcile(finding, found, eligible)]]
  BY DEF Evaluate
<1>2. PICK found \in [detected -> Verdicts] :
        verdict' = [verdict EXCEPT ![p] =
                      [read |-> TRUE, detected |-> detected,
                       was  |-> [f \in Findings |-> finding[f].outcome],
                       now  |-> Reconcile(finding, found, eligible)]]
  BY <1>1
<1>3. detected \subseteq Findings /\ eligible \subseteq Evaluated
  BY FindingsAssumption
<1>4. PICK now \in [Findings -> Outcomes] :
        /\ now = Reconcile(finding, found, eligible)
        /\ \A f \in detected : now[f] \in Verdicts
        /\ \A f \in Findings :
             now[f] = "NO_LONGER_APPLIES" /\ finding[f].outcome # "NO_LONGER_APPLIES"
               => f \in eligible /\ finding[f].resolution = "OPEN"
  <2> DEFINE n == Reconcile(finding, found, eligible)
  <2>1. FindingOK /\ detected \in SUBSET Findings
    BY <1>3 DEF IInv, TypeOK
  <2>2. /\ n \in [Findings -> Outcomes]
        /\ \A f \in detected : n[f] \in Verdicts
        /\ \A f \in Findings : n[f] = "NO_LONGER_APPLIES" /\ finding[f].outcome # "NO_LONGER_APPLIES"
                                => f \in eligible /\ finding[f].resolution = "OPEN"
    BY <2>1, ReconcileTypes
  <2> HIDE DEF n
  <2>3. \E now \in [Findings -> Outcomes] :
          /\ now = n
          /\ \A f \in detected : now[f] \in Verdicts
          /\ \A f \in Findings : now[f] = "NO_LONGER_APPLIES" /\ finding[f].outcome # "NO_LONGER_APPLIES"
                                  => f \in eligible /\ finding[f].resolution = "OPEN"
    BY <2>2
  <2> QED BY <2>3 DEF n
<1>5. PICK was \in [Findings -> Outcomes] :
        /\ was = [f \in Findings |-> finding[f].outcome]
        /\ \A f \in Findings : was[f] = finding[f].outcome
  <2>1. [f \in Findings |-> finding[f].outcome] \in [Findings -> Outcomes]
    BY DEF IInv, TypeOK, FindingOK
  <2>2. \A f \in Findings : [g \in Findings |-> finding[g].outcome][f] = finding[f].outcome
    OBVIOUS
  <2> QED BY <2>1, <2>2
<1>6. verdict' = [verdict EXCEPT ![p] = [read |-> TRUE, detected |-> detected, was |-> was, now |-> now]]
  BY <1>2, <1>4, <1>5
<1>7. VerdictOK'
  BY <1>3, <1>6 DEF IInv, TypeOK, VerdictOK
<1>8. TypeOK'
  BY <1>7 DEF Evaluate, IInv, TypeOK, FindingOK, DeedOK
<1>9. /\ verdict'[p] = [read |-> TRUE, detected |-> detected, was |-> was, now |-> now]
      /\ \A o \in Passes \ {p} : verdict'[o] = verdict[o]
  BY <1>6 DEF IInv, TypeOK, VerdictOK
<1>10. /\ UNCHANGED <<finding, figure, deed, stale, blurred>>
       /\ \A o \in Passes \ {p} : decided'[o] = decided[o] /\ (o \in contested' <=> o \in contested)
  BY DEF Evaluate, IInv, TypeOK
<1>11. PassKnows'
  BY <1>3, <1>4, <1>5, <1>9, <1>10 DEF IInv, PassKnows
<1>12. Chained' /\ DeedShape' /\ DeedsFresh'
  BY <1>10 DEF IInv, Chained, Chain, Applied, OnFigure, DeedShape, DeedsFresh, Fresh
<1> QED BY <1>8, <1>11, <1>12 DEF IInv

(* What a pass writes: outcomes, and only those it decided.                *)
LEMMA PublishWrites ==
  ASSUME TypeOK, NEW p \in Passes, Publish(p)
  PROVE  /\ \A f \in Findings :
              /\ finding'[f].outcome = IF f \in Changed(p) THEN verdict[p].now[f] ELSE finding[f].outcome
              /\ finding'[f].resolution = finding[f].resolution
              /\ finding'[f].from = finding[f].from
         /\ FindingOK'
<1> DEFINE row(f) == IF f \in Changed(p)
                       THEN [finding[f] EXCEPT !.outcome = verdict[p].now[f]] ELSE finding[f]
<1>1. finding' = [f \in Findings |-> row(f)]
  BY DEF Publish
<1>2. ASSUME NEW f \in Findings
      PROVE  /\ row(f).outcome = IF f \in Changed(p) THEN verdict[p].now[f] ELSE finding[f].outcome
             /\ row(f).resolution = finding[f].resolution /\ row(f).from = finding[f].from
             /\ row(f) \in [outcome : Outcomes, resolution : Resolutions,
                           from : Findings \cup {Stated, None}]
  <2>1. finding[f] \in [outcome : Outcomes, resolution : Resolutions,
                        from : Findings \cup {Stated, None}]
    BY DEF TypeOK, FindingOK
  <2>2. verdict[p].now[f] \in Outcomes
    BY DEF TypeOK, VerdictOK
  <2> QED BY <2>1, <2>2
<1> HIDE DEF row
<1> QED BY <1>1, <1>2 DEF FindingOK

LEMMA ForgetTypes ==
  ASSUME VerdictOK, NEW p \in Passes, verdict' = [verdict EXCEPT ![p] = NoVerdict]
  PROVE  VerdictOK' /\ ~verdict'[p].read /\ \A o \in Passes \ {p} : verdict'[o] = verdict[o]
<1>1. NoVerdict \in [read : BOOLEAN, detected : SUBSET Findings,
                     was : [Findings -> Outcomes], now : [Findings -> Outcomes]]
  BY DEF NoVerdict, Outcomes
<1> QED BY <1>1 DEF VerdictOK, NoVerdict

LEMMA PublishKeeps ==
  ASSUME IInv, NEW p \in Passes, Publish(p)
  PROVE  IInv'
<1>1. /\ \A f \in Findings : /\ finding'[f].resolution = finding[f].resolution
                             /\ finding'[f].from = finding[f].from
      /\ FindingOK'
  BY PublishWrites DEF IInv
<1>2. VerdictOK' /\ ~verdict'[p].read /\ \A o \in Passes \ {p} : verdict'[o] = verdict[o]
  BY ForgetTypes DEF Publish, IInv, TypeOK
<1>3. UNCHANGED <<figure, deed, stale, blurred>>
  BY DEF Publish
<1>4. TypeOK'
  BY <1>1, <1>2, <1>3 DEF Publish, IInv, TypeOK, DeedOK
<1>5. \A o \in Passes \ {p} : verdict[o].read => o \in contested' /\ decided'[o] = decided[o]
  BY DEF Publish, IInv, TypeOK
<1>6. PassKnows'
  BY <1>1, <1>2, <1>5 DEF IInv, PassKnows
<1>7. Chained'
  <2>1. \A t \in Figures : Applied(t)' = Applied(t)
    BY <1>1 DEF Applied, OnFigure
  <2>2. \A t \in Figures : \A f \in Applied(t) : finding'[f].from = finding[f].from
    BY <1>1 DEF Applied, OnFigure
  <2> QED BY <1>3, <2>1, <2>2 DEF IInv, Chained, Chain
<1>8. DeedShape' /\ DeedsFresh'
  BY <1>1, <1>3 DEF IInv, DeedShape, DeedsFresh, Fresh
<1> QED BY <1>4, <1>6, <1>7, <1>8 DEF IInv

LEMMA DiscardKeeps ==
  ASSUME IInv, NEW p \in Passes, Discard(p)
  PROVE  IInv'
<1>1. VerdictOK' /\ ~verdict'[p].read /\ \A o \in Passes \ {p} : verdict'[o] = verdict[o]
  BY ForgetTypes DEF Discard, IInv, TypeOK
<1>2. UNCHANGED <<finding, figure, deed, stale, blurred>>
  BY DEF Discard
<1>3. TypeOK'
  BY <1>1, <1>2 DEF Discard, IInv, TypeOK, FindingOK, DeedOK
<1>4. \A o \in Passes \ {p} : decided'[o] = decided[o] /\ (o \in contested' <=> o \in contested)
  BY DEF Discard, IInv, TypeOK
<1>5. PassKnows'
  BY <1>1, <1>2, <1>4 DEF IInv, PassKnows
<1>6. Chained' /\ DeedShape' /\ DeedsFresh'
  BY <1>2 DEF IInv, Chained, Chain, Applied, OnFigure, DeedShape, DeedsFresh, Fresh
<1> QED BY <1>3, <1>5, <1>6 DEF IInv

-----------------------------------------------------------------------------
(* The theorems.                                                           *)

LEMMA InitIInv == Init => IInv
<1> SUFFICES ASSUME Init PROVE IInv
  OBVIOUS
<1>1. \A f \in Findings : /\ finding[f].outcome \in Outcomes /\ finding[f].resolution = "OPEN"
                          /\ finding[f].from = None
  BY DEF Init, NoFinding, Outcomes, Verdicts
<1>2. FindingOK
  BY DEF Init, NoFinding, FindingOK, Outcomes, Verdicts, Resolutions
<1>3. VerdictOK /\ \A p \in Passes : ~verdict[p].read
  BY DEF Init, NoVerdict, VerdictOK, Outcomes
<1>4. DeedOK /\ \A h \in Processors : deed[h] = NoDeed
  BY DEF Init, NoDeed, DeedOK
<1>5. TypeOK
  BY <1>2, <1>3, <1>4 DEF Init, TypeOK
<1>6. Chained
  <2>1. \A t \in Figures : Applied(t) = {} /\ figure[t] = Stated
    BY <1>1 DEF Init, Applied, OnFigure
  <2> QED BY <2>1 DEF Chained, Chain
<1>7. PassKnows /\ DeedShape /\ DeedsFresh
  BY <1>3, <1>4 DEF PassKnows, DeedShape, DeedsFresh
<1> QED BY <1>5, <1>6, <1>7 DEF IInv

LEMMA NextIInv == IInv /\ [Next]_vars => IInv'
<1> SUFFICES ASSUME IInv, [Next]_vars PROVE IInv'
  OBVIOUS
<1>1. ASSUME NEW p \in Passes, Evaluate(p) \/ Publish(p) \/ Discard(p)
      PROVE  IInv'
  BY <1>1, EvaluateKeeps, PublishKeeps, DiscardKeeps
<1>2. ASSUME NEW h \in Processors, NEW f \in Findings,
             Apply(h, f) \/ Override(h, f) \/ Ratify(h, f) \/ Undo(h, f)
      PROVE  IInv'
  BY <1>2, ApplyKeeps, SignKeeps, UndoKeeps
<1>3. ASSUME NEW h \in Processors, Commit(h)
      PROVE  IInv'
  BY <1>3, CommitTypes, CommitKeepsPasses, CommitKeepsFresh, CommitKeepsChain DEF IInv
<1>4. ASSUME NEW h \in Processors, Abandon(h)
      PROVE  IInv'
  BY <1>4, AbandonKeeps
<1>5. CASE UNCHANGED vars
  <2>1. TypeOK' /\ PassKnows'
    BY <1>5 DEF vars, IInv, TypeOK, FindingOK, VerdictOK, DeedOK, PassKnows
  <2>2. Chained' /\ DeedShape' /\ DeedsFresh'
    BY <1>5 DEF vars, IInv, Chained, Chain, Applied, OnFigure, DeedShape, DeedsFresh, Fresh
  <2> QED BY <2>1, <2>2 DEF IInv
<1> QED BY <1>1, <1>2, <1>3, <1>4, <1>5 DEF Next, Resolve

(* The inductive invariant holds throughout.                               *)
THEOREM FindingsInvariant == Spec => []IInv
BY InitIInv, NextIInv, PTL DEF Spec

(* The variables keep their types.                                         *)
THEOREM FindingsTyped == Spec => []TypeOK
<1>1. IInv => TypeOK
  BY DEF IInv
<1> QED BY <1>1, FindingsInvariant, PTL

(* A figure holds what an APPLIED finding put there, or what was stated    *)
(* when none is APPLIED, however many findings correct it and however they *)
(* are applied, signed and undone, unless a record was lost or bypassed.   *)
THEOREM FiguresAreExplained == Spec => []FiguresExplained
<1>1. IInv => FiguresExplained
  BY DEF IInv, Chained, Chain, FiguresExplained
<1> QED BY <1>1, FindingsInvariant, PTL

(* A finding is retired only while nobody has resolved it, or by a pass    *)
(* that read it before somebody did.                                       *)
THEOREM DecisionsAreSpared == Spec => RetirementSparesDecisions
<1>1. IInv /\ [Next]_vars =>
        [\A p \in Passes, f \in Findings :
           /\ Publish(p) /\ f \notin decided[p]
           /\ finding[f].outcome # "NO_LONGER_APPLIES" /\ finding'[f].outcome = "NO_LONGER_APPLIES"
           => finding[f].resolution = "OPEN"]_vars
  <2> SUFFICES ASSUME IInv, NEW p \in Passes, NEW f \in Findings, Publish(p), f \notin decided[p],
                      finding[f].outcome # "NO_LONGER_APPLIES",
                      finding'[f].outcome = "NO_LONGER_APPLIES"
               PROVE  finding[f].resolution = "OPEN"
    OBVIOUS
  <2>1. f \in Changed(p) /\ verdict[p].now[f] = "NO_LONGER_APPLIES"
    BY PublishWrites DEF IInv
  <2> QED BY <2>1 DEF Publish, IInv, PassKnows, Changed
<1> QED BY <1>1, FindingsInvariant, PTL DEF Spec, RetirementSparesDecisions

(* A pass leaves what it detected standing, reviving what had been retired, *)
(* unless another pass published while it was going.                       *)
THEOREM DetectedStand == Spec => DetectedStands
<1>1. IInv /\ [Next]_vars =>
        [\A p \in Passes :
           Publish(p) /\ p \notin contested =>
             \A f \in verdict[p].detected : finding'[f].outcome \in Verdicts]_vars
  <2> SUFFICES ASSUME IInv, NEW p \in Passes, Publish(p), p \notin contested,
                      NEW f \in verdict[p].detected
               PROVE  finding'[f].outcome \in Verdicts
    OBVIOUS
  <2>1. f \in Findings
    BY DEF IInv, TypeOK, VerdictOK
  <2>2. verdict[p].now[f] \in Verdicts /\ verdict[p].was[f] = finding[f].outcome
    BY <2>1 DEF Publish, IInv, PassKnows
  <2>3. finding'[f].outcome = verdict[p].now[f]
    BY <2>1, <2>2, PublishWrites DEF IInv, Changed
  <2> QED BY <2>2, <2>3
<1> QED BY <1>1, FindingsInvariant, PTL DEF Spec, DetectedStands
=============================================================================
