---------------------------- MODULE RuleFindings ----------------------------
(***************************************************************************)
(* The findings of one loan file: the rule-engine passes that mint, carry  *)
(* forward, revive and retire them, and the processors who apply,          *)
(* override, ratify and undo them.  Applying a finding writes a figure of  *)
(* the loan file and records what it held before; undoing it puts that     *)
(* back.                                                                   *)
(*                                                                         *)
(* A pass reads the prior findings and publishes its verdicts later; a     *)
(* request reads its finding and commits later; nobody locks a row for     *)
(* longer than its commit.  Both write the columns that differ from what   *)
(* they read.  Passes overlap as VerificationRuns says, here at any time.  *)
(***************************************************************************)
EXTENDS Naturals, FiniteSets

CONSTANTS
  Findings,     \* findings by identity: a rule and its subject
  Evaluated,    \* those of the rules the passes evaluate; others are left
                \* from rules that were active once
  Judged,       \* those an AI judgment made, which can be ratified
  Figures,      \* the figures of the loan file that findings correct
  Figure,       \* [Findings -> Figures]; an added liability is one of its own
  Passes,       \* rule-engine passes
  Processors,   \* requests of processors
  Stated,       \* a figure as the application states it
  None,
  MaxAtOnce,    \* bound on the passes and requests under way at once
  Keep          \* in place of a column that a request does not write

ASSUME FindingsAssumption ==
  /\ Evaluated \subseteq Findings /\ Judged \subseteq Findings
  /\ Figure \in [Findings -> Figures]
  /\ {Stated, None, Keep} \cap Findings = {}
  /\ Stated # None /\ Keep \notin {Stated, None, "OPEN", "APPLIED", "OVERRIDDEN", "RATIFIED"}

VARIABLES
  finding,    \* the findings rows
  figure,     \* what each figure holds: Stated, or what a finding put there
  verdict,    \* what each pass read and decided, until it publishes
  deed,       \* what each request read and is about to commit
  stale,      \* history: requests whose finding or figure was written since
  contested,  \* history: passes since whose reading another one published
  decided,    \* history: evaluated findings resolved or reopened since a
              \* pass read
  blurred     \* history: figures whose record was lost or bypassed

vars == <<finding, figure, verdict, deed, stale, contested, decided, blurred>>

(* OPEN stands for NEEDS_REVIEW too, which can be applied as well, and     *)
(* SATISFIED for COULDNT_CHECK, which cannot.                              *)
Verdicts    == {"OPEN", "SATISFIED"}
Outcomes    == Verdicts \cup {"NONE", "NO_LONGER_APPLIES"}
Resolutions == {"OPEN", "APPLIED", "OVERRIDDEN", "RATIFIED"}

NoFinding == [outcome |-> "NONE", resolution |-> "OPEN", from |-> None]
NoVerdict == [read |-> FALSE, detected |-> {}, was |-> [f \in Findings |-> "NONE"],
              now |-> [f \in Findings |-> "NONE"]]
NoDeed    == [f |-> None, resolution |-> Keep, from |-> Keep, put |-> Keep]

Minted == {f \in Findings : finding[f].outcome # "NONE"}

UnderWay == Cardinality({p \in Passes : verdict[p].read})
              + Cardinality({h \in Processors : deed[h] # NoDeed})

OnFigure(t) == {f \in Findings : Figure[f] = t}

-----------------------------------------------------------------------------
(* The passes.                                                             *)

\* Mutant: what a processor has resolved is retired too.
ReconcileAll(rows, found, eligible) ==
  [f \in Findings |->
     IF f \in DOMAIN found THEN found[f]
     ELSE IF rows[f].outcome # "NONE" /\ f \in eligible
       THEN "NO_LONGER_APPLIES"
     ELSE rows[f].outcome]

\* Mutant: a retired finding stays retired.
ReconcileUnrevived(rows, found, eligible) ==
  [f \in Findings |->
     IF f \in DOMAIN found /\ rows[f].outcome # "NO_LONGER_APPLIES" THEN found[f]
     ELSE IF rows[f].outcome # "NONE" /\ f \in eligible /\ rows[f].resolution = "OPEN"
       THEN "NO_LONGER_APPLIES"
     ELSE rows[f].outcome]

(* reconcile_evaluation_findings: what was found is minted, carried        *)
(* forward or revived; what was not, and could have been, is retired       *)
(* unless a processor has resolved it.                                     *)
Reconcile(rows, found, eligible) ==
  [f \in Findings |->
     IF f \in DOMAIN found THEN found[f]
     ELSE IF rows[f].outcome # "NONE" /\ f \in eligible /\ rows[f].resolution = "OPEN"
       THEN "NO_LONGER_APPLIES"
     ELSE rows[f].outcome]

(* A pass has its verdicts; eligible are the findings of the rules whose   *)
(* subjects it could enumerate.                                            *)
Evaluate(p) ==
  /\ ~verdict[p].read /\ UnderWay < MaxAtOnce
  /\ \E eligible, detected \in SUBSET Evaluated : \E found \in [detected -> Verdicts] :
       verdict' = [verdict EXCEPT ![p] =
                     [read |-> TRUE, detected |-> detected,
                      was  |-> [f \in Findings |-> finding[f].outcome],
                      now  |-> Reconcile(finding, found, eligible)]]
  /\ contested' = contested \ {p}
  /\ decided' = [decided EXCEPT ![p] = {}]
  /\ UNCHANGED <<finding, figure, deed, stale, blurred>>

Changed(p) == {f \in Findings : verdict[p].now[f] # verdict[p].was[f]}

(* The partial unique index over (loan_file_id, rule_id, subject_key).     *)
Collides(p) == \E f \in Minted : verdict[p].was[f] = "NONE" /\ verdict[p].now[f] # "NONE"

(* The pass commits.                                                       *)
Publish(p) ==
  /\ verdict[p].read /\ ~Collides(p)
  /\ finding' = [f \in Findings |->
                   IF f \in Changed(p)
                     THEN [finding[f] EXCEPT !.outcome = verdict[p].now[f]] ELSE finding[f]]
  /\ verdict' = [verdict EXCEPT ![p] = NoVerdict]
  /\ contested' = (contested \cup {o \in Passes : verdict[o].read}) \ {p}
  /\ decided' = [decided EXCEPT ![p] = {}]
  /\ UNCHANGED <<figure, deed, stale, blurred>>

(* The pass fails, is killed, or collides: all of it is rolled back.       *)
Discard(p) ==
  /\ verdict[p].read
  /\ verdict' = [verdict EXCEPT ![p] = NoVerdict]
  /\ contested' = contested \ {p}
  /\ decided' = [decided EXCEPT ![p] = {}]
  /\ UNCHANGED <<finding, figure, deed, stale, blurred>>

-----------------------------------------------------------------------------
(* The processors.                                                         *)

(* An attribute set to the value it had is not written.                    *)
Write(old, new) == IF new = old THEN Keep ELSE new

\* Mutant: a column that is not written is blanked.
OverAll(old, new) == new

Over(old, new) == IF new = Keep THEN old ELSE new

Ask(h, f, resolution, from, put) ==
  /\ deed[h] = NoDeed /\ UnderWay < MaxAtOnce
  /\ f \in Minted
  /\ deed' = [deed EXCEPT ![h] =
                [f |-> f, resolution |-> Write(finding[f].resolution, resolution),
                 from |-> Write(finding[f].from, from), put |-> Write(figure[Figure[f]], put)]]
  /\ stale' = stale \ {h}
  /\ UNCHANGED <<finding, figure, verdict, contested, decided, blurred>>

\* Mutant: a finding can be applied again (before LP-564).
ApplyAgain(h, f) ==
  /\ finding[f].outcome = "OPEN"
  /\ Ask(h, f, "APPLIED", figure[Figure[f]], f)

(* apply_finding: what has fired and nobody has resolved.  One whose       *)
(* change cannot be made is refused.                                       *)
Apply(h, f) ==
  /\ finding[f].outcome = "OPEN" /\ finding[f].resolution = "OPEN"
  /\ Ask(h, f, "APPLIED", figure[Figure[f]], f)

(* override_finding, and accept_risk_finding, which differs in the         *)
(* resolution recorded: whatever the finding's resolution is.              *)
Override(h, f) == Ask(h, f, "OVERRIDDEN", finding[f].from, figure[Figure[f]])

Ratify(h, f) ==
  /\ f \in Judged /\ finding[f].resolution = "OPEN"
  /\ Ask(h, f, "RATIFIED", finding[f].from, figure[Figure[f]])

\* Mutant: the change is not reversed.
UndoResolutionOnly(h, f) ==
  /\ finding[f].resolution # "OPEN"
  /\ Ask(h, f, "OPEN", None, figure[Figure[f]])

(* undo_finding: only of an APPLIED one is the figure put back.            *)
Undo(h, f) ==
  /\ finding[f].resolution # "OPEN"
  /\ Ask(h, f, "OPEN", None,
         IF finding[f].resolution = "APPLIED" /\ finding[f].from # None
           THEN finding[f].from ELSE figure[Figure[f]])

(* What makes a figure's history unreadable: a second writer who had not   *)
(* seen the first, a record buried under another resolution, or an undo    *)
(* of what is no longer the last correction.                               *)
Blurs(h) ==
  LET d == deed[h] IN
  \/ h \in stale /\ d.resolution \notin {"OVERRIDDEN", Keep}
  \/ d.resolution = "OVERRIDDEN" /\ finding[d.f].resolution = "APPLIED"
  \/ d.resolution = "OPEN" /\ finding[d.f].resolution = "APPLIED" /\ figure[Figure[d.f]] # d.f

(* The request's commit.                                                   *)
Commit(h) ==
  LET d == deed[h]
      t == Figure[d.f]
  IN
  /\ d # NoDeed
  /\ finding' = [finding EXCEPT ![d.f].resolution = Over(@, d.resolution),
                                ![d.f].from = Over(@, d.from)]
  /\ figure' = [figure EXCEPT ![t] = Over(@, d.put)]
  /\ blurred' = IF Blurs(h) THEN blurred \cup {t} ELSE blurred
  /\ deed' = [deed EXCEPT ![h] = NoDeed]
  /\ stale' = (stale \cup {o \in Processors :
                        \/ d.resolution # Keep /\ deed[o].f = d.f
                        \/ d.put # Keep /\ deed[o].f \in OnFigure(t)}) \ {h}
  /\ decided' = [p \in Passes |-> IF verdict[p].read
                                  THEN decided[p] \cup ({d.f} \cap Evaluated) ELSE decided[p]]
  /\ UNCHANGED <<verdict, contested>>

(* The request fails before it commits.                                    *)
Abandon(h) ==
  /\ deed[h] # NoDeed
  /\ deed' = [deed EXCEPT ![h] = NoDeed]
  /\ stale' = stale \ {h}
  /\ UNCHANGED <<finding, figure, verdict, contested, decided, blurred>>

-----------------------------------------------------------------------------

Init ==
  /\ finding = [f \in Findings |->
                  IF f \in Evaluated THEN NoFinding ELSE [NoFinding EXCEPT !.outcome = "OPEN"]]
  /\ figure = [t \in Figures |-> Stated]
  /\ verdict = [p \in Passes |-> NoVerdict]
  /\ deed = [h \in Processors |-> NoDeed]
  /\ stale = {}
  /\ contested = {}
  /\ decided = [p \in Passes |-> {}]
  /\ blurred = {}

Resolve(h) ==
  \/ \E f \in Findings : Apply(h, f) \/ Override(h, f) \/ Ratify(h, f) \/ Undo(h, f)
  \/ Commit(h) \/ Abandon(h)

Next ==
  \/ \E p \in Passes : Evaluate(p) \/ Publish(p) \/ Discard(p)
  \/ \E h \in Processors : Resolve(h)

Spec == Init /\ [][Next]_vars

-----------------------------------------------------------------------------
(* Safety.                                                                 *)

(* The type invariant.                                                     *)
FindingOK == finding \in [Findings -> [outcome : Outcomes, resolution : Resolutions,
                                      from : Findings \cup {Stated, None}]]
VerdictOK == verdict \in [Passes -> [read : BOOLEAN, detected : SUBSET Findings,
                                    was : [Findings -> Outcomes], now : [Findings -> Outcomes]]]
DeedOK    == deed \in [Processors -> [f : Findings \cup {None}, resolution : Resolutions \cup {Keep},
                                     from : Findings \cup {Stated, None, Keep},
                                     put : Findings \cup {Stated, Keep}]]
TypeOK ==
  /\ FindingOK /\ VerdictOK /\ DeedOK
  /\ figure \in [Figures -> Findings \cup {Stated}]
  /\ stale \subseteq Processors /\ contested \subseteq Passes
  /\ decided \in [Passes -> SUBSET Findings]
  /\ blurred \subseteq Figures

(* "The EXACT inverse": however corrections of one figure are applied,     *)
(* undone, overridden and applied again, the figure holds what an APPLIED  *)
(* finding put there, or what was stated when none is, unless a record was *)
(* lost or bypassed.                                                       *)
Applied(t) == {f \in OnFigure(t) : finding[f].resolution = "APPLIED"}
FiguresExplained ==
  \A t \in Figures \ blurred :
    /\ figure[t] \in Applied(t) \cup {Stated}
    /\ Applied(t) = {} => figure[t] = Stated

(* "A completed human action -> RETAIN": a finding that stops applying is  *)
(* one nobody has resolved, unless somebody did while the pass was going.  *)
RetirementSparesDecisions ==
  [][\A p \in Passes, f \in Findings :
       /\ Publish(p) /\ f \notin decided[p]
       /\ finding[f].outcome # "NO_LONGER_APPLIES" /\ finding'[f].outcome = "NO_LONGER_APPLIES"
       => finding[f].resolution = "OPEN"]_vars

(* A finding a pass detected is not left among those that no longer apply: *)
(* "a subject that reappears matches its retired finding and REVIVES the   *)
(* same row", unless another pass published while this one was going.      *)
DetectedStands ==
  [][\A p \in Passes :
       Publish(p) /\ p \notin contested =>
         \A f \in verdict[p].detected : finding'[f].outcome \in Verdicts]_vars
=============================================================================
