--------------------------- MODULE MCRuleFindings ---------------------------
(***************************************************************************)
(* Small instances of RuleFindings for TLC.                                *)
(***************************************************************************)
EXTENDS RuleFindings, TLC

CONSTANT t1

(* All the findings correct one figure.                                    *)
MCFigure == [f \in Findings |-> t1]

Symmetry == Permutations(Passes) \cup Permutations(Processors)
=============================================================================
