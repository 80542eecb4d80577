SPECIFICATION Spec
CONSTANTS
  Findings = {f1, f2}
  Evaluated = {f1}
  Judged = {f1}
  t1 = t1
  Figures = {t1}
  Figure <- MCFigure
  Passes = {p1, p2}
  Processors = {h1, h2}
  Stated = Stated
  None = None
  Keep = Keep
  MaxAtOnce = 2
SYMMETRY Symmetry
INVARIANTS
  TypeOK
  FiguresExplained
PROPERTIES
  RetirementSparesDecisions
  DetectedStands
