SPECIFICATION Spec
CONSTANTS
  Needs = {1, 2}
  Docs = {1, 2}
  Types = {w2}
  SimplePresence = {}
  Borrowers = {}
  Fits <- OwnType
  FloorAsks <- FloorOfFile
  None = None
  Passes = {p1, p2}
  Requests = {q1}
SYMMETRY Symmetry
INVARIANTS
  TypeOK
  SerialUnlessUnlocked
  SupersededAnswersNothingOld
PROPERTIES
  AnswerLostOnlyToARace
  WaiverStands
  ManualNeedsStand
  RequirementsSurvivePasses
  RematchCatchesUp
  RematchConsumesOnce
