SPECIFICATION Spec
CONSTANTS
  Needs = {1}
  Docs = {1}
  Types = {w2}
  SimplePresence = {}
  Borrowers = {}
  Fits <- OwnType
  FloorAsks <- FloorOfFile
  None = None
  Passes = {p1, p2}
  Requests = {q1}
PROPERTIES
  NoNeedOpenBesideItsDocument
