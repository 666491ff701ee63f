\* Two requests at once: is a draft decided once?
CONSTANTS
  NumDrafts = 3
  KindOf <- KindsOf
  DependsOn <- Depends
  InitialPayload <- Staged
  Edits <- SomeEdits
  HandMade <- NothingByHand
  MaxByHand = 0
  MaxDeletes = 1
  MaxRows = 6
  Key = {"acme", "staff", "engineer", "go"}
  Request = {q1, q2}
  Overlapping = TRUE
  NoPayload = NoPayload
SPECIFICATION Spec
PROPERTIES DecidedOnce
