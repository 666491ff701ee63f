\* Two requests at once, nothing edited or deleted, and a skill added by hand
\* between them: does each one end?
CONSTANTS
  NumDrafts = 3
  KindOf <- KindsOf
  DependsOn <- Depends
  InitialPayload <- Staged
  Edits <- NoEdits
  HandMade <- AddedByHand
  MaxByHand = 1
  MaxDeletes = 0
  MaxRows = 6
  Key = {"acme", "staff", "engineer", "go"}
  Request = {q1, q2}
  Overlapping = FALSE
  NoPayload = NoPayload
SPECIFICATION FairSpec
PROPERTIES RequestsEnd
