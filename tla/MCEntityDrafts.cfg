\* Two requests of one account at once.
CONSTANTS
  NumDrafts = 3
  KindOf <- KindsOf
  DependsOn <- Depends
  InitialPayload <- Staged
  Edits <- SomeEdits
  HandMade <- NothingByHand
  MaxByHand = 0
  MaxDeletes = 1
  MaxRows = 6
  Key = {"acme", "staff", "engineer", "go"}
  Request = {q1, q2}
  Overlapping = TRUE
  NoPayload = NoPayload
SYMMETRY Symmetry
SPECIFICATION Spec
INVARIANTS ApprovedHasRow RowHasApprovedDraft ParentsApprovedFirst RowsHaveParents NothingLeftBehind
PROPERTIES ApprovalIsFinal ReviewUnlessOverrun
