\* At most two of: a question asked again, another round, a fault, an edit.
CONSTANTS
  before = before
  after = after
  wide = wide
  Company = {acme}
  Title = {lead}
  DateAnswer = {before, after, wide}
  Earliest <- FirstMonth
  Latest <- LastMonth
  Proposals <- Readings
  TagNames <- Listing
  Fold <- Lower
  Silent = Silent
  Sentence = Sentence
  Placeholder = Placeholder
  Still = Still
  Yes = Yes
  No = No
  Done = Done
  Depth = Depth
  None = None
  MaxExtra = 2
SPECIFICATION Spec
INVARIANTS RowsAsTold WrittenOnce ClaimsAreEvidenced
CHECK_DEADLOCK FALSE
PROPERTY InterviewFinishes
