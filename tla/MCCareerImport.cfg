\* Two imports at once while the pages edit the account once.
CONSTANTS
  Batch = {b1, b2}
  Extractions <- Readings
  Word <- Words
  LongWord <- LongWords
  AtFirst <- Had
  Edits <- Toggled
  CrowdedLimit = 2
  MaxEdits = 1
SPECIFICATION Spec
INVARIANTS StagedWhole FlagsTell
PROPERTY ImportSettles
CHECK_DEADLOCK FALSE
