\* One import, nothing edited: are preferences checked against each other?
CONSTANTS
  Batch = {b1}
  Extractions <- Readings
  Word <- Words
  LongWord <- LongWords
  AtFirst <- Had
  Edits <- Toggled
  CrowdedLimit = 2
  MaxEdits = 0
SPECIFICATION Spec
INVARIANT AlongsideSeen
CHECK_DEADLOCK FALSE
