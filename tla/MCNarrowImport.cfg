\* An import of up to two entries, reviewed by two requests at once.
CONSTANTS
  Entry = {"e1", "e2"}
  Extracted <- ExtractedTwo
  Text = {"led"}
  Blank = Blank
  Edits <- OneEdit
  Position = {p1}
  Tag = {t1}
  Request = {q1, q2}
  Nothing = Nothing
  MaxContributions = 2
SPECIFICATION FairSpec
INVARIANTS DraftsAllOrNone ApprovedWasWritten ReferencesExist ContributionsComplete
PROPERTIES ReviewIsQuiet EditsSurviveEnrichment ImportSettles
CHECK_DEADLOCK FALSE
