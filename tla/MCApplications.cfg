\* Two requests read while the screens make one edit.
CONSTANTS
  acme = acme
  engineer = engineer
  lead = lead
  built = built
  ran = ran
  site = site
  java = java
  javaEE = javaEE
  remote = remote
  Employer = {acme}
  Position = {engineer, lead}
  Contribution = {built, ran}
  Project = {site}
  Skill = {java, javaEE}
  Preference = {remote}
  Under <- Hangs
  Text = {t1, t2}
  Nothing = Nothing
  Phrase <- Phrases
  NamedIn <- Names
  ClaimOrder <- Order
  Bodies <- Answers
  Careers <- AtFirst
  Request = {r1, r2}
  MaxEdits = 1
  MaxVersions = 2
SYMMETRY Symmetry
SPECIFICATION Spec
INVARIANTS WorksFromTheCareer NumberedInOrder BulletsBackedBySkills
CHECK_DEADLOCK FALSE
