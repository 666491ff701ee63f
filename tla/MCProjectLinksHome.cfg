\* Two requests at once: does every contribution keep a home?
CONSTANTS
  Contribution = {"side", "job"}
  Project = {"p1", "p2"}
  Housed = {"job"}
  SeededLinks <- Seeds
  Place <- Rows
  Request = {q1, q2}
  NoJob = NoJob
SPECIFICATION Spec
INVARIANTS NoneHomeless
