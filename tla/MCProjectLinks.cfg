\* Two requests on two contributions and two projects. When all are
\* deleted no request has anything left to do, and the run may stop.
CONSTANTS
  Contribution = {"side", "job"}
  Project = {"p1", "p2"}
  Housed = {"job"}
  SeededLinks <- Seeds
  Place <- Rows
  Request = {q1, q2}
  NoJob = NoJob
SPECIFICATION FairSpec
INVARIANTS TypeOK LinksHaveEnds NoDeadlock
PROPERTIES DeletesAreWhole OnlyOutrun TableSpec RequestsEnd
CHECK_DEADLOCK FALSE
