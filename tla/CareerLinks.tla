----------------------------- MODULE CareerLinks -----------------------------
(***************************************************************************)
(* Projects, contributions and the links between them, as their owner sees *)
(* them: each operation happens at once, and a project or a contribution   *)
(* goes with all its links.  ProjectLinks implements it with transactions  *)
(* that lock row by row.                                                   *)
(***************************************************************************)
CONSTANTS
  Contribution,  \* contributions of the account
  Project,       \* its projects
  SeededLinks    \* the links there are at first

VARIABLES
  contributions,  \* contributions not deleted
  projects,       \* projects not deleted
  links           \* pairs of a contribution and a project it is assigned to

vars == <<contributions, projects, links>>

Init ==
  /\ contributions = Contribution
  /\ projects = Project
  /\ links = SeededLinks

\* Only what exists can be linked.
Assign(c, p) ==
  /\ c \in contributions /\ p \in projects
  /\ links' = links \cup {<<c, p>>}
  /\ UNCHANGED <<contributions, projects>>

Unassign(c, p) ==
  /\ links' = links \ {<<c, p>>}
  /\ UNCHANGED <<contributions, projects>>

DeleteContribution(c) ==
  /\ contributions' = contributions \ {c}
  /\ links' = {l \in links : l[1] # c}
  /\ UNCHANGED projects

DeleteProject(p) ==
  /\ projects' = projects \ {p}
  /\ links' = {l \in links : l[2] # p}
  /\ UNCHANGED contributions

Next ==
  \/ \E c \in Contribution, p \in Project : Assign(c, p) \/ Unassign(c, p)
  \/ \E c \in Contribution : DeleteContribution(c)
  \/ \E p \in Project : DeleteProject(p)

Spec == Init /\ [][Next]_vars

=============================================================================
