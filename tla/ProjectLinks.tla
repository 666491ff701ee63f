---------------------------- MODULE ProjectLinks ----------------------------
(***************************************************************************)
(* What a contribution hangs on besides a position: the links to projects. *)
(* AssignContribution and UnassignContribution of handlers/project.go, the *)
(* cascading deletes of internal/project and internal/contribution, and    *)
(* the deferred trigger of migration 014 that keeps every contribution a   *)
(* home.                                                                   *)
(*                                                                         *)
(* A transaction's deletes and inserts are seen by others when it commits. *)
(* Until then the rows it touched are locked, the rows a new link refers   *)
(* to included; a deferred trigger looks at the tables before the commit.  *)
(***************************************************************************)
EXTENDS Naturals, FiniteSets

CONSTANTS
  Contribution,  \* contributions of the account
  Project,       \* its projects
  Housed,        \* the contributions that have a position
  SeededLinks,   \* the links there are at first
  Place,         \* where a link's row lies in the table
  Request,       \* requests in flight at once
  NoJob          \* what an idle request has to do

Link == Contribution \X Project

ASSUME LinksAssumption ==
  /\ Housed \subseteq Contribution
  /\ SeededLinks \subseteq Link
  /\ Place \in [Link -> Nat]
  /\ \A k, l \in Link : Place[k] = Place[l] => k = l
  /\ \A c \in Contribution \ Housed : \E p \in Project : <<c, p>> \in SeededLinks
  /\ Contribution \cap Project = {}
  /\ IsFiniteSet(Request)

Job == [op : {"assign", "unassign"}, c : Contribution, p : Project]
       \cup [op : {"delete_contribution"}, c : Contribution]
       \cup [op : {"delete_project"}, p : Project]

VARIABLES
  contributions,  \* contributions not deleted
  projects,       \* projects not deleted
  links,          \* project_contributions
  pc,             \* where each request stands
  job,            \* what it is doing
  todo,           \* links its DELETE has matched and not reached
  gone,           \* links its open transaction has deleted
  new,            \* links its open transaction has inserted
  since           \* history: who lost a link since its trigger ran

tables == <<contributions, projects, links>>
vars   == <<contributions, projects, links, pc, job, todo, gone, new, since>>

Init ==
  /\ contributions = Contribution /\ projects = Project /\ links = SeededLinks
  /\ pc    = [q \in Request |-> "idle"]
  /\ job   = [q \in Request |-> NoJob]
  /\ todo  = [q \in Request |-> {}]
  /\ gone  = [q \in Request |-> {}]
  /\ new   = [q \in Request |-> {}]
  /\ since = [q \in Request |-> {}]

\* The end of a request, rolling back what it has not committed.
Finish(q) ==
  /\ pc'    = [pc EXCEPT ![q] = "idle"]
  /\ job'   = [job EXCEPT ![q] = NoJob]
  /\ gone'  = [gone EXCEPT ![q] = {}]
  /\ new'   = [new EXCEPT ![q] = {}]

Quit(q) ==
  /\ Finish(q)
  /\ todo'  = [todo EXCEPT ![q] = {}]
  /\ since' = [since EXCEPT ![q] = {}]
  /\ UNCHANGED tables

-----------------------------------------------------------------------------
(* Each handler first verifies that what it is asked about exists.         *)

Begin(q, j) ==
  /\ pc[q] = "idle"
  /\ pc'  = [pc EXCEPT ![q] = "statement"]
  /\ job' = [job EXCEPT ![q] = j]
  /\ UNCHANGED <<tables, todo, gone, new, since>>

VerifyAssign(q, c, p) ==
  /\ c \in contributions /\ p \in projects
  /\ Begin(q, [op |-> "assign", c |-> c, p |-> p])

VerifyUnassign(q, c, p) ==
  /\ p \in projects
  /\ Begin(q, [op |-> "unassign", c |-> c, p |-> p])

VerifyContribution(q, c) ==
  c \in contributions /\ Begin(q, [op |-> "delete_contribution", c |-> c])

VerifyProject(q, p) ==
  p \in projects /\ Begin(q, [op |-> "delete_project", p |-> p])

-----------------------------------------------------------------------------
(* The statements, row by row where they lock rows.                        *)

\* The row a delete removes last, and that it then holds.
Owns(q, x) ==
  \/ job[q].op = "delete_contribution" /\ job[q].c = x
  \/ job[q].op = "delete_project" /\ job[q].p = x

Deleting(q, x) == pc[q] \in {"check", "commit"} /\ Owns(q, x)

\* Variant for a mutant: the contribution is left out of an unassign's WHERE.
MatchedByProject(j) ==
  CASE j.op = "delete_contribution" -> {l \in links : l[1] = j.c}
    [] OTHER                        -> {l \in links : l[2] = j.p}

Matched(j) ==
  CASE j.op = "unassign"            -> links \cap {<<j.c, j.p>>}
    [] j.op = "delete_contribution" -> {l \in links : l[1] = j.c}
    [] j.op = "delete_project"      -> {l \in links : l[2] = j.p}

\* A DELETE of links matches what is committed when it starts.
MatchLinks(q) ==
  /\ pc[q] = "statement" /\ job[q].op # "assign"
  /\ todo' = [todo EXCEPT ![q] = Matched(job[q])]
  /\ pc'   = [pc EXCEPT ![q] = "rows"]
  /\ UNCHANGED <<tables, job, gone, new, since>>

\* Variant for a mutant: no transaction, each DELETE commits on its own.
RemoveLinkAtOnce(q, l) ==
  /\ pc[q] = "rows" /\ l \in todo[q]
  /\ \A r \in Request \ {q} : l \notin gone[r]
  /\ links' = links \ {l}
  /\ todo'  = [r \in Request |-> todo[r] \ {l}]
  /\ UNCHANGED <<contributions, projects, pc, job, gone, new, since>>

\* Variant for a mutant: rows are reached in any order.
ReachesAny(q, l) == l \in todo[q]

\* Rows are reached in the order of the table.
Reaches(q, l) == l \in todo[q] /\ \A k \in todo[q] : Place[l] <= Place[k]

\* It waits for a transaction that has deleted the same row.
RemoveLink(q, l) ==
  /\ pc[q] = "rows" /\ Reaches(q, l)
  /\ \A r \in Request \ {q} : l \notin gone[r]
  /\ gone' = [gone EXCEPT ![q] = @ \cup {l}]
  /\ todo' = [todo EXCEPT ![q] = @ \ {l}]
  /\ UNCHANGED <<tables, pc, job, new, since>>

EndUnassign(q) ==
  /\ pc[q] = "rows" /\ todo[q] = {} /\ job[q].op = "unassign"
  /\ pc' = [pc EXCEPT ![q] = "check"]
  /\ UNCHANGED <<tables, job, todo, gone, new, since>>

\* DELETE of the contribution or project itself waits for new links to it and
\* for another delete of it.
BlocksOwner(r, q) ==
  \E x \in Contribution \cup Project : Owns(q, x) /\
    (Deleting(r, x) \/ \E l \in new[r] : l[1] = x \/ l[2] = x)

OwnerFree(q) == \A r \in Request \ {q} : ~ BlocksOwner(r, q)

\* Links its own DELETE did not match still refer to the row.
StillReferred(q) ==
  \E x \in Contribution \cup Project : Owns(q, x) /\
    \E l \in links \ gone[q] : l[1] = x \/ l[2] = x

DeleteOwner(q) ==
  /\ pc[q] = "rows" /\ todo[q] = {} /\ job[q].op # "unassign"
  /\ OwnerFree(q)
  /\ ~ StillReferred(q)
  /\ pc' = [pc EXCEPT ![q] = "check"]
  /\ UNCHANGED <<tables, job, todo, gone, new, since>>

DeleteOwnerFails(q) ==
  /\ pc[q] = "rows" /\ todo[q] = {} /\ job[q].op # "unassign"
  /\ OwnerFree(q)
  /\ StillReferred(q)
  /\ Quit(q)

\* INSERT ... ON CONFLICT DO NOTHING waits for a transaction that deletes or
\* inserts the same link, and for one that deletes what the link refers to.
BlocksLink(r, q) ==
  \/ <<job[q].c, job[q].p>> \in gone[r] \cup new[r]
  \/ Deleting(r, job[q].c) \/ Deleting(r, job[q].p)

LinkFree(q) == \A r \in Request \ {q} : ~ BlocksLink(r, q)

\* Variant for a mutant: the columns refer to nothing.
InsertUnreferenced(q) ==
  /\ pc[q] = "statement" /\ job[q].op = "assign"
  /\ \A r \in Request \ {q} : <<job[q].c, job[q].p>> \notin gone[r] \cup new[r]
  /\ new' = [new EXCEPT ![q] = {<<job[q].c, job[q].p>>} \ links]
  /\ pc'  = [pc EXCEPT ![q] = "commit"]
  /\ UNCHANGED <<tables, job, todo, gone, since>>

Insert(q) ==
  /\ pc[q] = "statement" /\ job[q].op = "assign"
  /\ LinkFree(q)
  /\ job[q].c \in contributions /\ job[q].p \in projects
  /\ new' = [new EXCEPT ![q] = {<<job[q].c, job[q].p>>} \ links]
  /\ pc'  = [pc EXCEPT ![q] = "commit"]
  /\ UNCHANGED <<tables, job, todo, gone, since>>

\* Variant for a mutant: the insert is tried again, without a new look.
InsertRetries(q) ==
  /\ pc[q] = "statement" /\ job[q].op = "assign"
  /\ LinkFree(q)
  /\ job[q].c \notin contributions \/ job[q].p \notin projects
  /\ UNCHANGED vars

\* What it refers to was deleted after it was verified.
InsertFails(q) ==
  /\ pc[q] = "statement" /\ job[q].op = "assign"
  /\ LinkFree(q)
  /\ job[q].c \notin contributions \/ job[q].p \notin projects
  /\ Quit(q)

-----------------------------------------------------------------------------
(* contribution_requires_a_home(), deferred, and the commit after it.      *)

\* Variant for a mutant: the trigger fires on the contributions table only.
SeesHomeOnInsertOnly(q, c) == TRUE

\* What the trigger sees of c: q's own changes and those committed so far.
SeesHome(q, c) ==
  \/ c \notin contributions \/ Owns(q, c)
  \/ c \in Housed
  \/ \E l \in links \ gone[q] : l[1] = c

Check(q) ==
  /\ pc[q] = "check"
  /\ \A l \in gone[q] : SeesHome(q, l[1])
  /\ pc' = [pc EXCEPT ![q] = "commit"]
  /\ UNCHANGED <<tables, job, todo, gone, new, since>>

CheckFails(q) ==
  /\ pc[q] = "check"
  /\ \E l \in gone[q] : ~ SeesHome(q, l[1])
  /\ Quit(q)

\* What is visible once q has committed; and the others learn of it.
Publish(q) ==
  /\ links' = (links \ gone[q]) \cup new[q]
  /\ contributions' = {c \in contributions : ~ Owns(q, c)}
  /\ projects' = {p \in projects : ~ Owns(q, p)}
  /\ since' = [r \in Request |->
                 IF r # q /\ pc[r] = "commit"
                 THEN since[r] \cup {l[1] : l \in gone[q]} ELSE {}]

\* Variant for a mutant: a DELETE under way still reaches rows that are gone.
CommitUnseen(q) ==
  /\ pc[q] = "commit"
  /\ Publish(q)
  /\ Finish(q)
  /\ todo' = [todo EXCEPT ![q] = {}]

\* A row another DELETE has matched is skipped when it is gone by then.
Commit(q) ==
  /\ pc[q] = "commit"
  /\ Publish(q)
  /\ Finish(q)
  /\ todo' = [r \in Request |-> IF r = q THEN {} ELSE todo[r] \ gone[q]]

\* The client goes away or the server dies before the commit.
Abort(q) == pc[q] # "idle" /\ Quit(q)

-----------------------------------------------------------------------------

Step(q) ==
  \/ MatchLinks(q) \/ (\E l \in Link : RemoveLink(q, l)) \/ EndUnassign(q)
  \/ DeleteOwner(q) \/ DeleteOwnerFails(q)
  \/ Insert(q) \/ InsertFails(q)
  \/ Check(q) \/ CheckFails(q) \/ Commit(q)

Start(q) ==
  \/ \E c \in Contribution, p \in Project : VerifyAssign(q, c, p) \/ VerifyUnassign(q, c, p)
  \/ \E c \in Contribution : VerifyContribution(q, c)
  \/ \E p \in Project : VerifyProject(q, p)

Next == \E q \in Request : Start(q) \/ Step(q) \/ Abort(q)

Spec == Init /\ [][Next]_vars

\* Strong, because waiters of a lock are served in order; and no help from the
\* detection of deadlocks.
FairSpec == Spec /\ \A q \in Request : SF_vars(Step(q))

-----------------------------------------------------------------------------

\* Besides the types: a transaction works on rows there are.
TypeOK ==
  /\ contributions \subseteq Contribution /\ projects \subseteq Project
  /\ links \subseteq Link
  /\ pc   \in [Request -> {"idle", "statement", "rows", "check", "commit"}]
  /\ job  \in [Request -> Job \cup {NoJob}]
  /\ todo \in [Request -> SUBSET links]
  /\ gone \in [Request -> SUBSET links]
  /\ new  \in [Request -> SUBSET (Link \ links)]
  /\ since \in [Request -> SUBSET Contribution]

\* No link outlives its project or its contribution, though links are assigned
\* while deletes that did not match them are under way.
LinksHaveEnds ==
  \A l \in links : l[1] \in contributions /\ l[2] \in projects

\* A cascading delete is seen whole or not at all: a link goes with its project
\* or contribution, or because somebody unassigned it.
DeletesAreWhole ==
  [][\A l \in links \ links' :
       \/ l[1] \notin contributions' \/ l[2] \notin projects'
       \/ \E q \in Request : pc[q] = "commit" /\ job[q].op = "unassign"
                             /\ <<job[q].c, job[q].p>> = l]_vars

\* A commit leaves a contribution without a home only if the trigger was
\* outrun: another transaction took a link of it after the trigger had looked.
OnlyOutrun ==
  [][\A q \in Request, c \in contributions' \ Housed :
       pc[q] = "commit" /\ (\E l \in gone[q] : l[1] = c /\ l \notin links')
         => (\E l \in links' : l[1] = c) \/ c \in since[q]]_vars

\* q can go no further before r has ended.
WaitsFor(q, r) ==
  \/ pc[q] = "rows" /\ \E l \in gone[r] : Reaches(q, l)
  \/ pc[q] = "rows" /\ todo[q] = {} /\ job[q].op # "unassign" /\ BlocksOwner(r, q)
  \/ pc[q] = "statement" /\ job[q].op = "assign" /\ BlocksLink(r, q)

\* No requests wait for each other in a circle, although cascading deletes come
\* to a link from both of its ends: of any that are under way, one waits for none
\* of the others.
NoDeadlock ==
  \A S \in (SUBSET Request) \ {{}} : \E q \in S : \A r \in S \ {q} : ~ WaitsFor(q, r)

\* Every request ends without anybody breaking a cycle of waits: links are
\* always locked before what they refer to.
RequestsEnd == \A q \in Request : pc[q] # "idle" ~> pc[q] = "idle"

\* What the screens show of the links: whatever the locks and the rows of several
\* statements, each request is one operation on them, or none.
Table == INSTANCE CareerLinks
TableSpec == Table!Spec

\* "What a contribution may not be is homeless" (migration 014).
NoneHomeless ==
  \A c \in contributions \ Housed : \E l \in links : l[1] = c

=============================================================================
