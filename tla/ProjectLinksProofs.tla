------------------------- MODULE ProjectLinksProofs -------------------------
(***************************************************************************)
(* Proofs about ProjectLinks, for any contributions, projects and seeded   *)
(* links and any number of requests at once.                               *)
(*                                                                         *)
(* What keeps the tables sound is what open transactions hold: no two have *)
(* deleted or inserted the same link (Apart), and while one has deleted a  *)
(* project or a contribution no link refers to it or is about to (Held).   *)
(***************************************************************************)
EXTENDS ProjectLinks, FiniteSetTheorems, WellFoundedInduction, TLAPS

\* What a request has matched or deleted is what its job is about.
OfJob(q, l) ==
  \/ job[q].op = "unassign" /\ l = <<job[q].c, job[q].p>>
  \/ job[q].op = "delete_contribution" /\ l[1] = job[q].c
  \/ job[q].op = "delete_project" /\ l[2] = job[q].p

\* What a request holds at each stage.
Staged(q) ==
  /\ pc[q] # "idle" => job[q] \in Job
  /\ pc[q] \in {"rows", "check"} => job[q].op # "assign"
  /\ pc[q] # "rows" => todo[q] = {}
  /\ pc[q] \in {"idle", "statement"} => gone[q] = {}
  /\ new[q] # {} => pc[q] = "commit" /\ job[q].op = "assign"
  /\ \A l \in new[q] : l = <<job[q].c, job[q].p>>
  /\ \A l \in todo[q] \cup gone[q] : OfJob(q, l)

Apart ==
  \A q, r \in Request : q # r => gone[q] \cap gone[r] = {} /\ new[q] \cap new[r] = {}

Ends ==
  \A q \in Request : \A l \in new[q] : l[1] \in contributions /\ l[2] \in projects

Held ==
  \A q \in Request, x \in Contribution \cup Project : Deleting(q, x) =>
    /\ \A l \in links \ gone[q] : l[1] # x /\ l[2] # x
    /\ \A r \in Request : \A l \in new[r] : l[1] # x /\ l[2] # x

\* A transaction whose trigger has run has homes for what it unlinked, unless
\* another took one since.
Seen ==
  \A q \in Request : pc[q] = "commit" =>
    \A l \in gone[q] : SeesHome(q, l[1]) \/ l[1] \in since[q]

Inv ==
  /\ TypeOK /\ (\A q \in Request : Staged(q))
  /\ Apart /\ Ends /\ Held /\ LinksHaveEnds /\ Seen

-----------------------------------------------------------------------------

\* The three kinds of job there are besides assigning.
LEMMA Jobs ==
  ASSUME NEW j \in Job
  PROVE  /\ j.op \in {"assign", "unassign", "delete_contribution", "delete_project"}
         /\ j.op # "delete_project" => j.c \in Contribution
         /\ j.op # "delete_contribution" => j.p \in Project
  BY DEF Job

\* The links there are at first must hang on rows there are at first.
LEMMA InitInv == Init => Inv
  BY LinksAssumption DEF Init, Inv, TypeOK, Staged, Apart, Ends, Held, Deleting, LinksHaveEnds,
    Seen, Link

\* A step that leaves the tables and the other requests alone.
Alone(q) ==
  /\ UNCHANGED tables
  /\ \A r \in Request \ {q} :
       /\ pc'[r] = pc[r] /\ job'[r] = job[r] /\ todo'[r] = todo[r]
       /\ gone'[r] = gone[r] /\ new'[r] = new[r] /\ since'[r] = since[r]

\* What such a step must leave of its own request.
LEMMA AloneKeeps ==
  ASSUME Inv, NEW q \in Request, Alone(q), TypeOK', Staged(q)',
         \A r \in Request \ {q} : gone'[q] \cap gone[r] = {} /\ new'[q] \cap new[r] = {},
         \A l \in new'[q] : l[1] \in contributions /\ l[2] \in projects,
         \A x \in Contribution \cup Project : Deleting(q, x)' =>
           /\ \A l \in links \ gone'[q] : l[1] # x /\ l[2] # x
           /\ \A r \in Request : \A l \in new'[r] : l[1] # x /\ l[2] # x,
         \A r \in Request \ {q}, x \in Contribution \cup Project : Deleting(r, x) =>
           \A l \in new'[q] : l[1] # x /\ l[2] # x,
         pc'[q] = "commit" =>
           \A l \in gone'[q] : SeesHome(q, l[1])' \/ l[1] \in since'[q]
  PROVE  Inv'
  <1>1. ASSUME NEW r \in Request \ {q} PROVE Staged(r)'
    BY <1>1 DEF Alone, Inv, Staged, OfJob
  <1>2. ASSUME NEW r \in Request \ {q}, NEW x PROVE Deleting(r, x)' <=> Deleting(r, x)
    BY <1>2 DEF Alone, Deleting, Owns
  <1>3. Apart'
    BY DEF Alone, Inv, Apart
  <1>4. Ends'
    BY DEF Alone, Inv, Ends, tables
  <1>5. Held'
    <2> SUFFICES ASSUME NEW r \in Request, NEW x \in Contribution \cup Project, Deleting(r, x)'
                 PROVE  /\ \A l \in links \ gone'[r] : l[1] # x /\ l[2] # x
                        /\ \A s \in Request : \A l \in new'[s] : l[1] # x /\ l[2] # x
      BY DEF Held, Alone, tables
    <2>1. CASE r = q
      BY <2>1
    <2>2. CASE r # q
      BY <1>2, <2>2 DEF Alone, Inv, Held
    <2> QED
      BY <2>1, <2>2
  <1>6. LinksHaveEnds'
    BY DEF Alone, Inv, LinksHaveEnds, tables
  <1>7. ASSUME NEW r \in Request \ {q}, pc'[r] = "commit", NEW l \in gone'[r]
        PROVE  SeesHome(r, l[1])' \/ l[1] \in since'[r]
    BY <1>7 DEF Alone, Inv, Seen, SeesHome, Owns, tables
  <1> QED
    BY <1>1, <1>3, <1>4, <1>5, <1>6, <1>7 DEF Inv, Seen

LEMMA QuitKeeps ==
  ASSUME Inv, NEW q \in Request, Quit(q)
  PROVE  Inv'
  <1> USE DEF Quit, Finish, tables
  <1>1. Alone(q) /\ TypeOK'
    BY DEF Alone, Inv, TypeOK
  <1>2. pc'[q] = "idle" /\ todo'[q] = {} /\ gone'[q] = {} /\ new'[q] = {}
    BY DEF Inv, TypeOK
  <1>3. Staged(q)' /\ ~ \E x : Deleting(q, x)'
    BY <1>2 DEF Staged, Deleting
  <1> QED
    BY <1>1, <1>2, <1>3, AloneKeeps

LEMMA BeginKeeps ==
  ASSUME Inv, NEW q \in Request, Start(q)
  PROVE  Inv'
  <1>1. PICK j \in Job : Begin(q, j)
    BY DEF Start, VerifyAssign, VerifyUnassign, VerifyContribution, VerifyProject, Job
  <1> USE DEF Begin, tables
  <1>2. Alone(q) /\ TypeOK'
    BY <1>1 DEF Alone, Inv, TypeOK
  <1>3. /\ pc'[q] = "statement" /\ job'[q] = j
        /\ todo'[q] = {} /\ gone'[q] = {} /\ new'[q] = {}
    BY <1>1 DEF Inv, TypeOK, Staged
  <1>4. Staged(q)' /\ ~ \E x : Deleting(q, x)'
    BY <1>3 DEF Staged, Deleting
  <1> QED
    BY <1>2, <1>3, <1>4, AloneKeeps

LEMMA MatchKeeps ==
  ASSUME Inv, NEW q \in Request, MatchLinks(q)
  PROVE  Inv'
  <1> USE DEF MatchLinks, tables
  <1>1. job[q] \in Job /\ gone[q] = {} /\ new[q] = {} /\ job[q].op # "assign"
    BY DEF Inv, Staged
  <1>2. Matched(job[q]) \subseteq links /\ \A l \in Matched(job[q]) : OfJob(q, l)
    BY <1>1, Jobs DEF Matched, OfJob
  <1>3. Alone(q) /\ TypeOK'
    BY <1>2 DEF Alone, Inv, TypeOK
  <1>4. /\ pc'[q] = "rows" /\ job'[q] = job[q] /\ todo'[q] = Matched(job[q])
        /\ gone'[q] = {} /\ new'[q] = {}
    BY <1>1 DEF Inv, TypeOK
  <1>5. Staged(q)' /\ ~ \E x : Deleting(q, x)'
    BY <1>1, <1>2, <1>4 DEF Staged, Deleting, OfJob
  <1> QED
    BY <1>3, <1>4, <1>5, AloneKeeps

LEMMA RemoveKeeps ==
  ASSUME Inv, NEW q \in Request, NEW l \in Link, RemoveLink(q, l)
  PROVE  Inv'
  <1> USE DEF RemoveLink, Reaches, tables
  <1>1. Alone(q) /\ TypeOK'
    BY DEF Alone, Inv, TypeOK
  <1>2. /\ pc'[q] = "rows" /\ job'[q] = job[q] /\ todo'[q] = todo[q] \ {l}
        /\ gone'[q] = gone[q] \cup {l} /\ new'[q] = {} /\ l \in todo[q]
    BY DEF Inv, TypeOK, Staged
  <1>3. Staged(q)' /\ ~ \E x : Deleting(q, x)'
    BY <1>2 DEF Inv, Staged, Deleting, OfJob
  <1>4. \A r \in Request \ {q} : gone'[q] \cap gone[r] = {} /\ new'[q] \cap new[r] = {}
    BY <1>2 DEF Inv, Apart
  <1> QED
    BY <1>1, <1>2, <1>3, <1>4, AloneKeeps

LEMMA EndUnassignKeeps ==
  ASSUME Inv, NEW q \in Request, EndUnassign(q)
  PROVE  Inv'
  <1> USE DEF EndUnassign, tables
  <1>1. Alone(q) /\ TypeOK'
    BY DEF Alone, Inv, TypeOK
  <1>2. /\ pc'[q] = "check" /\ job'[q] = job[q] /\ todo'[q] = {} /\ gone'[q] = gone[q]
        /\ new'[q] = {} /\ job[q].op = "unassign"
    BY DEF Inv, TypeOK, Staged
  <1>3. Staged(q)' /\ ~ \E x : Deleting(q, x)'
    BY <1>2 DEF Inv, Staged, Deleting, OfJob, Owns, EndUnassign
  <1>4. \A r \in Request \ {q} : gone'[q] \cap gone[r] = {} /\ new'[q] \cap new[r] = {}
    BY <1>2 DEF Inv, Apart
  <1> QED
    BY <1>1, <1>2, <1>3, <1>4, AloneKeeps

\* No link refers to the row, and no open transaction is about to make one.
LEMMA DeleteOwnerKeeps ==
  ASSUME Inv, NEW q \in Request, DeleteOwner(q)
  PROVE  Inv'
  <1>1. Alone(q) /\ TypeOK'
    BY DEF Alone, Inv, TypeOK, DeleteOwner, tables
  <1>2. /\ pc'[q] = "check" /\ job'[q] = job[q] /\ todo'[q] = {} /\ gone'[q] = gone[q]
        /\ new'[q] = {} /\ new' = new /\ new[q] = {}
    BY DEF Inv, TypeOK, Staged, DeleteOwner
  <1>3. Staged(q)'
    BY <1>2 DEF Inv, Staged, OfJob, DeleteOwner
  <1>4. \A r \in Request \ {q} : gone'[q] \cap gone[r] = {} /\ new'[q] \cap new[r] = {}
    BY <1>2 DEF Inv, Apart
  <1>5. ASSUME NEW x \in Contribution \cup Project, Deleting(q, x)'
        PROVE  /\ \A l \in links \ gone'[q] : l[1] # x /\ l[2] # x
               /\ \A r \in Request : \A l \in new'[r] : l[1] # x /\ l[2] # x
    <2>1. Owns(q, x)
      BY <1>2, <1>5 DEF Deleting, Owns
    <2>2. \A l \in links \ gone'[q] : l[1] # x /\ l[2] # x
      BY <1>2, <2>1 DEF DeleteOwner, StillReferred
    <2>3. \A r \in Request \ {q} : \A l \in new[r] : l[1] # x /\ l[2] # x
      BY <2>1 DEF DeleteOwner, OwnerFree, BlocksOwner
    <2> QED
      BY <1>2, <2>2, <2>3
  <1> QED
    BY <1>1, <1>2, <1>3, <1>4, <1>5, AloneKeeps

\* What the new link refers to is there, and nobody has deleted it.
LEMMA InsertKeeps ==
  ASSUME Inv, NEW q \in Request, Insert(q)
  PROVE  Inv'
  <1> DEFINE l == <<job[q].c, job[q].p>>
  <1>1. job[q] \in Job /\ job[q].op = "assign" /\ l \in Link /\ gone[q] = {} /\ todo[q] = {}
    BY Jobs DEF Inv, Staged, Insert, Link
  <1>2. Alone(q) /\ TypeOK'
    BY <1>1 DEF Alone, Inv, TypeOK, Insert, tables
  <1>3. /\ pc'[q] = "commit" /\ job'[q] = job[q] /\ todo'[q] = {} /\ gone'[q] = {}
        /\ new'[q] \subseteq {l}
    BY <1>1 DEF Inv, TypeOK, Insert
  <1>4. Staged(q)' /\ ~ \E x : Deleting(q, x)'
    BY <1>1, <1>3 DEF Staged, Deleting, Owns, OfJob
  <1>5. \A r \in Request \ {q} : gone'[q] \cap gone[r] = {} /\ new'[q] \cap new[r] = {}
    BY <1>3 DEF Insert, LinkFree, BlocksLink
  <1>6. \A k \in new'[q] : k[1] \in contributions /\ k[2] \in projects
    BY <1>3 DEF Insert
  <1>7. \A r \in Request \ {q}, x \in Contribution \cup Project : Deleting(r, x) =>
          \A k \in new'[q] : k[1] # x /\ k[2] # x
    BY <1>3 DEF Insert, LinkFree, BlocksLink
  <1> QED
    BY <1>2, <1>3, <1>4, <1>5, <1>6, <1>7, AloneKeeps

LEMMA CheckKeeps ==
  ASSUME Inv, NEW q \in Request, Check(q)
  PROVE  Inv'
  <1>1. Alone(q) /\ TypeOK'
    BY DEF Alone, Inv, TypeOK, Check, tables
  <1>2. /\ pc'[q] = "commit" /\ job'[q] = job[q] /\ todo'[q] = {} /\ gone'[q] = gone[q]
        /\ new'[q] = {} /\ new' = new /\ pc[q] = "check"
    BY DEF Inv, TypeOK, Staged, Check
  <1>3. Staged(q)'
    BY <1>2 DEF Inv, Staged, OfJob, Check
  <1>4. \A r \in Request \ {q} : gone'[q] \cap gone[r] = {} /\ new'[q] \cap new[r] = {}
    BY <1>2 DEF Inv, Apart
  <1>5. ASSUME NEW x \in Contribution \cup Project, Deleting(q, x)'
        PROVE  /\ \A l \in links \ gone'[q] : l[1] # x /\ l[2] # x
               /\ \A r \in Request : \A l \in new'[r] : l[1] # x /\ l[2] # x
    <2>1. Deleting(q, x)
      BY <1>2, <1>5 DEF Deleting, Owns
    <2> QED
      BY <1>2, <2>1 DEF Inv, Held
  <1>6. \A l \in gone'[q] : SeesHome(q, l[1])'
    BY <1>2 DEF Check, SeesHome, Owns, tables
  <1> QED
    BY <1>1, <1>2, <1>3, <1>4, <1>5, <1>6, AloneKeeps

-----------------------------------------------------------------------------
(* A commit, which the others see.                                         *)

LEMMA CommitTyped ==
  ASSUME Inv, NEW q \in Request, Commit(q)
  PROVE  TypeOK'
  <1>1. contributions' \subseteq Contribution /\ projects' \subseteq Project /\ links' \subseteq Link
    BY DEF Inv, TypeOK, Commit, Publish
  <1>2. /\ pc' \in [Request -> {"idle", "statement", "rows", "check", "commit"}]
        /\ job' \in [Request -> Job \cup {NoJob}]
    BY DEF Inv, TypeOK, Commit, Finish
  <1>3. since' \in [Request -> SUBSET Contribution]
    BY DEF Inv, TypeOK, Commit, Publish, Link
  <1>4. todo' \in [Request -> SUBSET links']
    BY DEF Inv, TypeOK, Commit, Publish
  <1>5. gone' \in [Request -> SUBSET links']
    BY DEF Inv, TypeOK, Apart, Commit, Publish, Finish
  <1>6. new' \in [Request -> SUBSET (Link \ links')]
    BY DEF Inv, TypeOK, Apart, Commit, Publish, Finish
  <1> QED
    BY <1>1, <1>2, <1>3, <1>4, <1>5, <1>6 DEF TypeOK

LEMMA CommitKeeps ==
  ASSUME Inv, NEW q \in Request, Commit(q)
  PROVE  Inv'
  <1>1. TypeOK'
    BY CommitTyped
  <1>2. pc'[q] = "idle" /\ job'[q] = NoJob /\ todo'[q] = {} /\ gone'[q] = {} /\ new'[q] = {}
    BY DEF Inv, TypeOK, Commit, Finish
  <1>3. \A r \in Request \ {q} :
          /\ pc'[r] = pc[r] /\ job'[r] = job[r] /\ todo'[r] = todo[r] \ gone[q]
          /\ gone'[r] = gone[r] /\ new'[r] = new[r]
    BY DEF Inv, TypeOK, Commit, Finish
  <1>4. \A r \in Request : Staged(r)'
    <2>1. Staged(q)'
      BY <1>2 DEF Staged
    <2>2. ASSUME NEW r \in Request \ {q} PROVE Staged(r)'
      BY <1>3, <2>2 DEF Inv, Staged, OfJob
    <2> QED
      BY <2>1, <2>2
  <1>5. Apart'
    BY <1>2, <1>3 DEF Inv, Apart
  <1>6. \A x \in Contribution \cup Project : Owns(q, x) => Deleting(q, x)
    BY DEF Commit, Deleting
  <1>7. Ends'
    <2> SUFFICES ASSUME NEW r \in Request, NEW l \in new'[r]
                 PROVE  l[1] \in contributions' /\ l[2] \in projects'
      BY DEF Ends
    <2>1. r # q /\ l \in new[r] /\ l[1] \in contributions /\ l[2] \in projects
      BY <1>2, <1>3 DEF Inv, Ends
    <2>2. l[1] \in Contribution /\ l[2] \in Project
      BY <2>1 DEF Inv, TypeOK
    <2>3. ~ Owns(q, l[1]) /\ ~ Owns(q, l[2])
      BY <1>6, <2>1, <2>2 DEF Inv, Held
    <2> QED
      BY <2>1, <2>3 DEF Commit, Publish
  <1>8. Held'
    <2> SUFFICES ASSUME NEW r \in Request, NEW x \in Contribution \cup Project, Deleting(r, x)'
                 PROVE  /\ \A l \in links' \ gone'[r] : l[1] # x /\ l[2] # x
                        /\ \A s \in Request : \A l \in new'[s] : l[1] # x /\ l[2] # x
      BY DEF Held
    <2>1. r # q
      BY <1>2 DEF Deleting
    <2>2. Deleting(r, x)
      BY <1>3, <2>1 DEF Deleting, Owns
    <2>3. /\ \A l \in links \ gone[r] : l[1] # x /\ l[2] # x
          /\ \A s \in Request : \A l \in new[s] : l[1] # x /\ l[2] # x
      BY <2>2 DEF Inv, Held
    <2>4. links' = (links \ gone[q]) \cup new[q]
      BY DEF Commit, Publish
    <2> QED
      BY <1>2, <1>3, <2>1, <2>3, <2>4
  <1>9. LinksHaveEnds'
    <2> SUFFICES ASSUME NEW l \in links'
                 PROVE  l[1] \in contributions' /\ l[2] \in projects'
      BY DEF LinksHaveEnds
    <2>1. l \in links \ gone[q] \/ l \in new[q]
      BY DEF Commit, Publish
    <2>2. l[1] \in contributions /\ l[2] \in projects
      BY <2>1 DEF Inv, LinksHaveEnds, Ends
    <2>3. l[1] \in Contribution /\ l[2] \in Project
      BY <2>2 DEF Inv, TypeOK
    <2>4. ~ Owns(q, l[1]) /\ ~ Owns(q, l[2])
      BY <1>6, <2>1, <2>3 DEF Inv, Held
    <2> QED
      BY <2>2, <2>4 DEF Commit, Publish
  <1>10. Seen'
    <2> SUFFICES ASSUME NEW r \in Request, pc'[r] = "commit", NEW l \in gone'[r]
                 PROVE  SeesHome(r, l[1])' \/ l[1] \in since'[r]
      BY DEF Seen
    <2>1. r # q /\ pc[r] = "commit" /\ l \in gone[r]
      BY <1>2, <1>3
    <2>2. SeesHome(r, l[1]) \/ l[1] \in since[r]
      BY <2>1 DEF Inv, Seen
    <2>3. since'[r] = since[r] \cup {k[1] : k \in gone[q]}
      BY <2>1 DEF Commit, Publish
    <2>4. CASE l[1] \in since[r]
      BY <2>3, <2>4
    <2>5. CASE l[1] \notin contributions \/ Owns(r, l[1]) \/ l[1] \in Housed
      BY <1>3, <2>1, <2>5 DEF SeesHome, Owns, Commit, Publish
    <2>6. ASSUME NEW k \in links \ gone[r], k[1] = l[1]
          PROVE  SeesHome(r, l[1])' \/ l[1] \in since'[r]
      <3>1. CASE k \in gone[q]
        BY <2>3, <2>6, <3>1
      <3>2. CASE k \notin gone[q]
        BY <1>3, <2>1, <2>6, <3>2 DEF SeesHome, Commit, Publish
      <3> QED
        BY <3>1, <3>2
    <2> QED
      BY <2>2, <2>4, <2>5, <2>6 DEF SeesHome
  <1> QED
    BY <1>1, <1>4, <1>5, <1>7, <1>8, <1>9, <1>10 DEF Inv

LEMMA StepInv == Inv /\ [Next]_vars => Inv'
  <1> SUFFICES ASSUME Inv, [Next]_vars PROVE Inv'
    OBVIOUS
  <1>1. ASSUME NEW q \in Request, Step(q) PROVE Inv'
    BY <1>1, MatchKeeps, RemoveKeeps, EndUnassignKeeps, DeleteOwnerKeeps, InsertKeeps, CheckKeeps,
      CommitKeeps, QuitKeeps DEF Step, DeleteOwnerFails, InsertFails, CheckFails
  <1>2. ASSUME NEW q \in Request, Abort(q) PROVE Inv'
    BY <1>2, QuitKeeps DEF Abort
  <1>3. CASE UNCHANGED vars
    BY <1>3 DEF vars, Inv, TypeOK, Staged, OfJob, Apart, Ends, Held, Deleting, Owns,
      LinksHaveEnds, Seen, SeesHome
  <1> QED
    BY <1>1, <1>2, <1>3, BeginKeeps DEF Next

\* The invariant holds however requests interleave, fail and are cut off.
THEOREM InvHolds == Spec => []Inv
  BY InitInv, StepInv, PTL DEF Spec

-----------------------------------------------------------------------------

\* A transaction works on rows there are.
THEOREM TypesHold == Spec => []TypeOK
  <1>1. Inv => TypeOK
    BY DEF Inv
  <1> QED
    BY <1>1, InvHolds, PTL

\* No link outlives what it links, for any number of assigns and cascading
\* deletes at once.
THEOREM LinksHaveEndsHolds == Spec => []LinksHaveEnds
  <1>1. Inv => LinksHaveEnds
    BY DEF Inv
  <1> QED
    BY <1>1, InvHolds, PTL

\* Only a commit changes the links.
LEMMA OnlyCommits ==
  ASSUME Inv, Next
  PROVE  UNCHANGED tables \/ \E q \in Request : Commit(q)
  BY DEF Next, Start, VerifyAssign, VerifyUnassign, VerifyContribution, VerifyProject, Begin, Step,
    Abort, Quit, MatchLinks, RemoveLink, EndUnassign, DeleteOwner, DeleteOwnerFails, Insert,
    InsertFails, Check, CheckFails, tables

\* A link goes with its project or its contribution, or because it was unassigned.
THEOREM DeletesAreWholeHolds == Spec => DeletesAreWhole
  <1> DEFINE Whole == \A l \in links \ links' :
                \/ l[1] \notin contributions' \/ l[2] \notin projects'
                \/ \E q \in Request : pc[q] = "commit" /\ job[q].op = "unassign"
                                      /\ <<job[q].c, job[q].p>> = l
  <1>1. Inv /\ [Next]_vars => [Whole]_vars
    <2> SUFFICES ASSUME Inv, Next, NEW l \in links \ links'
                 PROVE  \/ l[1] \notin contributions' \/ l[2] \notin projects'
                        \/ \E q \in Request : pc[q] = "commit" /\ job[q].op = "unassign"
                                              /\ <<job[q].c, job[q].p>> = l
      OBVIOUS
    <2>1. PICK q \in Request : Commit(q)
      BY OnlyCommits DEF tables
    <2>2. l \in gone[q] /\ pc[q] = "commit"
      BY <2>1 DEF Commit, Publish
    <2>3. OfJob(q, l)
      BY <2>2 DEF Inv, Staged
    <2> QED
      BY <2>1, <2>2, <2>3 DEF OfJob, Commit, Publish, Owns
  <1> QED
    BY <1>1, InvHolds, PTL DEF Spec, DeletesAreWhole

\* A contribution loses its last home to a commit whose trigger had seen one only
\* when another commit took that one after the trigger had looked.
THEOREM OnlyOutrunHolds == Spec => OnlyOutrun
  <1> DEFINE Outrun ==
        \A q \in Request, c \in contributions' \ Housed :
          pc[q] = "commit" /\ (\E l \in gone[q] : l[1] = c /\ l \notin links')
            => (\E l \in links' : l[1] = c) \/ c \in since[q]
  <1>1. Inv /\ [Next]_vars => [Outrun]_vars
    <2> SUFFICES ASSUME Inv, Next, NEW q \in Request, NEW c \in contributions' \ Housed,
                        pc[q] = "commit", NEW l \in gone[q], l[1] = c, l \notin links'
                 PROVE  (\E k \in links' : k[1] = c) \/ c \in since[q]
      OBVIOUS
    <2>1. l \in links
      BY DEF Inv, TypeOK
    <2>2. PICK r \in Request : Commit(r)
      BY <2>1, OnlyCommits DEF tables
    <2>3. l \in gone[r]
      BY <2>1, <2>2 DEF Commit, Publish
    <2>4. r = q
      BY <2>3 DEF Inv, Apart
    <2>5. SeesHome(q, c) \/ c \in since[q]
      BY DEF Inv, Seen
    <2>6. c \in contributions /\ ~ Owns(q, c)
      BY <2>2, <2>4 DEF Commit, Publish
    <2>7. \A k \in links \ gone[q] : k \in links'
      BY <2>2, <2>4 DEF Commit, Publish
    <2> QED
      BY <2>5, <2>6, <2>7 DEF SeesHome
  <1> QED
    BY <1>1, InvHolds, PTL DEF Spec, OnlyOutrun

\* Overlap is the only way a contribution loses its home: when requests do not
\* overlap, the trigger of migration 014 keeps every contribution one.
THEOREM NoneHomelessAlone ==
  ASSUME \A p, q \in Request : p = q
  PROVE  Spec => []NoneHomeless
  <1> DEFINE Homes == NoneHomeless /\ \A q \in Request : since[q] = {}
  <1>1. Init => Homes
    <2> SUFFICES ASSUME Init, NEW c \in Contribution \ Housed PROVE \E l \in links : l[1] = c
      BY DEF Init, NoneHomeless
    <2>1. PICK p \in Project : <<c, p>> \in links
      BY LinksAssumption DEF Init
    <2> QED
      BY <2>1
  <1>2. Inv /\ Homes /\ [Next]_vars => Homes'
    <2> SUFFICES ASSUME Inv, Homes, [Next]_vars PROVE Homes'
      OBVIOUS
    <2>1. \A q \in Request : since'[q] = {}
      <3>1. ASSUME NEW r \in Request, Commit(r) PROVE \A q \in Request : since'[q] = {}
        BY <3>1 DEF Commit, Publish
      <3>2. ASSUME NEW r \in Request, Quit(r) PROVE \A q \in Request : since'[q] = {}
        BY <3>2 DEF Quit, Inv, TypeOK
      <3>3. CASE UNCHANGED since
        BY <3>3
      <3> QED
        BY <3>1, <3>2, <3>3 DEF Next, Start, Step, Abort, vars, VerifyAssign, VerifyUnassign,
          VerifyContribution, VerifyProject, Begin, MatchLinks, RemoveLink, EndUnassign,
          DeleteOwner, DeleteOwnerFails, Insert, InsertFails, Check, CheckFails
    <2>2. ASSUME NEW q \in Request, Commit(q) PROVE NoneHomeless'
      <3> SUFFICES ASSUME NEW c \in contributions' \ Housed PROVE \E l \in links' : l[1] = c
        BY DEF NoneHomeless
      <3>1. c \in contributions /\ ~ Owns(q, c) /\ links' = (links \ gone[q]) \cup new[q]
        BY <2>2 DEF Commit, Publish
      <3>2. PICK l \in links : l[1] = c
        BY <3>1 DEF NoneHomeless
      <3>3. CASE l \in gone[q]
        <4>1. SeesHome(q, c)
          BY <2>2, <3>2, <3>3 DEF Commit, Inv, Seen
        <4> QED
          BY <3>1, <4>1 DEF SeesHome
      <3> QED
        BY <3>1, <3>2, <3>3
    <2>3. ASSUME UNCHANGED tables PROVE NoneHomeless'
      BY <2>3 DEF tables, NoneHomeless
    <2> QED
      BY <2>1, <2>2, <2>3, OnlyCommits DEF vars, tables
  <1>3. Homes => NoneHomeless
    OBVIOUS
  <1> HIDE DEF Homes
  <1> QED
    BY <1>1, <1>2, <1>3, InvHolds, PTL DEF Spec

-----------------------------------------------------------------------------
(* Waiting.                                                                *)

\* A request has locked only links that lie before those it has yet to reach.
InOrder ==
  \A q \in Request : \A k \in gone[q], l \in todo[q] : Place[k] < Place[l]

\* The next row is the least of those left, and others only take rows away.
LEMMA StepInOrder == Inv /\ InOrder /\ [Next]_vars => InOrder'
  <1> SUFFICES ASSUME Inv, InOrder, [Next]_vars PROVE InOrder'
    OBVIOUS
  <1> USE DEF Inv, TypeOK, InOrder
  <1>1. ASSUME NEW q \in Request, NEW l \in Link, RemoveLink(q, l) PROVE InOrder'
    <2>1. /\ gone' = [gone EXCEPT ![q] = @ \cup {l}] /\ todo' = [todo EXCEPT ![q] = @ \ {l}]
          /\ \A k \in todo[q] : Place[l] <= Place[k]
      BY <1>1 DEF RemoveLink, Reaches
    <2>2. todo[q] \subseteq Link
      OBVIOUS
    <2>3. \A k \in todo[q] \ {l} : Place[l] < Place[k]
      BY <2>1, <2>2, LinksAssumption
    <2> QED
      BY <2>1, <2>3
  <1>2. ASSUME NEW q \in Request, MatchLinks(q) PROVE InOrder'
    BY <1>2 DEF MatchLinks, Staged
  <1>3. ASSUME NEW q \in Request, Quit(q) PROVE InOrder'
    BY <1>3 DEF Quit, Finish
  <1>4. ASSUME NEW q \in Request, Commit(q) PROVE InOrder'
    BY <1>4 DEF Commit, Finish
  <1>5. ASSUME UNCHANGED <<todo, gone>> PROVE InOrder'
    BY <1>5
  <1>6. ASSUME NEW q \in Request, Step(q) PROVE InOrder'
    BY <1>1, <1>2, <1>3, <1>4, <1>5, <1>6 DEF Step, EndUnassign, DeleteOwner, DeleteOwnerFails,
      Insert, InsertFails, Check, CheckFails
  <1>7. ASSUME NEW q \in Request, Start(q) PROVE InOrder'
    BY <1>5, <1>7 DEF Start, VerifyAssign, VerifyUnassign, VerifyContribution, VerifyProject, Begin
  <1> QED
    BY <1>3, <1>5, <1>6, <1>7 DEF Next, Abort, vars

\* A finite set has an element that none exceeds in a measure.
LEMMA Highest ==
  ASSUME NEW S, IsFiniteSet(S), S # {}, NEW f \in [S -> Nat]
  PROVE  \E x \in S : \A y \in S : f[y] <= f[x]
  <1> DEFINE Over(x) == {y \in S : f[y] > f[x]}
             Sizes == {Cardinality(Over(x)) : x \in S}
  <1>1. \A x \in S : IsFiniteSet(Over(x)) /\ Cardinality(Over(x)) \in Nat
    BY FS_Subset, FS_CardinalityType
  <1>2. Sizes # {} /\ Sizes \subseteq Nat
    BY <1>1
  <1>3. PICK n \in Sizes : \A k \in Sizes : ~ (<<k, n>> \in OpToRel(<, Nat))
    <2> HIDE DEF Sizes
    <2> QED
      BY <1>2, NatLessThanWellFounded, WFMin, Zenon
  <1>4. PICK x \in S : n = Cardinality(Over(x))
    OBVIOUS
  <1>5. ASSUME NEW y \in S, f[y] > f[x] PROVE FALSE
    <2>1. Over(y) \subseteq Over(x) /\ y \in Over(x) /\ y \notin Over(y)
      BY <1>5
    <2>2. Cardinality(Over(y)) < n
      <3> HIDE DEF Over
      <3> QED
        BY <1>1, <1>4, <2>1, FS_Subset
    <2>3. Cardinality(Over(y)) \in Sizes
      OBVIOUS
    <2> QED
      BY <1>1, <1>2, <1>3, <2>2, <2>3 DEF OpToRel
  <1> QED
    BY <1>5

\* The links are what a circle could be made of: who holds anything else waits for
\* nobody. And who waits for a link waits for one that has got further down.
LEMMA NoCircle == Inv /\ InOrder => NoDeadlock
  <1> SUFFICES ASSUME Inv, InOrder, NEW S \in SUBSET Request, S # {},
                      \A q \in S : \E r \in S \ {q} : WaitsFor(q, r)
               PROVE  FALSE
    BY DEF NoDeadlock
  <1> USE DEF Inv, TypeOK
  <1>1. ASSUME NEW r \in S PROVE /\ pc[r] \in {"rows", "statement"}
                                 /\ new[r] = {} /\ ~ \E x : Deleting(r, x)
    BY DEF WaitsFor, Staged, Deleting
  <1>2. ASSUME NEW q \in S, NEW r \in S, WaitsFor(q, r)
        PROVE  gone[r] # {} /\ (pc[q] = "rows" => \E l \in gone[r] : Reaches(q, l))
    BY <1>1, <1>2 DEF WaitsFor, BlocksOwner, BlocksLink
  <1> DEFINE T == {q \in S : pc[q] = "rows"}
             NextLink(q) == CHOOSE l \in Link : Reaches(q, l)
             f == [q \in T |-> Place[NextLink(q)]]
  <1>3. ASSUME NEW q \in S PROVE \E r \in T : WaitsFor(q, r)
    <2>1. PICK r \in S : WaitsFor(q, r)
      OBVIOUS
    <2>2. pc[r] = "rows"
      BY <1>1, <1>2, <2>1 DEF Staged
    <2> QED
      BY <2>1, <2>2
  <1>4. ASSUME NEW q \in T, NEW l, Reaches(q, l) PROVE l \in Link /\ NextLink(q) = l
    <2>1. todo[q] \subseteq Link
      OBVIOUS
    <2>2. \A k \in Link : Reaches(q, k) => k = l
      BY <1>4, <2>1, LinksAssumption DEF Reaches
    <2> QED
      BY <1>4, <2>1, <2>2 DEF Reaches
  <1>5. ASSUME NEW q \in T
        PROVE  \E r \in T : NextLink(q) \in gone[r] /\ NextLink(q) \in Link /\ Reaches(q, NextLink(q))
    <2>1. PICK r \in T : WaitsFor(q, r)
      BY <1>3
    <2>2. PICK l \in gone[r] : Reaches(q, l)
      BY <1>2, <2>1
    <2>3. l \in Link /\ NextLink(q) = l
      BY <1>4, <2>2
    <2> HIDE DEF NextLink
    <2> QED
      BY <2>2, <2>3
  <1>6. f \in [T -> Nat]
    BY <1>5, LinksAssumption
  <1>7. ASSUME NEW q \in T PROVE \E r \in T : f[q] < f[r]
    <2>1. PICK r \in T : NextLink(q) \in gone[r]
      BY <1>5
    <2>2. NextLink(r) \in todo[r]
      BY <1>5 DEF Reaches
    <2> HIDE DEF NextLink
    <2> QED
      BY <2>1, <2>2 DEF InOrder
  <1>8. IsFiniteSet(T) /\ T # {}
    BY <1>3, LinksAssumption, FS_Subset
  <1>9. PICK q \in T : \A r \in T : f[r] <= f[q]
    <2> HIDE DEF f, T
    <2> QED
      BY <1>6, <1>8, Highest
  <1> QED
    <2> HIDE DEF NextLink
    <2>1. PICK r \in T : f[q] < f[r]
      BY <1>7
    <2>2. f[q] \in Nat /\ f[r] \in Nat /\ f[r] <= f[q]
      BY <1>6, <1>9
    <2> QED
      BY <2>1, <2>2

\* However many deletes, assigns and unassigns there are at once, no circle of
\* waits closes: locking links before their ends, in table order, is enough.
THEOREM NoDeadlockHolds == Spec => []NoDeadlock
  <1>1. Init => InOrder
    BY DEF Init, InOrder
  <1> QED
    BY <1>1, StepInOrder, NoCircle, InvHolds, PTL DEF Spec

-----------------------------------------------------------------------------
(* The refinement: ProjectLinks implements CareerLinks.                    *)

\* A commit is the operation its request was asked for, or changes nothing.
LEMMA CommitIsOperation ==
  ASSUME Inv, NEW q \in Request, Commit(q)
  PROVE  [Table!Next]_(Table!vars)
  <1> USE DEF Inv, TypeOK, Commit, Publish
  <1>1. job[q] \in Job /\ new[q] \subseteq Link /\ gone[q] \subseteq links
    BY DEF Staged
  <1>2. \A x \in Contribution \cup Project : Owns(q, x) =>
          \A l \in links \ gone[q] : l[1] # x /\ l[2] # x
    BY DEF Held, Deleting
  <1>3. CASE job[q].op = "assign"
    <2> DEFINE l == <<job[q].c, job[q].p>>
    <2>1. /\ gone[q] = {} /\ new[q] \subseteq {l}
          /\ UNCHANGED <<contributions, projects>>
      BY <1>3 DEF Owns, Staged, OfJob
    <2>2. CASE new[q] = {}
      BY <2>1, <2>2 DEF Table!vars
    <2>3. CASE new[q] = {l}
      <3>1. job[q].c \in contributions /\ job[q].p \in projects
        <4>1. l \in new[q]
          BY <2>3
        <4>2. l[1] \in contributions /\ l[2] \in projects
          BY <4>1 DEF Ends
        <4> QED
          BY <4>2
      <3>2. Table!Assign(job[q].c, job[q].p)
        BY <2>1, <2>3, <3>1 DEF Table!Assign
      <3> QED
        BY <1>1, <1>3, <3>2, Jobs DEF Table!Next
    <2> QED
      BY <2>1, <2>2, <2>3
  <1>4. CASE job[q].op = "unassign"
    <2> DEFINE l == <<job[q].c, job[q].p>>
    <2>1. /\ new[q] = {} /\ gone[q] \subseteq {l}
          /\ UNCHANGED <<contributions, projects>>
      BY <1>1, <1>4 DEF Owns, Staged, OfJob
    <2>2. CASE gone[q] = {}
      BY <2>1, <2>2 DEF Table!vars
    <2>3. CASE gone[q] = {l}
      <3>1. Table!Unassign(job[q].c, job[q].p)
        BY <2>1, <2>3 DEF Table!Unassign
      <3> QED
        BY <1>1, <1>4, <3>1, Jobs DEF Table!Next
    <2> QED
      BY <2>1, <2>2, <2>3
  <1>5. CASE job[q].op = "delete_contribution"
    <2>1. new[q] = {} /\ \A l \in gone[q] : l[1] = job[q].c
      BY <1>1, <1>5 DEF Staged, OfJob
    <2>2. job[q].c \in Contribution /\ \A x : Owns(q, x) <=> x = job[q].c
      BY <1>1, <1>5, Jobs DEF Owns
    <2>3. links' = {l \in links : l[1] # job[q].c}
      BY <1>1, <1>2, <2>1, <2>2
    <2>4. contributions' = contributions \ {job[q].c} /\ projects' = projects
      BY <2>2, LinksAssumption
    <2>5. Table!DeleteContribution(job[q].c)
      BY <2>3, <2>4 DEF Table!DeleteContribution
    <2> QED
      BY <2>2, <2>5 DEF Table!Next
  <1>6. CASE job[q].op = "delete_project"
    <2>1. new[q] = {} /\ \A l \in gone[q] : l[2] = job[q].p
      BY <1>1, <1>6 DEF Staged, OfJob
    <2>2. job[q].p \in Project /\ \A x : Owns(q, x) <=> x = job[q].p
      BY <1>1, <1>6, Jobs DEF Owns
    <2>3. links' = {l \in links : l[2] # job[q].p}
      BY <1>1, <1>2, <2>1, <2>2
    <2>4. projects' = projects \ {job[q].p} /\ contributions' = contributions
      BY <2>2, LinksAssumption
    <2>5. Table!DeleteProject(job[q].p)
      BY <2>3, <2>4 DEF Table!DeleteProject
    <2> QED
      BY <2>2, <2>5 DEF Table!Next
  <1> QED
    BY <1>1, <1>3, <1>4, <1>5, <1>6, Jobs

\* Each request is one operation on the links or none, for any number of requests
\* that lock row by row and fail at any statement.
THEOREM TableHolds == Spec => TableSpec
  <1>1. Init => Table!Init
    BY DEF Init, Table!Init
  <1>2. Inv /\ [Next]_vars => [Table!Next]_(Table!vars)
    BY OnlyCommits, CommitIsOperation DEF tables, vars, Table!vars
  <1> QED
    BY <1>1, <1>2, InvHolds, PTL DEF Spec, TableSpec, Table!Spec

=============================================================================
