------------------------- MODULE ApplicationsProofs -------------------------
(***************************************************************************)
(* Proofs about Applications, for any career, any number of requests and   *)
(* any number of edits made while they read.                               *)
(*                                                                         *)
(* What a request works from is settled statement by statement. Covered    *)
(* says, at each stage, what has been read and what is still to come: a    *)
(* row that has been there throughout is in what was read, or hangs under  *)
(* a row on the list of those still to be gone through. It can get on that *)
(* list only because a row with rows under it is not deleted (Rooted).     *)
(***************************************************************************)
EXTENDS Applications, WellFoundedInduction, SequenceTheorems, TLAPS

\* A request is a record of these nine fields.
Field == {"kind", "at", "todo", "given", "ever", "throughout", "text", "doc", "number"}

Whole(r) == req[r] = [f \in Field |-> req[r][f]]

\* While a request reads, what was there throughout is due now, and what it has
\* been given or could be given now was there at some time.
Fresh(r, stages, kind) ==
  req[r].at \in stages =>
    /\ req[r].kind = kind
    /\ req[r].throughout \subseteq Due(kind)
    /\ Offered(kind) \subseteq req[r].ever
    /\ req[r].given \subseteq req[r].ever

Generating == {"employers", "jobs", "projects", "works"}
Evaluating == {"skills", "preferences"}

\* All of a table that was there throughout has been read.
HasRead(r, table) ==
  \A x : <<table, x>> \in req[r].throughout => <<table, x>> \in req[r].given

\* A contribution is read, or its position or employer is still to come.
JobsToCome(r) ==
  /\ req[r].todo \subseteq Employer \cup Position
  /\ \A c \in Contribution : <<"position", c>> \in req[r].throughout =>
       \/ <<"position", c>> \in req[r].given
       \/ Under[c] \in req[r].todo
       \/ Under[Under[c]] \in req[r].todo

WorksToCome(r) ==
  \A l : <<"work", l>> \in req[r].throughout =>
    <<"work", l>> \in req[r].given \/ l[1] \in req[r].todo

Covered(r) ==
  /\ req[r].at \in Generating \cup Evaluating => HasRead(r, "signals")
  /\ req[r].at = "jobs" => JobsToCome(r)
  /\ req[r].at \in {"projects", "works"} => HasRead(r, "position") /\ HasRead(r, "skill")
  /\ req[r].at = "works" => HasRead(r, "project") /\ WorksToCome(r)
  /\ req[r].at = "preferences" => HasRead(r, "skill")
  /\ req[r].at \in {"body", "narrative"} =>
       req[r].throughout \subseteq req[r].given /\ req[r].given \subseteq req[r].ever

Sound(r) ==
  Whole(r) /\ Fresh(r, Generating, "generate") /\ Fresh(r, Evaluating, "evaluate") /\ Covered(r)

\* A position or contribution that is there has the row it hangs under.
Rooted ==
  /\ row \in [Row -> {"new", "shown", "hidden", "gone"}]
  /\ link \subseteq Project \X Contribution
  /\ \A x \in DOMAIN Under : row[x] \in {"shown", "hidden"} => row[Under[x]] = "shown"

Inv ==
  /\ Rooted
  /\ req = [r \in Request |-> req[r]]
  /\ \A r \in Request : Sound(r)

-----------------------------------------------------------------------------

LEMMA Hanging ==
  /\ DOMAIN Under = Position \cup Contribution
  /\ \A p \in Position : Under[p] \in Employer
  /\ \A c \in Contribution : Under[c] \in Position
  /\ Employer \cap Position = {}
  /\ (Employer \cup Position) \cap (Contribution \cup Project \cup Skill) = {}
  BY ApplicationAssumption

LEMMA InitInv == Init => Inv
  <1> SUFFICES ASSUME Init PROVE Inv
    OBVIOUS
  <1>1. Rooted
    BY Hanging, ApplicationAssumption DEF Init, Rooted, Row
  <1>2. ASSUME NEW r \in Request PROVE Sound(r)
    BY DEF Init, Idle, Sound, Whole, Field, Fresh, Covered, Generating, Evaluating
  <1>3. req = [r \in Request |-> req[r]]
    BY DEF Init
  <1> QED
    BY <1>1, <1>2, <1>3 DEF Inv

\* Whatever the tables become, a request that reads goes on being sound: what it
\* could have found all the while shrinks, what it could have found grows.
LEMMA Watched ==
  ASSUME Inv, NEW S, WatchBut(S)
  PROVE  /\ req' = [r \in Request |-> req'[r]]
         /\ \A r \in Request : Sound(r)'
  <1>1. req' = [r \in Request |-> req'[r]]
    BY DEF WatchBut
  <1>2. ASSUME NEW r \in Request PROVE Sound(r)'
    <2>1. CASE r \in S
      <3>1. req'[r] = Idle
        BY <2>1 DEF WatchBut
      <3> QED
        BY <3>1 DEF Idle, Sound, Whole, Field, Fresh, Covered, Generating, Evaluating
    <2>2. CASE r \notin S /\ Reading(r)
      <3>1. Sound(r)
        BY DEF Inv
      <3>2. ASSUME NEW stages, NEW kind \in {"generate", "evaluate"},
                   Fresh(r, stages, kind), req[r].at \in stages
            PROVE  /\ req'[r].throughout = req[r].throughout \cap Due(kind)'
                   /\ req'[r].ever = req[r].ever \cup Offered(kind)'
        BY <2>2, <3>1, <3>2 DEF WatchBut, Fresh, Sound, Whole, Field
      <3>3. /\ req'[r].at = req[r].at /\ req'[r].kind = req[r].kind
            /\ req'[r].given = req[r].given /\ req'[r].todo = req[r].todo
        BY <2>2, <3>1 DEF WatchBut, Sound, Whole, Field
      <3>4. Whole(r)'
        BY <2>2, <3>1 DEF WatchBut, Sound, Whole, Field
      <3>5. ASSUME NEW stages, NEW kind \in {"generate", "evaluate"}, Fresh(r, stages, kind)
            PROVE  Fresh(r, stages, kind)'
        BY <3>2, <3>3, <3>5 DEF Fresh
      <3>6. req'[r].throughout \subseteq req[r].throughout
        BY <2>2, <3>1, <3>2 DEF Sound, Fresh, Reading, Generating, Evaluating
      <3>7. Covered(r)'
        BY <2>2, <3>1, <3>3, <3>6 DEF Sound, Covered, HasRead, JobsToCome, WorksToCome, Reading
      <3> QED
        BY <3>1, <3>4, <3>5, <3>7 DEF Sound
    <2>3. CASE r \notin S /\ ~ Reading(r)
      <3>1. req'[r] = req[r]
        BY <2>3 DEF WatchBut
      <3> QED
        BY <2>3, <3>1 DEF Inv, Sound, Whole, Field, Fresh, Covered, Reading, Generating, Evaluating,
          HasRead, JobsToCome, WorksToCome
    <2> QED
      BY <2>1, <2>2, <2>3
  <1> QED
    BY <1>1, <1>2

-----------------------------------------------------------------------------
(* The screens                                                             *)

\* What hangs under a row that is made, hidden or deleted goes on hanging.
LEMMA RootedKept ==
  ASSUME Rooted, Screens
  PROVE  Rooted'
  <1> USE Hanging DEF Rooted, Row
  <1>1. ASSUME NEW x \in Row, NEW status \in {"shown", "hidden"}, CreateRow(x, status)
        PROVE  Rooted'
    BY <1>1 DEF CreateRow, Put
  <1>2. ASSUME NEW x \in Contribution \cup Project \cup Skill, UpdateRow(x)
        PROVE  Rooted'
    BY <1>2 DEF UpdateRow, Put
  <1>3. ASSUME NEW x \in Row, DeleteRow(x)
        PROVE  Rooted'
    BY <1>3 DEF DeleteRow, Put, Children
  <1>4. ASSUME NEW j \in Project, NEW c \in Contribution, Assign(j, c) \/ Unassign(j, c)
        PROVE  Rooted'
    BY <1>4 DEF Assign, Unassign
  <1>5. ASSUME NEW t \in Text \cup {Nothing}, UpdateApplication(t)
        PROVE  Rooted'
    BY <1>5 DEF UpdateApplication
  <1> QED
    BY <1>1, <1>2, <1>3, <1>4, <1>5 DEF Screens, CreateEmployer, CreatePosition,
      CreateContribution, CreateProject, CreateSkill, CreatePreference, UpdateContribution,
      UpdateProject, UpdateSkill, DeleteEmployer, DeletePosition, DeleteContribution,
      DeleteProject, DeleteSkill, DeletePreference

LEMMA ScreensWatch == Screens => WatchBut({}) /\ UNCHANGED versions
  BY DEF Screens, Watch, Edit, CreateRow, UpdateRow, DeleteRow, Assign, Unassign,
    UpdateApplication, CreateEmployer, CreatePosition,
    CreateContribution, CreateProject, CreateSkill, CreatePreference, UpdateContribution,
    UpdateProject, UpdateSkill, DeleteEmployer, DeletePosition, DeleteContribution,
    DeleteProject, DeleteSkill, DeletePreference

-----------------------------------------------------------------------------
(* The requests                                                            *)

\* A step of one request that leaves the tables alone is sound for the others.
LEMMA OthersKept ==
  ASSUME Inv, NEW r \in Request, UNCHANGED <<row, link, posting>>,
         req' = [q \in Request |-> req'[q]],
         \A q \in Request \ {r} : req'[q] = req[q],
         Sound(r)'
  PROVE  Inv'
  <1>1. Rooted'
    BY DEF Inv, Rooted
  <1>2. ASSUME NEW q \in Request \ {r} PROVE Sound(q)'
    <2>1. Offered("generate")' = Offered("generate") /\ Offered("evaluate")' = Offered("evaluate")
      BY DEF Offered, Shown
    <2>2. Due("generate")' = Due("generate") /\ Due("evaluate")' = Due("evaluate")
      BY <2>1 DEF Due
    <2>3. Sound(q) /\ req'[q] = req[q]
      BY DEF Inv
    <2> QED
      BY <2>1, <2>2, <2>3 DEF Sound, Whole, Field, Fresh, Covered, HasRead, JobsToCome, WorksToCome
  <1> QED
    BY <1>1, <1>2 DEF Inv

\* A request that has ended or is past its prompt reads nothing more.
LEMMA Resting ==
  ASSUME Inv, NEW r \in Request, UNCHANGED <<row, link, posting>>, NEW v,
         req' = [req EXCEPT ![r] = v],
         v = [f \in Field |-> v[f]],
         v.at \in {"idle", "extracting", "summary", "numbered"}
  PROVE  Inv'
  <1>1. req'[r] = v /\ req' = [q \in Request |-> req'[q]]
        /\ \A q \in Request \ {r} : req'[q] = req[q]
    BY DEF Inv
  <1>2. Sound(r)'
    BY <1>1 DEF Sound, Whole, Field, Fresh, Covered, Generating, Evaluating
  <1> QED
    BY <1>1, <1>2, OthersKept

\* What Take leaves of a request.
LEMMA Taken ==
  ASSUME Inv, NEW r \in Request, NEW found, NEW todo, NEW next, Take(r, found, todo, next)
  PROVE  /\ UNCHANGED <<row, link, posting>>
         /\ req' = [q \in Request |-> req'[q]]
         /\ \A q \in Request \ {r} : req'[q] = req[q]
         /\ Whole(r)'
         /\ req'[r].at = next /\ req'[r].todo = todo /\ req'[r].given = req[r].given \cup found
         /\ req'[r].kind = req[r].kind /\ req'[r].ever = req[r].ever
         /\ req'[r].throughout = req[r].throughout
  <1> DEFINE given == req[r].given \cup found
             taken == [req[r] EXCEPT !.given = given, !.todo = todo, !.at = next]
  <1>1. req = [q \in Request |-> req[q]] /\ Whole(r)
    BY DEF Inv, Sound
  <1>2. /\ taken = [f \in Field |-> taken[f]]
        /\ taken.at = next /\ taken.todo = todo /\ taken.given = given
        /\ taken.kind = req[r].kind /\ taken.ever = req[r].ever
        /\ taken.throughout = req[r].throughout
    BY <1>1 DEF Whole, Field
  <1>3. req' = [q \in Request |-> IF q = r THEN taken ELSE req[q]]
    BY <1>1 DEF Take
  <1> HIDE DEF taken
  <1>4. req'[r] = taken /\ req' = [q \in Request |-> req'[q]]
        /\ \A q \in Request \ {r} : req'[q] = req[q]
    BY <1>3
  <1>5. UNCHANGED <<row, link, posting>>
    BY DEF Take, Tables
  <1> QED
    BY <1>2, <1>4, <1>5 DEF Whole

\* What is due is there and shown.
LEMMA DueIsThere ==
  ASSUME Rooted
  PROVE  /\ \A kind : \A t : <<"signals", t>> \in Due(kind) => t = posting.signals
         /\ \A kind : \A s : <<"skill", s>> \in Due(kind) => s \in Shown(Skill)
         /\ \A p : <<"preference", p>> \in Due("evaluate") => p \in Shown(Preference)
         /\ \A c : <<"position", c>> \in Due("generate") => c \in Shown(Contribution)
         /\ \A j : <<"project", j>> \in Due("generate") => j \in Shown(Project)
         /\ \A l : <<"work", l>> \in Due("generate") =>
              l \in link /\ row[l[2]] = "shown" /\ l[1] \in Shown(Project)
  BY DEF Due, Offered, Shown, Rooted

\* Nothing else is due.
LEMMA DueIsRead ==
  /\ \A x \in Due("evaluate") :
       \E y : x \in {<<"signals", y>>, <<"skill", y>>, <<"preference", y>>}
  /\ \A x \in Due("generate") :
       \E y : x \in {<<"signals", y>>, <<"skill", y>>, <<"position", y>>,
                    <<"project", y>>, <<"work", y>>}
  BY DEF Due, Offered

\* A request that takes what it is offered goes on being sound, as long as what it
\* has read and what is still to come cover what is due.
LEMMA TakesWhatIsOffered ==
  ASSUME Inv, NEW r \in Request, NEW found, NEW todo, NEW next, Take(r, found, todo, next),
         \/ /\ req[r].at \in Generating /\ next \in Generating \cup {"body"}
            /\ found \subseteq Offered("generate")
         \/ /\ req[r].at \in Evaluating /\ next \in Evaluating \cup {"narrative"}
            /\ found \subseteq Offered("evaluate"),
         Covered(r)'
  PROVE  Inv'
  <1>1. /\ UNCHANGED <<row, link, posting>>
        /\ req' = [q \in Request |-> req'[q]]
        /\ \A q \in Request \ {r} : req'[q] = req[q]
        /\ Whole(r)'
        /\ req'[r].at = next /\ req'[r].given = req[r].given \cup found
        /\ req'[r].kind = req[r].kind /\ req'[r].ever = req[r].ever
        /\ req'[r].throughout = req[r].throughout
    BY Taken
  <1>2. Offered("generate")' = Offered("generate") /\ Offered("evaluate")' = Offered("evaluate")
    BY <1>1 DEF Offered, Shown
  <1>3. Due("generate")' = Due("generate") /\ Due("evaluate")' = Due("evaluate")
    BY <1>1, <1>2 DEF Due
  <1>4. Fresh(r, Generating, "generate") /\ Fresh(r, Evaluating, "evaluate")
    BY DEF Inv, Sound
  <1>5. Fresh(r, Generating, "generate")' /\ Fresh(r, Evaluating, "evaluate")'
    BY <1>1, <1>2, <1>3, <1>4 DEF Fresh, Generating, Evaluating
  <1>6. Sound(r)'
    BY <1>1, <1>5 DEF Sound
  <1> QED
    BY <1>1, <1>6, OthersKept

LEMMA BeginsSound ==
  ASSUME Inv, NEW r \in Request, EvaluateRead(r) \/ GenerateRead(r)
  PROVE  Inv'
  <1> DEFINE found == {<<"signals", posting.signals>>}
  <1>1. PICK kind \in {"generate", "evaluate"}, first \in {"employers", "skills"} :
          /\ Begin(r, kind, first, found)
          /\ kind = "generate" <=> first = "employers"
    BY DEF EvaluateRead, GenerateRead
  <1> DEFINE begun == [Idle EXCEPT !.kind = kind, !.at = first, !.given = found,
                                   !.ever = Offered(kind), !.throughout = Due(kind)]
  <1>2. /\ begun = [f \in Field |-> begun[f]]
        /\ begun.kind = kind /\ begun.at = first /\ begun.given = found
        /\ begun.ever = Offered(kind) /\ begun.throughout = Due(kind)
    BY DEF Idle, Field
  <1>3. req' = [q \in Request |-> IF q = r THEN begun ELSE req[q]]
    BY <1>1 DEF Begin, Inv
  <1> HIDE DEF begun
  <1>4. /\ req'[r] = begun /\ req' = [q \in Request |-> req'[q]]
        /\ \A q \in Request \ {r} : req'[q] = req[q]
    BY <1>3
  <1>5. UNCHANGED <<row, link, posting>>
    BY <1>1 DEF Begin, Tables
  <1>6. Offered("generate")' = Offered("generate") /\ Offered("evaluate")' = Offered("evaluate")
    BY <1>5 DEF Offered, Shown
  <1>7. Due("generate")' = Due("generate") /\ Due("evaluate")' = Due("evaluate")
    BY <1>5, <1>6 DEF Due
  <1>8. found \subseteq Offered(kind) /\ Due(kind) \subseteq Offered(kind)
    BY DEF Offered, Due
  <1>9. Fresh(r, Generating, "generate")' /\ Fresh(r, Evaluating, "evaluate")'
    BY <1>1, <1>2, <1>4, <1>6, <1>7, <1>8 DEF Fresh, Generating, Evaluating
  <1>10. Covered(r)'
    <2>1. \A t : <<"signals", t>> \in Due(kind) => t = posting.signals
      BY DueIsThere DEF Inv
    <2>2. req'[r].throughout = Due(kind) /\ req'[r].given = found /\ req'[r].at = first
      BY <1>2, <1>4
    <2> QED
      BY <2>1, <2>2 DEF Covered, HasRead
  <1> QED
    BY <1>2, <1>4, <1>5, <1>9, <1>10, OthersKept DEF Sound, Whole

\* What every step that reads starts from.
LEMMA SoundNow ==
  ASSUME Inv, NEW r \in Request
  PROVE  /\ Rooted /\ Covered(r)
         /\ req[r].at \in Generating =>
              req[r].throughout \subseteq Due("generate") /\ req[r].given \subseteq req[r].ever
         /\ req[r].at \in Evaluating =>
              req[r].throughout \subseteq Due("evaluate") /\ req[r].given \subseteq req[r].ever
         /\ req[r].at \in Generating => Offered("generate") \subseteq req[r].ever
         /\ req[r].at \in Evaluating => Offered("evaluate") \subseteq req[r].ever
  BY DEF Inv, Sound, Fresh

LEMMA EvaluateSkillsSound ==
  ASSUME Inv, NEW r \in Request, EvaluateSkills(r)
  PROVE  Inv'
  <1> DEFINE found == {<<"skill", s>> : s \in Shown(Skill)}
  <1>1. Take(r, found, {}, "preferences") /\ req[r].at = "skills"
    BY DEF EvaluateSkills
  <1>2. found \subseteq Offered("evaluate")
    BY DEF Offered
  <1>3. HasRead(r, "signals") /\ \A s : <<"skill", s>> \in req[r].throughout => s \in Shown(Skill)
    BY <1>1, SoundNow, DueIsThere DEF Covered, Generating, Evaluating
  <1>4. /\ req'[r].at = "preferences" /\ req'[r].given = req[r].given \cup found
        /\ req'[r].throughout = req[r].throughout
    BY <1>1, Taken
  <1>5. Covered(r)'
    BY <1>3, <1>4 DEF Covered, HasRead
  <1> QED
    BY <1>1, <1>2, <1>5, TakesWhatIsOffered DEF Evaluating

LEMMA EvaluatePreferencesSound ==
  ASSUME Inv, NEW r \in Request, EvaluatePreferences(r)
  PROVE  Inv'
  <1> DEFINE found == {<<"preference", p>> : p \in Shown(Preference)}
  <1>1. Take(r, found, {}, "narrative") /\ req[r].at = "preferences"
    BY DEF EvaluatePreferences
  <1>2. found \subseteq Offered("evaluate")
    BY DEF Offered
  <1>3. /\ HasRead(r, "signals") /\ HasRead(r, "skill")
        /\ req[r].throughout \subseteq Due("evaluate")
        /\ req[r].given \subseteq req[r].ever /\ Offered("evaluate") \subseteq req[r].ever
    BY <1>1, SoundNow DEF Covered, Generating, Evaluating
  <1>4. /\ req'[r].at = "narrative" /\ req'[r].given = req[r].given \cup found
        /\ req'[r].throughout = req[r].throughout /\ req'[r].ever = req[r].ever
    BY <1>1, Taken
  <1>5. \A p : <<"preference", p>> \in req[r].throughout => <<"preference", p>> \in found
    BY <1>3, SoundNow, DueIsThere
  <1>6. req[r].throughout \subseteq req[r].given \cup found
    BY <1>3, <1>5, DueIsRead DEF HasRead
  <1>7. Covered(r)'
    BY <1>2, <1>3, <1>4, <1>6 DEF Covered, Generating, Evaluating
  <1> QED
    BY <1>1, <1>2, <1>7, TakesWhatIsOffered DEF Evaluating

\* A contribution due hangs under a position and an employer that are shown.
LEMMA ReadEmployersSound ==
  ASSUME Inv, NEW r \in Request, ReadEmployers(r)
  PROVE  Inv'
  <1>1. Take(r, {}, Shown(Employer), "jobs") /\ req[r].at = "employers"
    BY DEF ReadEmployers
  <1>2. HasRead(r, "signals") /\ req[r].throughout \subseteq Due("generate") /\ Rooted
    BY <1>1, SoundNow DEF Covered, Generating
  <1>3. ASSUME NEW c \in Contribution, <<"position", c>> \in req[r].throughout
        PROVE  Under[Under[c]] \in Shown(Employer)
    <2>1. row[c] = "shown"
      BY <1>2, <1>3, DueIsThere DEF Shown
    <2>2. row[Under[c]] = "shown" /\ Under[c] \in Position
      BY <1>2, <2>1, Hanging DEF Rooted
    <2>3. row[Under[Under[c]]] = "shown" /\ Under[Under[c]] \in Employer
      BY <1>2, <2>2, Hanging DEF Rooted
    <2> QED
      BY <2>3 DEF Shown
  <1>4. /\ req'[r].at = "jobs" /\ req'[r].given = req[r].given
        /\ req'[r].todo = Shown(Employer) /\ req'[r].throughout = req[r].throughout
    <2> DEFINE todo == Shown(Employer)
    <2>1. Take(r, {}, todo, "jobs")
      BY <1>1
    <2> HIDE DEF todo
    <2>2. /\ req'[r].at = "jobs" /\ req'[r].given = req[r].given \cup {}
          /\ req'[r].todo = todo /\ req'[r].throughout = req[r].throughout
      BY <2>1, Taken
    <2> QED
      BY <2>2 DEF todo
  <1>5. Covered(r)'
    BY <1>2, <1>3, <1>4 DEF Covered, HasRead, JobsToCome, Shown
  <1> QED
    BY <1>1, <1>5, TakesWhatIsOffered DEF Generating

LEMMA ReadPositionsSound ==
  ASSUME Inv, NEW r \in Request, ReadPositions(r)
  PROVE  Inv'
  <1>1. PICK e \in req[r].todo :
          Take(r, {}, (req[r].todo \ {e}) \cup {p \in Shown(Position) : Under[p] = e}, "jobs")
    BY DEF ReadPositions
  <1>2. req[r].at = "jobs"
    BY DEF ReadPositions
  <1>3. /\ HasRead(r, "signals") /\ JobsToCome(r) /\ Rooted
        /\ req[r].throughout \subseteq Due("generate")
    BY <1>2, SoundNow DEF Covered, Generating
  <1>4. ASSUME NEW c \in Contribution, <<"position", c>> \in req[r].throughout
        PROVE  Under[c] \in Shown(Position) /\ Under[c] \notin Employer
    <2>1. row[c] = "shown"
      BY <1>3, <1>4, DueIsThere DEF Shown
    <2> QED
      BY <1>3, <2>1, Hanging DEF Rooted, Shown
  <1>5. req[r].todo \cap Position = {} /\ e \in Employer
    BY <1>3, Hanging DEF ReadPositions, JobsToCome
  <1>6. /\ req'[r].at = "jobs" /\ req'[r].given = req[r].given
        /\ req'[r].todo = (req[r].todo \ {e}) \cup {p \in Shown(Position) : Under[p] = e}
        /\ req'[r].throughout = req[r].throughout
    BY <1>1, Taken
  <1>7. JobsToCome(r)'
    BY <1>3, <1>4, <1>5, <1>6, Hanging DEF JobsToCome, Shown
  <1>8. Covered(r)'
    BY <1>3, <1>6, <1>7 DEF Covered, HasRead
  <1> QED
    BY <1>1, <1>2, <1>8, TakesWhatIsOffered DEF Generating

LEMMA ReadContributionsSound ==
  ASSUME Inv, NEW r \in Request, ReadContributions(r)
  PROVE  Inv'
  <1> DEFINE found(p) == {<<"position", c>> : c \in {c \in Shown(Contribution) : Under[c] = p}}
  <1>1. PICK p \in req[r].todo \cap Position : Take(r, found(p), req[r].todo \ {p}, "jobs")
    BY DEF ReadContributions
  <1>2. req[r].at = "jobs"
    BY DEF ReadContributions
  <1>3. /\ HasRead(r, "signals") /\ JobsToCome(r)
        /\ \A c : <<"position", c>> \in req[r].throughout => c \in Shown(Contribution)
    BY <1>2, SoundNow, DueIsThere DEF Covered, Generating
  <1>4. /\ req'[r].at = "jobs" /\ req'[r].given = req[r].given \cup found(p)
        /\ req'[r].todo = req[r].todo \ {p} /\ req'[r].throughout = req[r].throughout
    BY <1>1, Taken
  <1>5. JobsToCome(r)'
    <2>1. ASSUME NEW c \in Contribution, <<"position", c>> \in req[r].throughout
          PROVE  \/ <<"position", c>> \in req[r].given \cup found(p)
                 \/ Under[c] \in req[r].todo \ {p}
                 \/ Under[Under[c]] \in req[r].todo \ {p}
      BY <1>3, <2>1, Hanging DEF JobsToCome
    <2> QED
      BY <1>3, <1>4, <2>1 DEF JobsToCome
  <1>6. Covered(r)'
    BY <1>3, <1>4, <1>5 DEF Covered, HasRead
  <1>7. found(p) \subseteq Offered("generate")
    BY DEF Offered
  <1> QED
    BY <1>1, <1>2, <1>6, <1>7, TakesWhatIsOffered DEF Generating

\* With no employer and no position to come, every contribution due has been read.
LEMMA ReadSkillsSound ==
  ASSUME Inv, NEW r \in Request, ReadSkills(r)
  PROVE  Inv'
  <1> DEFINE found == {<<"skill", s>> : s \in Shown(Skill)}
  <1>1. Take(r, found, {}, "projects") /\ req[r].at = "jobs" /\ req[r].todo = {}
    BY DEF ReadSkills
  <1>2. found \subseteq Offered("generate")
    BY DEF Offered
  <1>3. /\ HasRead(r, "signals") /\ JobsToCome(r)
        /\ \A c : <<"position", c>> \in req[r].throughout => c \in Shown(Contribution)
        /\ \A s : <<"skill", s>> \in req[r].throughout => s \in Shown(Skill)
    BY <1>1, SoundNow, DueIsThere DEF Covered, Generating
  <1>4. /\ req'[r].at = "projects" /\ req'[r].given = req[r].given \cup found
        /\ req'[r].throughout = req[r].throughout
    BY <1>1, Taken
  <1>5. HasRead(r, "position")
    BY <1>1, <1>3 DEF JobsToCome, HasRead, Shown
  <1>6. Covered(r)'
    BY <1>3, <1>4, <1>5 DEF Covered, HasRead
  <1> QED
    BY <1>1, <1>2, <1>6, TakesWhatIsOffered DEF Generating

LEMMA ReadProjectsSound ==
  ASSUME Inv, NEW r \in Request, ReadProjects(r)
  PROVE  Inv'
  <1> DEFINE found == {<<"project", j>> : j \in Shown(Project)}
             todo == Shown(Project)
  <1>1. Take(r, found, todo, "works") /\ req[r].at = "projects"
    BY DEF ReadProjects
  <1>2. found \subseteq Offered("generate")
    BY DEF Offered
  <1>3. /\ HasRead(r, "signals") /\ HasRead(r, "position") /\ HasRead(r, "skill")
        /\ \A j : <<"project", j>> \in req[r].throughout => j \in Shown(Project)
        /\ \A l : <<"work", l>> \in req[r].throughout => l[1] \in Shown(Project)
    BY <1>1, SoundNow, DueIsThere DEF Covered, Generating
  <1> HIDE DEF todo
  <1>4. /\ req'[r].at = "works" /\ req'[r].given = req[r].given \cup found
        /\ req'[r].todo = todo /\ req'[r].throughout = req[r].throughout
    BY <1>1, Taken
  <1>5. Covered(r)'
    BY <1>3, <1>4 DEF Covered, HasRead, WorksToCome, todo
  <1> QED
    BY <1>1, <1>2, <1>5, TakesWhatIsOffered DEF Generating

LEMMA ReadWorksSound ==
  ASSUME Inv, NEW r \in Request, ReadWorks(r)
  PROVE  Inv'
  <1> DEFINE found(j) == {<<"work", l>> : l \in {l \in link : l[1] = j /\ row[l[2]] = "shown"}}
  <1>1. PICK j \in req[r].todo : Take(r, found(j), req[r].todo \ {j}, "works")
    BY DEF ReadWorks
  <1>2. req[r].at = "works"
    BY DEF ReadWorks
  <1>3. found(j) \subseteq Offered("generate")
    BY DEF Offered
  <1>4. /\ HasRead(r, "signals") /\ HasRead(r, "position") /\ HasRead(r, "skill")
        /\ HasRead(r, "project") /\ WorksToCome(r)
        /\ \A l : <<"work", l>> \in req[r].throughout => l \in link /\ row[l[2]] = "shown"
    BY <1>2, SoundNow, DueIsThere DEF Covered, Generating
  <1>5. /\ req'[r].at = "works" /\ req'[r].given = req[r].given \cup found(j)
        /\ req'[r].todo = req[r].todo \ {j} /\ req'[r].throughout = req[r].throughout
    BY <1>1, Taken
  <1>6. ASSUME NEW l, <<"work", l>> \in req[r].throughout
        PROVE  <<"work", l>> \in req[r].given \cup found(j) \/ l[1] \in req[r].todo \ {j}
    BY <1>4, <1>6 DEF WorksToCome
  <1>7. Covered(r)'
    BY <1>4, <1>5, <1>6 DEF Covered, HasRead, WorksToCome
  <1> QED
    BY <1>1, <1>2, <1>3, <1>7, TakesWhatIsOffered DEF Generating

\* All that could be due has been gone through.
LEMMA AskForBodySound ==
  ASSUME Inv, NEW r \in Request, AskForBody(r)
  PROVE  Inv'
  <1>1. Take(r, {}, {}, "body") /\ req[r].at = "works" /\ req[r].todo = {}
    BY DEF AskForBody
  <1>2. /\ HasRead(r, "signals") /\ HasRead(r, "position") /\ HasRead(r, "skill")
        /\ HasRead(r, "project") /\ WorksToCome(r)
        /\ req[r].throughout \subseteq Due("generate") /\ req[r].given \subseteq req[r].ever
    BY <1>1, SoundNow DEF Covered, Generating
  <1>3. /\ req'[r].at = "body" /\ req'[r].given = req[r].given
        /\ req'[r].throughout = req[r].throughout /\ req'[r].ever = req[r].ever
    <2>1. ASSUME NEW found, NEW todo, Take(r, found, todo, "body")
          PROVE  /\ req'[r].at = "body" /\ req'[r].given = req[r].given \cup found
                 /\ req'[r].throughout = req[r].throughout /\ req'[r].ever = req[r].ever
      BY <2>1, Taken
    <2>2. /\ req'[r].at = "body" /\ req'[r].given = req[r].given \cup {}
          /\ req'[r].throughout = req[r].throughout /\ req'[r].ever = req[r].ever
      BY <1>1, <2>1
    <2> QED
      BY <2>2
  <1>4. req[r].throughout \subseteq req[r].given
    BY <1>1, <1>2, DueIsRead DEF HasRead, WorksToCome
  <1>5. Covered(r)'
    BY <1>2, <1>3, <1>4 DEF Covered, Generating, Evaluating
  <1> QED
    BY <1>1, <1>5, TakesWhatIsOffered DEF Generating

-----------------------------------------------------------------------------

LEMMA RestingSteps ==
  ASSUME Inv, NEW r \in Request,
         \/ ExtractRead(r) \/ EvaluateStore(r) \/ BodyAnswered(r)
         \/ NextResumeVersionNumber(r) \/ CreateResumeVersion(r) \/ VersionRefused(r)
         \/ Fails(r)
  PROVE  Inv'
  <1>1. UNCHANGED <<row, link, posting>>
    BY DEF ExtractRead, EvaluateStore, BodyAnswered, NextResumeVersionNumber,
      CreateResumeVersion, VersionRefused, Fails, Tables
  <1>2. ASSUME NEW v, req' = [req EXCEPT ![r] = v], v = [f \in Field |-> v[f]],
               v.at \in {"idle", "extracting", "summary", "numbered"}
        PROVE  Inv'
    BY <1>1, <1>2, Resting
  <1>3. CASE ExtractRead(r)
    <2> DEFINE v == [Idle EXCEPT !.kind = "extract", !.at = "extracting", !.text = posting.text]
    <2>1. req' = [req EXCEPT ![r] = v]
      BY <1>3 DEF ExtractRead
    <2>2. v = [f \in Field |-> v[f]] /\ v.at = "extracting"
      BY DEF Idle, Field
    <2> HIDE DEF v
    <2> QED
      BY <1>2, <2>1, <2>2
  <1>4. CASE BodyAnswered(r)
    <2> DEFINE v(doc) == [Idle EXCEPT !.kind = "generate", !.at = "summary", !.doc = doc]
    <2>1. PICK doc : req' = [req EXCEPT ![r] = v(doc)]
      BY <1>4 DEF BodyAnswered
    <2>2. v(doc) = [f \in Field |-> v(doc)[f]] /\ v(doc).at = "summary"
      BY DEF Idle, Field
    <2> HIDE DEF v
    <2> QED
      BY <1>2, <2>1, <2>2
  <1>5. CASE NextResumeVersionNumber(r)
    <2> DEFINE number == Max(ToSet(versions) \cup {0}) + 1
               v == [Idle EXCEPT !.kind = "generate", !.at = "numbered", !.number = number]
    <2>1. req' = [req EXCEPT ![r] = v]
      BY <1>5 DEF NextResumeVersionNumber
    <2> HIDE DEF number
    <2>2. v = [f \in Field |-> v[f]] /\ v.at = "numbered"
      BY DEF Idle, Field
    <2> HIDE DEF v
    <2> QED
      BY <1>2, <2>1, <2>2
  <1>6. CASE EvaluateStore(r) \/ CreateResumeVersion(r) \/ VersionRefused(r) \/ Fails(r)
    <2>1. req' = [req EXCEPT ![r] = Idle]
      BY <1>6 DEF EvaluateStore, CreateResumeVersion, VersionRefused, Fails, End
    <2>2. Idle = [f \in Field |-> Idle[f]] /\ Idle.at = "idle"
      BY DEF Idle, Field
    <2> QED
      BY <1>2, <2>1, <2>2
  <1> QED
    BY <1>3, <1>4, <1>5, <1>6

LEMMA StepInv == Inv /\ [Next]_vars => Inv'
  <1> SUFFICES ASSUME Inv, [Next]_vars PROVE Inv'
    OBVIOUS
  <1>1. CASE Screens
    <2>1. Rooted'
      BY <1>1, RootedKept DEF Inv
    <2>2. req' = [r \in Request |-> req'[r]] /\ \A r \in Request : Sound(r)'
      BY <1>1, ScreensWatch, Watched
    <2> QED
      BY <2>1, <2>2 DEF Inv
  <1>2. ASSUME NEW r \in Request, ExtractStore(r) PROVE Inv'
    <2>1. Rooted'
      BY <1>2 DEF Inv, Rooted, ExtractStore
    <2>2. req' = [q \in Request |-> req'[q]] /\ \A q \in Request : Sound(q)'
      BY <1>2, Watched DEF ExtractStore
    <2> QED
      BY <2>1, <2>2 DEF Inv
  <1>3. ASSUME NEW r \in Request, Step(r), ~ ExtractStore(r) PROVE Inv'
    BY <1>3, BeginsSound, EvaluateSkillsSound, EvaluatePreferencesSound, ReadEmployersSound,
      ReadPositionsSound, ReadContributionsSound, ReadSkillsSound, ReadProjectsSound,
      ReadWorksSound, AskForBodySound, RestingSteps DEF Step
  <1>4. CASE UNCHANGED vars
    BY <1>4 DEF vars, Inv, Rooted, Sound, Whole, Field, Fresh, Covered, HasRead, JobsToCome,
      WorksToCome, Due, Offered, Shown
  <1> QED
    BY <1>1, <1>2, <1>3, <1>4 DEF Next

\* Every request stays sound, at whatever point edits and other requests come in.
THEOREM InvHolds == Spec => []Inv
  BY InitInv, StepInv, PTL DEF Spec

\* A prompt and a report are made from all that was in the career the whole time
\* their request read it, and from nothing that was at no time there: for every
\* career, any number of requests at once and any number of edits meanwhile.
THEOREM WorksFromTheCareerHolds == Spec => []WorksFromTheCareer
  <1>1. Inv => WorksFromTheCareer
    BY DEF Inv, Sound, Covered, WorksFromTheCareer
  <1> QED
    BY <1>1, InvHolds, PTL

-----------------------------------------------------------------------------
(* Requests that wait with what they have made                             *)

\* Whoever is at the stage after a step was there before it, unchanged.
Keeps(stage) ==
  \A r \in Request : req'[r].at = stage => req'[r] = req[r]

LEMMA WatchKeeps ==
  ASSUME Inv, NEW S, WatchBut(S), NEW stage \in {"summary", "numbered"}
  PROVE  Keeps(stage)
  <1> SUFFICES ASSUME NEW r \in Request, req'[r].at = stage
               PROVE  req'[r] = req[r]
    BY DEF Keeps
  <1>1. Whole(r)
    BY DEF Inv, Sound
  <1>2. CASE r \in S
    BY <1>2 DEF WatchBut, Idle
  <1>3. CASE r \notin S /\ Reading(r)
    <2>1. req'[r].at = req[r].at
      BY <1>1, <1>3 DEF WatchBut, Whole, Field
    <2> QED
      BY <1>3, <2>1 DEF Reading
  <1>4. CASE r \notin S /\ ~ Reading(r)
    BY <1>4 DEF WatchBut
  <1> QED
    BY <1>2, <1>3, <1>4

\* Only BodyAnswered begins to wait with a document, and only
\* NextResumeVersionNumber with a number.
LEMMA StepKeeps ==
  ASSUME Inv, NEW r \in Request, Step(r), ~ ExtractStore(r),
         NEW stage \in {"summary", "numbered"},
         stage = "summary" => ~ BodyAnswered(r),
         stage = "numbered" => ~ NextResumeVersionNumber(r)
  PROVE  Keeps(stage)
  <1>1. ASSUME NEW v, req' = [req EXCEPT ![r] = v], v.at # stage
        PROVE  Keeps(stage)
    BY <1>1 DEF Inv, Keeps
  <1>2. ASSUME NEW found, NEW todo, NEW next, next # stage, Take(r, found, todo, next)
        PROVE  Keeps(stage)
    <2>1. req'[r].at = next /\ \A q \in Request \ {r} : req'[q] = req[q]
      BY <1>2, Taken
    <2> QED
      BY <1>2, <2>1 DEF Keeps
  <1>3. ASSUME NEW kind, NEW first, first # stage, NEW found, Begin(r, kind, first, found)
        PROVE  Keeps(stage)
    <2> DEFINE v == [Idle EXCEPT !.kind = kind, !.at = first, !.given = found,
                                 !.ever = Offered(kind), !.throughout = Due(kind)]
    <2>1. req' = [req EXCEPT ![r] = v]
      BY <1>3 DEF Begin
    <2>2. v.at = first
      BY DEF Idle
    <2> HIDE DEF v
    <2> QED
      BY <1>1, <1>3, <2>1, <2>2
  <1>4. CASE ExtractRead(r)
    <2> DEFINE v == [Idle EXCEPT !.kind = "extract", !.at = "extracting", !.text = posting.text]
    <2>1. req' = [req EXCEPT ![r] = v]
      BY <1>4 DEF ExtractRead
    <2>2. v.at = "extracting"
      BY DEF Idle
    <2> HIDE DEF v
    <2> QED
      BY <1>1, <2>1, <2>2
  <1>5. CASE BodyAnswered(r)
    <2> DEFINE v(doc) == [Idle EXCEPT !.kind = "generate", !.at = "summary", !.doc = doc]
    <2>1. PICK doc : req' = [req EXCEPT ![r] = v(doc)]
      BY <1>5 DEF BodyAnswered
    <2>2. v(doc).at = "summary" /\ stage # "summary"
      BY <1>5 DEF Idle
    <2> HIDE DEF v
    <2> QED
      BY <1>1, <2>1, <2>2
  <1>6. CASE NextResumeVersionNumber(r)
    <2> DEFINE v(number) == [Idle EXCEPT !.kind = "generate", !.at = "numbered", !.number = number]
    <2>1. PICK number : req' = [req EXCEPT ![r] = v(number)]
      BY <1>6 DEF NextResumeVersionNumber
    <2>2. v(number).at = "numbered" /\ stage # "numbered"
      BY <1>6 DEF Idle
    <2> HIDE DEF v
    <2> QED
      BY <1>1, <2>1, <2>2
  <1>7. CASE EvaluateStore(r) \/ CreateResumeVersion(r) \/ VersionRefused(r) \/ Fails(r)
    <2>1. req' = [req EXCEPT ![r] = Idle]
      BY <1>7 DEF EvaluateStore, CreateResumeVersion, VersionRefused, Fails, End
    <2>2. Idle.at = "idle"
      BY DEF Idle
    <2> QED
      BY <1>1, <2>1, <2>2
  <1>8. CASE EvaluateRead(r) \/ GenerateRead(r)
    BY <1>3, <1>8 DEF EvaluateRead, GenerateRead
  <1>9. CASE \/ EvaluateSkills(r) \/ EvaluatePreferences(r) \/ ReadEmployers(r)
             \/ ReadPositions(r) \/ ReadContributions(r) \/ ReadSkills(r)
             \/ ReadProjects(r) \/ ReadWorks(r) \/ AskForBody(r)
    <2>1. \E found, todo, next : next # stage /\ Take(r, found, todo, next)
      BY <1>9 DEF EvaluateSkills, EvaluatePreferences, ReadEmployers, ReadPositions,
        ReadContributions, ReadSkills, ReadProjects, ReadWorks, AskForBody
    <2> QED
      BY <1>2, <2>1
  <1> QED
    BY <1>4, <1>5, <1>6, <1>7, <1>8, <1>9 DEF Step

\* Only CreateResumeVersion stores a version.
LEMMA VersionsKept ==
  ASSUME NEW r \in Request, Step(r), ~ CreateResumeVersion(r)
  PROVE  UNCHANGED versions
  BY DEF Step, ExtractRead, ExtractStore, EvaluateRead, EvaluateSkills, EvaluatePreferences,
    EvaluateStore, GenerateRead, ReadEmployers, ReadPositions, ReadContributions, ReadSkills,
    ReadProjects, ReadWorks, AskForBody, BodyAnswered, NextResumeVersionNumber, VersionRefused,
    Fails, Begin, Take

-----------------------------------------------------------------------------
(* The numbers of the versions                                             *)

\* The versions stored are 1, 2, ..., and a number taken is one of theirs, so
\* refused, or the next one.
Numbered ==
  /\ versions \in Seq(Nat)
  /\ NumberedInOrder
  /\ \A r \in Request : req[r].at = "numbered" => req[r].number \in 1..(Len(versions) + 1)

\* Of numbers 1, 2, ... the highest is how many there are.
LEMMA HighestNumber ==
  ASSUME Numbered
  PROVE  ToSet(versions) = 1..Len(versions) /\ Max(ToSet(versions) \cup {0}) = Len(versions)
  <1>1. ToSet(versions) = 1..Len(versions) /\ Len(versions) \in Nat
    BY DEF Numbered, NumberedInOrder, ToSet
  <1>2. ToSet(versions) \cup {0} = 0..Len(versions)
    BY <1>1
  <1>3. /\ Len(versions) \in 0..Len(versions)
        /\ \A y \in 0..Len(versions) : Len(versions) >= y
        /\ \A x \in 0..Len(versions) : x >= Len(versions) => x = Len(versions)
    BY <1>1
  <1>4. Max(0..Len(versions)) = Len(versions)
    BY <1>3 DEF Max
  <1> QED
    BY <1>1, <1>2, <1>4

LEMMA StepNumbered == Inv /\ Numbered /\ [Next]_vars => Numbered'
  <1> SUFFICES ASSUME Inv, Numbered, [Next]_vars PROVE Numbered'
    OBVIOUS
  <1>1. Keeps("numbered") /\ UNCHANGED versions => Numbered'
    BY DEF Keeps, Numbered, NumberedInOrder
  <1>2. CASE Screens
    BY <1>1, <1>2, ScreensWatch, WatchKeeps
  <1>3. ASSUME NEW r \in Request, ExtractStore(r) PROVE Numbered'
    BY <1>1, <1>3, WatchKeeps DEF ExtractStore
  <1>4. ASSUME NEW r \in Request, NextResumeVersionNumber(r) PROVE Numbered'
    <2>1. UNCHANGED versions /\ \A q \in Request \ {r} : req'[q] = req[q]
      BY <1>4 DEF NextResumeVersionNumber, Inv
    <2>2. req'[r].number = Len(versions) + 1
      BY <1>4, HighestNumber DEF NextResumeVersionNumber, Idle, Inv
    <2>3. Len(versions) + 1 \in 1..(Len(versions) + 1)
      BY DEF Numbered
    <2> QED
      BY <2>1, <2>2, <2>3 DEF Numbered, NumberedInOrder
  <1>5. ASSUME NEW r \in Request, CreateResumeVersion(r) PROVE Numbered'
    <2>1. req[r].number = Len(versions) + 1 /\ Len(versions) \in Nat
      BY <1>5, HighestNumber DEF CreateResumeVersion, Numbered
    <2>2. versions' = Append(versions, Len(versions) + 1)
      BY <1>5, <2>1 DEF CreateResumeVersion
    <2>3. versions' \in Seq(Nat) /\ Len(versions') = Len(versions) + 1 /\ NumberedInOrder'
      BY <2>1, <2>2 DEF Numbered, NumberedInOrder
    <2>4. \A q \in Request : req'[q].at = "numbered" => q # r /\ req'[q] = req[q]
      BY <1>5 DEF CreateResumeVersion, End, Idle, Inv
    <2>5. \A q \in Request : req'[q].at = "numbered" => req'[q].number \in 1..(Len(versions) + 2)
      BY <2>1, <2>4 DEF Numbered
    <2> QED
      BY <2>1, <2>3, <2>5 DEF Numbered
  <1>6. ASSUME NEW r \in Request, Step(r), ~ ExtractStore(r),
               ~ NextResumeVersionNumber(r), ~ CreateResumeVersion(r)
        PROVE  Numbered'
    BY <1>1, <1>6, StepKeeps, VersionsKept
  <1>7. CASE UNCHANGED vars
    BY <1>7 DEF vars, Numbered, NumberedInOrder
  <1> QED
    BY <1>2, <1>3, <1>4, <1>5, <1>6, <1>7 DEF Next

\* Resume versions are numbered 1, 2, ... without a gap or a repetition, however
\* many requests number theirs at once: MAX + 1 read before the insert is either
\* still the next number or refused by the unique constraint.
THEOREM NumberedInOrderHolds == Spec => []NumberedInOrder
  <1>1. Init => Numbered
    BY DEF Init, Numbered, NumberedInOrder, Idle
  <1>2. Numbered => NumberedInOrder
    BY DEF Numbered
  <1> QED
    BY <1>1, <1>2, StepNumbered, InvHolds, PTL DEF Spec

-----------------------------------------------------------------------------
(* The skills section                                                      *)

LEMMA LeastOf ==
  ASSUME NEW S \in SUBSET Nat, S # {}
  PROVE  \E i \in S : \A j \in S : i <= j
  <1>1. PICK i \in S : \A j \in S : ~ (<<j, i>> \in OpToRel(<, Nat))
    BY NatLessThanWellFounded, WFMin, Zenon
  <1>2. \A j \in S : ~ (j < i)
    BY <1>1, Zenon DEF OpToRel
  <1> QED
    BY <1>2

\* What the loop of reconcileSkills adds for one skill of the order.
PutBack(body, claimed, n, entries) ==
  entries \cup {s \in {ClaimOrder[n]} \cap claimed :
                  ~ Listed(s, entries) /\ Listed(s, body.bullets)}

\* f[m] is the section after the first m skills, for m up to n.
Runs(body, claimed, n, f) ==
  f = [m \in 0 .. n |-> IF m = 0 THEN body.skills ELSE PutBack(body, claimed, m, f[m - 1])]

\* The loop comes to an end for an order of any length.
LEMMA LoopRuns ==
  ASSUME NEW body, NEW claimed, NEW n \in Nat
  PROVE  \E f : Runs(body, claimed, n, f)
  <1> DEFINE R(k, f) == Runs(body, claimed, k, f)
             Stuck   == {k \in Nat : ~ \E f : R(k, f)}
  <1>1. Stuck = {}
    <2> SUFFICES ASSUME Stuck # {} PROVE FALSE
      OBVIOUS
    <2>1. PICK k \in Stuck : \A j \in Stuck : k <= j
      BY LeastOf
    <2>2. CASE k = 0
      <3> DEFINE g == [m \in {0} |-> body.skills]
      <3>1. 0 .. 0 = {0}
        OBVIOUS
      <3>2. R(0, g)
        BY <3>1 DEF Runs
      <3> QED
        BY <2>1, <2>2, <3>2
    <2>3. CASE k # 0
      <3>1. k \in Nat /\ k - 1 \in Nat /\ k - 1 < k
        BY <2>3
      <3>2. PICK f : R(k - 1, f)
        BY <2>1, <3>1
      <3> DEFINE g == [m \in 0 .. k |-> IF m = k THEN PutBack(body, claimed, k, f[k - 1]) ELSE f[m]]
      <3>3. \A m \in 0 .. k - 1 :
              f[m] = IF m = 0 THEN body.skills ELSE PutBack(body, claimed, m, f[m - 1])
        BY <3>1, <3>2 DEF Runs
      <3>4. \A m \in 0 .. k : g[m] = IF m = k THEN PutBack(body, claimed, k, f[k - 1]) ELSE f[m]
        OBVIOUS
      <3>5. \A m \in 0 .. k - 1 : g[m] = f[m]
        BY <3>1, <3>4
      <3>6. \A m \in 0 .. k :
              g[m] = IF m = 0 THEN body.skills ELSE PutBack(body, claimed, m, g[m - 1])
        <4> SUFFICES ASSUME NEW m \in 0 .. k
                     PROVE  g[m] = IF m = 0 THEN body.skills
                                   ELSE PutBack(body, claimed, m, g[m - 1])
          OBVIOUS
        <4>1. m # 0 => g[m - 1] = f[m - 1]
          BY <3>1, <3>5
        <4> HIDE DEF g
        <4>2. CASE m = k
          BY <2>3, <3>4, <4>1, <4>2
        <4>3. CASE m # k
          <5>1. m \in 0 .. k - 1
            BY <3>1, <4>3
          <5> QED
            BY <3>3, <3>5, <4>1, <5>1
        <4> QED
          BY <4>2, <4>3
      <3>7. g = [m \in 0 .. k |-> g[m]]
        OBVIOUS
      <3> HIDE DEF g
      <3>8. R(k, g)
        BY <3>6, <3>7 DEF Runs
      <3> QED
        BY <2>1, <3>8
    <2> QED
      BY <2>2, <2>3
  <1> QED
    BY <1>1

LEMMA ListedMore ==
  ASSUME NEW s, NEW few, NEW many, few \subseteq many, Listed(s, few)
  PROVE  Listed(s, many)
  BY DEF Listed

\* After the loop every claimed skill that a bullet names is named by an entry,
\* be it one that was put back for another skill.
LEMMA ReconcileBacks ==
  ASSUME NEW body, NEW claimed \in SUBSET Skill, body.skills # Nothing,
         NEW s \in claimed, Listed(s, body.bullets)
  PROVE  Listed(s, Reconcile(body, claimed))
  <1> DEFINE N  == Len(ClaimOrder)
             es == CHOOSE f : Runs(body, claimed, N, f)
  <1>1. N \in Nat /\ DOMAIN ClaimOrder = 1 .. N
    BY ApplicationAssumption, LenProperties
  <1>2. Reconcile(body, claimed) = es[N]
    BY DEF Reconcile, Runs, PutBack
  <1>3. Runs(body, claimed, N, es)
    BY <1>1, LoopRuns
  <1> HIDE DEF es, N
  <1>4. \A m \in 1 .. N : es[m] = PutBack(body, claimed, m, es[m - 1])
    BY <1>1, <1>3 DEF Runs
  <1>5. PICK i \in 1 .. N : ClaimOrder[i] = s
    BY <1>1, ApplicationAssumption DEF ToSet
  <1>6. Listed(s, es[i])
    <2>1. es[i] = PutBack(body, claimed, i, es[i - 1])
      BY <1>4
    <2>2. CASE Listed(s, es[i - 1])
      BY <2>1, <2>2, ListedMore DEF PutBack
    <2>3. CASE ~ Listed(s, es[i - 1])
      <3>1. s \in es[i]
        BY <1>5, <2>1, <2>3 DEF PutBack
      <3>2. s \in NamedIn[s]
        BY ApplicationAssumption
      <3> QED
        BY <3>1, <3>2 DEF Listed
    <2> QED
      BY <2>2, <2>3
  <1> DEFINE Lost == {m \in Nat : m \in i .. N /\ ~ Listed(s, es[m])}
  <1>7. Lost = {}
    <2> SUFFICES ASSUME Lost # {} PROVE FALSE
      OBVIOUS
    <2>1. PICK m \in Lost : \A j \in Lost : m <= j
      BY LeastOf
    <2>2. m # i /\ m \in i .. N /\ ~ Listed(s, es[m])
      BY <1>6, <2>1
    <2>3. m \in 1 .. N /\ m - 1 \in i .. N /\ m - 1 \in Nat
      BY <1>1, <2>2
    <2>4. Listed(s, es[m - 1])
      BY <2>1, <2>3
    <2>5. es[m - 1] \subseteq es[m]
      BY <1>4, <2>3 DEF PutBack
    <2> QED
      BY <2>2, <2>4, <2>5, ListedMore
  <1>8. N \in i .. N /\ N \in Nat
    BY <1>1
  <1> QED
    BY <1>2, <1>7, <1>8

LEMMA StepBacked == Inv /\ BulletsBackedBySkills /\ [Next]_vars => BulletsBackedBySkills'
  <1> SUFFICES ASSUME Inv, BulletsBackedBySkills, [Next]_vars PROVE BulletsBackedBySkills'
    OBVIOUS
  <1>1. Keeps("summary") => BulletsBackedBySkills'
    BY DEF Keeps, BulletsBackedBySkills, Listed
  <1>2. CASE Screens
    BY <1>1, <1>2, ScreensWatch, WatchKeeps
  <1>3. ASSUME NEW r \in Request, ExtractStore(r) PROVE BulletsBackedBySkills'
    BY <1>1, <1>3, WatchKeeps DEF ExtractStore
  <1>4. ASSUME NEW r \in Request, BodyAnswered(r) PROVE BulletsBackedBySkills'
    <2> DEFINE claimed  == {s \in Skill : <<"skill", s>> \in req[r].given}
               doc(body) == [bullets |-> body.bullets, claimed |-> claimed,
                             skills |-> Reconcile(body, claimed)]
               v(body)  == [Idle EXCEPT !.kind = "generate", !.at = "summary", !.doc = doc(body)]
    <2>1. PICK body \in Bodies : req' = [req EXCEPT ![r] = v(body)]
      BY <1>4 DEF BodyAnswered
    <2>2. v(body).doc = doc(body)
      BY DEF Idle
    <2>3. claimed \in SUBSET Skill
      OBVIOUS
    <2>4. doc(body).bullets = body.bullets /\ doc(body).claimed = claimed
          /\ doc(body).skills = Reconcile(body, claimed)
      OBVIOUS
    <2> HIDE DEF claimed, doc, v
    <2>5. req'[r].doc = doc(body) /\ \A q \in Request \ {r} : req'[q] = req[q]
      BY <2>1, <2>2 DEF Inv
    <2>6. Reconcile(body, claimed) # Nothing => body.skills # Nothing
      BY DEF Reconcile
    <2>7. ASSUME NEW q \in Request, req'[q].at = "summary", req'[q].doc.skills # Nothing,
                 NEW s \in req'[q].doc.claimed, Listed(s, req'[q].doc.bullets)
          PROVE  Listed(s, req'[q].doc.skills)
      <3>1. CASE q = r
        BY <2>3, <2>4, <2>5, <2>6, <2>7, <3>1, ReconcileBacks
      <3>2. CASE q # r
        BY <2>5, <2>7, <3>2 DEF BulletsBackedBySkills
      <3> QED
        BY <3>1, <3>2
    <2> QED
      BY <2>7 DEF BulletsBackedBySkills, Listed
  <1>5. ASSUME NEW r \in Request, Step(r), ~ ExtractStore(r), ~ BodyAnswered(r)
        PROVE  BulletsBackedBySkills'
    BY <1>1, <1>5, StepKeeps
  <1>6. CASE UNCHANGED vars
    BY <1>6 DEF vars, BulletsBackedBySkills, Listed
  <1> QED
    BY <1>2, <1>3, <1>4, <1>5, <1>6 DEF Next

\* A claimed skill that a bullet of the resume names is in its skills section by
\* the time the summary is written, for every order of any length and whatever
\* names the phrases hold of each other.
THEOREM BulletsBackedBySkillsHolds == Spec => []BulletsBackedBySkills
  <1>1. Init => BulletsBackedBySkills
    BY DEF Init, BulletsBackedBySkills, Idle
  <1> QED
    BY <1>1, StepBacked, InvHolds, PTL DEF Spec

=============================================================================
