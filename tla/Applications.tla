---------------------------- MODULE Applications ----------------------------
(***************************************************************************)
(* One application of an account: its posting's signals, the fit reports   *)
(* and resume versions made from them (internal/generation, fitgate), and  *)
(* the screens that go on editing the career meanwhile.                    *)
(*                                                                         *)
(* Generate and RunFitEvaluation read the career in many statements, none  *)
(* of them in a transaction, and call a model before they write.           *)
(***************************************************************************)
EXTENDS Naturals, Sequences, SequencesExt

CONSTANTS
  Employer, Position, Contribution, Project, Skill, Preference,
  Under,          \* the row a position or a contribution hangs under
  Text,           \* posting texts, and the signals each is read into
  Nothing,        \* no text, no signals, no skills section
  Phrase,         \* what a bullet or an entry of the skills section may say
  NamedIn,        \* the skills each phrase names, as whole words
  ClaimOrder,     \* the skills by category, years and name
  Bodies,         \* resume bodies the model may answer with
  Careers,        \* the rows and links there may be at first
  Request, MaxEdits, MaxVersions

Row == Employer \cup Position \cup Contribution \cup Project \cup Skill \cup Preference

ASSUME ApplicationAssumption ==
  /\ DOMAIN Under = Position \cup Contribution
  /\ \A p \in Position : Under[p] \in Employer
  /\ \A c \in Contribution : Under[c] \in Position
  /\ Employer \cap Position = {}
  /\ (Employer \cup Position) \cap (Contribution \cup Project \cup Skill) = {}
  /\ Nothing \notin Text
  /\ NamedIn \in [Phrase -> SUBSET Skill]
  /\ Skill \subseteq Phrase /\ \A s \in Skill : s \in NamedIn[s]
  /\ ClaimOrder \in Seq(Skill) /\ ToSet(ClaimOrder) = Skill
  /\ Bodies \subseteq [bullets : SUBSET Phrase, skills : (SUBSET Phrase) \cup {Nothing}]
  /\ Careers \subseteq [rows : SUBSET Row, links : SUBSET (Project \X Contribution)]
  /\ \A career \in Careers :
       /\ \A x \in career.rows \cap DOMAIN Under : Under[x] \in career.rows
       /\ \A l \in career.links : {l[1], l[2]} \subseteq career.rows
  /\ MaxEdits \in Nat /\ MaxVersions \in Nat

VARIABLES
  row,        \* a row is new, shown, hidden (inactive, force_exclude) or gone
  link,       \* project_contributions
  posting,    \* jd_text and jd_signals
  versions,   \* the numbers of resume_versions, in the order they were stored
  report,     \* the signals the newest fit report is about
  req,        \* what each request has read so far
  edits       \* edits made, up to MaxEdits

vars == <<row, link, posting, versions, report, req, edits>>

Shown(S) == {x \in S : row[x] = "shown"}

Children(x) == {c \in DOMAIN Under : Under[c] = x /\ row[c] \in {"shown", "hidden"}}

\* What a request of the kind can find in the tables now, one row at a time ...
Offered(kind) ==
  {<<"signals", posting.signals>>} \cup {<<"skill", s>> : s \in Shown(Skill)} \cup
  IF kind = "evaluate"
  THEN {<<"preference", p>> : p \in Shown(Preference)}
  ELSE {<<"position", c>> : c \in Shown(Contribution)} \cup
       {<<"project", j>> : j \in Shown(Project)} \cup
       {<<"work", l>> : l \in {l \in link : row[l[2]] = "shown"}}

\* ... and what it must find if that stays: the works of the projects shown.
Due(kind) == Offered(kind) \ {<<"work", l>> : l \in {l \in link : row[l[1]] # "shown"}}

Idle == [kind |-> "none", at |-> "idle", todo |-> {}, given |-> {},
         ever |-> {}, throughout |-> {}, text |-> Nothing, doc |-> Nothing, number |-> 0]

Init ==
  /\ \E career \in Careers :
       /\ row = [x \in Row |-> IF x \in career.rows THEN "shown" ELSE "new"]
       /\ link = career.links
  /\ posting \in [text : Text, signals : Text \cup {Nothing}]
  /\ versions = <<>> /\ report = Nothing /\ edits = 0
  /\ req = [r \in Request |-> Idle]

-----------------------------------------------------------------------------
(* The screens. Watch records what a request that is still reading could,  *)
(* and could all the while, have found; no request reads it.               *)

Reading(r) == req[r].at \in {"employers", "jobs", "skills", "projects", "works", "preferences"}

WatchBut(S) ==
  LET offered == [kind \in {"generate", "evaluate"} |-> Offered(kind)']
      due     == [kind \in {"generate", "evaluate"} |-> Due(kind)']
      watched(r) == [req[r] EXCEPT !.ever = @ \cup offered[req[r].kind],
                                   !.throughout = @ \cap due[req[r].kind]]
  IN  req' = [r \in Request |->
                IF r \in S THEN Idle ELSE IF Reading(r) THEN watched(r) ELSE req[r]]

Watch == WatchBut({})

Edit == edits < MaxEdits /\ edits' = edits + 1 /\ UNCHANGED <<versions, report>>

Put(x, status) == row' = [row EXCEPT ![x] = status]

CreateRow(x, status) ==
  /\ row[x] = "new"
  /\ x \in DOMAIN Under => row[Under[x]] = "shown"
  /\ Put(x, status)
  /\ UNCHANGED <<link, posting>> /\ Edit /\ Watch

CreateEmployer(e) == CreateRow(e, "shown")
CreatePosition(p) == CreateRow(p, "shown")
CreateContribution(c) == \E status \in {"shown", "hidden"} : CreateRow(c, status)
CreateProject(j) == \E status \in {"shown", "hidden"} : CreateRow(j, status)
CreateSkill(s) == \E status \in {"shown", "hidden"} : CreateRow(s, status)
CreatePreference(p) == CreateRow(p, "shown")

UpdateRow(x) ==
  /\ row[x] \in {"shown", "hidden"}
  /\ \E status \in {"shown", "hidden"} : row[x] # status /\ Put(x, status)
  /\ UNCHANGED <<link, posting>> /\ Edit /\ Watch

UpdateContribution(c) == UpdateRow(c)
UpdateProject(j) == UpdateRow(j)
UpdateSkill(s) == UpdateRow(s)

\* What has rows under it is not deleted; its links go with it.
DeleteRow(x) ==
  /\ row[x] \in {"shown", "hidden"} /\ Children(x) = {}
  /\ Put(x, "gone")
  /\ link' = {l \in link : x \notin {l[1], l[2]}}
  /\ UNCHANGED posting /\ Edit /\ Watch

DeleteEmployer(e) == DeleteRow(e)
DeletePosition(p) == DeleteRow(p)
DeleteContribution(c) == DeleteRow(c)
DeleteProject(j) == DeleteRow(j)
DeleteSkill(s) == DeleteRow(s)
DeletePreference(p) == DeleteRow(p)

Assign(j, c) ==
  /\ {row[j], row[c]} \subseteq {"shown", "hidden"} /\ <<j, c>> \notin link
  /\ link' = link \cup {<<j, c>>}
  /\ UNCHANGED <<row, posting>> /\ Edit /\ Watch

Unassign(j, c) ==
  /\ <<j, c>> \in link
  /\ link' = link \ {<<j, c>>}
  /\ UNCHANGED <<row, posting>> /\ Edit /\ Watch

\* The text alone changes or goes: the signals stay what the old one was read into.
UpdateApplication(t) ==
  /\ posting.text # t
  /\ posting' = [posting EXCEPT !.text = t]
  /\ UNCHANGED <<row, link>> /\ Edit /\ Watch

Screens ==
  \/ \E e \in Employer : CreateEmployer(e) \/ DeleteEmployer(e)
  \/ \E p \in Position : CreatePosition(p) \/ DeletePosition(p)
  \/ \E c \in Contribution : CreateContribution(c) \/ UpdateContribution(c) \/ DeleteContribution(c)
  \/ \E j \in Project : CreateProject(j) \/ UpdateProject(j) \/ DeleteProject(j)
  \/ \E s \in Skill : CreateSkill(s) \/ UpdateSkill(s) \/ DeleteSkill(s)
  \/ \E p \in Preference : CreatePreference(p) \/ DeletePreference(p)
  \/ \E j \in Project, c \in Contribution : Assign(j, c) \/ Unassign(j, c)
  \/ \E t \in Text \cup {Nothing} : UpdateApplication(t)

-----------------------------------------------------------------------------
(* What the requests have in common                                        *)

Tables == <<row, link, posting, edits>>

Begin(r, kind, first, found) ==
  /\ req[r].at = "idle"
  /\ req' = [req EXCEPT ![r] =
       [Idle EXCEPT !.kind = kind, !.at = first, !.given = found,
                    !.ever = Offered(kind), !.throughout = Due(kind)]]
  /\ UNCHANGED <<Tables, versions, report>>

Take(r, found, todo, next) ==
  /\ req' = [req EXCEPT ![r].given = @ \cup found, ![r].todo = todo, ![r].at = next]
  /\ UNCHANGED <<Tables, versions, report>>

End(r) == req' = [req EXCEPT ![r] = Idle]

\* A statement or a model call fails; nothing of the request is stored.
Fails(r) == req[r].at # "idle" /\ End(r) /\ UNCHANGED <<Tables, versions, report>>

-----------------------------------------------------------------------------
(* ExtractSignals                                                          *)

ExtractRead(r) ==
  /\ req[r].at = "idle" /\ posting.text # Nothing
  /\ req' = [req EXCEPT ![r] =
       [Idle EXCEPT !.kind = "extract", !.at = "extracting", !.text = posting.text]]
  /\ UNCHANGED <<Tables, versions, report>>

ExtractStore(r) ==
  /\ req[r].at = "extracting"
  /\ posting' = [posting EXCEPT !.signals = req[r].text]
  /\ UNCHANGED <<row, link, versions, report, edits>>
  /\ WatchBut({r})

-----------------------------------------------------------------------------
(* RunFitEvaluation                                                        *)

EvaluateRead(r) ==
  posting.signals # Nothing
  /\ Begin(r, "evaluate", "skills", {<<"signals", posting.signals>>})

EvaluateSkills(r) ==
  /\ req[r].kind = "evaluate" /\ req[r].at = "skills"
  /\ Take(r, {<<"skill", s>> : s \in Shown(Skill)}, {}, "preferences")

EvaluatePreferences(r) ==
  /\ req[r].at = "preferences"
  /\ Take(r, {<<"preference", p>> : p \in Shown(Preference)}, {}, "narrative")

EvaluateStore(r) ==
  /\ req[r].at = "narrative"
  /\ \E t \in Text : <<"signals", t>> \in req[r].given /\ report' = t
  /\ End(r) /\ UNCHANGED <<Tables, versions>>

-----------------------------------------------------------------------------
(* Generate                                                                *)

GenerateRead(r) ==
  /\ posting.signals # Nothing /\ Len(versions) < MaxVersions
  /\ Begin(r, "generate", "employers", {<<"signals", posting.signals>>})

\* AssembleContext: the employers, the positions of each, the rows of each.
ReadEmployers(r) ==
  req[r].at = "employers" /\ Take(r, {}, Shown(Employer), "jobs")

ReadPositions(r) ==
  /\ req[r].at = "jobs" /\ req[r].todo \cap Position = {}
  /\ \E e \in req[r].todo :
       Take(r, {}, (req[r].todo \ {e}) \cup {p \in Shown(Position) : Under[p] = e}, "jobs")

\* Variant for a mutant: hidden contributions are passed on.
ReadContributionsOfAnyKind(r) ==
  /\ req[r].at = "jobs"
  /\ \E p \in req[r].todo \cap Position :
       Take(r, {<<"position", c>> : c \in Children(p)}, req[r].todo \ {p}, "jobs")

ReadContributions(r) ==
  /\ req[r].at = "jobs"
  /\ \E p \in req[r].todo \cap Position :
       Take(r, {<<"position", c>> : c \in {c \in Shown(Contribution) : Under[c] = p}},
            req[r].todo \ {p}, "jobs")

ReadSkills(r) ==
  /\ req[r].at = "jobs" /\ req[r].todo = {}
  /\ Take(r, {<<"skill", s>> : s \in Shown(Skill)}, {}, "projects")

ReadProjects(r) ==
  /\ req[r].at = "projects"
  /\ Take(r, {<<"project", j>> : j \in Shown(Project)}, Shown(Project), "works")

ReadWorks(r) ==
  /\ req[r].at = "works"
  /\ \E j \in req[r].todo :
       Take(r, {<<"work", l>> : l \in {l \in link : l[1] = j /\ row[l[2]] = "shown"}},
            req[r].todo \ {j}, "works")

AskForBody(r) ==
  /\ req[r].at = "works" /\ req[r].todo = {}
  /\ Take(r, {}, {}, "body")

\* A skill that is named in some of the phrases.
Listed(s, phrases) == \E t \in phrases : s \in NamedIn[t]

\* Variant for a mutant: an entry counts only when it is the name itself.
ReconcileByWordPairs(body, claimed) ==
  LET entries[n \in 0 .. Len(ClaimOrder)] ==
        IF n = 0 THEN body.skills
        ELSE entries[n - 1] \cup
             {s \in {ClaimOrder[n]} \cap claimed :
                ~ Listed(s, entries[n - 1]) /\ s \in body.bullets}
  IN  IF body.skills = Nothing THEN Nothing ELSE entries[Len(ClaimOrder)]

\* reconcileSkills: one claimed skill after another, those a bullet names and no
\* entry does are put back, in a section that is there; the schema lets a body do
\* without.
Reconcile(body, claimed) ==
  LET entries[n \in 0 .. Len(ClaimOrder)] ==
        IF n = 0 THEN body.skills
        ELSE entries[n - 1] \cup
             {s \in {ClaimOrder[n]} \cap claimed :
                ~ Listed(s, entries[n - 1]) /\ Listed(s, body.bullets)}
  IN  IF body.skills = Nothing THEN Nothing ELSE entries[Len(ClaimOrder)]

BodyAnswered(r) ==
  /\ req[r].at = "body"
  /\ \E body \in Bodies :
       LET claimed == {s \in Skill : <<"skill", s>> \in req[r].given}
       IN  req' = [req EXCEPT ![r] =
             [Idle EXCEPT !.kind = "generate", !.at = "summary",
                          !.doc = [bullets |-> body.bullets, claimed |-> claimed,
                                   skills |-> Reconcile(body, claimed)]]]
  /\ UNCHANGED <<Tables, versions, report>>

\* Stamped and validated, the document is numbered.
NextResumeVersionNumber(r) ==
  /\ req[r].at = "summary"
  /\ req' = [req EXCEPT ![r] =
       [Idle EXCEPT !.kind = "generate", !.at = "numbered",
                    !.number = Max(ToSet(versions) \cup {0}) + 1]]
  /\ UNCHANGED <<Tables, versions, report>>

\* Variant for a mutant: the numbers of an application are not unique.
CreateResumeVersionAnyway(r) ==
  /\ req[r].at = "numbered"
  /\ versions' = Append(versions, req[r].number)
  /\ End(r) /\ UNCHANGED <<Tables, report>>

CreateResumeVersion(r) ==
  /\ req[r].at = "numbered"
  /\ req[r].number \notin ToSet(versions)
  /\ versions' = Append(versions, req[r].number)
  /\ End(r) /\ UNCHANGED <<Tables, report>>

\* UNIQUE (application_id, version_number)
VersionRefused(r) ==
  /\ req[r].at = "numbered"
  /\ req[r].number \in ToSet(versions)
  /\ End(r) /\ UNCHANGED <<Tables, versions, report>>

-----------------------------------------------------------------------------

Step(r) ==
  \/ ExtractRead(r) \/ ExtractStore(r)
  \/ EvaluateRead(r) \/ EvaluateSkills(r) \/ EvaluatePreferences(r) \/ EvaluateStore(r)
  \/ GenerateRead(r) \/ ReadEmployers(r) \/ ReadPositions(r) \/ ReadContributions(r)
  \/ ReadSkills(r) \/ ReadProjects(r) \/ ReadWorks(r) \/ AskForBody(r) \/ BodyAnswered(r)
  \/ NextResumeVersionNumber(r) \/ CreateResumeVersion(r) \/ VersionRefused(r) \/ Fails(r)

Next == Screens \/ \E r \in Request : Step(r)

Spec == Init /\ [][Next]_vars

-----------------------------------------------------------------------------

\* A prompt and a report are made from what was there: all that was in the
\* career the whole time the request read it, and no row or link that was at no
\* time there to be shown. (A project hidden after it was listed still comes with
\* the works it has by then.)
WorksFromTheCareer ==
  \A r \in Request :
    req[r].at \in {"body", "narrative"} =>
      req[r].throughout \subseteq req[r].given /\ req[r].given \subseteq req[r].ever

\* Resume versions are numbered 1, 2, ... in the order they are stored, whatever
\* requests number theirs at once.
NumberedInOrder == \A i \in DOMAIN versions : versions[i] = i

\* A claimed skill that a bullet of the resume names is in its skills section,
\* when it has one, by the time the summary is written about it.
BulletsBackedBySkills ==
  \A r \in Request :
    req[r].at = "summary" /\ req[r].doc.skills # Nothing =>
      \A s \in req[r].doc.claimed : Listed(s, req[r].doc.bullets) => Listed(s, req[r].doc.skills)

=============================================================================
