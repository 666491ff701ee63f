# Verification of role-model

role-model keeps a person's career as rows (employers, positions,
contributions, skills, preferences, education, credentials, projects), fills
them by import or by conversation, and generates resumes and fit reports from
them. This directory holds TLA+ modules of its state-changing core, TLC
configurations that check them on small instances and TLAPS proofs for all
instances. Paths below are relative to the repository.

    tlc -config MCEntityDrafts.cfg MCEntityDrafts.tla     (one run)
    tlapm EntityDraftsProofs.tla                          (one module of proofs)

## The system

A Go API (chi, pgx) over Postgres at READ COMMITTED, a React frontend, a
Python onboarding agent (LangGraph, checkpoints in SQLite) and a stateless
Python renderer of .docx files. The API keeps no state of its own apart from
the rate limiters: everything is in Postgres, every request runs in its own
goroutine, and several requests of one account (two tabs, an impatient
double click, the agent beside the browser) meet only in the tables. Most
handlers read in one statement, decide in Go, and write in another statement
or transaction. That gap is where the hard behaviours are.

| Component | State | Operations | Hard behaviour | What makes it correct |
|---|---|---|---|---|
| Entity-draft review (`internal/intake/resolve.go`, `handlers/intake.go`) | `entity_drafts`, the career tables | approve one, resolve the batch, reject, edit | reads before the transaction; UPDATEs with and without a status guard; waits for row locks | a row exists exactly for what was approved; parents first; a decision stands |
| Narrow import (`internal/stage0`, `handlers/import.go`) | `import_batches`, `contribution_drafts` | extract, enrich, approve, reject, edit | a long request with model calls, reviewed while it runs; lost requests | drafts all or none; no approved draft without its contribution; the batch settles |
| Career import front door (`intake/extract.go`, `flags.go`, `collision.go`) | the same batches, staged drafts | extract, plan, stage, flag | an answer that contradicts itself; flags read statement by statement; lost requests | references resolve inside the batch; staging all or nothing; a card says what it should |
| Vocabulary (`intake/tags.go`, `handlers/tag.go`, `vocabulary`) | tags, categories, levels | resolve or create, delete, install | check then act across requests; two notions of equal names | no two tags that differ by case; no dangling tag |
| Career rows (`handlers/*.go`, `contribution`, `project`) | the career tables, project links | create, update, delete, link | count then delete; a deferred trigger that reads a snapshot | no dangling reference; no contribution without a home |
| Applications and generation (`generation`, `handlers/application.go`) | applications, signals, resume versions | extract signals, generate | many reads, long model calls, MAX + 1 numbering | a prompt holds what was in the career; versions are 1, 2, 3; bullets are backed by skills |
| Fit gate (`fitgate`) | fit reports | evaluate, score | reads that are not one snapshot; first match wins in an unordered listing | more and deeper skills never hurt; nothing is scored twice |
| Onboarding (`onboarding-agent`, `internal/onboarding`) | conversation checkpoints | one turn | a retried turn runs a node again; state of the last job in a loop | rows say what the person said; each answer is written once; an interview ends |
| Rate limiter (`api/middleware/ratelimit.go`) | a map, a window end | one request | window boundaries, the shared sweep | at most 2N at a boundary; bounded memory; Retry-After can be trusted |
| Accounts, feedback, renderer, frontend, tools | users, feedback rows | single statements or no state | none beyond the above | - |

`PROJECT.json` lists the components with their status, and under `hazards`
what in this code is hard to test, each with its line and the properties that
watch it.

## Modules

`EntityDrafts` is one staged batch and the review requests on it. A request is
a small program counter with what the Go function holds in local variables:
`todo` and `seen` are the drafts and payloads it listed, `parents` the
`resolved` map, `made` and `locked` the rows inserted and the drafts updated by
its open transaction.

- `ApproveRead`, `ApproveList`, `ApproveRefused` are `ApproveDraft` up to
  `pool.Begin`; `BatchList` is `ResolveBatch` up to there. Both then share
  `Reuse` / `Insert` / `ResolveFails` (`resolveOne`), `Mark`
  (`MarkEntityDraftResolved`) and `Commit`. Kahn's scan (`topoOrder`) is
  `Ready` and `ScansNext`: computing the order first and walking it later, as
  the code does, picks the same drafts in the same order.
- `RejectRead`/`RejectWrite` and `EditRead`/`EditWrite` are the two handlers,
  a read and a guarded UPDATE each.
- `Abort` is everything that rolls a transaction back from outside (the client
  leaves, the server dies, a connection drops); `DeadlockVictim` is Postgres
  resolving a cycle of lock waits.
- `CreateByHand` and `DeleteRow` are the CRUD handlers that act on the same
  tables. A delete in the code counts children and then deletes; the foreign
  key decides, which is what the guard says, rows of open transactions
  included, since their foreign-key check holds the parent.
- Payloads are abstracted to what the review tells apart: a `key` (the
  case-folded name, title or tag), the parent draft named, and a `form` (good,
  refused by `validate()`, or passed by it and refused by the resolver or the
  table). A skill's tag is its key: creating the tag on the way is not a step
  of its own here. Every statement outside a transaction, and a transaction's
  commit, is one step.

`DraftReview` is what the review promises a reviewer: each draft is decided
once, with or after what it depends on, and an approval writes at most one row
saying what the draft says. `EntityDrafts!Review` maps the tables to it.
`ReviewUnlessOverrun` says what is left of the promise when requests overlap:
every step is one of `DraftReview` or none, but for a commit that overruns
(`Overruns`) what was decided or edited since its request read. That exception
is finding 1 and nothing else is one.
`NothingLeftBehind` is what a reviewer of a whole batch is promised besides:
`Above` is all a draft depends on, and what a scan leaves has a cycle or a
rejected draft up there, or one that was rejected when it was listed and has
been approved over the rejection since.

`NarrowImport` is one `POST /import` (`Create` to `ShowForReview` or `Fail`),
the model calls split into asking and answering, and the review requests that
may run beside it, since no review endpoint looks at the batch's status.
`Lose` stands for a cancelled request context (after which the UPDATE in
`fail()` fails as well), a crash, and a status UPDATE that fails.
`InsertDrafts` may commit and still be reported as failed. The four text
columns become two fields, one of those approval requires and one of those it
does not.

`ProjectLinks` is the table `project_contributions` under the requests that
change it: assigning and unassigning (`handlers/project.go`) and the cascading
deletes of a project (`project.Service.Delete`) and of a contribution
(`contribution.Service.Delete`). It goes down to the locks: a DELETE matches
what is committed when it starts (`MatchLinks`) and then takes the rows one by
one in table order (`RemoveLink`), skipping those gone by then; the owner is
deleted last (`DeleteOwner`) and waits for links being inserted to it;
`Insert` waits for a delete of what it refers to and is refused if that
commits (`InsertFails`). `Reaches` says which row comes next, and `WaitsFor`
which request cannot go on before which other. `Check` is `contribution_requires_a_home()` running
deferred, a step before `Commit`, on what its transaction sees. Tag links and
feedback rows, which the same transactions delete first, belong to one owner
and are folded into these steps. Projects and contributions are not created
here: a new one is in no request's hands yet.

`CareerLinks` is what the screens show of the same table: assigning,
unassigning and deleting, each at once, a row with all its links.
`ProjectLinks!TableSpec` says that the transactions implement it.

`RateLimit` is `allow()` under its mutex, one step per request, with a clock
that ticks finer than the seconds of `Retry-After`. `passed`, `asked` and
`backoff` are history.

`CareerImport` is `StartCareerImport`, and it stages the batches whose review
`EntityDrafts` models. `PlanDrafts` is the code's function from the model's
answer to drafts, its references checked by `Plannable`; a draft's parents are
places in the plan. `StageDrafts` runs in one transaction, so its inserts are
one step (`StageDrafts`), but each statement that flags a draft reads the account as it is
then: `FlagPreference`, `FlagSkill` and `FlagCrowd` are a step each.
`Collides`, `HasSharedToken` and `IsCrowded` are the rules of `collision.go` on
labels as sequences of words. A commit may take effect and yet be reported as
an error (`CommitUnreported`): the batch is then marked failed (`MarkFailed`)
with all its drafts there, and since no review endpoint looks at a batch's
status they can be reviewed like any others. `Lose` is a request whose context ends, after
which no UPDATE of the status is sent either. `ever` and `throughout`, what the
account had at some time or all the time while the request read, are history.

`Applications` is one application and the career it draws on: the screens that
edit either, and three kinds of requests. `ExtractRead`/`ExtractStore` read a
posting's text and store its signals. `EvaluateRead` to `EvaluateStore` are
`RunFitEvaluation`; `GenerateRead` to `CreateResumeVersion` are `Generate`,
with `AssembleContext` walking employers, positions and contributions. Every
statement is a step, because nothing is in a transaction. `Reconcile` is
`reconcileSkills`. A row is a name with a state (new, shown, hidden, gone): no
text of a row decides a step. Skills that name one another (`NamedIn`) do
matter to `Reconcile`, which looks for whole words: "C" counts as named by "C++".

`FitScore` is the scorer of `fitgate/scorer.go` as operators over phrases of
words, with a profile that is edited between two scorings. A score is
counted in half points, as the number of places and halves earned (`Halves`),
so the half credit of an answer below a stated level is a whole number. `Listed` gives the profile in any of the orders the query may return
it: `ListActiveSkillMatchTermsByUser` has no ORDER BY, though the package calls
itself deterministic (`scorer.go:1`). With stated levels the category rung
makes the score depend on it.

`Onboarding` is the graph of the agent, one action per node, or per call of a
node that makes several, and the REST calls as seen from the tables. `cp` is
the checkpoint of the LangGraph thread and `turn` the run under way, which
starts a node over when it is retried. `Answered` is the choice between an
answer that arrives and one that is lost after the call had its effect;
`Fails` is a call or a model that fails before. The routes (`RouteEmployer`,
`RoutePositionEnd`, ...) are the conditional edges with the retry flags they
look at. `told` is history: what the person said of the job at hand. The pages
(`DeleteRow`, `AssignTag`, `UnassignTag`, `CreateTwin`, `DeleteTag`, ...) act
between any two steps. `unlinked` is history as well: the tags a page took off
a contribution and nobody has put back, for which `ClaimsAreEvidenced` cannot
blame the interview. The pages modelled take rows of the career away and change
the vocabulary; those that add an employer, a position or a contribution
meanwhile are not, nor are imports, so that what is written twice was written
by the interview.

`MC...` modules give the constants values; `...Proofs` modules hold proofs.
Definitions introduced by "Variant" are faulty versions of the definition
below them. No specification uses them: they show that each property is able
to fail.

## Runs

| Run | Question | Bounds, and why they suffice | States |
|---|---|---|---|
| `review` | Do two requests on one batch, interleaved statement by statement with a delete and rollbacks, keep rows and approvals in step, leave nothing behind they could approve, and depart from `DraftReview` only where a commit overruns? | a child listed before its parent, plus a kind with a unique key; an edit of each draft, one of them to another good payload; 2 requests (each race here is between two); one delete; 6 row ids, which two attempts at three drafts cannot exceed | 1.05 million |
| `review_ends` | Does every request end? | as above without edits or deletes, which add no waiting; a skill added by hand while no request runs, which makes an approval fail | 220 thousand |
| `review_decided` | Is a draft decided once when they do? No: see the findings | two requests | - |
| `rate` | The window's promises | 2 clients, limit 2, a window of 2 ticks, 7 ticks: two roll-overs and a quiet spell | 1.2 million |
| `narrow` | Does an import settle and keep drafts and contributions in step while reviewed by two requests? | 2 entries, one of them incomplete; an edit that empties the summary; one tag, one position; 2 contributions | 310 thousand |
| `links` | Do two requests at once implement `CareerLinks` and keep links, cascading deletes and the home trigger in step, does no circle of waits close, and does every request end? | 2 contributions, one with a position and one without, in 2 projects and 1: a contribution with two links to lose, and a project whose delete takes several; 2 requests | 190 thousand |
| `links_home` | Does every contribution keep a home? No: see the findings | as above | - |
| `career_import` | Is a batch staged whole, told what the account gives reason to look at, and settled, though a commit be reported as an error? | 2 imports; sound answers for jobs, for tastes and for papers, and 5 that contradict themselves (a parent missing, a reference twice, a blank name); one edit while they are flagged, which is enough to fall between any two of their reads | 43 thousand |
| `career_alongside` | Are the preferences of one batch checked against each other? No: see the findings | 1 import, no edits | - |
| `applications` | Does a generation or evaluation work from the career, in numbers 1, 2, ... and with skills behind its bullets? | 2 requests, 2 versions: the collision of numbers is between two; 3 careers to begin with (full, linked, empty); a skill that names another; one edit anywhere. The proofs cover any number of edits and requests | 355 thousand |
| `fit` | Can a better profile score worse, or a requirement count twice? | 4 skills in 3 categories or none, at 2 depths, all 81 profiles; two opposite listing orders; 95 postings with groups of alternatives, aliases, plurals, stated levels that can be ranked and one that cannot | 7.7 thousand |
| `onboarding` | Does an interview write what was said, once, and come to an end? | at most 2 of: a question asked again, another round, a fault, a lost answer, an edit (a row, tag or link deleted, a link or a second spelling made, a skill claimed or disclaimed). Two are what the hazards need: a retry needs a fault and an edit, a wrong answer carried into the next job needs a round and a question asked again | 1.4 million |

The types of the variables are an invariant of every proof and are proved
(`TypesHold`, `InvHolds`); of the runs only `links` repeats them, where they say
that a transaction works on rows there are.

Symmetry is used on requests (`review`, `applications`), posting texts and
clients (`rate`), only in runs that check safety. Deadlock checking is off
where the modelled activity ends: when the clock reaches its bound, when
imports and their reviews are over, when all projects and contributions are
deleted, when the edits and versions allowed are used up, and when an interview
has ended.

### Fairness

`EntityDrafts!Fairness`: a server goes on executing a request it has accepted.
Strong fairness is assumed where a request waits for a row, because Postgres
queues the waiters of a lock in order, and weak fairness of its deadlock
detector. Nobody has to send a request, and `Abort` is never fair.
`NarrowImport!FairSpec` and `CareerImport!Spec`: the handler keeps running
because every model call returns: `generation.RequestTimeout` is three minutes,
inside the server's `WriteTimeout` of five (`cmd/server/main.go:91`). Weak
fairness does, since neither waits for anybody. Reviewers are not fair, and
`Lose` and the failures are not either.
`ProjectLinks!FairSpec`: strong fairness of an accepted request, again for the
queue of a lock's waiters, and no deadlock detector: `NoDeadlock`, proved for
any number of requests, says these never wait for each other in a circle,
provided rows of one DELETE are reached in table order (`Place`), as a
sequential scan does. Without that order TLC finds the circle.
`Onboarding!Fairness`: weak fairness of the graph (a turn that runs goes on, as
its calls have timeouts) and of the person's answers. The second is an
assumption about the person, without which no interview ends; what they answer
is not constrained, except that the bound limits the rounds they ask for.

### Findings

The first two need two requests that overlap: the theorem named last says that
without an overlap they cannot happen. The third needs nothing but the batch.

1. `review_decided`: `MarkEntityDraftResolved` has no status guard. An approval
   reads "pending", a rejection (or a second approval) commits, and the
   approval's UPDATE then overwrites it: the rejected draft becomes a row, or
   `resolved_id` moves to a second row and the first is nobody's. The two
   UPDATEs beside it (`MarkEntityDraftRejected`, `UpdateEntityDraftPayload`)
   have the guard and a comment that says why. `ReviewUnlessOverrun` shows that
   this is the only way the code leaves `DraftReview`. (`DecidedOnceHolds`)
2. `links_home`: a project-only contribution in two projects; two requests
   each take one link (two unassigns, or the delete of a project and an
   unassign). Each deferred trigger still sees the other's link, and both
   commit. `OnlyOutrun`, which is proved for any number of requests, says that a
   transaction committing between another's trigger and its commit is the only
   way. (`NoneHomelessAlone`)
3. `career_alongside`: two preferences of one batch whose labels collide are
   both staged without a flag. The comments of `StageDrafts` (`extract.go:272`)
   and `FlagDraft` (`flags.go:49`) say that a preference is also checked against
   those drafted alongside it, which is why flagging runs after every draft is
   written; but `FlagDraft` lists preferences (`flags.go:61`), which drafts are
   not before they are approved. `FlagsTell`, which holds, is about what the
   account gives reason to look at.

### Met while modelling

Behaviour the models contain, or that set their limits, and no run asks about.

- Review: two approvals at once may each look for an employer of the name, find
  none and insert one (`resolve.go:278-289`); no index stops the second.
  `EmployerReused` is therefore no property of a run; `EmployerReusedHolds`
  proves it for requests that do not overlap.
- Narrow import: `ApproveDraft` (`stage0/service.go:289`) marks the draft without
  looking at its status again, the gap of finding 1: two approvals that both
  read "pending" each write a contribution, and the draft remembers the second.
  `BecomesOne` says it becomes one; `BecomesOneAlone` proves that for requests
  that do not overlap.
- Narrow import: `UpdateDraft` (`import.go:245-320`) writes every column from a
  row it read before it decoded the body, so a field left out of the body is
  put back to what it was at that read.
- Narrow import: a rejection looks at no status (`import.go:393`), so a draft
  that has become a contribution can be marked rejected; `ApprovedWasWritten`
  goes one way only.
- Career import: a commit whose answer is an error may have taken effect
  (`extract.go:287`); the batch then reads failed, its response says 0 drafts,
  and all its drafts are there to be approved. `StagedWhole` speaks of failed
  batches too: all or none. A request that is lost leaves its batch
  `extracting`, and nothing else ends it. Blank titles of positions and
  blank summaries of contributions are planned; only the review refuses them.
- Generation: `README.md:51` says "Nothing lands in a resume without a
  traceable origin in the data"; the contribution ids a bullet cites are not
  compared with the rows of the prompt. A body without a skills section is
  stored without one, so `BulletsBackedBySkills` speaks of bodies that have it.
  Two generations at once may take one number, and one of them is refused after
  its model calls. Signals do not follow a text that is changed. A project
  hidden after it was listed still brings the works linked to it since.
- Fit gate: `collapseSubsumed` compares alternatives as they are spelled, while
  matching folds plurals; `service.go:190` says competencies are not scored,
  which `ScoreCapabilityFit` does.
- Onboarding: a skill the account already has makes `record_skill` fail with
  409, at this turn and every retry; naming one skill in two contributions is
  enough. An employer, position or contribution deleted from under the
  interview has the same effect (`Stuck`). A contribution whose answer was lost
  is written again. The page's "Nothing is written to your record until you
  confirm it here" (`Onboarding.tsx:144`) holds for tags and skills; employers,
  positions and contributions are written as they are told. With two spellings
  of a tag in the account the skill and its evidence may be on different ones.

## Proofs

Assumptions are the named ASSUMEs of the modules: constants have their types
and structural relations such as "the account's rows hang under rows it has", "a
contribution is not a project" or "requests in flight are finitely many".
No bound is used, so each theorem holds for any number of requests, rows,
edits, links and so on. TLC evaluates the assumptions for its instances.

`EntityDraftsProofs`: `TypeOK`, `ApprovedHasRow`, `RowHasApprovedDraft`,
`ParentsApprovedFirst`, `RowsHaveParents` and the action property
`ApprovalIsFinal`. None of the state properties is inductive, since a commit
writes what a request read long before. `Inv` adds, for each request under
way: what it believes resolved is approved or was handled by its own
transaction, and the row named exists there (`ParentsSound`); it handles a
draft only after what that depends on (`CarriesReady`); and the rows it has
inserted belong to drafts it has handled and hang under rows that cannot go
away before the commit (`MadeSound`). The step proof has a lemma per group of
actions.

`ReviewUnlessOverrunHolds`, for any number of overlapping requests: a commit
that does not overrun is `DraftReview!Approve` of the drafts marked
(`CommitApproves`), a reject and an edit map to theirs, every other step to a
stutter (`ReviewStep`). The extra invariant `Tidy` says that a
request keeps what it has marked apart from what it has still to do, and that a
row it made says what it read and is the one its draft will be marked with. For at most
one request (`OneAtATime`) `Uncontested` adds that whatever it has read or
marked is still pending and says what it said, so no commit overruns
(`NoOverrun`) and the specification implements `DraftReview` (`ReviewHolds`).
`review_decided` shows why the assumption is needed, and `DecidedOnceHolds`
reads it off the abstract steps.

Under the same assumption, `EmployerReusedHolds` has the screens wait as well;
its invariant is that no employer about to be added has the name of one that is
there (`NoNamesake`).

`NothingLeftBehindHolds` is about any interleaving again. `Listed` keeps that
whatever a listed draft waits for is listed too, or was decided when the batch
was listed. A scan that finds nothing ready then leaves only drafts that wait for
each other or for something not approved in its view, and a walk up through
finitely many drafts ends in one of the two (`WalkMeetsCycle`: where the fewest
drafts are above, one is above itself). `OnlyRejectionHoldsBack` joins the two halves of an import: a batch whose drafts
hang under earlier places of a plan, as `CareerImport`'s `StagedWhole` says of
each it stages, has no cycle, so only a rejection, at the listing or since, holds a draft back.

`NarrowImportProofs`: `TypeOK`, `DraftsAllOrNone`, `ApprovedWasWritten`,
`ReferencesExist`, `ContributionsComplete`, and the action properties
`ReviewIsQuiet` and `EditsSurviveEnrichment`. `Inv` adds that a request under
way is on one draft that exists, an approval having seen its summary
(`Engaged`), and that nothing is staged twice (`StagedOnce`). `BecomesOneAlone`:
a draft that became a contribution never reads pending again, so a lone
approval is on one that has not (`Once`).

`ProjectLinksProofs`: `TypeOK`, `LinksHaveEnds`, the action properties
`DeletesAreWhole` and `OnlyOutrun`, the refinement and the absence of deadlock.
`Inv` says what open transactions keep from changing: no two have taken the
same link (`Apart`), an inserted link's ends are there until its commit (`Ends`,
`Held`), and a delete that has passed its trigger without being outrun saw the
links that are there now (`Seen`). `TableHolds`: every step but a commit leaves
the tables alone, and a commit is the operation the request was asked for or
nothing (`CommitIsOperation`), since by `Ends` and `Held` what a delete takes is
all there is to take. `NoDeadlockHolds`: who holds a project or a contribution
waits for nobody, so a circle of waits could only be made of links; but a
request has locked only links before those it has yet to reach (`InOrder`), so
of finitely many requests the one whose next link lies last (`Highest`) waits
for none of the others (`NoCircle`).

`ApplicationsProofs`: `WorksFromTheCareer`, `NumberedInOrder` and
`BulletsBackedBySkills`. A request
reads one statement at a time, so `Inv` says of each stage what has been read
and what is still to come (`Covered`): a row that was there throughout is
already read, or hangs under a row still to be gone through, which it does
because a row with rows under it is not deleted (`Rooted`). The numbers follow
from `Numbered`: a number taken is a stored one, which the unique constraint
refuses, or the next. The skills of a body are gone through one by one, a name
already covered being skipped: `LoopRuns` says what each round adds, by taking
the first round for which it would not hold, and `ReconcileBacks` that at the
end every named skill is listed or named by one that is.

`FitScoreProofs`: the four properties of the run and `FullScoreHasNoGaps`, for
any words, vocabulary, scales of levels, postings, profiles and listing orders.
A score is the size of a set of halves earned, so it does not fall when each
entry's credit does not (`CreditsGrow`). With a skill more, what was answered
stays answered, though perhaps by another row (`EvidenceGrows`, rung by rung);
with a deeper level the same rows answer and the strongest of them is no weaker
(`SameEvidence`, `Strongest`). `SaidAgain` finds the run of tokens in which a
repeated skill stands, and `PartIsHarmless` that a group's alternatives contain
those of its part. A full score has no gaps because a set of halves that is as
large as the set of all of them is that set (`HalvesBounded`). Greatest and least
numbers, and the first hit of a listing, exist because `<` on `Nat` is
well-founded: what would be an induction over the data is an argument about a
least counterexample.

`CareerImportProofs`: `StagedWhole` and `FlagsTell`, for any answers, accounts
and edits. `PlanPlanned` shows that what `PlanDrafts` makes of an answer that
`Plannable` lets through is as long as the answer and hangs together, one list
appended after another. `Planned` is what flagging keeps of it. A card is
flagged from what the account has at that moment, which lies between what it
has had all the while and what it has had at all (`Within`); so the card is
told (`Told`) when its turn has come, and no edit takes that back
(`ToldLater`). The drafts of a batch are nothing before its commit and a whole
sound plan after it, whatever status comes of it. `CardFlagged` is the step all four flagging actions share.

`OnboardingProofs`: `RowsAsTold`, `WrittenOnce` and `ClaimsAreEvidenced`, for
any answers, vocabulary, faults and edits. A turn works on the last checkpoint
(`TurnInv`), which says of the job only what was told of this one (`Said`).
Only the interview makes rows of the career, so a name that was not listed is
still not there when the row is made (`RowsInv`); the rows of one answer are
counted against the calls whose answer was lost (`TextInv`); and a claim keeps
a tag of its spelling up to case among the `Attachments` of its contribution,
what is linked to it or was until a page took it off (`TagsInv`), which is why
`ClaimsAreEvidenced` has to excuse a tag with two spellings. The first tag of a
spelling in a listing (`First`) exists because `<` on `Nat` is well-founded.

`RateLimitProofs`: `TypeOK`, `AtMostTwiceTheLimit`, `OnlyThisWindow` and
`BackingOffWorks`. `Inv` splits each client's history at the start of the
current window: the requests counted in it, those of the spell before it, and
older ones, each with its bound.

Only model-checked: liveness (`RequestsEnd` of two modules, `ImportSettles` of
two, `InterviewFinishes`), which the prover does not handle. Every other
property of a passing run is a theorem, for any interleaving. `EmployerReused`,
`DecidedOnce` and the full refinement of `DraftReview` (`ReviewSpec`) are
theorems about requests that do not overlap.

## Not modelled

- Two turns of one interview at once: the API gives a turn up after a minute
  (`onboarding/client.go:37`) while the agent goes on. Which checkpoint wins is
  decided by LangGraph, which is not in this repository. Nor is a session that
  is lost, or the first turn, which has nothing to answer.
- Vocabulary: tags and categories are created, attached and deleted in
  `Onboarding`, where their two notions of equal names meet; the levels and the
  defaults of a new account are single statements.
- The text of prompts and model answers, seniority levers, years of experience
  and the JSON schema: data, whose failures are `Fails`.
- The fit report's narrative and the order of its lists; education and
  credentials beyond their drafts.
- The renderer and the frontend's screens (layout), accounts and feedback (one
  statement each), configuration and operator tools.

## What could come next

Two turns of one interview at once, under a stated assumption on which
checkpoint wins; the pages that make rows of the career while an interview does;
tags as rows of their own in the review, where `EntityDrafts` folds them into the
skill's key.
