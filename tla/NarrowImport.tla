---------------------------- MODULE NarrowImport ----------------------------
(***************************************************************************)
(* One narrow import: internal/stage0/service.go (extraction, enrichment,  *)
(* approval) and the handlers of internal/api/handlers/import.go.          *)
(*                                                                         *)
(* POST /import runs extraction and enrichment inside the request; the     *)
(* review endpoints do not look at the batch's status, so they may run     *)
(* alongside it and alongside each other.                                  *)
(***************************************************************************)
EXTENDS Naturals, FiniteSets

CONSTANTS
  Entry,            \* what extraction may find in the pasted text
  Extracted,        \* the fields extraction gives each entry
  Text,             \* what a reviewer may write in a field
  Blank,            \* NULL or the empty string
  Edits,            \* the bodies a reviewer may send: some fields, with values
  Position,         \* the account's positions
  Tag,              \* the account's tags
  Request,          \* review requests in flight at once
  Nothing,          \* the position of a request that has none
  MaxContributions  \* bound: how many are written in one behaviour

\* summary stands for the two columns approval requires (summary and
\* full_description), outcomes for the two it does not.
Field  == {"summary", "outcomes"}
Fields == [Field -> Text \cup {Blank}]

Body == UNION {[F -> Text \cup {Blank}] : F \in SUBSET Field}

ASSUME NarrowAssumption ==
  /\ Extracted \in [Entry -> Fields]
  /\ Edits \subseteq Body
  /\ MaxContributions \in Nat
  /\ Blank \notin Text
  /\ Nothing \notin Position

VARIABLES
  batch,         \* import_batches.status; "none" before the row exists
  run,           \* where POST /import stands
  left,          \* drafts it has still to enrich
  asked,         \* the draft sent to the model, with the vocabulary sent along
  found,         \* history: the entries extraction found
  status,        \* contribution_drafts.status; "absent" before the row exists
  fields,        \* its text columns
  flags,         \* its review flags
  suggested,     \* its suggested tags
  pc, on, read, flagsRead, body, refs,  \* per request: see ReviewTypes
  positions, tags,                      \* rows an approval may refer to
  contributions                         \* contributions written by approvals

drafts  == <<status, fields, flags, suggested>>
import  == <<batch, run, left, asked, found>>
request == <<pc, on, read, flagsRead, body, refs>>
career  == <<positions, tags, contributions>>
vars    == <<batch, run, left, asked, found, status, fields, flags, suggested,
             pc, on, read, flagsRead, body, refs, positions, tags, contributions>>

NoFields == [f \in Field |-> Blank]
NoRefs   == [position |-> Nothing, tags |-> {}]
NoCall   == [draft |-> {}, tags |-> {}]

Init ==
  /\ batch = "none" /\ run = "none" /\ left = {} /\ asked = NoCall /\ found = {}
  /\ status    = [d \in Entry |-> "absent"]
  /\ fields    = [d \in Entry |-> NoFields]
  /\ flags     = [d \in Entry |-> "unset"]
  /\ suggested = [d \in Entry |-> {}]
  /\ pc        = [q \in Request |-> "idle"]
  /\ on        = [q \in Request |-> {}]
  /\ read      = [q \in Request |-> NoFields]
  /\ flagsRead = [q \in Request |-> "unset"]
  /\ body      = [q \in Request |-> <<>>]
  /\ refs      = [q \in Request |-> NoRefs]
  /\ positions = Position /\ tags = Tag /\ contributions = {}

Present == {d \in Entry : status[d] # "absent"}

-----------------------------------------------------------------------------
(* POST /import: Create, RunExtraction, RunEnrichment.                     *)

Create ==
  /\ run = "none"
  /\ batch' = "pending" /\ run' = "created"
  /\ UNCHANGED <<left, asked, found, drafts, request, career>>

\* The batch must be pending; then the model is called with its text.
StartExtracting ==
  /\ run = "created" /\ batch = "pending"
  /\ batch' = "extracting" /\ run' = "extract"
  /\ UNCHANGED <<left, asked, found, drafts, request, career>>

\* The call, the parse or an insert fails: nothing is staged.
ExtractionFails ==
  /\ run = "extract"
  /\ run' = "failing"
  /\ UNCHANGED <<batch, left, asked, found, drafts, request, career>>

Stage(S) ==
  /\ status' = [d \in Entry |-> IF d \in S THEN "pending" ELSE status[d]]
  /\ fields' = [d \in Entry |-> IF d \in S THEN Extracted[d] ELSE fields[d]]
  /\ UNCHANGED <<flags, suggested>>

\* Variant for a mutant: one INSERT after another, outside a transaction.
InsertDraftsSingly ==
  /\ run = "extract"
  /\ \E S \in SUBSET Entry : \E T \in SUBSET S :
       /\ found' = S
       /\ Stage(T)
       /\ run' = IF T = S THEN "staged" ELSE "failing"
  /\ UNCHANGED <<batch, left, asked, request, career>>

\* insertDrafts: all of them in one transaction.  The commit may take effect
\* and still be reported as an error, when the connection drops in between.
InsertDrafts ==
  /\ run = "extract"
  /\ \E S \in SUBSET Entry : found' = S /\ Stage(S)
  /\ run' \in {"staged", "failing"}
  /\ UNCHANGED <<batch, left, asked, request, career>>

StartEnriching ==
  /\ run = "staged"
  /\ batch' = "enriching" /\ run' = "enrich" /\ left' = Present
  /\ UNCHANGED <<asked, found, drafts, request, career>>

\* RunEnrichment reads the vocabulary and calls the model.
AskEnrichment(d) ==
  /\ run = "enrich" /\ d \in left
  /\ asked' = [draft |-> {d}, tags |-> tags]
  /\ run' = "await"
  /\ UNCHANGED <<batch, left, found, drafts, request, career>>

\* Variant for a mutant: the answer is saved with UpdateContributionDraft, which
\* also rewrites the text columns, from the draft as it was extracted.
SaveEnrichmentWhole(d) ==
  /\ run = "await" /\ asked.draft = {d}
  /\ flags' = [flags EXCEPT ![d] = "set"]
  /\ \E T \in SUBSET asked.tags : suggested' = [suggested EXCEPT ![d] = T]
  /\ fields' = [fields EXCEPT ![d] = Extracted[d]]
  /\ run' = "enrich" /\ left' = left \ {d} /\ asked' = NoCall
  /\ UNCHANGED <<batch, found, status, request, career>>

\* UpdateContributionDraftEnrichment: flags, and tags of the vocabulary as read.
SaveEnrichment(d) ==
  /\ run = "await" /\ asked.draft = {d}
  /\ flags' = [flags EXCEPT ![d] = "set"]
  /\ \E T \in SUBSET asked.tags : suggested' = [suggested EXCEPT ![d] = T]
  /\ run' = "enrich" /\ left' = left \ {d} /\ asked' = NoCall
  /\ UNCHANGED <<batch, found, status, fields, request, career>>

\* Variant for a mutant: the error is returned, and the batch with it.
EnrichmentEnds(d) ==
  /\ run = "await" /\ asked.draft = {d}
  /\ run' = "ended" /\ left' = left \ {d} /\ asked' = NoCall
  /\ UNCHANGED <<batch, found, drafts, request, career>>

\* A draft whose enrichment fails goes without: the error is only logged.
EnrichmentFails(d) ==
  /\ run = "await" /\ asked.draft = {d}
  /\ run' = "enrich" /\ left' = left \ {d} /\ asked' = NoCall
  /\ UNCHANGED <<batch, found, drafts, request, career>>

\* Variant for a mutant: the batch is shown while enrichment goes on.
ShowForReviewEarly ==
  /\ run = "enrich"
  /\ batch' = "review"
  /\ run' = IF left = {} THEN "ended" ELSE "enrich"
  /\ UNCHANGED <<left, asked, found, drafts, request, career>>

ShowForReview ==
  /\ run = "enrich" /\ left = {}
  /\ batch' = "review" /\ run' = "ended"
  /\ UNCHANGED <<left, asked, found, drafts, request, career>>

Fail ==
  /\ run = "failing"
  /\ batch' = "failed" /\ run' = "ended"
  /\ UNCHANGED <<left, asked, found, drafts, request, career>>

\* The client goes away, and the request's context with it, so that every
\* statement after that fails, fail()'s own included; or the server dies; or
\* the UPDATE of the status fails, which is returned without calling fail().
Lose ==
  /\ run \notin {"none", "ended", "lost"}
  /\ run' = "lost"
  /\ UNCHANGED <<batch, left, asked, found, drafts, request, career>>

-----------------------------------------------------------------------------
(* The review: Approve, UpdateDraft, Reject.                               *)

\* What a request carries from one statement to the next.
ReviewTypes ==
  /\ pc        \in [Request -> {"idle", "approve", "edit"}]
  /\ on        \in [Request -> SUBSET Entry]
  /\ read      \in [Request -> Fields]
  /\ flagsRead \in [Request -> {"unset", "set"}]
  /\ body      \in [Request -> Body]
  /\ refs      \in [Request -> [position : Position \cup {Nothing}, tags : SUBSET Tag]]

Finish(q) ==
  /\ pc' = [pc EXCEPT ![q] = "idle"]
  /\ on' = [on EXCEPT ![q] = {}]
  /\ read' = [read EXCEPT ![q] = NoFields]
  /\ flagsRead' = [flagsRead EXCEPT ![q] = "unset"]
  /\ body' = [body EXCEPT ![q] = <<>>]
  /\ refs' = [refs EXCEPT ![q] = NoRefs]

\* Variant for a mutant: the draft's text is not looked at.
ApproveReadIncomplete(q, d) ==
  /\ pc[q] = "idle"
  /\ status[d] = "pending"
  /\ \E p \in positions, T \in SUBSET tags :
       refs' = [refs EXCEPT ![q] = [position |-> p, tags |-> T]]
  /\ pc' = [pc EXCEPT ![q] = "approve"]
  /\ on' = [on EXCEPT ![q] = {d}]
  /\ read' = [read EXCEPT ![q] = fields[d]]
  /\ UNCHANGED <<import, drafts, flagsRead, body, career>>

\* GetContributionDraft, GetPosition, GetTag: the position and the tags the
\* request names are verified before the transaction opens.
ApproveRead(q, d) ==
  /\ pc[q] = "idle"
  /\ status[d] = "pending"
  /\ fields[d]["summary"] # Blank
  /\ \E p \in positions, T \in SUBSET tags :
       refs' = [refs EXCEPT ![q] = [position |-> p, tags |-> T]]
  /\ pc' = [pc EXCEPT ![q] = "approve"]
  /\ on' = [on EXCEPT ![q] = {d}]
  /\ read' = [read EXCEPT ![q] = fields[d]]
  /\ UNCHANGED <<import, drafts, flagsRead, body, career>>

RefsExist(r) == r.position \in positions /\ r.tags \subseteq tags

ContributionOf(q) ==
  [id |-> Cardinality(contributions), draft |-> on[q],
   summary |-> read[q]["summary"],
   position |-> refs[q].position, tags |-> refs[q].tags]

\* Variant for a mutant: no transaction, and the draft is marked first.
ApproveWriteMarksFirst(q) ==
  /\ pc[q] = "approve"
  /\ Cardinality(contributions) < MaxContributions
  /\ status' = [d \in Entry |-> IF d \in on[q] THEN "approved" ELSE status[d]]
  /\ contributions' = IF RefsExist(refs[q])
                      THEN contributions \cup {ContributionOf(q)} ELSE contributions
  /\ Finish(q)
  /\ UNCHANGED <<import, fields, flags, suggested, positions, tags>>

\* The contribution from the draft as read, its tags, and the mark: one
\* transaction.  Foreign keys refuse a position or a tag deleted meanwhile; the
\* UPDATE of the status matches on id alone, whatever it has become.
ApproveWrite(q) ==
  /\ pc[q] = "approve"
  /\ RefsExist(refs[q])
  /\ Cardinality(contributions) < MaxContributions
  /\ contributions' = contributions \cup {ContributionOf(q)}
  /\ status' = [d \in Entry |-> IF d \in on[q] THEN "approved" ELSE status[d]]
  /\ Finish(q)
  /\ UNCHANGED <<import, fields, flags, suggested, positions, tags>>

\* UpdateDraft reads the row before it decodes the body; any status will do.
EditRead(q, d) ==
  /\ pc[q] = "idle"
  /\ status[d] # "absent"
  /\ \E e \in Edits : body' = [body EXCEPT ![q] = e]
  /\ pc' = [pc EXCEPT ![q] = "edit"]
  /\ on' = [on EXCEPT ![q] = {d}]
  /\ read' = [read EXCEPT ![q] = fields[d]]
  /\ flagsRead' = [flagsRead EXCEPT ![q] = flags[d]]
  /\ UNCHANGED <<import, drafts, refs, career>>

Merged(q) ==
  [f \in Field |-> IF f \in DOMAIN body[q] THEN body[q][f] ELSE read[q][f]]

\* UpdateContributionDraft writes every text column and the flags as read.
EditWrite(q) ==
  /\ pc[q] = "edit"
  /\ fields' = [d \in Entry |-> IF d \in on[q] THEN Merged(q) ELSE fields[d]]
  /\ flags'  = [d \in Entry |-> IF d \in on[q] THEN flagsRead[q] ELSE flags[d]]
  /\ Finish(q)
  /\ UNCHANGED <<import, status, suggested, career>>

\* One statement, and no look at the status.
Reject(d) ==
  /\ status[d] # "absent"
  /\ status' = [status EXCEPT ![d] = "rejected"]
  /\ UNCHANGED <<import, fields, flags, suggested, request, career>>

\* A request that fails or whose client leaves, before it has written.
Abort(q) ==
  /\ pc[q] # "idle"
  /\ Finish(q)
  /\ UNCHANGED <<import, drafts, career>>

\* Variant for a mutant: the foreign key does not hold the tag.
DeleteTagAnyway(t) ==
  /\ t \in tags
  /\ tags' = tags \ {t}
  /\ UNCHANGED <<import, drafts, request, positions, contributions>>

\* DELETE of a tag or a position, refused while a contribution refers to it.
DeleteTag(t) ==
  /\ t \in tags
  /\ \A c \in contributions : t \notin c.tags
  /\ tags' = tags \ {t}
  /\ UNCHANGED <<import, drafts, request, positions, contributions>>

DeletePosition(p) ==
  /\ p \in positions
  /\ \A c \in contributions : c.position # p
  /\ positions' = positions \ {p}
  /\ UNCHANGED <<import, drafts, request, tags, contributions>>

-----------------------------------------------------------------------------

RunStep ==
  \/ StartExtracting \/ ExtractionFails \/ InsertDrafts \/ StartEnriching
  \/ \E d \in Entry : AskEnrichment(d) \/ SaveEnrichment(d) \/ EnrichmentFails(d)
  \/ ShowForReview \/ Fail

ReviewStep ==
  \/ \E q \in Request : ApproveWrite(q) \/ EditWrite(q) \/ Abort(q)
  \/ \E q \in Request, d \in Entry : ApproveRead(q, d) \/ EditRead(q, d)
  \/ \E d \in Entry : Reject(d)

CareerStep ==
  (\E t \in Tag : DeleteTag(t)) \/ (\E p \in Position : DeletePosition(p))

Next == Create \/ RunStep \/ Lose \/ ReviewStep \/ CareerStep

\* The handler keeps running once called: the model's client has a timeout, so
\* every call it makes returns.  Reviewers are not obliged to do anything.
Spec == Init /\ [][Next]_vars

FairSpec == Init /\ [][Next]_vars /\ WF_vars(RunStep)

-----------------------------------------------------------------------------

TypeOK ==
  /\ batch \in {"none", "pending", "extracting", "enriching", "review", "failed"}
  /\ run \in {"none", "created", "extract", "staged", "enrich", "await",
              "failing", "ended", "lost"}
  /\ left \subseteq Entry /\ found \subseteq Entry
  /\ asked \in [draft : SUBSET Entry, tags : SUBSET Tag]
  /\ status    \in [Entry -> {"absent", "pending", "approved", "rejected"}]
  /\ fields    \in [Entry -> Fields]
  /\ flags     \in [Entry -> {"unset", "set"}]
  /\ suggested \in [Entry -> SUBSET Tag]
  /\ ReviewTypes
  /\ positions \subseteq Position /\ tags \subseteq Tag

\* "A mid-loop failure leaves no partial drafts behind": whatever happens to the
\* run, the batch holds all the entries found or none of them.
DraftsAllOrNone == Present \in {{}, found}

\* An approved draft has its contribution, though the rows the approval refers
\* to were checked before the transaction and may go away before it writes.
ApprovedWasWritten ==
  \A d \in Entry : status[d] = "approved" =>
    \E c \in contributions : c.draft = {d}

\* A tag or a position an approval has verified may be gone by the time it
\* writes; no contribution ends up with the one or under the other.
ReferencesExist == \A c \in contributions : RefsExist(c)

\* A draft emptied by an edit while its approval is under way does not become
\* an empty contribution (ErrDraftIncomplete).
ContributionsComplete == \A c \in contributions : c.summary # Blank

\* A draft that is not pending is not approved (ErrDraftNotPending): no draft
\* becomes two contributions. Not when two approvals of it overlap.
BecomesOne ==
  \A b, c \in contributions : b.draft = c.draft => b = c

\* Once a batch is shown for review, only reviewers change its drafts: no late
\* answer of the model arrives.
ReviewIsQuiet ==
  [][batch = "review" => suggested' = suggested /\ found' = found]_vars

\* A saved edit is undone only by another edit: an enrichment that was under way
\* when it was saved writes its own columns only.
EditsSurviveEnrichment ==
  [][\A d \in Entry : fields'[d] # fields[d] =>
       \/ status[d] = "absent"
       \/ \E q \in Request : pc[q] = "edit" /\ on[q] = {d} /\ pc'[q] = "idle"]_vars

\* An import settles: it is shown for review or marked failed, with its reason,
\* unless the request itself is lost.
ImportSettles ==
  (run = "created") ~> (batch \in {"review", "failed"} \/ run = "lost")

=============================================================================
