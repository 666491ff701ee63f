---------------------------- MODULE CareerImport ----------------------------
(***************************************************************************)
(* The whole-career import up to the review: a request stores a batch, has *)
(* a model read the text, plans the drafts, stages and flags them in one   *)
(* transaction and sets the batch's status (internal/intake, api/handlers  *)
(* intake.go). What the review makes of the drafts is in EntityDrafts.     *)
(***************************************************************************)
EXTENDS Naturals, FiniteSets, SequencesExt

CONSTANTS
  Batch,          \* requests to import a career
  Extractions,    \* what the model may read in a text
  Word, LongWord, \* words, and those of four letters or more
  AtFirst,        \* preference labels and categories of the account
  Edits,          \* labels and categories the pages may add or delete
  CrowdedLimit,   \* new categories that are too many in any wording
  MaxEdits

Label == Seq(Word)    \* of a preference or a category; a blank one is empty

Extraction ==
  [employers : Seq([ref : STRING, name : Label]),
   positions : Seq([ref : STRING, employer : STRING]), contributions : Seq(STRING),
   skills : Seq(Label), preferences : Seq(Label), education : Seq(Label), credentials : Seq(Label)]

ASSUME CareerImportAssumption ==
  /\ Extractions \subseteq Extraction
  /\ LongWord \subseteq Word
  /\ AtFirst \in [labels : SUBSET Label, categories : SUBSET Label]
  /\ Edits \in [labels : SUBSET Label, categories : SUBSET Label]
  /\ CrowdedLimit \in Nat /\ MaxEdits \in Nat

VARIABLES
  batch,      \* status of each import_batches row
  drafts,     \* the committed entity_drafts of each batch, in plan order
  account,    \* labels of the preferences and names of the tag categories
  req,        \* what the request that imports a batch is at
  cut,        \* batches whose request was lost
  edits       \* edits made, up to MaxEdits

vars == <<batch, drafts, account, req, cut, edits>>

-----------------------------------------------------------------------------
(* PlanDrafts                                                              *)

Draft(kind, label, parents) ==
  [kind |-> kind, label |-> label, parents |-> parents,
   collisions |-> {}, new |-> {}, crowded |-> {}]

Refs(rows) == {rows[i].ref : i \in DOMAIN rows}

Places(rows, ref) == {i \in DOMAIN rows : rows[i].ref = ref}

\* Variant for a mutant: what names no parent is planned without one.
PlannableInPart(x) ==
  \A rows \in {x.employers, x.positions} : Cardinality(Refs(rows)) = Len(rows)

\* A parent that is not there, a reference used twice or a blank name is an error.
Plannable(x) ==
  /\ \A rows \in {x.employers, x.positions} : Cardinality(Refs(rows)) = Len(rows)
  /\ \A i \in DOMAIN x.positions : x.positions[i].employer \in Refs(x.employers)
  /\ \A i \in DOMAIN x.contributions : x.contributions[i] \in Refs(x.positions)
  /\ \A i \in DOMAIN x.employers : x.employers[i].name # <<>>
  /\ \A names \in {x.skills, x.preferences, x.education, x.credentials} :
       \A i \in DOMAIN names : names[i] # <<>>

Alone(kind, names) == [i \in DOMAIN names |-> Draft(kind, names[i], {})]

\* Parents are drafts of the plan, by their place in it.
PlanDrafts(x) ==
  LET E == Len(x.employers)
  IN  [i \in DOMAIN x.employers |-> Draft("employer", x.employers[i].name, {})]
      \o [i \in DOMAIN x.positions |->
            Draft("position", <<>>, Places(x.employers, x.positions[i].employer))]
      \o [i \in DOMAIN x.contributions |->
            Draft("contribution", <<>>, {E + p : p \in Places(x.positions, x.contributions[i])})]
      \o Alone("skill", x.skills) \o Alone("preference", x.preferences)
      \o Alone("education", x.education) \o Alone("credential", x.credentials)

-----------------------------------------------------------------------------
(* Flags                                                                   *)

ContainsRun(haystack, needle) ==
  \E i \in 0 .. Len(haystack) - Len(needle) :
    needle # <<>> /\ SubSeq(haystack, i + 1, i + Len(needle)) = needle

EqualBags(a, b) ==
  /\ Len(a) = Len(b)
  /\ \A w \in ToSet(a) \cup ToSet(b) :
       Cardinality({i \in DOMAIN a : a[i] = w}) = Cardinality({i \in DOMAIN b : b[i] = w})

\* Variant for a mutant: only a drafted label that is the broader one is seen.
CollidesWhenBroader(label, other) == EqualBags(label, other) \/ ContainsRun(other, label)

Collides(label, other) ==
  EqualBags(label, other) \/ ContainsRun(label, other) \/ ContainsRun(other, label)

CheckPreferenceLabel(label, existing) == {other \in existing : Collides(label, other)}

HasSharedToken(names) ==
  \E a, b \in names : a # b /\ ToSet(a) \cap ToSet(b) \cap LongWord # {}

IsCrowded(proposed) == Cardinality(proposed) > CrowdedLimit \/ HasSharedToken(proposed)

Proposed(plan) == {plan[i].label : i \in {i \in DOMAIN plan : plan[i].kind = "skill"}}

CrowdedBatchCategories(plan, existing) ==
  LET proposed == Proposed(plan) \ existing
  IN  IF IsCrowded(proposed) THEN proposed ELSE {}

-----------------------------------------------------------------------------

Idle == [at |-> "idle", plan |-> <<>>, next |-> 1, ever |-> AtFirst, throughout |-> AtFirst]

Init ==
  /\ batch = [b \in Batch |-> "none"] /\ drafts = [b \in Batch |-> <<>>]
  /\ account = AtFirst
  /\ req = [b \in Batch |-> Idle]
  /\ cut = {} /\ edits = 0

Go(b, at) == req' = [req EXCEPT ![b].at = at]

CreateImportBatch(b) ==
  /\ batch[b] = "none"
  /\ batch' = [batch EXCEPT ![b] = "extracting"]
  /\ Go(b, "reading")
  /\ UNCHANGED <<drafts, account, cut, edits>>

\* The model answers; its drafts are written, and seen by nobody yet.
Complete(b) ==
  /\ req[b].at = "reading"
  /\ \E x \in Extractions :
       IF Plannable(x)
       THEN req' = [req EXCEPT ![b] = [at |-> "flagging", plan |-> PlanDrafts(x), next |-> 1,
                                       ever |-> account, throughout |-> account]]
       ELSE Go(b, "failing")
  /\ UNCHANGED <<batch, drafts, account, cut, edits>>

\* A model call, an answer or a statement of the transaction fails.
ExtractFails(b) ==
  /\ req[b].at \in {"reading", "flagging", "crowding"}
  /\ req' = [req EXCEPT ![b] = [Idle EXCEPT !.at = "failing"]]
  /\ UNCHANGED <<batch, drafts, account, cut, edits>>

Flagging(b, at) == req[b].at = at /\ req[b].next \in DOMAIN req[b].plan

Current(b) == req[b].plan[req[b].next]

Flagged(b, draft, at) ==
  req' = [req EXCEPT ![b].plan[req[b].next] = draft, ![b].at = at,
                     ![b].next = IF at = "flagging" THEN @ + 1 ELSE @]

FlagPreference(b) ==
  /\ Flagging(b, "flagging") /\ Current(b).kind = "preference"
  /\ LET d == Current(b)
     IN  Flagged(b, [d EXCEPT !.collisions = CheckPreferenceLabel(d.label, account.labels)], "flagging")
  /\ UNCHANGED <<batch, drafts, account, cut, edits>>

FlagSkill(b) ==
  /\ Flagging(b, "flagging") /\ Current(b).kind = "skill"
  /\ LET d == Current(b)
     IN  IF d.label \in account.categories THEN Flagged(b, d, "flagging")
         ELSE Flagged(b, [d EXCEPT !.new = {d.label}], "crowding")
  /\ UNCHANGED <<batch, drafts, account, cut, edits>>

\* The categories are listed again for the batch as a whole.
FlagCrowd(b) ==
  /\ Flagging(b, "crowding")
  /\ Flagged(b, [Current(b) EXCEPT
       !.crowded = CrowdedBatchCategories(req[b].plan, account.categories)], "flagging")
  /\ UNCHANGED <<batch, drafts, account, cut, edits>>

FlagNothing(b) ==
  /\ Flagging(b, "flagging") /\ Current(b).kind \notin {"preference", "skill"}
  /\ Flagged(b, Current(b), "flagging")
  /\ UNCHANGED <<batch, drafts, account, cut, edits>>

\* The drafts are there for all to see, whatever the request is told.
StageDrafts(b, at) ==
  /\ req[b].at = "flagging" /\ req[b].next \notin DOMAIN req[b].plan
  /\ drafts' = [drafts EXCEPT ![b] = req[b].plan]
  /\ Go(b, at)
  /\ UNCHANGED <<batch, account, cut, edits>>

Commit(b) == StageDrafts(b, "ready")

\* The commit took effect and its answer is an error, so the batch is to fail.
CommitUnreported(b) == StageDrafts(b, "failing")

SetStatus(b, at, status) ==
  /\ req[b].at = at
  /\ batch' = [batch EXCEPT ![b] = status]
  /\ Go(b, "done")
  /\ UNCHANGED <<drafts, account, cut, edits>>

MarkReview(b) == SetStatus(b, "ready", "review")

\* Variant for a mutant: a plan that failed is answered and not written down.
AnswerFailure(b) ==
  /\ req[b].at = "failing"
  /\ Go(b, "done")
  /\ UNCHANGED <<batch, drafts, account, cut, edits>>

MarkFailed(b) == SetStatus(b, "failing", "failed")

\* The client is gone or the server restarts: the context ends every statement.
Lose(b) ==
  /\ req[b].at \in {"reading", "flagging", "crowding", "ready", "failing"}
  /\ req' = [req EXCEPT ![b] = [Idle EXCEPT !.at = "done"]]
  /\ cut' = cut \cup {b}
  /\ UNCHANGED <<batch, drafts, account, edits>>

-----------------------------------------------------------------------------
(* The Preferences and Vocabulary pages, meanwhile                         *)

Reading(b) == req[b].at \in {"flagging", "crowding"}

Toggle(field, label) ==
  /\ edits < MaxEdits /\ edits' = edits + 1
  /\ account' = [account EXCEPT ![field] =
       IF label \in @ THEN @ \ {label} ELSE @ \cup {label}]
  /\ req' = [b \in Batch |->
       IF Reading(b)
       THEN [req[b] EXCEPT !.ever[field] = @ \cup account'[field],
                           !.throughout[field] = @ \cap account'[field]]
       ELSE req[b]]
  /\ UNCHANGED <<batch, drafts, cut>>

EditPreference == \E label \in Edits.labels : Toggle("labels", label)

EditCategory == \E name \in Edits.categories : Toggle("categories", name)

-----------------------------------------------------------------------------

Request(b) ==
  \/ Complete(b) \/ FlagPreference(b) \/ FlagSkill(b) \/ FlagCrowd(b) \/ FlagNothing(b)
  \/ Commit(b) \/ MarkReview(b) \/ MarkFailed(b)

Next ==
  \/ \E b \in Batch : CreateImportBatch(b) \/ Request(b) \/ ExtractFails(b)
                     \/ CommitUnreported(b) \/ Lose(b)
  \/ EditPreference \/ EditCategory

\* A request that is not lost goes on.
Spec == Init /\ [][Next]_vars /\ \A b \in Batch : WF_vars(Request(b))

-----------------------------------------------------------------------------

ParentKind ==
  [k \in {"employer", "position", "contribution", "skill", "preference", "education", "credential"} |->
     CASE k = "position" -> {"employer"} [] k = "contribution" -> {"position"} [] OTHER -> {}]

\* A batch has no drafts or all of one answer of the model, and in review it has
\* them; a failed one may have them too, where a commit was taken for an error.
\* Each hangs under one earlier draft of the kind the review resolves it against,
\* so a batch, failed or not, can be approved in plan order.
StagedWhole ==
  \A b \in Batch : batch[b] = "review" \/ drafts[b] # <<>> =>
    /\ \E x \in Extractions :
         LET count(rows) == Len(rows)
         IN  Len(drafts[b]) = count(x.employers) + count(x.positions) + count(x.contributions)
               + count(x.skills) + count(x.preferences) + count(x.education) + count(x.credentials)
    /\ \A i \in DOMAIN drafts[b] :
         LET d == drafts[b][i]
         IN  /\ d.parents \subseteq 1 .. i - 1
             /\ {drafts[b][j].kind : j \in d.parents} = ParentKind[d.kind]

\* One label of a posting cannot be matched without the other being matched.
Entails(p, q, fields) ==
  \/ \A f \in fields : ContainsRun(f, p) => ContainsRun(f, q)
  \/ \A f \in fields : ContainsRun(f, q) => ContainsRun(f, p)

\* By the time the drafts of a batch can be seen its cards say what the account
\* gives reason to look at: a label it had all the while that cannot fire without
\* the drafted one, or the other way round; a category it never had; and the new
\* categories of the batch that share a word, on each card of one.
FlagsTell ==
  \A b \in Batch : req[b].at \in {"ready", "failing"} =>
    LET ever == req[b].ever
        throughout == req[b].throughout
        fresh == Proposed(drafts[b]) \ ever.categories
        fields == throughout.labels \cup {drafts[b][i].label : i \in DOMAIN drafts[b]}
    IN  \A i \in DOMAIN drafts[b] :
          LET d == drafts[b][i]
          IN  /\ d.kind = "preference" =>
                   {q \in throughout.labels \ {<<>>} : Entails(d.label, q, fields)}
                     \subseteq d.collisions
              /\ d.kind = "skill" =>
                   /\ d.label \in fresh => d.new = {d.label}
                   /\ d.label \in fresh /\ HasSharedToken(fresh) => fresh \subseteq d.crowded
                   /\ d.new \cap throughout.categories = {}

\* "Flagging runs after every draft is written, so a preference checked against
\* the account also sees the ones drafted alongside it" (StageDrafts): of two
\* preferences of one batch that collide, the card of one names the other.
AlongsideSeen ==
  \A b \in Batch : req[b].at = "ready" =>
    \A i, j \in {k \in DOMAIN drafts[b] : drafts[b][k].kind = "preference"} :
      LET one == drafts[b][i]
          other == drafts[b][j]
      IN  i < j /\ Collides(one.label, other.label) =>
            other.label \in one.collisions \/ one.label \in other.collisions

\* An import comes to its end, for review or failed, unless its request is lost.
ImportSettles ==
  \A b \in Batch :
    batch[b] = "extracting" ~> (batch[b] \in {"review", "failed"} \/ b \in cut)

=============================================================================
