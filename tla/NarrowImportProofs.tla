------------------------- MODULE NarrowImportProofs -------------------------
(***************************************************************************)
(* Proofs about NarrowImport, for any entries, edits, positions and tags   *)
(* and any number of review requests at once.                              *)
(*                                                                         *)
(* The properties follow from what a request holds between its statements: *)
(* the one draft it is on, which is there to stay, and text that was       *)
(* complete when it was read; and from drafts being staged only once.      *)
(***************************************************************************)
EXTENDS NarrowImport, TLAPS

\* A request under way is on one draft there is; an approval has seen its summary.
Engaged ==
  \A q \in Request : pc[q] # "idle" =>
    /\ \E d \in Present : on[q] = {d}
    /\ pc[q] = "approve" => read[q]["summary"] # Blank

\* Nothing is staged before the one transaction that stages, and a batch shown
\* for review has its run behind it.
StagedOnce ==
  /\ DraftsAllOrNone
  /\ run \in {"none", "created", "extract"} => Present = {}
  /\ batch = "review" => run = "ended"

Inv ==
  /\ TypeOK /\ Engaged /\ StagedOnce
  /\ ApprovedWasWritten /\ ReferencesExist /\ ContributionsComplete

LEMMA NoBody == <<>> \in Body
  <1>1. <<>> \in [{} -> Text \cup {Blank}]
    OBVIOUS
  <1> QED
    BY <1>1 DEF Body

LEMMA InitInv == Init => Inv
  <1> SUFFICES ASSUME Init PROVE Inv
    OBVIOUS
  <1>1. TypeOK
    BY NoBody DEF Init, TypeOK, ReviewTypes, NoFields, NoRefs, NoCall, Fields
  <1> QED
    BY <1>1 DEF Init, Inv, Engaged, StagedOnce, DraftsAllOrNone, Present, ApprovedWasWritten,
      ReferencesExist, ContributionsComplete

-----------------------------------------------------------------------------
(* Types                                                                   *)

LEMMA MergedTyped ==
  ASSUME TypeOK, NEW q \in Request
  PROVE  Merged(q) \in Fields
  <1>1. body[q] \in Body /\ read[q] \in Fields
    BY DEF TypeOK, ReviewTypes
  <1>2. PICK F \in SUBSET Field : body[q] \in [F -> Text \cup {Blank}]
    BY <1>1 DEF Body
  <1> QED
    BY <1>1, <1>2 DEF Merged, Fields

LEMMA FinishTyped ==
  ASSUME ReviewTypes, NEW q \in Request, Finish(q)
  PROVE  ReviewTypes'
  BY NoBody DEF ReviewTypes, Finish, NoFields, NoRefs, Fields

\* The steps of the request that imports.
LEMMA RunTyped ==
  ASSUME TypeOK, Create \/ RunStep \/ Lose
  PROVE  TypeOK'
  <1> USE NarrowAssumption DEF TypeOK, ReviewTypes, drafts, request, career
  <1>1. CASE Create \/ StartExtracting \/ ExtractionFails \/ ShowForReview \/ Fail \/ Lose
    BY <1>1 DEF Create, StartExtracting, ExtractionFails, ShowForReview, Fail, Lose
  <1>2. CASE InsertDrafts
    BY <1>2 DEF InsertDrafts, Stage
  <1>3. CASE StartEnriching
    BY <1>3 DEF StartEnriching, Present
  <1>4. ASSUME NEW d \in Entry, AskEnrichment(d) PROVE TypeOK'
    BY <1>4 DEF AskEnrichment
  <1>5. ASSUME NEW d \in Entry, SaveEnrichment(d) PROVE TypeOK'
    BY <1>5 DEF SaveEnrichment, NoCall
  <1>6. ASSUME NEW d \in Entry, EnrichmentFails(d) PROVE TypeOK'
    BY <1>6 DEF EnrichmentFails, NoCall
  <1> QED
    BY <1>1, <1>2, <1>3, <1>4, <1>5, <1>6 DEF RunStep

\* The steps of the reviewers and of the screens.
LEMMA ReviewTyped ==
  ASSUME TypeOK, ReviewStep \/ CareerStep
  PROVE  TypeOK'
  <1> USE DEF TypeOK, import, drafts, request, career
  <1>1. ASSUME NEW q \in Request, ApproveWrite(q) PROVE TypeOK'
    BY <1>1, FinishTyped DEF ApproveWrite
  <1>2. ASSUME NEW q \in Request, EditWrite(q) PROVE TypeOK'
    BY <1>2, FinishTyped, MergedTyped DEF EditWrite, ReviewTypes
  <1>3. ASSUME NEW q \in Request, Abort(q) PROVE TypeOK'
    BY <1>3, FinishTyped DEF Abort
  <1>4. ASSUME NEW q \in Request, NEW d \in Entry, ApproveRead(q, d) PROVE TypeOK'
    BY <1>4 DEF ApproveRead, ReviewTypes
  <1>5. ASSUME NEW q \in Request, NEW d \in Entry, EditRead(q, d) PROVE TypeOK'
    BY <1>5, NarrowAssumption DEF EditRead, ReviewTypes
  <1>6. ASSUME NEW d \in Entry, Reject(d) PROVE TypeOK'
    BY <1>6 DEF Reject, ReviewTypes
  <1>7. ASSUME NEW t \in Tag, DeleteTag(t) PROVE TypeOK'
    BY <1>7 DEF DeleteTag, ReviewTypes
  <1>8. ASSUME NEW p \in Position, DeletePosition(p) PROVE TypeOK'
    BY <1>8 DEF DeletePosition, ReviewTypes
  <1> QED
    BY <1>1, <1>2, <1>3, <1>4, <1>5, <1>6, <1>7, <1>8 DEF ReviewStep, CareerStep

-----------------------------------------------------------------------------
(* The rest of the invariant                                               *)

\* The import leaves requests and the career alone; what it stages is staged
\* where nothing was, so that no request is on it yet.
LEMMA RunKeeps ==
  ASSUME Inv, Create \/ RunStep \/ Lose
  PROVE  Inv'
  <1>1. TypeOK'
    BY RunTyped DEF Inv
  <1>2. CASE InsertDrafts
    <2>1. Present = {} /\ \A q \in Request : pc[q] = "idle"
      BY <1>2 DEF InsertDrafts, Inv, StagedOnce, Engaged
    <2>2. \A d \in Entry : status'[d] = "pending" \/ status'[d] = "absent"
      BY <1>2, <2>1 DEF InsertDrafts, Stage, Present
    <2>3. Present' = found'
      BY <1>2, <2>1 DEF InsertDrafts, Stage, Present
    <2>4. StagedOnce'
      BY <1>2, <2>3 DEF InsertDrafts, Inv, StagedOnce, DraftsAllOrNone
    <2>5. Engaged'
      BY <1>2, <2>1 DEF InsertDrafts, request, Engaged
    <2>6. ApprovedWasWritten' /\ ReferencesExist' /\ ContributionsComplete'
      BY <1>2, <2>2 DEF InsertDrafts, career, Inv, ApprovedWasWritten, ReferencesExist,
        RefsExist, ContributionsComplete
    <2> QED
      BY <1>1, <2>4, <2>5, <2>6 DEF Inv
  <1>3. CASE Create \/ StartExtracting \/ ExtractionFails \/ StartEnriching \/ ShowForReview
             \/ Fail \/ Lose
             \/ \E d \in Entry : AskEnrichment(d) \/ SaveEnrichment(d) \/ EnrichmentFails(d)
    <2>1. UNCHANGED <<status, found, request, career>>
      BY <1>3 DEF Create, StartExtracting, ExtractionFails, StartEnriching, ShowForReview, Fail,
        Lose, AskEnrichment, SaveEnrichment, EnrichmentFails, drafts
    <2>2. StagedOnce'
      BY <1>3, <2>1 DEF Inv, StagedOnce, DraftsAllOrNone, Present, Create, StartExtracting,
        ExtractionFails, StartEnriching, ShowForReview, Fail, Lose, AskEnrichment,
        SaveEnrichment, EnrichmentFails
    <2>3. Engaged' /\ ApprovedWasWritten' /\ ReferencesExist' /\ ContributionsComplete'
      BY <2>1 DEF Inv, Engaged, Present, request, career, ApprovedWasWritten, ReferencesExist,
        RefsExist, ContributionsComplete
    <2> QED
      BY <1>1, <2>2, <2>3 DEF Inv
  <1> QED
    BY <1>2, <1>3 DEF RunStep

\* A request that ends leaves the others on their drafts.
LEMMA Finished ==
  ASSUME TypeOK, Engaged, NEW q \in Request, Finish(q), Present' = Present
  PROVE  Engaged'
  BY DEF TypeOK, ReviewTypes, Engaged, Finish

LEMMA ApproveWriteKeeps ==
  ASSUME Inv, NEW q \in Request, ApproveWrite(q)
  PROVE  Inv'
  <1>1. TypeOK'
    BY ReviewTyped DEF Inv, ReviewStep
  <1>2. PICK d \in Present : on[q] = {d}
    BY DEF Inv, Engaged, ApproveWrite
  <1>3. status' = [e \in Entry |-> IF e = d THEN "approved" ELSE status[e]]
    BY <1>2 DEF ApproveWrite
  <1>4. Present' = Present
    BY <1>2, <1>3 DEF Present
  <1>5. Engaged' /\ StagedOnce'
    BY <1>4, Finished DEF Inv, ApproveWrite, import, StagedOnce, DraftsAllOrNone
  <1>6. contributions' = contributions \cup {ContributionOf(q)}
    BY DEF ApproveWrite
  <1>7. /\ ContributionOf(q).draft = {d} /\ ContributionOf(q).summary = read[q]["summary"]
        /\ ContributionOf(q).position = refs[q].position /\ ContributionOf(q).tags = refs[q].tags
    BY <1>2 DEF ContributionOf
  <1>8. read[q]["summary"] # Blank /\ RefsExist(refs[q])
    BY DEF Inv, Engaged, ApproveWrite
  <1>9. ApprovedWasWritten'
    <2> SUFFICES ASSUME NEW e \in Entry, status'[e] = "approved"
                 PROVE  \E c \in contributions' : c.draft = {e}
      BY DEF ApprovedWasWritten
    <2>1. CASE e = d
      BY <1>6, <1>7, <2>1
    <2>2. CASE e # d
      BY <1>3, <1>6, <2>2 DEF Inv, ApprovedWasWritten
    <2> QED
      BY <2>1, <2>2
  <1>10. ReferencesExist' /\ ContributionsComplete'
    BY <1>6, <1>7, <1>8 DEF ApproveWrite, Inv, ReferencesExist, ContributionsComplete, RefsExist
  <1> QED
    BY <1>1, <1>5, <1>9, <1>10 DEF Inv

LEMMA ReviewKeeps ==
  ASSUME Inv, ReviewStep \/ CareerStep
  PROVE  Inv'
  <1>1. TypeOK'
    BY ReviewTyped DEF Inv
  <1>2. ASSUME UNCHANGED <<batch, run, found, contributions, positions, tags>>,
               Present' = Present, Engaged',
               \A d \in Entry : status'[d] = "approved" => status[d] = "approved"
        PROVE  Inv'
    BY <1>1, <1>2 DEF Inv, StagedOnce, DraftsAllOrNone, ApprovedWasWritten, ReferencesExist,
      RefsExist, ContributionsComplete
  <1>3. ASSUME NEW q \in Request, EditWrite(q) \/ Abort(q) PROVE Inv'
    <2>1. UNCHANGED <<batch, run, found, contributions, positions, tags, status>> /\ Finish(q)
      BY <1>3 DEF EditWrite, Abort, import, drafts, career
    <2>2. Present' = Present
      BY <2>1 DEF Present
    <2> QED
      BY <1>2, <2>1, <2>2, Finished DEF Inv
  <1>4. ASSUME NEW q \in Request, NEW d \in Entry, ApproveRead(q, d) \/ EditRead(q, d)
        PROVE  Inv'
    <2>1. /\ UNCHANGED <<batch, run, found, contributions, positions, tags, status>>
          /\ d \in Present
      BY <1>4 DEF ApproveRead, EditRead, import, drafts, career, Present
    <2>2. Present' = Present
      BY <2>1 DEF Present
    <2>3. /\ on' = [on EXCEPT ![q] = {d}] /\ read' = [read EXCEPT ![q] = fields[d]]
          /\ \/ pc' = [pc EXCEPT ![q] = "approve"] /\ fields[d]["summary"] # Blank
             \/ pc' = [pc EXCEPT ![q] = "edit"]
      BY <1>4 DEF ApproveRead, EditRead
    <2>4. Engaged'
      BY <2>1, <2>2, <2>3 DEF Inv, TypeOK, ReviewTypes, Engaged
    <2> QED
      BY <1>2, <2>1, <2>2, <2>4
  <1>5. ASSUME NEW d \in Entry, Reject(d) PROVE Inv'
    <2>1. Present' = Present /\ \A e \in Entry : status'[e] = "approved" => status[e] = "approved"
      BY <1>5 DEF Reject, Present, Inv, TypeOK
    <2>2. Engaged'
      BY <1>5, <2>1 DEF Inv, Engaged, Reject, request
    <2> QED
      BY <1>2, <1>5, <2>1, <2>2 DEF Reject, import, career
  <1>6. ASSUME CareerStep PROVE Inv'
    <2>1. UNCHANGED <<import, drafts, request, contributions>>
      BY <1>6 DEF CareerStep, DeleteTag, DeletePosition
    <2>2. ReferencesExist'
      BY <1>6 DEF CareerStep, DeleteTag, DeletePosition, Inv, ReferencesExist, RefsExist
    <2> QED
      BY <1>1, <2>1, <2>2 DEF import, drafts, request, Inv, Engaged, StagedOnce,
        DraftsAllOrNone, Present, ApprovedWasWritten, ContributionsComplete
  <1> QED
    BY <1>3, <1>4, <1>5, <1>6, ApproveWriteKeeps DEF ReviewStep

LEMMA StepInv == Inv /\ [Next]_vars => Inv'
  <1>1. CASE UNCHANGED vars
    BY <1>1 DEF vars, Inv, TypeOK, ReviewTypes, Engaged, StagedOnce, DraftsAllOrNone, Present,
      ApprovedWasWritten, ReferencesExist, RefsExist, ContributionsComplete
  <1> QED
    BY <1>1, RunKeeps, ReviewKeeps DEF Next

\* The invariant holds however the import, reviewers and pages interleave.
THEOREM InvHolds == Spec => []Inv
  BY InitInv, StepInv, PTL DEF Spec

-----------------------------------------------------------------------------

\* Batch, drafts and requests keep to their statuses and types.
THEOREM TypesHold == Spec => []TypeOK
  <1>1. Inv => TypeOK
    BY DEF Inv
  <1> QED
    BY <1>1, InvHolds, PTL

\* "A mid-loop failure leaves no partial drafts behind", however the run fails or
\* is lost and whatever reviewers do meanwhile.
THEOREM DraftsAllOrNoneHolds == Spec => []DraftsAllOrNone
  <1>1. Inv => DraftsAllOrNone
    BY DEF Inv, StagedOnce
  <1> QED
    BY <1>1, InvHolds, PTL

\* No draft is approved without its contribution, for any interleaving of
\* approvals, edits, rejections and deletes.
THEOREM ApprovedWasWrittenHolds == Spec => []ApprovedWasWritten
  <1>1. Inv => ApprovedWasWritten
    BY DEF Inv
  <1> QED
    BY <1>1, InvHolds, PTL

\* What an approval verified and another request deleted is never referred to.
THEOREM ReferencesExistHolds == Spec => []ReferencesExist
  <1>1. Inv => ReferencesExist
    BY DEF Inv
  <1> QED
    BY <1>1, InvHolds, PTL

\* No contribution is written without a summary, whatever edits overtake its
\* approval.
THEOREM ContributionsCompleteHolds == Spec => []ContributionsComplete
  <1>1. Inv => ContributionsComplete
    BY DEF Inv
  <1> QED
    BY <1>1, InvHolds, PTL

\* No answer of the model arrives at a batch that is shown for review.
THEOREM ReviewIsQuietHolds == Spec => ReviewIsQuiet
  <1> DEFINE Quiet == batch = "review" => suggested' = suggested /\ found' = found
  <1>1. Inv /\ [Next]_vars => [Quiet]_vars
    <2> SUFFICES ASSUME Inv, Next, batch = "review" PROVE suggested' = suggested /\ found' = found
      OBVIOUS
    <2>1. run = "ended"
      BY DEF Inv, StagedOnce
    <2>2. CASE Create \/ RunStep \/ Lose
      BY <2>1, <2>2 DEF Create, RunStep, StartExtracting, ExtractionFails, InsertDrafts,
        StartEnriching, AskEnrichment, SaveEnrichment, EnrichmentFails, ShowForReview, Fail, Lose
    <2>3. CASE ReviewStep \/ CareerStep
      BY <2>3 DEF ReviewStep, CareerStep, ApproveWrite, EditWrite, Abort, ApproveRead, EditRead,
        Reject, DeleteTag, DeletePosition, import, drafts
    <2> QED
      BY <2>2, <2>3 DEF Next
  <1> QED
    BY <1>1, InvHolds, PTL DEF Spec, ReviewIsQuiet

\* A draft's text, once staged, changes only by an edit of it.
THEOREM EditsSurviveEnrichmentHolds == Spec => EditsSurviveEnrichment
  <1> DEFINE Survive == \A d \in Entry : fields'[d] # fields[d] =>
                          \/ status[d] = "absent"
                          \/ \E q \in Request : pc[q] = "edit" /\ on[q] = {d} /\ pc'[q] = "idle"
  <1>1. Inv /\ [Next]_vars => [Survive]_vars
    <2> SUFFICES ASSUME Inv, Next, NEW d \in Entry, fields'[d] # fields[d], status[d] # "absent"
                 PROVE  \E q \in Request : pc[q] = "edit" /\ on[q] = {d} /\ pc'[q] = "idle"
      OBVIOUS
    <2>1. d \in Present
      BY DEF Present
    <2>2. ~ InsertDrafts
      BY <2>1 DEF InsertDrafts, Inv, StagedOnce
    <2>3. ASSUME NEW q \in Request, EditWrite(q)
          PROVE  pc[q] = "edit" /\ on[q] = {d} /\ pc'[q] = "idle"
      BY <2>3 DEF EditWrite, Finish, Inv, TypeOK, ReviewTypes, Engaged
    <2>4. ASSUME ~ \E q \in Request : EditWrite(q) PROVE FALSE
      <3>1. CASE Create \/ RunStep \/ Lose
        BY <2>2, <3>1 DEF Create, RunStep, StartExtracting, ExtractionFails, StartEnriching,
          AskEnrichment, SaveEnrichment, EnrichmentFails, ShowForReview, Fail, Lose, drafts
      <3>2. CASE ReviewStep \/ CareerStep
        BY <2>4, <3>2 DEF ReviewStep, CareerStep, ApproveWrite, Abort, ApproveRead, EditRead,
          Reject, DeleteTag, DeletePosition, drafts
      <3> QED
        BY <3>1, <3>2 DEF Next
    <2> QED
      BY <2>3, <2>4
  <1> QED
    BY <1>1, InvHolds, PTL DEF Spec, EditsSurviveEnrichment

-----------------------------------------------------------------------------
(* One review request at a time.                                           *)

\* A draft that became a contribution never reads pending again, and the draft a
\* lone approval is on has become none.
Once ==
  /\ BecomesOne
  /\ \A c \in contributions, d \in Entry : c.draft = {d} => status[d] \notin {"absent", "pending"}
  /\ \A q \in Request : pc[q] = "approve" => \A c \in contributions : c.draft # on[q]

LEMMA StepOnce ==
  ASSUME \A p, q \in Request : p = q, Inv, Once, [Next]_vars
  PROVE  Once'
  <1> USE DEF Inv, TypeOK, ReviewTypes, Once, BecomesOne
  <1>1. CASE InsertDrafts
    <2>1. \A d \in Entry : status[d] = "absent"
      BY <1>1 DEF InsertDrafts, StagedOnce, Present
    <2>2. UNCHANGED <<pc, on, contributions>>
      BY <1>1 DEF InsertDrafts, request, career
    <2>3. \A c \in contributions, d \in Entry : c.draft # {d}
      BY <2>1
    <2> QED
      BY <2>2, <2>3
  <1>2. ASSUME NEW q \in Request, NEW d \in Entry, ApproveRead(q, d) PROVE Once'
    <2>1. /\ status[d] = "pending" /\ on'[q] = {d} /\ UNCHANGED <<status, contributions>>
      BY <1>2 DEF ApproveRead, drafts, career
    <2> QED
      BY <2>1
  <1>3. ASSUME NEW q \in Request, ApproveWrite(q) PROVE Once'
    <2>1. PICK d \in Entry : on[q] = {d} /\ status[d] # "absent"
      BY <1>3 DEF ApproveWrite, Engaged, Present
    <2>2. /\ contributions' = contributions \cup {ContributionOf(q)}
          /\ status' = [e \in Entry |-> IF e \in on[q] THEN "approved" ELSE status[e]]
          /\ pc[q] = "approve" /\ pc'[q] = "idle"
      BY <1>3 DEF ApproveWrite, Finish
    <2>3. ContributionOf(q).draft = {d}
      BY <2>1 DEF ContributionOf
    <2> HIDE DEF ContributionOf
    <2>4. \A c \in contributions : c.draft # {d}
      BY <2>1, <2>2
    <2>5. BecomesOne'
      BY <2>2, <2>3, <2>4
    <2>6. ASSUME NEW c \in contributions', NEW e \in Entry, c.draft = {e}
          PROVE  status'[e] \notin {"absent", "pending"}
      <3>1. CASE e = d
        BY <2>1, <2>2, <3>1
      <3>2. CASE e # d
        <4>1. c \in contributions /\ status'[e] = status[e]
          BY <2>1, <2>2, <2>3, <2>6, <3>2
        <4> QED
          BY <2>6, <4>1
      <3> QED
        BY <3>1, <3>2
    <2>7. \A p \in Request : pc'[p] # "approve"
      BY <2>2
    <2> QED
      BY <2>5, <2>6, <2>7
  <1>4. ASSUME NEW d \in Entry, Reject(d) PROVE Once'
    <2>1. status' = [status EXCEPT ![d] = "rejected"] /\ UNCHANGED <<pc, on, contributions>>
      BY <1>4 DEF Reject, request, career
    <2> QED
      BY <2>1
  <1>5. ASSUME UNCHANGED <<status, contributions>>,
               UNCHANGED <<pc, on>> \/ \E q \in Request : pc'[q] # "approve"
        PROVE  Once'
    BY <1>5
  <1>6. CASE Create \/ (RunStep /\ ~ InsertDrafts) \/ Lose \/ CareerStep
    BY <1>5, <1>6 DEF Create, RunStep, StartExtracting, ExtractionFails, StartEnriching,
      AskEnrichment, SaveEnrichment, EnrichmentFails, ShowForReview, Fail, Lose, CareerStep,
      DeleteTag, DeletePosition, drafts, request, career
  <1>7. ASSUME NEW q \in Request, EditWrite(q) \/ Abort(q) PROVE Once'
    BY <1>5, <1>7 DEF EditWrite, Abort, Finish, drafts, career
  <1>8. ASSUME NEW q \in Request, NEW d \in Entry, EditRead(q, d) PROVE Once'
    BY <1>5, <1>8 DEF EditRead, drafts, career
  <1>9. CASE UNCHANGED vars
    BY <1>5, <1>9 DEF vars
  <1> QED
    BY <1>1, <1>2, <1>3, <1>4, <1>6, <1>7, <1>8, <1>9 DEF Next, ReviewStep

\* Overlap is the only way a draft becomes two contributions: when requests do not
\* overlap, ErrDraftNotPending keeps its promise, whatever is rejected meanwhile.
THEOREM BecomesOneAlone ==
  ASSUME \A p, q \in Request : p = q
  PROVE  Spec => []BecomesOne
  <1>1. Init => Once
    BY DEF Init, Once, BecomesOne
  <1>2. Inv /\ Once /\ [Next]_vars => Once'
    BY StepOnce
  <1>3. Once => BecomesOne
    BY DEF Once
  <1> QED
    BY <1>1, <1>2, <1>3, InvHolds, PTL DEF Spec

=============================================================================
