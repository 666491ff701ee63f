---------------------------- MODULE EntityDrafts ----------------------------
(***************************************************************************)
(* The review of one staged career import: internal/intake/resolve.go      *)
(* (ApproveDraft, ResolveBatch), the reject and edit handlers of           *)
(* internal/api/handlers/intake.go, and the row-level behaviour of the     *)
(* Postgres statements they issue.                                         *)
(*                                                                         *)
(* Several HTTP requests of one account run at once.  Each carries what it *)
(* read and acts on it later; a transaction's rows and marks are seen by   *)
(* the others only when it commits, and a draft row it has updated stays   *)
(* locked until then.                                                      *)
(***************************************************************************)
EXTENDS Naturals, FiniteSets

CONSTANTS
  NumDrafts,      \* drafts of the batch, numbered in the order they are listed
  KindOf,         \* the kind column of each draft
  DependsOn,      \* the depends_on column of each draft
  InitialPayload, \* the payload extraction staged for each draft
  Edits,          \* the payloads a reviewer may submit for each draft
  HandMade,       \* the rows a person may add through the CRUD screens
  MaxByHand,      \* bound: how many of them in one behaviour
  MaxDeletes,     \* bound: how many rows are deleted in one behaviour
  MaxRows,        \* bound: how many rows are ever committed or in flight
  Key,            \* names, titles, tags, case-folded: what rows may share
  Request,        \* the requests in flight at once
  Overlapping,    \* may the CRUD screens act while a review request runs
  NoPayload       \* what a request holds for a draft it has not read

Draft   == 1..NumDrafts
NoDraft == 0
RowId   == 1..MaxRows
NoRow   == 0

Kinds == {"employer", "position", "contribution", "skill", "preference",
          "education", "credential"}

\* Whether a payload passes its kind's validate(), and then what only the resolver
\* (a skill's tag is named) and the table (a preference's weight) look at.
Forms == {"good", "refused_by_table", "refused_by_validate"}

Payload == [key: Key, parent: Draft \cup {NoDraft}, form: Forms]

\* A career row; draft is a history field, the draft it was written for.
Row == [id: RowId, kind: Kinds, key: Key, parent: RowId \cup {NoRow},
        draft: Draft \cup {NoDraft}]

ASSUME DraftsAssumption ==
  /\ NumDrafts \in Nat
  /\ KindOf \in [Draft -> Kinds]
  /\ DependsOn \in [Draft -> SUBSET Draft]
  /\ InitialPayload \in [Draft -> Payload]
  /\ Edits \in [Draft -> SUBSET Payload]

ASSUME BoundsAssumption ==
  /\ MaxRows \in Nat
  /\ MaxByHand \in Nat
  /\ MaxDeletes \in Nat
  /\ Overlapping \in BOOLEAN
  /\ HandMade \subseteq [kind: {"employer", "skill"}, key: Key]

VARIABLES
  status,    \* entity_drafts.status of each draft
  payload,   \* entity_drafts.payload
  resolved,  \* entity_drafts.resolved_id
  rows,      \* the career rows committed and not deleted
  born,      \* history: every career row ever committed
  pc,        \* where each request stands
  at,        \* the draft a request is on, and how far its scan has come
  todo,      \* drafts a request still has to handle
  seen,      \* payloads a request read, and will write rows from
  parents,   \* the resolved map a request carries
  made,      \* rows a request's open transaction has inserted
  locked     \* drafts it has marked, whose rows it therefore locks

tables == <<status, payload, resolved, rows, born>>
local  == <<pc, at, todo, seen, parents, made, locked>>
vars   == <<status, payload, resolved, rows, born,
            pc, at, todo, seen, parents, made, locked>>

PCs == {"idle", "list", "resolve", "mark", "reject", "edit"}

Init ==
  /\ status   = [d \in Draft |-> "pending"]
  /\ payload  = InitialPayload
  /\ resolved = [d \in Draft |-> NoRow]
  /\ rows = {} /\ born = {}
  /\ pc      = [q \in Request |-> "idle"]
  /\ at      = [q \in Request |-> NoDraft]
  /\ todo    = [q \in Request |-> {}]
  /\ seen    = [q \in Request |-> [d \in Draft |-> NoPayload]]
  /\ parents = [q \in Request |-> [d \in Draft |-> NoRow]]
  /\ made    = [q \in Request |-> {}]
  /\ locked  = [q \in Request |-> {}]

-----------------------------------------------------------------------------
(* What the statements see and wait for.                                   *)

\* The row each kind hangs under; "none" for the kinds that hang under nothing.
ParentKind(k) ==
  CASE k = "position"     -> "employer"
    [] k = "contribution" -> "position"
    [] OTHER              -> "none"

\* Kinds with a UNIQUE constraint a second row of the same key would break.
UniqueKinds == {"skill", "preference"}

\* The map from a draft to the row it became, as a listing of the batch shows it.
ResolvedMap ==
  [d \in Draft |-> IF status[d] = "approved" THEN resolved[d] ELSE NoRow]

\* Rows the statements of q see: what is committed and what q itself inserted.
Visible(q) == rows \cup made[q]

UsedIds == {r.id : r \in born \cup UNION {made[q] : q \in Request}}

\* uuid.New(): an id nobody has.  Which one carries no meaning, so the least.
Fresh(id) ==
  /\ id \notin UsedIds
  /\ \A j \in RowId : j < id => j \in UsedIds

\* An UPDATE of draft d waits while another transaction has updated it.
DraftFree(q, d) == \A p \in Request \ {q} : d \notin locked[p]

\* Variant for a mutant: the listing is gone through once.
ReadyInOnePass(q) ==
  {d \in todo[q] : d > at[q] /\ \A e \in DependsOn[d] : parents[q][e] # NoRow}

\* Kahn's scan over the listing: a draft is ready once every dependency has
\* resolved; the scan goes on from where it stands and starts over at the end.
Ready(q) == {d \in todo[q] : \A e \in DependsOn[d] : parents[q][e] # NoRow}

ScansNext(q, d) ==
  /\ d \in Ready(q)
  /\ \A e \in Ready(q) \ {d} :
       IF d > at[q] THEN e <= at[q] \/ d < e ELSE e <= at[q] /\ d < e

-----------------------------------------------------------------------------
(* The end of a request: what it carried is gone.                          *)

Finish(q) ==
  /\ pc'      = [pc EXCEPT ![q] = "idle"]
  /\ at'      = [at EXCEPT ![q] = NoDraft]
  /\ todo'    = [todo EXCEPT ![q] = {}]
  /\ seen'    = [seen EXCEPT ![q] = [d \in Draft |-> NoPayload]]
  /\ parents' = [parents EXCEPT ![q] = [d \in Draft |-> NoRow]]
  /\ made'    = [made EXCEPT ![q] = {}]
  /\ locked'  = [locked EXCEPT ![q] = {}]

-----------------------------------------------------------------------------
(* ApproveDraft.                                                           *)

\* GetEntityDraft; a draft that is not pending is answered 409 at once.
ApproveRead(q, d) ==
  /\ pc[q] = "idle"
  /\ status[d] = "pending"
  /\ pc'   = [pc EXCEPT ![q] = "list"]
  /\ todo' = [todo EXCEPT ![q] = {d}]
  /\ seen' = [seen EXCEPT ![q] = [e \in Draft |->
                                    IF e = d THEN payload[d] ELSE NoPayload]]
  /\ UNCHANGED <<tables, at, parents, made, locked>>

\* ListEntityDraftsByBatch, and every dependency has a row: BEGIN.
ApproveList(q) ==
  /\ pc[q] = "list"
  /\ \A d \in todo[q] : \A e \in DependsOn[d] : ResolvedMap[e] # NoRow
  /\ parents' = [parents EXCEPT ![q] = ResolvedMap]
  /\ pc'      = [pc EXCEPT ![q] = "resolve"]
  /\ UNCHANGED <<tables, at, todo, seen, made, locked>>

\* ErrDependencyNotResolved.
ApproveRefused(q) ==
  /\ pc[q] = "list"
  /\ \E d \in todo[q] : \E e \in DependsOn[d] : ResolvedMap[e] = NoRow
  /\ Finish(q)
  /\ UNCHANGED tables

-----------------------------------------------------------------------------
(* ResolveBatch: one listing, taken before the transaction begins.         *)

BatchList(q) ==
  /\ pc[q] = "idle"
  /\ pc'      = [pc EXCEPT ![q] = "resolve"]
  /\ todo'    = [todo EXCEPT ![q] = {d \in Draft : status[d] = "pending"}]
  /\ seen'    = [seen EXCEPT ![q] = payload]
  /\ parents' = [parents EXCEPT ![q] = ResolvedMap]
  /\ UNCHANGED <<tables, at, made, locked>>

-----------------------------------------------------------------------------
(* resolveOne and MarkEntityDraftResolved, shared by both.                 *)

\* The employer of that name the account already has, when there is one.
Existing(q, d) ==
  {r \in Visible(q) : /\ KindOf[d] = "employer"
                      /\ r.kind = "employer"
                      /\ r.key = seen[q][d].key}

\* The row id the payload's parent draft resolved to.
ParentRow(q, d) ==
  IF seen[q][d].parent = NoDraft THEN NoRow ELSE parents[q][seen[q][d].parent]

HasParent(q, d) ==
  \/ ParentKind(KindOf[d]) = "none"
  \/ \E r \in Visible(q) : /\ r.id = ParentRow(q, d)
                           /\ r.kind = ParentKind(KindOf[d])

SameKey(r, q, d) == r.kind = KindOf[d] /\ r.key = seen[q][d].key

\* An INSERT waits for a transaction that inserted the same unique key.
KeyFree(q, d) ==
  KindOf[d] \in UniqueKinds =>
    \A p \in Request \ {q} : \A r \in made[p] : ~ SameKey(r, q, d)

Resolvable(q, d) ==
  \/ Existing(q, d) # {} /\ seen[q][d].form # "refused_by_validate"
  \/ /\ seen[q][d].form = "good"
     /\ HasParent(q, d)
     /\ KindOf[d] \in UniqueKinds => \A r \in Visible(q) : ~ SameKey(r, q, d)

RowFor(q, d, id) ==
  [id     |-> id,
   kind   |-> KindOf[d],
   key    |-> seen[q][d].key,
   parent |-> IF ParentKind(KindOf[d]) = "none" THEN NoRow ELSE ParentRow(q, d),
   draft  |-> d]

Reuse(q, d) ==
  /\ pc[q] = "resolve"
  /\ ScansNext(q, d)
  /\ Resolvable(q, d)
  /\ \E r \in Existing(q, d) : parents' = [parents EXCEPT ![q][d] = r.id]
  /\ pc' = [pc EXCEPT ![q] = "mark"]
  /\ at' = [at EXCEPT ![q] = d]
  /\ UNCHANGED <<tables, todo, seen, made, locked>>

\* Variant for a mutant: the row is written outside the transaction.
InsertOutside(q, d) ==
  /\ pc[q] = "resolve"
  /\ ScansNext(q, d)
  /\ Resolvable(q, d)
  /\ Existing(q, d) = {}
  /\ \E id \in RowId :
       /\ Fresh(id)
       /\ rows'    = rows \cup {RowFor(q, d, id)}
       /\ born'    = born \cup {RowFor(q, d, id)}
       /\ parents' = [parents EXCEPT ![q][d] = id]
  /\ pc' = [pc EXCEPT ![q] = "mark"]
  /\ at' = [at EXCEPT ![q] = d]
  /\ UNCHANGED <<status, payload, resolved, todo, seen, made, locked>>

Insert(q, d) ==
  /\ pc[q] = "resolve"
  /\ ScansNext(q, d)
  /\ Resolvable(q, d)
  /\ Existing(q, d) = {}
  /\ KeyFree(q, d)
  /\ \E id \in RowId :
       /\ Fresh(id)
       /\ made'    = [made EXCEPT ![q] = @ \cup {RowFor(q, d, id)}]
       /\ parents' = [parents EXCEPT ![q][d] = id]
  /\ pc' = [pc EXCEPT ![q] = "mark"]
  /\ at' = [at EXCEPT ![q] = d]
  /\ UNCHANGED <<tables, todo, seen, locked>>

\* Variant for a mutant: a draft that fails is skipped, and scanned again.
ResolveSkips(q, d) ==
  /\ pc[q] = "resolve"
  /\ ScansNext(q, d)
  /\ ~ Resolvable(q, d)
  /\ at' = [at EXCEPT ![q] = (d + 1) % (NumDrafts + 1)]
  /\ UNCHANGED <<tables, pc, todo, seen, parents, made, locked>>

\* Any resolver error rolls the whole transaction back.
ResolveFails(q, d) ==
  /\ pc[q] = "resolve"
  /\ ScansNext(q, d)
  /\ ~ Resolvable(q, d)
  /\ seen[q][d].form = "good" => KeyFree(q, d)
  /\ Finish(q)
  /\ UNCHANGED tables

\* The UPDATE matches on id and user alone, whatever the status has become.
Mark(q) ==
  /\ pc[q] = "mark"
  /\ DraftFree(q, at[q])
  /\ locked' = [locked EXCEPT ![q] = @ \cup {at[q]}]
  /\ todo'   = [todo EXCEPT ![q] = @ \ {at[q]}]
  /\ pc'     = [pc EXCEPT ![q] = "resolve"]
  /\ UNCHANGED <<tables, at, seen, parents, made>>

\* Variant for a mutant: the mark sets the status and forgets resolved_id.
CommitWithoutIds(q) ==
  /\ pc[q] = "resolve"
  /\ Ready(q) = {}
  /\ status' = [d \in Draft |-> IF d \in locked[q] THEN "approved" ELSE status[d]]
  /\ rows' = rows \cup made[q]
  /\ born' = born \cup made[q]
  /\ Finish(q)
  /\ UNCHANGED <<payload, resolved>>

\* What is still in todo is reported as unresolved; the rest becomes visible.
Commit(q) ==
  /\ pc[q] = "resolve"
  /\ Ready(q) = {}
  /\ status'   = [d \in Draft |-> IF d \in locked[q] THEN "approved" ELSE status[d]]
  /\ resolved' = [d \in Draft |-> IF d \in locked[q] THEN parents[q][d] ELSE resolved[d]]
  /\ rows' = rows \cup made[q]
  /\ born' = born \cup made[q]
  /\ Finish(q)
  /\ UNCHANGED payload

-----------------------------------------------------------------------------
(* RejectEntityDraft and UpdateEntityDraftPayload: a read, then an UPDATE  *)
(* that re-checks the status and waits for a transaction holding the row.  *)

ReadPending(q, d, next) ==
  /\ pc[q] = "idle"
  /\ status[d] = "pending"
  /\ pc' = [pc EXCEPT ![q] = next]
  /\ at' = [at EXCEPT ![q] = d]
  /\ UNCHANGED <<tables, todo, seen, parents, made, locked>>

RejectRead(q, d) == ReadPending(q, d, "reject")

\* Variant for a mutant: an UPDATE without its guard.
RejectWriteUnguarded(q) ==
  /\ pc[q] = "reject"
  /\ DraftFree(q, at[q])
  /\ status' = [status EXCEPT ![at[q]] = "rejected"]
  /\ Finish(q)
  /\ UNCHANGED <<payload, resolved, rows, born>>

RejectWrite(q) ==
  /\ pc[q] = "reject"
  /\ DraftFree(q, at[q])
  /\ status' = [status EXCEPT ![at[q]] = IF @ = "pending" THEN "rejected" ELSE @]
  /\ Finish(q)
  /\ UNCHANGED <<payload, resolved, rows, born>>

EditRead(q, d) == Edits[d] # {} /\ ReadPending(q, d, "edit")

\* Variant for a mutant: an UPDATE without its guard.
EditWriteUnguarded(q) ==
  /\ pc[q] = "edit"
  /\ DraftFree(q, at[q])
  /\ \E p \in Edits[at[q]] : payload' = [payload EXCEPT ![at[q]] = p]
  /\ Finish(q)
  /\ UNCHANGED <<status, resolved, rows, born>>

\* Variant for a mutant: an UPDATE that spares approved drafts only.
EditWriteUnlessApproved(q) ==
  /\ pc[q] = "edit"
  /\ DraftFree(q, at[q])
  /\ \E p \in Edits[at[q]] :
       payload' = IF p.form # "refused_by_validate" /\ status[at[q]] # "approved"
                  THEN [payload EXCEPT ![at[q]] = p] ELSE payload
  /\ Finish(q)
  /\ UNCHANGED <<status, resolved, rows, born>>

\* ValidatePayload runs validate() and nothing else: not the parent, not the tag,
\* not the table's CHECKs.
EditWrite(q) ==
  /\ pc[q] = "edit"
  /\ DraftFree(q, at[q])
  /\ \E p \in Edits[at[q]] :
       payload' = IF p.form # "refused_by_validate" /\ status[at[q]] = "pending"
                  THEN [payload EXCEPT ![at[q]] = p] ELSE payload
  /\ Finish(q)
  /\ UNCHANGED <<status, resolved, rows, born>>

-----------------------------------------------------------------------------
(* Requests that end early, and the rest of the account's traffic.         *)

\* The client goes away, the server dies or the connection drops before the
\* commit: the transaction rolls back.
Abort(q) ==
  /\ pc[q] # "idle"
  /\ Finish(q)
  /\ UNCHANGED tables

\* p waits for a row or a key that q holds.
WaitsFor(p, q) ==
  \/ pc[p] \in {"mark", "reject", "edit"} /\ at[p] \in locked[q]
  \/ /\ pc[p] = "resolve"
     /\ \E d \in Draft : /\ ScansNext(p, d)
                         /\ KindOf[d] \in UniqueKinds
                         /\ \E r \in made[q] : SameKey(r, p, d)

\* Postgres picks one transaction of a cycle of waits and rolls it back.
DeadlockVictim(q) ==
  /\ \E S \in SUBSET Request :
       /\ q \in S
       /\ \A p \in S : \E w \in S \ {p} : WaitsFor(p, w)
  /\ Finish(q)
  /\ UNCHANGED tables

\* The CRUD screens act at any time, or between review requests only.
ScreensMayAct == Overlapping \/ \A q \in Request : pc[q] = "idle"

\* POST /employers and POST /skills.
CreateByHand(h) ==
  /\ ScreensMayAct
  /\ Cardinality({r \in born : r.draft = NoDraft}) < MaxByHand
  /\ h.kind \in UniqueKinds =>
       \A r \in rows \cup UNION {made[q] : q \in Request} :
         ~ (r.kind = h.kind /\ r.key = h.key)
  /\ \E id \in RowId :
       /\ Fresh(id)
       /\ LET row == [id |-> id, kind |-> h.kind, key |-> h.key,
                      parent |-> NoRow, draft |-> NoDraft]
          IN rows' = rows \cup {row} /\ born' = born \cup {row}
  /\ UNCHANGED <<status, payload, resolved, local>>

\* Variant for a mutant: only the committed children are counted.
DeleteRowCounting(r) ==
  /\ ScreensMayAct
  /\ r \in rows
  /\ Cardinality(born \ rows) < MaxDeletes
  /\ \A c \in rows : c.parent # r.id
  /\ rows' = rows \ {r}
  /\ UNCHANGED <<status, payload, resolved, born, local>>

\* DELETE of a career row: refused while a row hangs under it, one that an open
\* transaction has inserted included (its foreign key holds the parent).
DeleteRow(r) ==
  /\ ScreensMayAct
  /\ r \in rows
  /\ Cardinality(born \ rows) < MaxDeletes
  /\ \A c \in rows \cup UNION {made[q] : q \in Request} : c.parent # r.id
  /\ rows' = rows \ {r}
  /\ UNCHANGED <<status, payload, resolved, born, local>>

-----------------------------------------------------------------------------
(* The specification.                                                      *)

Step(q) ==
  \/ ApproveList(q) \/ ApproveRefused(q)
  \/ \E d \in Draft : Reuse(q, d) \/ Insert(q, d) \/ ResolveFails(q, d)
  \/ Mark(q) \/ Commit(q)
  \/ RejectWrite(q) \/ EditWrite(q)

Begin(q) ==
  \/ BatchList(q)
  \/ \E d \in Draft : ApproveRead(q, d) \/ RejectRead(q, d) \/ EditRead(q, d)

Next ==
  \/ \E q \in Request : Begin(q) \/ Step(q) \/ Abort(q) \/ DeadlockVictim(q)
  \/ \E h \in HandMade : CreateByHand(h)
  \/ \E r \in rows : DeleteRow(r)

Spec == Init /\ [][Next]_vars

\* The server keeps executing a request it has accepted.  Strong fairness where
\* it waits for a row, because Postgres queues waiters in order: a request does
\* not lose the row again and again to others that come later.  Postgres also
\* breaks deadlocks; nobody is obliged to send a request.
Fairness ==
  \A q \in Request : SF_vars(Step(q)) /\ WF_vars(DeadlockVictim(q))

FairSpec == Spec /\ Fairness

-----------------------------------------------------------------------------
(* Properties that hold whatever the requests do to each other.            *)

TypeOK ==
  /\ status   \in [Draft -> {"pending", "approved", "rejected"}]
  /\ payload  \in [Draft -> Payload]
  /\ resolved \in [Draft -> RowId \cup {NoRow}]
  /\ rows \subseteq Row /\ born \subseteq Row
  /\ pc      \in [Request -> PCs]
  /\ at      \in [Request -> Draft \cup {NoDraft}]
  /\ todo    \in [Request -> SUBSET Draft]
  /\ seen    \in [Request -> [Draft -> Payload \cup {NoPayload}]]
  /\ parents \in [Request -> [Draft -> RowId \cup {NoRow}]]
  /\ made    \in [Request -> SUBSET Row]
  /\ locked  \in [Request -> SUBSET Draft]

\* A draft reads approved exactly when it names a row, and that row was written
\* and is of the draft's kind: nothing is "marked approved with no row behind".
ApprovedHasRow ==
  \A d \in Draft :
    /\ status[d] = "approved" <=> resolved[d] # NoRow
    /\ resolved[d] # NoRow =>
         \E r \in born : r.id = resolved[d] /\ r.kind = KindOf[d]

\* The other direction: a career row written for a draft is never visible while
\* the draft reads pending or rejected, however the requests interleave.
RowHasApprovedDraft ==
  \A r \in born : r.draft # NoDraft => status[r.draft] = "approved"

\* Nobody's approval, single or batch, gets ahead of the drafts it depends on.
ParentsApprovedFirst ==
  \A d \in Draft :
    status[d] = "approved" => \A e \in DependsOn[d] : status[e] = "approved"

\* A row that hangs under another is never left without it, though parents are
\* deleted while approvals that will use them are in flight.
RowsHaveParents ==
  \A r \in rows : ParentKind(r.kind) # "none" =>
    \E p \in rows : p.id = r.parent /\ p.kind = ParentKind(r.kind)

\* A reject or an edit that read "pending" before an approval committed never
\* takes the approval back: the guard in the UPDATE decides, not the read.
ApprovalIsFinal ==
  [][\A d \in Draft :
       status[d] = "approved" => /\ status'[d] = "approved"
                                 /\ payload'[d] = payload[d]]_vars

\* Every request the server accepted comes to an end: waits for locks do not
\* last, because holders commit and Postgres breaks cycles.
RequestsEnd ==
  \A q \in Request : pc[q] # "idle" ~> pc[q] = "idle"

\* All a draft depends on, directly and through other drafts.
Above(d) ==
  {e \in Draft : \A S \in SUBSET Draft :
     DependsOn[d] \cup UNION {DependsOn[x] : x \in S} \subseteq S => e \in S}

\* "What is left over after no more progress is possible is either a cycle or a
\* draft depending on something rejected" (topoOrder): a batch resolution leaves
\* nothing behind for any other reason, in whatever order the batch is listed and
\* whatever is decided meanwhile. Such a rejected draft may read approved again by
\* then, where an approval overran its rejection.
NothingLeftBehind ==
  \A q \in Request : pc[q] = "resolve" /\ Ready(q) = {} =>
    \A d \in todo[q] : \E e \in Above(d) :
      \/ status[e] = "rejected" \/ e \in Above(e)
      \/ status[e] = "approved" /\ parents[q][e] = NoRow /\ e \notin todo[q]

\* What the review promises the reviewer, the committed tables mapped to it.
Review ==
  INSTANCE DraftReview WITH
    Content <- Key,
    verdict <- status,
    content <- [d \in Draft |-> payload[d].key],
    row     <- resolved,
    ledger  <- {[draft |-> r.draft, id |-> r.id, says |-> r.key]
                : r \in {s \in born : s.draft # NoDraft}}

\* A commit overruns what was decided or edited since its request read: it marks
\* a draft that is pending no more, or writes a row from a payload edited meanwhile.
Overruns(q) ==
  \/ \E d \in locked[q] : status[d] # "pending"
  \/ \E r \in made[q] : payload[r.draft] # seen[q][r.draft]

\* Whatever the requests do to each other, every step is one the review promises
\* (DraftReview), or none, but for a commit that overruns: no reject, edit, delete,
\* rollback or other commit ever breaks the promise.
ReviewUnlessOverrun ==
  [][\/ [Review!Next]_(Review!vars)
     \/ \E q \in Request : Overruns(q) /\ Commit(q)]_vars

-----------------------------------------------------------------------------
(* Properties that hold when one request runs at a time, and not otherwise. *)

\* A decision stands: a rejected draft stays rejected, and an approved one keeps
\* naming the row it became (ErrDraftNotPending, resolve.go).
DecidedOnce ==
  [][\A d \in Draft :
       /\ status[d] = "rejected" => status'[d] = "rejected"
       /\ resolved[d] # NoRow => resolved'[d] = resolved[d]]_vars

\* "An employer the account already has is reused rather than duplicated": no
\* import adds a second employer of a name (resolveEmployer).
EmployerReused ==
  [][\A r \in rows' \ rows : r.kind = "employer" /\ r.draft # NoDraft =>
       \A e \in rows : ~ (e.kind = "employer" /\ e.key = r.key)]_vars

\* The promise kept in full, commits included: DraftReview from the first state on.
ReviewSpec == Review!Spec

=============================================================================
