------------------------- MODULE EntityDraftsProofs -------------------------
(***************************************************************************)
(* Proofs about EntityDrafts, for any batch, any number of concurrent      *)
(* requests and any interleaving of them.                                  *)
(*                                                                         *)
(* The safety properties speak of committed tables only and are not        *)
(* inductive: a commit writes what a request has carried since it began.   *)
(* Inv adds what is true of a request under way.                           *)
(***************************************************************************)
EXTENDS EntityDrafts, FiniteSetTheorems, WellFoundedInduction, TLAPS

\* q has handled d in the transaction it has open.
Carries(q, d) == d \in locked[q] \/ (pc[q] = "mark" /\ at[q] = d)

\* A request is on a draft when it says so, has read the payloads it will
\* write, and holds nothing outside a transaction.
Shape ==
  \A q \in Request :
    /\ pc[q] \in {"mark", "reject", "edit"} => at[q] \in Draft
    /\ \A d \in todo[q] : seen[q][d] \in Payload
    /\ pc[q] \notin {"resolve", "mark"} =>
         /\ made[q] = {} /\ locked[q] = {}
         /\ \A d \in Draft : parents[q][d] = NoRow

\* What a request believes resolved is approved, or was handled by itself; and
\* the row it names exists, in the tables or in its own transaction.
ParentsSound ==
  \A q \in Request : \A d \in Draft :
    parents[q][d] # NoRow =>
      /\ status[d] = "approved" \/ Carries(q, d)
      /\ \E r \in born \cup made[q] : r.id = parents[q][d] /\ r.kind = KindOf[d]

\* A request handles a draft only after all it depends on.
CarriesReady ==
  \A q \in Request : \A d \in Draft :
    Carries(q, d) => /\ parents[q][d] # NoRow
                     /\ \A e \in DependsOn[d] : parents[q][e] # NoRow

\* A row in flight belongs to a draft its transaction handles, and its parent
\* cannot go away before the commit.
MadeSound ==
  \A q \in Request : \A r \in made[q] :
    /\ r.draft \in Draft /\ Carries(q, r.draft)
    /\ ParentKind(r.kind) # "none" =>
         \E p \in rows \cup made[q] : p.id = r.parent /\ p.kind = ParentKind(r.kind)

TypeInv == TypeOK /\ Shape

Flight == ParentsSound /\ CarriesReady /\ MadeSound

\* What is true of the committed tables, the properties among it.
Committed ==
  /\ rows \subseteq born
  /\ ApprovedHasRow /\ RowHasApprovedDraft
  /\ ParentsApprovedFirst /\ RowsHaveParents

Inv == TypeInv /\ Flight /\ Committed

-----------------------------------------------------------------------------
(* Constants and the rows a request writes.                                *)

\* Zero stands for no row and for no draft: ids start at one.
LEMMA Ids == NoRow \notin RowId /\ NoDraft \notin Draft
  BY DEF NoRow, RowId, NoDraft, Draft

\* The row written for a draft whose payload has been read is a career row.
LEMMA RowForTyped ==
  ASSUME TypeOK, NEW q \in Request, NEW d \in Draft, NEW id \in RowId,
         seen[q][d] \in Payload
  PROVE  RowFor(q, d, id) \in Row
  <1>1. KindOf[d] \in Kinds
    BY DraftsAssumption
  <1>2. seen[q][d].key \in Key /\ seen[q][d].parent \in Draft \cup {NoDraft}
    BY DEF Payload
  <1>3. ParentRow(q, d) \in RowId \cup {NoRow}
    BY <1>2 DEF ParentRow, TypeOK
  <1> QED
    BY <1>1, <1>2, <1>3 DEF RowFor, Row

-----------------------------------------------------------------------------
(* Types.                                                                  *)

\* A freshly staged batch, before any request, is well typed.
LEMMA InitTypeInv == Init => TypeInv
  BY DraftsAssumption DEF Init, TypeInv, TypeOK, Shape, PCs, NoRow, NoDraft

\* The end of a request keeps the types of what it carried.
LEMMA FinishTyped ==
  ASSUME TypeInv, NEW q \in Request, Finish(q),
         status' \in [Draft -> {"pending", "approved", "rejected"}],
         payload' \in [Draft -> Payload],
         resolved' \in [Draft -> RowId \cup {NoRow}],
         rows' \subseteq Row, born' \subseteq Row
  PROVE  TypeInv'
  <1>1. TypeOK'
    BY DEF TypeInv, TypeOK, Finish, PCs
  <1>2. Shape'
    BY DEF TypeInv, TypeOK, Shape, Finish
  <1> QED
    BY <1>1, <1>2 DEF TypeInv

\* Every statement, commit and rollback keeps the types.
LEMMA StepTypeInv == TypeInv /\ [Next]_vars => TypeInv'
  <1> SUFFICES ASSUME TypeInv, [Next]_vars PROVE TypeInv'
    OBVIOUS
  <1> USE DEF TypeInv
  <1>f. ASSUME NEW q \in Request, Finish(q), UNCHANGED tables PROVE TypeInv'
    BY <1>f, FinishTyped DEF tables, TypeOK
  <1>r. ResolvedMap \in [Draft -> RowId \cup {NoRow}]
    BY DEF ResolvedMap, TypeOK
  <1>1. ASSUME NEW q \in Request, BatchList(q) PROVE TypeInv'
    BY <1>1, <1>r DEF BatchList, TypeOK, Shape, tables, PCs
  <1>2. ASSUME NEW q \in Request, NEW d \in Draft, ApproveRead(q, d) PROVE TypeInv'
    <2>1. TypeOK'
      BY <1>2 DEF ApproveRead, TypeOK, tables, PCs
    <2>2. Shape'
      BY <1>2 DEF ApproveRead, TypeOK, Shape, tables
    <2> QED BY <2>1, <2>2
  <1>3. ASSUME NEW q \in Request, NEW d \in Draft,
               RejectRead(q, d) \/ EditRead(q, d) PROVE TypeInv'
    <2>1. PICK next \in {"reject", "edit"} : ReadPending(q, d, next)
      BY <1>3 DEF RejectRead, EditRead
    <2>2. /\ pc' = [pc EXCEPT ![q] = next]
          /\ at' = [at EXCEPT ![q] = d]
          /\ UNCHANGED <<status, payload, resolved, rows, born,
                         todo, seen, parents, made, locked>>
          /\ pc[q] = "idle"
      BY <2>1 DEF ReadPending, tables
    <2>3. TypeOK'
      BY <2>2 DEF TypeOK, PCs
    <2>4. Shape'
      BY <2>2 DEF TypeOK, Shape
    <2> QED BY <2>3, <2>4
  <1>4. ASSUME NEW q \in Request, ApproveList(q) PROVE TypeInv'
    BY <1>4, <1>r DEF ApproveList, TypeOK, Shape, tables, PCs
  <1>5. ASSUME NEW q \in Request, NEW d \in Draft, Reuse(q, d) PROVE TypeInv'
    <2>1. PICK r \in Existing(q, d) : parents' = [parents EXCEPT ![q][d] = r.id]
      BY <1>5 DEF Reuse
    <2>2. r \in Row
      BY <2>1 DEF Existing, Visible, TypeOK
    <2>3. r.id \in RowId
      BY <2>2 DEF Row
    <2>4. TypeOK'
      BY <1>5, <2>1, <2>3 DEF Reuse, TypeOK, tables, PCs
    <2>5. Shape'
      BY <1>5, <2>1, <2>3 DEF Reuse, TypeOK, Shape, tables
    <2> QED BY <2>4, <2>5
  <1>6. ASSUME NEW q \in Request, NEW d \in Draft, Insert(q, d) PROVE TypeInv'
    <2>1. PICK id \in RowId :
            /\ made'    = [made EXCEPT ![q] = @ \cup {RowFor(q, d, id)}]
            /\ parents' = [parents EXCEPT ![q][d] = id]
      BY <1>6 DEF Insert
    <2>2. RowFor(q, d, id) \in Row
      BY <1>6, RowForTyped DEF Insert, ScansNext, Ready, Shape
    <2>3. TypeOK'
      BY <1>6, <2>1, <2>2 DEF Insert, TypeOK, tables, PCs
    <2>4. Shape'
      BY <1>6, <2>1, <2>2 DEF Insert, TypeOK, Shape, tables
    <2> QED BY <2>3, <2>4
  <1>7. ASSUME NEW q \in Request, Mark(q) PROVE TypeInv'
    <2>1. at[q] \in Draft
      BY <1>7 DEF Mark, Shape
    <2>2. TypeOK'
      BY <1>7, <2>1 DEF Mark, TypeOK, tables, PCs
    <2>3. Shape'
      BY <1>7, <2>1 DEF Mark, TypeOK, Shape, tables
    <2> QED BY <2>2, <2>3
  <1>8. ASSUME NEW q \in Request, Commit(q) PROVE TypeInv'
    <2>1. /\ status' \in [Draft -> {"pending", "approved", "rejected"}]
          /\ resolved' \in [Draft -> RowId \cup {NoRow}]
          /\ rows' \subseteq Row /\ born' \subseteq Row
          /\ payload' \in [Draft -> Payload]
      BY <1>8 DEF Commit, TypeOK
    <2> QED BY <1>8, <2>1, FinishTyped DEF Commit
  <1>9. ASSUME NEW q \in Request, RejectWrite(q) PROVE TypeInv'
    <2>1. status' \in [Draft -> {"pending", "approved", "rejected"}]
      BY <1>9 DEF RejectWrite, TypeOK
    <2> QED BY <1>9, <2>1, FinishTyped DEF RejectWrite, TypeOK
  <1>10. ASSUME NEW q \in Request, EditWrite(q) PROVE TypeInv'
    <2>1. at[q] \in Draft
      BY <1>10 DEF EditWrite, Shape
    <2>2. payload' \in [Draft -> Payload]
      BY <1>10, <2>1, DraftsAssumption DEF EditWrite, TypeOK
    <2> QED BY <1>10, <2>2, FinishTyped DEF EditWrite, TypeOK
  <1>11. ASSUME NEW q \in Request,
                \/ ApproveRefused(q) \/ Abort(q) \/ DeadlockVictim(q)
                \/ \E d \in Draft : ResolveFails(q, d)
         PROVE TypeInv'
    BY <1>11, <1>f DEF ApproveRefused, Abort, DeadlockVictim, ResolveFails
  <1>12. ASSUME NEW h \in HandMade, CreateByHand(h) PROVE TypeInv'
    <2>1. PICK id \in RowId :
            LET row == [id |-> id, kind |-> h.kind, key |-> h.key,
                        parent |-> NoRow, draft |-> NoDraft]
            IN rows' = rows \cup {row} /\ born' = born \cup {row}
      BY <1>12 DEF CreateByHand
    <2>2. h.kind \in Kinds /\ h.key \in Key
      BY BoundsAssumption DEF Kinds
    <2>3. rows' \subseteq Row /\ born' \subseteq Row
      BY <2>1, <2>2 DEF TypeOK, Row
    <2> QED BY <1>12, <2>3 DEF CreateByHand, TypeOK, Shape, local
  <1>13. ASSUME NEW r \in rows, DeleteRow(r) PROVE TypeInv'
    BY <1>13 DEF DeleteRow, TypeOK, Shape, local
  <1>14. CASE UNCHANGED vars
    BY <1>14 DEF vars, TypeOK, Shape
  <1> QED
    BY <1>1, <1>2, <1>3, <1>4, <1>5, <1>6, <1>7, <1>8, <1>9, <1>10, <1>11,
       <1>12, <1>13, <1>14 DEF Next, Begin, Step

\* Every variable keeps its type in every reachable state.
THEOREM TypesHold == Spec => []TypeOK
  <1>1. Spec => []TypeInv
    BY InitTypeInv, StepTypeInv, PTL DEF Spec
  <1>2. TypeInv => TypeOK
    BY DEF TypeInv
  <1> QED
    BY <1>1, <1>2, PTL


-----------------------------------------------------------------------------
(* Safety: what each step does to the tables and to the requests.          *)

\* A freshly staged batch has no row, no approval and no request under way.
LEMMA InitInv == Init => Flight /\ Committed
  BY Ids, DraftsAssumption
  DEF Init, Flight, Committed, ParentsSound, CarriesReady, MadeSound, Carries,
      ApprovedHasRow, RowHasApprovedDraft, ParentsApprovedFirst, RowsHaveParents

\* Steps that leave the tables alone keep what is true of them.
LEMMA TablesKept ==
  Committed /\ UNCHANGED <<status, resolved, rows, born>> => Committed'
  BY DEF Committed, ApprovedHasRow, RowHasApprovedDraft, ParentsApprovedFirst,
         RowsHaveParents

\* A request that ends without a commit leaves the others as they were.
LEMMA FinishFlight ==
  ASSUME TypeInv, Flight, NEW q \in Request, Finish(q),
         UNCHANGED <<resolved, rows, born>>,
         \A d \in Draft : status[d] = "approved" => status'[d] = "approved"
  PROVE  Flight'
  <1> USE DEF TypeInv, TypeOK, Finish, Carries
  <1>1. ParentsSound'
    BY DEF Flight, ParentsSound
  <1>2. CarriesReady'
    BY DEF Flight, CarriesReady
  <1>3. MadeSound'
    BY DEF Flight, MadeSound
  <1> QED
    BY <1>1, <1>2, <1>3 DEF Flight

\* What a listing of the batch shows is sound.
LEMMA ListingSound ==
  ASSUME TypeInv, Committed, NEW d \in Draft, ResolvedMap[d] # NoRow
  PROVE  /\ status[d] = "approved"
         /\ \E r \in born : r.id = ResolvedMap[d] /\ r.kind = KindOf[d]
  BY DEF ResolvedMap, Committed, ApprovedHasRow

\* Steps that only read: the request's transaction is not open yet, and it may
\* take the resolved map from a listing.
LEMMA ReadFlight ==
  ASSUME TypeInv, Flight, Committed, NEW q \in Request,
         UNCHANGED <<status, resolved, rows, born, made, locked>>,
         pc[q] \in {"idle", "list"},
         NEW next \in PCs \ {"mark"}, pc' = [pc EXCEPT ![q] = next],
         \A p \in Request \ {q} : at'[p] = at[p],
         parents' \in {parents, [parents EXCEPT ![q] = ResolvedMap]}
  PROVE  Flight'
  <1> USE DEF TypeInv, TypeOK, Carries
  <1>1. made[q] = {} /\ locked[q] = {}
    BY DEF Shape
  <1>2. ASSUME NEW p \in Request, NEW d \in Draft PROVE Carries(p, d)' <=> Carries(p, d)
    BY <1>1
  <1>3. ASSUME NEW p \in Request \ {q} PROVE parents'[p] = parents[p]
    OBVIOUS
  <1>4. ParentsSound'
    <2> SUFFICES ASSUME NEW p \in Request, NEW d \in Draft, parents'[p][d] # NoRow
                 PROVE  /\ status'[d] = "approved" \/ Carries(p, d)'
                        /\ \E r \in (born \cup made[p])' :
                             r.id = parents'[p][d] /\ r.kind = KindOf[d]
      BY DEF ParentsSound
    <2>1. CASE parents'[p] = parents[p]
      BY <2>1, <1>2 DEF Flight, ParentsSound
    <2>2. CASE p = q /\ parents'[q] = ResolvedMap
      BY <2>2, ListingSound
    <2> QED BY <1>3, <2>1, <2>2
  <1>5. CarriesReady'
    BY <1>1, <1>2, <1>3 DEF Flight, CarriesReady
  <1>6. MadeSound'
    BY <1>2 DEF Flight, MadeSound
  <1> QED
    BY <1>4, <1>5, <1>6 DEF Flight

\* The rows a request has made are looked up among what it sees.
LEMMA VisibleIsBorn ==
  ASSUME Committed, NEW q \in Request
  PROVE  Visible(q) \subseteq born \cup made[q]
  BY DEF Visible, Committed

\* A request that has just found or inserted the row of a draft: what it
\* carries stays sound, and everything before this draft is there.
LEMMA HandleFlight ==
  ASSUME TypeInv, Flight, NEW q \in Request, NEW d \in Draft, NEW id \in RowId,
         pc[q] = "resolve", pc' = [pc EXCEPT ![q] = "mark"],
         at' = [at EXCEPT ![q] = d],
         parents' = [parents EXCEPT ![q][d] = id],
         UNCHANGED <<status, resolved, rows, born, locked>>,
         ScansNext(q, d),
         \A p \in Request : made[p] \subseteq made'[p],
         \E r \in born \cup made'[q] : r.id = id /\ r.kind = KindOf[d]
  PROVE  /\ ParentsSound' /\ CarriesReady'
         /\ \A p \in Request, e \in Draft : Carries(p, e) => Carries(p, e)'
         /\ Carries(q, d)'
  <1> USE DEF TypeInv, TypeOK
  <1>1. \A p \in Request, e \in Draft : Carries(p, e) => Carries(p, e)'
    BY DEF Carries
  <1>2. ASSUME NEW p \in Request, NEW e \in Draft, Carries(p, e)',
               ~ Carries(p, e) PROVE p = q /\ e = d
    BY <1>2 DEF Carries
  <1>3. \A e \in DependsOn[d] : parents[q][e] # NoRow
    BY DEF ScansNext, Ready
  <1>4. Carries(q, d)' /\ parents'[q][d] = id
    BY DEF Carries
  <1>5. ASSUME NEW p \in Request, NEW e \in Draft, p # q \/ e # d
        PROVE  parents'[p][e] = parents[p][e]
    BY <1>5
  <1>6. ParentsSound'
    <2> SUFFICES ASSUME NEW p \in Request, NEW e \in Draft, parents'[p][e] # NoRow
                 PROVE  /\ status'[e] = "approved" \/ Carries(p, e)'
                        /\ \E s \in (born \cup made[p])' :
                             s.id = parents'[p][e] /\ s.kind = KindOf[e]
      BY DEF ParentsSound
    <2>1. CASE p = q /\ e = d
      BY <2>1, <1>4
    <2>2. CASE p # q \/ e # d
      BY <2>2, <1>1, <1>5 DEF Flight, ParentsSound
    <2> QED BY <2>1, <2>2
  <1>7. CarriesReady'
    <2> SUFFICES ASSUME NEW p \in Request, NEW e \in Draft, Carries(p, e)'
                 PROVE  /\ parents'[p][e] # NoRow
                        /\ \A f \in DependsOn[e] : parents'[p][f] # NoRow
      BY DEF CarriesReady
    <2>1. DependsOn[e] \subseteq Draft
      BY DraftsAssumption
    <2>2. \A f \in Draft : parents[p][f] # NoRow => parents'[p][f] # NoRow
      BY <1>4, <1>5, Ids
    <2>3. CASE Carries(p, e)
      BY <2>1, <2>2, <2>3 DEF Flight, CarriesReady
    <2>4. CASE p = q /\ e = d
      BY <2>1, <2>2, <2>4, <1>3, <1>4, Ids
    <2> QED BY <2>3, <2>4, <1>2
  <1> QED
    BY <1>1, <1>4, <1>6, <1>7

\* An employer the request recognises is a row the tables or it itself holds.
LEMMA ReuseFlight ==
  ASSUME TypeInv, Flight, Committed, NEW q \in Request, NEW d \in Draft, Reuse(q, d)
  PROVE  Flight'
  <1>1. PICK r \in Existing(q, d) : parents' = [parents EXCEPT ![q][d] = r.id]
    BY DEF Reuse
  <1>2. r \in born \cup made[q] /\ r.kind = KindOf[d] /\ r.id \in RowId
    BY <1>1, VisibleIsBorn DEF Existing, Visible, Row, TypeInv, TypeOK
  <1>3. /\ pc[q] = "resolve" /\ pc' = [pc EXCEPT ![q] = "mark"]
        /\ at' = [at EXCEPT ![q] = d]
        /\ UNCHANGED <<status, resolved, rows, born, made, locked>>
        /\ ScansNext(q, d)
    BY DEF Reuse, tables
  <1>4. /\ ParentsSound' /\ CarriesReady'
        /\ \A p \in Request, e \in Draft : Carries(p, e) => Carries(p, e)'
    BY <1>1, <1>2, <1>3, HandleFlight
  <1>5. MadeSound'
    BY <1>3, <1>4 DEF Flight, MadeSound
  <1> QED
    BY <1>4, <1>5 DEF Flight

\* The row a request inserts hangs under a row its transaction sees.
LEMMA InsertFlight ==
  ASSUME TypeInv, Flight, Committed, NEW q \in Request, NEW d \in Draft, Insert(q, d)
  PROVE  Flight'
  <1>1. PICK id \in RowId :
          /\ made'    = [made EXCEPT ![q] = @ \cup {RowFor(q, d, id)}]
          /\ parents' = [parents EXCEPT ![q][d] = id]
    BY DEF Insert
  <1> DEFINE new == RowFor(q, d, id)
  <1>2. /\ new.id = id /\ new.kind = KindOf[d] /\ new.draft = d
        /\ ParentKind(new.kind) # "none" => new.parent = ParentRow(q, d)
    BY DEF RowFor
  <1>3. /\ pc[q] = "resolve" /\ pc' = [pc EXCEPT ![q] = "mark"]
        /\ at' = [at EXCEPT ![q] = d]
        /\ UNCHANGED <<status, resolved, rows, born, locked>>
        /\ ScansNext(q, d)
        /\ HasParent(q, d)
    BY DEF Insert, tables, Resolvable
  <1>4. /\ made'[q] = made[q] \cup {new}
        /\ \A p \in Request \ {q} : made'[p] = made[p]
    BY <1>1 DEF TypeInv, TypeOK
  <1> HIDE DEF new
  <1>5. /\ ParentsSound' /\ CarriesReady' /\ Carries(q, d)'
        /\ \A p \in Request, e \in Draft : Carries(p, e) => Carries(p, e)'
    BY <1>1, <1>2, <1>3, <1>4, HandleFlight
  <1>6. MadeSound'
    <2> SUFFICES ASSUME NEW p \in Request, NEW r \in made'[p]
                 PROVE  /\ r.draft \in Draft /\ Carries(p, r.draft)'
                        /\ ParentKind(r.kind) # "none" =>
                             \E s \in (rows \cup made[p])' :
                               s.id = r.parent /\ s.kind = ParentKind(r.kind)
      BY DEF MadeSound
    <2>1. CASE r \in made[p]
      BY <2>1, <1>3, <1>4, <1>5 DEF Flight, MadeSound
    <2>2. CASE p = q /\ r = new
      BY <2>2, <1>2, <1>3, <1>4, <1>5 DEF HasParent, Visible
    <2> QED BY <2>1, <2>2, <1>4
  <1> QED
    BY <1>5, <1>6 DEF Flight

\* Locking the draft just handled moves it from the scan to the lock set.
LEMMA MarkFlight ==
  ASSUME TypeInv, Flight, NEW q \in Request, Mark(q)
  PROVE  Flight'
  <1> USE DEF TypeInv, TypeOK
  <1>1. at[q] \in Draft
    BY DEF Mark, Shape
  <1>2. \A p \in Request, d \in Draft : Carries(p, d)' <=> Carries(p, d)
    BY <1>1 DEF Mark, Carries
  <1> QED
    BY <1>2 DEF Flight, ParentsSound, CarriesReady, MadeSound, Mark, tables

-----------------------------------------------------------------------------
(* The commit, and the steps that change the tables from outside.          *)

\* What a commit writes: the drafts its request holds, with their rows.
LEMMA CommitWrites ==
  ASSUME TypeInv, Flight, NEW q \in Request, Commit(q), NEW d \in Draft
  PROVE  /\ d \in locked[q] => /\ status'[d] = "approved"
                               /\ resolved'[d] = parents[q][d]
         /\ d \notin locked[q] => status'[d] = status[d] /\ resolved'[d] = resolved[d]
         /\ Carries(q, d) <=> d \in locked[q]
  BY DEF Commit, Carries, TypeInv, TypeOK

\* A commit shows rows with their approvals, and parents before children.
LEMMA CommitCommitted ==
  ASSUME Inv, NEW q \in Request, Commit(q)
  PROVE  Committed'
  <1> USE DEF Inv, Committed
  <1>1. rows' = rows \cup made[q] /\ born' = born \cup made[q]
    BY DEF Commit
  <1>2. ApprovedHasRow'
    <2> SUFFICES ASSUME NEW d \in Draft
                 PROVE  /\ status'[d] = "approved" <=> resolved'[d] # NoRow
                        /\ resolved'[d] # NoRow =>
                             \E r \in born' : r.id = resolved'[d] /\ r.kind = KindOf[d]
      BY DEF ApprovedHasRow
    <2>1. CASE d \in locked[q]
      <3>1. parents[q][d] # NoRow
        BY <2>1, CommitWrites DEF Flight, CarriesReady
      <3> QED
        BY <2>1, <3>1, <1>1, CommitWrites DEF Flight, ParentsSound
    <2>2. CASE d \notin locked[q]
      BY <2>2, <1>1, CommitWrites DEF ApprovedHasRow
    <2> QED BY <2>1, <2>2
  <1>3. RowHasApprovedDraft'
    <2> SUFFICES ASSUME NEW r \in born', r.draft # NoDraft
                 PROVE  status'[r.draft] = "approved"
      BY DEF RowHasApprovedDraft
    <2>1. CASE r \in born
      <3>1. r.draft \in Draft
        BY <2>1 DEF TypeInv, TypeOK, Row
      <3> QED BY <2>1, <3>1, CommitWrites DEF RowHasApprovedDraft
    <2>2. CASE r \in made[q]
      BY <2>2, CommitWrites DEF Flight, MadeSound
    <2> QED BY <2>1, <2>2, <1>1
  <1>4. ParentsApprovedFirst'
    <2> SUFFICES ASSUME NEW d \in Draft, status'[d] = "approved", NEW e \in DependsOn[d]
                 PROVE  status'[e] = "approved"
      BY DEF ParentsApprovedFirst
    <2>1. e \in Draft
      BY DraftsAssumption
    <2>2. CASE d \in locked[q]
      <3>1. parents[q][e] # NoRow
        BY <2>2, CommitWrites DEF Flight, CarriesReady
      <3>2. status[e] = "approved" \/ Carries(q, e)
        BY <2>1, <3>1 DEF Flight, ParentsSound
      <3> QED BY <2>1, <3>2, CommitWrites
    <2>3. CASE d \notin locked[q]
      BY <2>1, <2>3, CommitWrites DEF ParentsApprovedFirst
    <2> QED BY <2>2, <2>3
  <1>5. RowsHaveParents'
    <2> SUFFICES ASSUME NEW r \in rows', ParentKind(r.kind) # "none"
                 PROVE  \E p \in rows' : p.id = r.parent /\ p.kind = ParentKind(r.kind)
      BY DEF RowsHaveParents
    <2>1. CASE r \in rows
      BY <2>1, <1>1 DEF RowsHaveParents
    <2>2. CASE r \in made[q]
      BY <2>2, <1>1 DEF Flight, MadeSound
    <2> QED BY <2>1, <2>2, <1>1
  <1>6. (rows \subseteq born)'
    BY <1>1
  <1> QED
    BY <1>2, <1>3, <1>4, <1>5, <1>6

\* A commit only adds rows and approvals, so the others stay sound.
LEMMA CommitFlight ==
  ASSUME Inv, NEW q \in Request, Commit(q)
  PROVE  Flight'
  <1> USE DEF Inv, TypeInv, TypeOK
  <1>1. /\ rows \subseteq rows' /\ born \subseteq born'
        /\ \A d \in Draft : status[d] = "approved" => status'[d] = "approved"
    BY CommitWrites DEF Commit
  <1>2. /\ made'[q] = {} /\ \A d \in Draft : ~ Carries(q, d)' /\ parents'[q][d] = NoRow
        /\ \A p \in Request \ {q} :
             /\ made'[p] = made[p] /\ parents'[p] = parents[p]
             /\ \A d \in Draft : Carries(p, d)' <=> Carries(p, d)
    BY DEF Commit, Finish, Carries
  <1>3. ParentsSound'
    <2> SUFFICES ASSUME NEW p \in Request, NEW d \in Draft, parents'[p][d] # NoRow
                 PROVE  /\ status'[d] = "approved" \/ Carries(p, d)'
                        /\ \E r \in (born \cup made[p])' :
                             r.id = parents'[p][d] /\ r.kind = KindOf[d]
      BY DEF ParentsSound
    <2>1. p # q /\ parents'[p] = parents[p] /\ made'[p] = made[p]
      BY <1>2
    <2>2. /\ status[d] = "approved" \/ Carries(p, d)
          /\ \E r \in born \cup made[p] : r.id = parents[p][d] /\ r.kind = KindOf[d]
      BY <2>1 DEF Flight, ParentsSound
    <2> QED
      BY <2>1, <2>2, <1>1, <1>2
  <1>4. CarriesReady'
    BY <1>2 DEF Flight, CarriesReady
  <1>5. MadeSound'
    <2> SUFFICES ASSUME NEW p \in Request, NEW r \in made'[p]
                 PROVE  /\ r.draft \in Draft /\ Carries(p, r.draft)'
                        /\ ParentKind(r.kind) # "none" =>
                             \E s \in (rows \cup made[p])' :
                               s.id = r.parent /\ s.kind = ParentKind(r.kind)
      BY DEF MadeSound
    <2>1. p # q /\ r \in made[p] /\ made'[p] = made[p]
      BY <1>2
    <2>2. r.draft \in Draft /\ Carries(p, r.draft)'
      BY <2>1, <1>2 DEF Flight, MadeSound
    <2>3. ParentKind(r.kind) # "none" =>
            \E s \in rows \cup made[p] :
              s.id = r.parent /\ s.kind = ParentKind(r.kind)
      BY <2>1 DEF Flight, MadeSound
    <2> QED
      BY <2>1, <2>2, <2>3, <1>1
  <1> QED
    BY <1>3, <1>4, <1>5 DEF Flight

\* The guarded UPDATE of a reject changes a pending draft only, and no row.
LEMMA RejectInv ==
  ASSUME Inv, NEW q \in Request, RejectWrite(q)
  PROVE  Flight' /\ Committed'
  <1> USE DEF Inv, TypeInv, TypeOK
  <1>1. \A d \in Draft : status[d] = "approved" <=> status'[d] = "approved"
    BY DEF RejectWrite
  <1>2. Flight'
    BY <1>1, FinishFlight DEF RejectWrite
  <1>3. UNCHANGED <<resolved, rows, born>>
    BY DEF RejectWrite
  <1>4. \A r \in born : r.draft \in Draft \cup {NoDraft}
    BY DEF Row
  <1>5. ApprovedHasRow' /\ RowsHaveParents' /\ (rows \subseteq born)'
    BY <1>1, <1>3 DEF Committed, ApprovedHasRow, RowsHaveParents
  <1>6. RowHasApprovedDraft'
    BY <1>1, <1>3, <1>4 DEF Committed, RowHasApprovedDraft
  <1>7. ParentsApprovedFirst'
    BY <1>1, DraftsAssumption DEF Committed, ParentsApprovedFirst
  <1> QED
    BY <1>2, <1>5, <1>6, <1>7 DEF Committed

\* A row added on a CRUD screen hangs under nothing and stands for no draft.
LEMMA ByHandInv ==
  ASSUME Inv, NEW h \in HandMade, CreateByHand(h)
  PROVE  Flight' /\ Committed'
  <1> USE DEF Inv, TypeInv, TypeOK
  <1>1. PICK id \in RowId :
          LET row == [id |-> id, kind |-> h.kind, key |-> h.key,
                      parent |-> NoRow, draft |-> NoDraft]
          IN rows' = rows \cup {row} /\ born' = born \cup {row}
    BY DEF CreateByHand
  <1> DEFINE new == [id |-> id, kind |-> h.kind, key |-> h.key,
                     parent |-> NoRow, draft |-> NoDraft]
  <1>2. rows' = rows \cup {new} /\ born' = born \cup {new}
    BY <1>1
  <1>3. new.draft = NoDraft /\ ParentKind(new.kind) = "none"
    BY BoundsAssumption DEF ParentKind
  <1> HIDE DEF new
  <1>4. UNCHANGED <<status, payload, resolved, pc, at, todo, seen, parents, made, locked>>
    BY DEF CreateByHand, local
  <1>5. Flight'
    BY <1>2, <1>4 DEF Flight, ParentsSound, CarriesReady, MadeSound, Carries
  <1>6. ApprovedHasRow' /\ ParentsApprovedFirst' /\ (rows \subseteq born)'
    BY <1>2, <1>4 DEF Committed, ApprovedHasRow, ParentsApprovedFirst
  <1>7. RowHasApprovedDraft'
    BY <1>2, <1>3, <1>4 DEF Committed, RowHasApprovedDraft
  <1>8. RowsHaveParents'
    BY <1>2, <1>3 DEF Committed, RowsHaveParents
  <1> QED
    BY <1>5, <1>6, <1>7, <1>8 DEF Committed

\* A row that goes away had nothing under it, open transactions included.
LEMMA DeleteInv ==
  ASSUME Inv, NEW r \in rows, DeleteRow(r)
  PROVE  Flight' /\ Committed'
  <1> USE DEF Inv, TypeInv, TypeOK
  <1>1. /\ rows' = rows \ {r}
        /\ UNCHANGED <<status, payload, resolved, born,
                       pc, at, todo, seen, parents, made, locked>>
        /\ \A c \in rows : c.parent # r.id
        /\ \A q \in Request : \A c \in made[q] : c.parent # r.id
    BY DEF DeleteRow, local
  <1>2. ParentsSound' /\ CarriesReady'
    BY <1>1 DEF Flight, ParentsSound, CarriesReady, Carries
  <1>3. MadeSound'
    BY <1>1 DEF Flight, MadeSound, Carries
  <1>4. ApprovedHasRow' /\ RowHasApprovedDraft' /\ ParentsApprovedFirst'
    BY <1>1 DEF Committed, ApprovedHasRow, RowHasApprovedDraft, ParentsApprovedFirst
  <1>5. RowsHaveParents' /\ (rows \subseteq born)'
    BY <1>1 DEF Committed, RowsHaveParents
  <1> QED
    BY <1>2, <1>3, <1>4, <1>5 DEF Flight, Committed

-----------------------------------------------------------------------------
(* The invariant, and what follows from it.                                *)

\* Every step of every request keeps the invariant.
LEMMA StepInv == Inv /\ [Next]_vars => Inv'
  <1> SUFFICES ASSUME Inv, [Next]_vars PROVE Flight' /\ Committed'
    BY StepTypeInv DEF Inv
  <1> USE DEF Inv
  <1>1. ASSUME NEW q \in Request, Finish(q), UNCHANGED tables
        PROVE  Flight' /\ Committed'
    BY <1>1, FinishFlight, TablesKept DEF tables
  <1>2. ASSUME NEW q \in Request, NEW d \in Draft, ApproveRead(q, d)
        PROVE  Flight' /\ Committed'
    <2>1. PICK next \in PCs \ {"mark"} :
            /\ pc' = [pc EXCEPT ![q] = next] /\ pc[q] \in {"idle", "list"}
            /\ UNCHANGED <<status, resolved, rows, born, at, made, locked>>
            /\ parents' \in {parents, [parents EXCEPT ![q] = ResolvedMap]}
      BY <1>2 DEF ApproveRead, tables, PCs
    <2> QED BY <2>1, ReadFlight, TablesKept
  <1>3. ASSUME NEW q \in Request, BatchList(q) \/ ApproveList(q)
         PROVE  Flight' /\ Committed'
    <2>1. PICK next \in PCs \ {"mark"} :
            /\ pc' = [pc EXCEPT ![q] = next] /\ pc[q] \in {"idle", "list"}
            /\ UNCHANGED <<status, resolved, rows, born, at, made, locked>>
            /\ parents' \in {parents, [parents EXCEPT ![q] = ResolvedMap]}
      BY <1>3 DEF BatchList, ApproveList, tables, PCs
    <2> QED BY <2>1, ReadFlight, TablesKept
  <1>4. ASSUME NEW q \in Request, NEW d \in Draft, RejectRead(q, d) \/ EditRead(q, d)
        PROVE  Flight' /\ Committed'
    <2>1. PICK next \in PCs \ {"mark"} :
            /\ pc' = [pc EXCEPT ![q] = next] /\ pc[q] = "idle"
            /\ at' = [at EXCEPT ![q] = d]
            /\ UNCHANGED <<status, resolved, rows, born, parents, made, locked>>
      BY <1>4 DEF RejectRead, EditRead, ReadPending, tables, PCs
    <2>2. \A p \in Request \ {q} : at'[p] = at[p]
      BY <2>1 DEF TypeInv, TypeOK
    <2> QED BY <2>1, <2>2, ReadFlight, TablesKept
  <1>5. ASSUME NEW q \in Request, NEW d \in Draft, Reuse(q, d) \/ Insert(q, d)
        PROVE  Flight' /\ Committed'
    BY <1>5, ReuseFlight, InsertFlight, TablesKept DEF Reuse, Insert, tables
  <1>6. ASSUME NEW q \in Request, Mark(q) PROVE Flight' /\ Committed'
    BY <1>6, MarkFlight, TablesKept DEF Mark, tables
  <1>7. ASSUME NEW q \in Request, Commit(q) PROVE Flight' /\ Committed'
    BY <1>7, CommitFlight, CommitCommitted
  <1>8. ASSUME NEW q \in Request, RejectWrite(q) PROVE Flight' /\ Committed'
    BY <1>8, RejectInv
  <1>9. ASSUME NEW q \in Request, EditWrite(q) PROVE Flight' /\ Committed'
    <2>1. Finish(q) /\ UNCHANGED <<status, resolved, rows, born>>
      BY <1>9 DEF EditWrite
    <2> QED BY <2>1, FinishFlight, TablesKept
  <1>10. ASSUME NEW q \in Request,
               \/ ApproveRefused(q) \/ Abort(q) \/ DeadlockVictim(q)
               \/ \E d \in Draft : ResolveFails(q, d)
        PROVE  Flight' /\ Committed'
    BY <1>10, <1>1 DEF ApproveRefused, Abort, DeadlockVictim, ResolveFails
  <1>11. CASE UNCHANGED vars
    BY <1>11 DEF vars, Flight, ParentsSound, CarriesReady, MadeSound, Carries,
       Committed, ApprovedHasRow, RowHasApprovedDraft, ParentsApprovedFirst,
       RowsHaveParents
  <1> QED
    BY <1>2, <1>4, <1>5, <1>6, <1>7, <1>8, <1>9, <1>10, <1>11, <1>3,
       ByHandInv, DeleteInv DEF Next, Begin, Step

\* The invariant holds however requests, deletes and rollbacks interleave.
THEOREM InvHolds == Spec => []Inv
  <1>1. Init => Inv
    BY InitTypeInv, InitInv DEF Inv
  <1> QED
    BY <1>1, StepInv, PTL DEF Spec

\* A draft that reads approved names a row that was written, of its kind, and a
\* draft that names a row reads approved: MarkEntityDraftResolved sets both.
THEOREM ApprovedHasRowHolds == Spec => []ApprovedHasRow
  <1>1. Inv => ApprovedHasRow
    BY DEF Inv, Committed
  <1> QED
    BY <1>1, InvHolds, PTL

\* A career row written for a draft is never there without the approval: both
\* are in one transaction, and no guarded UPDATE takes an approval back.
THEOREM RowHasApprovedDraftHolds == Spec => []RowHasApprovedDraft
  <1>1. Inv => RowHasApprovedDraft
    BY DEF Inv, Committed
  <1> QED
    BY <1>1, InvHolds, PTL

\* Nothing is approved before what it depends on, by ApproveDraft's check of
\* the listing or by ResolveBatch's scan.
THEOREM ParentsApprovedFirstHolds == Spec => []ParentsApprovedFirst
  <1>1. Inv => ParentsApprovedFirst
    BY DEF Inv, Committed
  <1> QED
    BY <1>1, InvHolds, PTL

\* No row is left hanging under a row that was deleted meanwhile.
THEOREM RowsHaveParentsHolds == Spec => []RowsHaveParents
  <1>1. Inv => RowsHaveParents
    BY DEF Inv, Committed
  <1> QED
    BY <1>1, InvHolds, PTL

\* An approved draft stays approved with the payload it had: reject and edit
\* re-check the status in the UPDATE itself.
THEOREM ApprovalIsFinalHolds == Spec => ApprovalIsFinal
  <1> DEFINE Kept == \A d \in Draft :
                       status[d] = "approved" => /\ status'[d] = "approved"
                                                 /\ payload'[d] = payload[d]
  <1>1. TypeInv /\ [Next]_vars => [Kept]_vars
    <2> SUFFICES ASSUME TypeInv, Next PROVE Kept
      BY DEF vars
    <2> USE DEF TypeInv, TypeOK
    <2>1. ASSUME NEW q \in Request, Commit(q) PROVE Kept
      BY <2>1 DEF Commit
    <2>2. ASSUME NEW q \in Request, RejectWrite(q) PROVE Kept
      BY <2>2 DEF RejectWrite
    <2>3. ASSUME NEW q \in Request, EditWrite(q) PROVE Kept
      <3>1. PICK p \in Edits[at[q]] :
              payload' = IF p.form # "refused_by_validate" /\ status[at[q]] = "pending"
                         THEN [payload EXCEPT ![at[q]] = p] ELSE payload
        BY <2>3 DEF EditWrite
      <3>2. status' = status
        BY <2>3 DEF EditWrite
      <3> QED
        BY <3>1, <3>2
    <2>4. ASSUME UNCHANGED <<status, payload>> PROVE Kept
      BY <2>4
    <2>5. ASSUME NEW q \in Request,
                 \/ BatchList(q) \/ ApproveList(q) \/ ApproveRefused(q)
                 \/ Mark(q) \/ Abort(q) \/ DeadlockVictim(q)
          PROVE  Kept
      BY <2>5, <2>4 DEF BatchList, ApproveList, ApproveRefused, Mark, Abort,
                        DeadlockVictim, tables
    <2>6. ASSUME NEW q \in Request, NEW d \in Draft,
                 \/ ApproveRead(q, d) \/ RejectRead(q, d) \/ EditRead(q, d)
                 \/ Reuse(q, d) \/ Insert(q, d) \/ ResolveFails(q, d)
          PROVE  Kept
      BY <2>6, <2>4 DEF ApproveRead, RejectRead, EditRead, ReadPending, Reuse,
                        Insert, ResolveFails, tables
    <2>7. ASSUME NEW h \in HandMade, CreateByHand(h) PROVE Kept
      BY <2>7, <2>4 DEF CreateByHand
    <2>8. ASSUME NEW r \in rows, DeleteRow(r) PROVE Kept
      BY <2>8, <2>4 DEF DeleteRow
    <2> QED
      BY <2>1, <2>2, <2>3, <2>5, <2>6, <2>7, <2>8 DEF Next, Begin, Step
  <1> QED
    BY <1>1, InitTypeInv, StepTypeInv, PTL DEF Spec, ApprovalIsFinal

-----------------------------------------------------------------------------
(* The refinement: EntityDrafts implements DraftReview but for commits that *)
(* overrun a decision or an edit, and of those there are none when requests *)
(* do not overlap.                                                          *)

OneAtATime == \A p, q \in Request : p = q

\* A request keeps what it has marked apart from what it has still to do, and a
\* row it made says what it read, and is the one its draft will be marked with.
Tidy ==
  \A q \in Request :
    /\ todo[q] \cap locked[q] = {}
    /\ pc[q] = "mark" => at[q] \in todo[q]
    /\ \A r \in made[q] : r.id = parents[q][r.draft] /\ r.key = seen[q][r.draft].key

LEMMA FinishTidy ==
  ASSUME TypeInv, Tidy, NEW q \in Request, Finish(q)
  PROVE  Tidy'
  <1>1. /\ pc'[q] = "idle" /\ todo'[q] = {} /\ made'[q] = {} /\ locked'[q] = {}
    BY DEF Finish, TypeInv, TypeOK
  <1>2. \A p \in Request \ {q} :
          /\ pc'[p] = pc[p] /\ at'[p] = at[p] /\ todo'[p] = todo[p] /\ seen'[p] = seen[p]
          /\ parents'[p] = parents[p] /\ made'[p] = made[p] /\ locked'[p] = locked[p]
    BY DEF Finish, TypeInv, TypeOK
  <1> QED
    BY <1>1, <1>2 DEF Tidy

LEMMA InsertTidy ==
  ASSUME Inv, Tidy, NEW q \in Request, NEW d \in Draft, Reuse(q, d) \/ Insert(q, d)
  PROVE  Tidy'
  <1> USE DEF Inv, TypeInv, TypeOK
  <1>1. /\ pc[q] = "resolve" /\ pc' = [pc EXCEPT ![q] = "mark"] /\ at' = [at EXCEPT ![q] = d]
        /\ UNCHANGED <<todo, seen, locked>>
    BY DEF Reuse, Insert
  <1>2. d \in todo[q] /\ d \notin locked[q]
    BY DEF Reuse, Insert, ScansNext, Ready, Tidy
  <1>3. \A r \in made[q] : r.draft \in Draft /\ r.draft # d
    BY <1>1, <1>2 DEF Flight, MadeSound, Carries
  <1>4. /\ \A e \in Draft \ {d} : parents'[q][e] = parents[q][e]
        /\ \A p \in Request \ {q} : parents'[p] = parents[p] /\ made'[p] = made[p]
    BY DEF Reuse, Insert
  <1>5. \A r \in made'[q] : r.id = parents'[q][r.draft] /\ r.key = seen'[q][r.draft].key
    <2>1. \A r \in made[q] : r.id = parents'[q][r.draft] /\ r.key = seen'[q][r.draft].key
      BY <1>1, <1>3, <1>4 DEF Tidy
    <2>2. CASE Reuse(q, d)
      BY <2>1, <2>2 DEF Reuse
    <2>3. CASE Insert(q, d)
      <3>1. PICK id \in RowId : /\ made'    = [made EXCEPT ![q] = @ \cup {RowFor(q, d, id)}]
                                /\ parents' = [parents EXCEPT ![q][d] = id]
        BY <2>3 DEF Insert
      <3>2. /\ RowFor(q, d, id).id = id /\ RowFor(q, d, id).key = seen[q][d].key
            /\ RowFor(q, d, id).draft = d
        BY DEF RowFor
      <3> QED
        BY <1>1, <2>1, <3>1, <3>2
    <2> QED
      BY <2>2, <2>3
  <1> QED
    BY <1>1, <1>2, <1>4, <1>5 DEF Tidy

LEMMA StepTidy == Inv /\ Tidy /\ [Next]_vars => Tidy'
  <1> SUFFICES ASSUME Inv, Tidy, [Next]_vars PROVE Tidy'
    OBVIOUS
  <1> USE DEF Inv, TypeInv, TypeOK
  <1>1. ASSUME NEW q \in Request, pc[q] = "idle", pc'[q] # "mark",
               pc' = [pc EXCEPT ![q] = pc'[q]], UNCHANGED <<made, locked>>,
               \A p \in Request \ {q} : /\ todo'[p] = todo[p] /\ seen'[p] = seen[p]
                                         /\ parents'[p] = parents[p] /\ at'[p] = at[p]
        PROVE  Tidy'
    <2>1. made[q] = {} /\ locked[q] = {}
      BY <1>1 DEF Shape
    <2> QED
      BY <1>1, <2>1 DEF Tidy
  <1>2. ASSUME NEW q \in Request, BatchList(q) PROVE Tidy'
    BY <1>1, <1>2 DEF BatchList
  <1>3. ASSUME NEW q \in Request, NEW d \in Draft, ApproveRead(q, d) PROVE Tidy'
    BY <1>1, <1>3 DEF ApproveRead
  <1>4. ASSUME NEW q \in Request, NEW d \in Draft, RejectRead(q, d) \/ EditRead(q, d)
        PROVE  Tidy'
    BY <1>1, <1>4 DEF RejectRead, EditRead, ReadPending
  <1>5. ASSUME NEW q \in Request, ApproveList(q) PROVE Tidy'
    <2>1. /\ pc[q] = "list" /\ pc' = [pc EXCEPT ![q] = "resolve"] /\ made[q] = {}
          /\ UNCHANGED <<at, todo, seen, made, locked>>
          /\ \A p \in Request \ {q} : parents'[p] = parents[p]
      BY <1>5 DEF ApproveList, Shape
    <2> QED
      BY <2>1 DEF Tidy
  <1>6. ASSUME NEW q \in Request, Mark(q) PROVE Tidy'
    <2>1. /\ pc' = [pc EXCEPT ![q] = "resolve"] /\ locked' = [locked EXCEPT ![q] = @ \cup {at[q]}]
          /\ todo' = [todo EXCEPT ![q] = @ \ {at[q]}]
          /\ UNCHANGED <<at, seen, parents, made>>
      BY <1>6 DEF Mark
    <2> QED
      BY <2>1 DEF Tidy
  <1>7. ASSUME NEW q \in Request, Finish(q) PROVE Tidy'
    BY <1>7, FinishTidy
  <1>8. ASSUME UNCHANGED local PROVE Tidy'
    BY <1>8 DEF local, Tidy
  <1> QED
    BY <1>2, <1>3, <1>4, <1>5, <1>6, <1>7, <1>8, InsertTidy
    DEF Next, Begin, Step, ApproveRefused, ResolveFails, Commit, RejectWrite, EditWrite, Abort,
      DeadlockVictim, CreateByHand, DeleteRow, vars, local

\* Steps that decide nothing are not seen in the review.
LEMMA UnseenInReview ==
  ASSUME UNCHANGED <<status, payload, resolved>>,
         {r \in born' : r.draft # NoDraft} = {r \in born : r.draft # NoDraft}
  PROVE  UNCHANGED Review!vars
  BY DEF Review!vars

\* A commit approves what it has marked, with the rows it made.
LEMMA CommitApproves ==
  ASSUME Inv, Tidy, NEW q \in Request, Commit(q), ~ Overruns(q)
  PROVE  Review!Next
  <1> USE DEF Inv, TypeInv, TypeOK
  <1> DEFINE New == {r.draft : r \in made[q]}
             Says(r) == [draft |-> r.draft, id |-> r.id, says |-> r.key]
             Entry(d) == [draft |-> d, id |-> resolved'[d], says |-> payload[d].key]
  <1>1. /\ pc[q] = "resolve" /\ UNCHANGED payload /\ born' = born \cup made[q]
        /\ status'   = [d \in Draft |-> IF d \in locked[q] THEN "approved" ELSE status[d]]
        /\ resolved' = [d \in Draft |-> IF d \in locked[q] THEN parents[q][d] ELSE resolved[d]]
    BY DEF Commit
  <1>2. \A d \in Draft : Carries(q, d) <=> d \in locked[q]
    BY <1>1 DEF Carries
  <1>3. locked[q] \in SUBSET Draft /\ New \in SUBSET locked[q]
    BY <1>2 DEF Flight, MadeSound
  <1>4. locked[q] \subseteq {d \in Draft : status[d] = "pending"}
    BY <1>3 DEF Overruns
  <1>5. ASSUME NEW d \in locked[q], NEW e \in DependsOn[d]
        PROVE  e \in {f \in Draft : status[f] = "approved"} \cup locked[q]
    <2>1. e \in Draft
      BY <1>3, DraftsAssumption
    <2> QED
      BY <1>2, <1>3, <2>1 DEF Flight, CarriesReady, ParentsSound
  <1>6. ASSUME NEW d \in locked[q] PROVE resolved'[d] \in RowId
    BY <1>1, <1>2, <1>3 DEF Flight, CarriesReady
  <1>7. \A r \in made[q] : r.draft \in locked[q] /\ r.draft # NoDraft /\ Says(r) = Entry(r.draft)
    <2>1. ASSUME NEW r \in made[q]
          PROVE  /\ r.draft \in locked[q] /\ r.draft # NoDraft
                 /\ r.id = resolved'[r.draft] /\ r.key = payload[r.draft].key
      BY <1>1, <1>3, Ids DEF Tidy, Overruns
    <2> QED
      BY <2>1
  <1>8. {Says(r) : r \in {s \in born' : s.draft # NoDraft}}
          = {Says(r) : r \in {s \in born : s.draft # NoDraft}} \cup {Entry(d) : d \in New}
    <2>1. {s \in born' : s.draft # NoDraft} = {s \in born : s.draft # NoDraft} \cup made[q]
      BY <1>1, <1>7
    <2>2. \A r \in made[q] : Says(r) = Entry(r.draft)
      BY <1>7
    <2>3. New = {r.draft : r \in made[q]}
      OBVIOUS
    <2> HIDE DEF Says, Entry, New
    <2>4. {Says(r) : r \in made[q]} = {Entry(d) : d \in New}
      BY <2>2, <2>3
    <2> QED
      BY <2>1, <2>4
  <1>9. PICK S \in SUBSET Draft : S = locked[q]
    BY <1>3
  <1>10. PICK N \in SUBSET S : N = New
    BY <1>3, <1>9
  <1>11. /\ S \subseteq Review!Pending /\ N \subseteq S
         /\ \A d \in S : DependsOn[d] \subseteq Review!Approved \cup S
    BY <1>3, <1>4, <1>5, <1>9, <1>10 DEF Review!Pending, Review!Approved
  <1>12. Review!Approve(S, N)
    BY <1>1, <1>6, <1>8, <1>9, <1>10, <1>11 DEF Review!Approve
  <1> QED
    BY <1>12 DEF Review!Next

\* What a step does is promised, or it is a commit that overruns.
LEMMA ReviewStep ==
  ASSUME Inv, Tidy, [Next]_vars
  PROVE  \/ [Review!Next]_(Review!vars)
         \/ \E q \in Request : Overruns(q) /\ Commit(q)
  <1> USE DEF Inv, TypeInv, TypeOK
  <1>1. ASSUME NEW q \in Request, RejectWrite(q) PROVE [Review!Next]_(Review!vars)
    <2>1. at[q] \in Draft /\ UNCHANGED <<payload, resolved, born>>
      BY <1>1 DEF RejectWrite, Shape
    <2>2. CASE status[at[q]] = "pending"
      <3>1. status' = [status EXCEPT ![at[q]] = "rejected"]
        BY <1>1, <2>1, <2>2 DEF RejectWrite
      <3>2. Review!Reject(at[q])
        BY <2>1, <2>2, <3>1 DEF Review!Reject, Review!Pending
      <3> QED
        BY <2>1, <3>2 DEF Review!Next
    <2>3. CASE status[at[q]] # "pending"
      <3>1. status' = status
        BY <1>1, <2>1, <2>3 DEF RejectWrite
      <3> QED
        BY <2>1, <3>1, UnseenInReview
    <2> QED
      BY <2>2, <2>3
  <1>2. ASSUME NEW q \in Request, EditWrite(q) PROVE [Review!Next]_(Review!vars)
    <2>1. at[q] \in Draft
      BY <1>2 DEF EditWrite, Shape
    <2>2. UNCHANGED <<status, resolved, born>>
      BY <1>2 DEF EditWrite
    <2>3. PICK p \in Edits[at[q]] :
            \/ payload' = payload
            \/ status[at[q]] = "pending" /\ payload' = [payload EXCEPT ![at[q]] = p]
      BY <1>2 DEF EditWrite
    <2>4. CASE payload' = payload
      BY <2>2, <2>4, UnseenInReview
    <2>5. CASE status[at[q]] = "pending" /\ payload' = [payload EXCEPT ![at[q]] = p]
      <3>1. p.key \in Key
        BY <2>1, <2>3, DraftsAssumption DEF Payload
      <3>2. [d \in Draft |-> payload'[d].key]
              = [[d \in Draft |-> payload[d].key] EXCEPT ![at[q]] = p.key]
        BY <2>1, <2>5
      <3>3. PICK d \in Draft : d = at[q]
        BY <2>1
      <3>4. Review!Edit(d)
        BY <2>5, <2>2, <3>1, <3>2, <3>3 DEF Review!Edit, Review!Pending
      <3> QED
        BY <3>4 DEF Review!Next
    <2> QED
      BY <2>3, <2>4, <2>5
  <1>3. ASSUME UNCHANGED tables PROVE [Review!Next]_(Review!vars)
    BY <1>3, UnseenInReview DEF tables
  <1>4. ASSUME NEW q \in Request, Begin(q) \/ Abort(q) \/ DeadlockVictim(q)
        PROVE  UNCHANGED tables
    BY <1>4 DEF Begin, BatchList, ApproveRead, RejectRead, EditRead, ReadPending, Abort,
      DeadlockVictim
  <1>5. ASSUME NEW q \in Request, Step(q), ~ Commit(q), ~ RejectWrite(q), ~ EditWrite(q)
        PROVE  UNCHANGED tables
    BY <1>5 DEF Step, ApproveList, ApproveRefused, Reuse, Insert, ResolveFails, Mark
  <1>6. ASSUME NEW h \in HandMade, CreateByHand(h) PROVE [Review!Next]_(Review!vars)
    <2>1. PICK id \in RowId : born' = born \cup {[id |-> id, kind |-> h.kind, key |-> h.key,
                                                 parent |-> NoRow, draft |-> NoDraft]}
      BY <1>6 DEF CreateByHand
    <2> DEFINE new == [id |-> id, kind |-> h.kind, key |-> h.key,
                       parent |-> NoRow, draft |-> NoDraft]
    <2>2. born' = born \cup {new} /\ new.draft = NoDraft
      BY <2>1
    <2> HIDE DEF new
    <2>3. {r \in born' : r.draft # NoDraft} = {r \in born : r.draft # NoDraft}
      BY <2>2
    <2> QED
      BY <1>6, <2>3, UnseenInReview DEF CreateByHand
  <1>7. ASSUME NEW r \in rows, DeleteRow(r) PROVE [Review!Next]_(Review!vars)
    BY <1>7, UnseenInReview DEF DeleteRow
  <1> QED
    BY <1>1, <1>2, <1>3, <1>4, <1>5, <1>6, <1>7, CommitApproves DEF Next, vars, tables

\* For every batch, any number of requests and any interleaving of them, each step
\* is one the review promises or a commit that overruns a decision or an edit made
\* since its request read (ApproveDraft, ResolveBatch and their UPDATEs' guards).
THEOREM ReviewUnlessOverrunHolds == Spec => ReviewUnlessOverrun
  <1>1. Init => Tidy
    BY DEF Init, Tidy
  <1>2. Inv /\ Tidy /\ [Next]_vars =>
          [\/ [Review!Next]_(Review!vars)
           \/ \E q \in Request : Overruns(q) /\ Commit(q)]_vars
    BY ReviewStep
  <1> QED
    BY <1>1, <1>2, StepTidy, InvHolds, PTL DEF Spec, ReviewUnlessOverrun

\* What a lone request is about to decide is pending, as it read it.
Uncontested ==
  \A q \in Request : \A d \in Draft :
    d \in todo[q] \/ Carries(q, d) => status[d] = "pending" /\ seen[q][d] = payload[d]

\* A lone request is followed by itself only: what it read stays as it is.
LEMMA StepUncontested ==
  ASSUME OneAtATime, Inv, Tidy, Uncontested, [Next]_vars
  PROVE  Uncontested'
  <1> USE DEF Inv, TypeInv, TypeOK
  <1>1. ASSUME NEW q \in Request PROVE \A p \in Request : p = q
    BY DEF OneAtATime
  <1>2. ASSUME NEW q \in Request, BatchList(q) PROVE Uncontested'
    <2>1. /\ pc'[q] = "resolve" /\ seen'[q] = payload /\ UNCHANGED <<status, payload, locked>>
          /\ todo'[q] = {d \in Draft : status[d] = "pending"} /\ locked[q] = {}
      BY <1>2 DEF BatchList, tables, Shape
    <2> QED
      BY <1>1, <2>1 DEF Uncontested, Carries
  <1>3. ASSUME NEW q \in Request, NEW d \in Draft, ApproveRead(q, d) PROVE Uncontested'
    <2>1. /\ pc'[q] = "list" /\ UNCHANGED <<status, payload, locked>>
          /\ seen'[q][d] = payload[d] /\ todo'[q] = {d} /\ locked[q] = {}
          /\ status[d] = "pending"
      BY <1>3 DEF ApproveRead, tables, Shape
    <2> QED
      BY <1>1, <2>1 DEF Uncontested, Carries
  <1>4. ASSUME NEW q \in Request, NEW d \in Draft, RejectRead(q, d) \/ EditRead(q, d)
        PROVE  Uncontested'
    <2>1. /\ pc'[q] \in {"reject", "edit"} /\ UNCHANGED <<status, payload, todo, seen, locked>>
          /\ locked[q] = {}
      BY <1>4 DEF RejectRead, EditRead, ReadPending, tables, Shape
    <2> QED
      BY <1>1, <2>1 DEF Uncontested, Carries
  <1>5. ASSUME NEW q \in Request, ApproveList(q) PROVE Uncontested'
    <2>1. /\ pc'[q] = "resolve" /\ UNCHANGED <<status, payload, todo, seen, locked>>
      BY <1>5 DEF ApproveList, tables
    <2> QED
      BY <1>1, <2>1 DEF Uncontested, Carries
  <1>6. ASSUME NEW q \in Request, NEW d \in Draft, Reuse(q, d) \/ Insert(q, d)
        PROVE  Uncontested'
    <2>1. /\ pc'[q] = "mark" /\ at'[q] = d /\ d \in todo[q]
          /\ UNCHANGED <<status, payload, todo, seen, locked>>
      BY <1>6 DEF Reuse, Insert, ScansNext, Ready, tables
    <2> QED
      BY <1>1, <2>1 DEF Uncontested, Carries
  <1>7. ASSUME NEW q \in Request, Mark(q) PROVE Uncontested'
    <2>1. /\ pc[q] = "mark" /\ pc'[q] = "resolve" /\ locked'[q] = locked[q] \cup {at[q]}
          /\ todo'[q] = todo[q] \ {at[q]} /\ at[q] \in Draft
          /\ UNCHANGED <<status, payload, seen>>
      BY <1>7 DEF Mark, tables, Shape
    <2> QED
      BY <1>1, <2>1 DEF Uncontested, Carries
  <1>8. ASSUME NEW q \in Request, Finish(q) PROVE Uncontested'
    <2>1. pc'[q] = "idle" /\ todo'[q] = {} /\ locked'[q] = {}
      BY <1>8 DEF Finish
    <2> QED
      BY <1>1, <2>1 DEF Uncontested, Carries
  <1>9. ASSUME UNCHANGED <<local, status, payload>> PROVE Uncontested'
    BY <1>9 DEF local, Uncontested, Carries
  <1> QED
    BY <1>2, <1>3, <1>4, <1>5, <1>6, <1>7, <1>8, <1>9
    DEF Next, Begin, Step, ApproveRefused, ResolveFails, Commit, RejectWrite, EditWrite, Abort,
      DeadlockVictim, CreateByHand, DeleteRow, vars, local

\* So a lone request overruns nothing.
LEMMA NoOverrun ==
  ASSUME Inv, Uncontested, NEW q \in Request
  PROVE  ~ Overruns(q)
  <1>1. locked[q] \subseteq Draft
    BY DEF Inv, TypeInv, TypeOK
  <1>2. \A r \in made[q] : r.draft \in Draft /\ Carries(q, r.draft)
    BY DEF Inv, Flight, MadeSound
  <1> QED
    BY <1>1, <1>2 DEF Overruns, Uncontested, Carries

\* When requests do not overlap, the review keeps its promise in full, for every
\* batch: each draft is decided once, with or after what it depends on, and becomes
\* one row that says what the draft showed.
THEOREM ReviewHolds == OneAtATime => (Spec => ReviewSpec)
  <1> SUFFICES ASSUME OneAtATime PROVE Spec => ReviewSpec
    OBVIOUS
  <1>1. Init => Tidy /\ Uncontested
    BY Ids DEF Init, Tidy, Uncontested, Carries
  <1>2. Inv /\ Tidy /\ Uncontested /\ [Next]_vars => Tidy' /\ Uncontested'
    BY StepTidy, StepUncontested
  <1>3. Init => Review!Init
    <2> SUFFICES ASSUME Init PROVE Review!Init
      OBVIOUS
    <2>1. \A d \in Draft : payload[d].key \in Key
      BY DraftsAssumption DEF Init, Payload
    <2> QED
      BY <2>1 DEF Init, Review!Init
  <1>4. Inv /\ Tidy /\ Uncontested /\ [Next]_vars => [Review!Next]_(Review!vars)
    BY ReviewStep, NoOverrun
  <1> QED
    BY <1>1, <1>2, <1>3, <1>4, InvHolds, PTL DEF Spec, ReviewSpec, Review!Spec

\* Overlap is the only way a decision is lost: when requests do not overlap, a
\* rejected draft stays rejected and an approved one keeps its row, since the
\* review then does nothing that DraftReview does not (ErrDraftNotPending).
THEOREM DecidedOnceHolds == OneAtATime => (Spec => DecidedOnce)
  <1> SUFFICES ASSUME OneAtATime PROVE Spec => DecidedOnce
    OBVIOUS
  <1> DEFINE Stands == \A d \in Draft :
        /\ status[d] = "rejected" => status'[d] = "rejected"
        /\ resolved[d] # NoRow => resolved'[d] = resolved[d]
  <1>1. Init => Tidy /\ Uncontested
    BY Ids DEF Init, Tidy, Uncontested, Carries
  <1>2. Inv /\ Tidy /\ Uncontested /\ [Next]_vars => Tidy' /\ Uncontested'
    BY StepTidy, StepUncontested
  <1>3. Inv /\ Tidy /\ Uncontested /\ [Next]_vars => [Stands]_vars
    <2> SUFFICES ASSUME Inv, Tidy, Uncontested, [Next]_vars PROVE Stands
      OBVIOUS
    <2>1. [Review!Next]_(Review!vars)
      BY ReviewStep, NoOverrun
    <2>2. \A d \in Draft : resolved[d] # NoRow => status[d] = "approved"
      BY DEF Inv, Committed, ApprovedHasRow
    <2>3. /\ status \in [Draft -> {"pending", "approved", "rejected"}]
          /\ resolved \in [Draft -> RowId \cup {NoRow}]
      BY DEF Inv, TypeInv, TypeOK
    <2>4. ASSUME NEW S \in SUBSET Draft, NEW N \in SUBSET S, Review!Approve(S, N) PROVE Stands
      BY <2>2, <2>3, <2>4 DEF Review!Approve, Review!Pending
    <2>5. ASSUME NEW d \in Draft, Review!Reject(d) PROVE Stands
      BY <2>2, <2>3, <2>5 DEF Review!Reject, Review!Pending
    <2>6. ASSUME NEW d \in Draft, Review!Edit(d) PROVE Stands
      BY <2>6 DEF Review!Edit
    <2>7. CASE UNCHANGED Review!vars
      BY <2>7 DEF Review!vars
    <2> QED
      BY <2>1, <2>4, <2>5, <2>6, <2>7 DEF Review!Next
  <1> QED
    BY <1>1, <1>2, <1>3, InvHolds, PTL DEF Spec, DecidedOnce

-----------------------------------------------------------------------------
(* Employers are reused.                                                   *)

\* No employer a request is about to add has the name of one that is there.
NoNamesake ==
  \A q \in Request : \A r \in made[q] : r.kind = "employer" =>
    \A e \in rows : ~ (e.kind = "employer" /\ e.key = r.key)

\* An employer is inserted after a look at all the account has; nothing is added
\* to that by a lone request before it commits, nor by the screens meanwhile.
LEMMA StepNoNamesake ==
  ASSUME OneAtATime, ~ Overlapping, Inv, NoNamesake, [Next]_vars
  PROVE  NoNamesake'
  <1> USE DEF Inv, TypeInv, TypeOK
  <1>1. ASSUME NEW q \in Request PROVE \A p \in Request : p = q
    BY DEF OneAtATime
  <1>2. ASSUME NEW q \in Request, Finish(q) PROVE NoNamesake'
    BY <1>1, <1>2 DEF Finish, NoNamesake
  <1>3. ASSUME UNCHANGED <<rows, made>> PROVE NoNamesake'
    BY <1>3 DEF NoNamesake
  <1>4. ASSUME NEW q \in Request, NEW d \in Draft, Insert(q, d) PROVE NoNamesake'
    <2>1. PICK id \in RowId : made' = [made EXCEPT ![q] = @ \cup {RowFor(q, d, id)}]
      BY <1>4 DEF Insert
    <2>2. Existing(q, d) = {} /\ rows' = rows
      BY <1>4 DEF Insert, tables
    <2>3. RowFor(q, d, id).kind = KindOf[d] /\ RowFor(q, d, id).key = seen[q][d].key
      BY DEF RowFor
    <2>4. ASSUME KindOf[d] = "employer", NEW e \in rows
          PROVE  ~ (e.kind = "employer" /\ e.key = seen[q][d].key)
      BY <2>2, <2>4 DEF Existing, Visible
    <2>5. \A r \in made'[q] : r \in made[q] \/ r = RowFor(q, d, id)
      BY <2>1
    <2> QED
      BY <1>1, <2>2, <2>3, <2>4, <2>5 DEF NoNamesake
  <1>5. ASSUME NEW q \in Request, Begin(q) PROVE UNCHANGED <<rows, made>>
    BY <1>5 DEF Begin, BatchList, ApproveRead, RejectRead, EditRead, ReadPending, tables
  <1>6. ASSUME NEW q \in Request, Step(q) PROVE NoNamesake'
    <2>1. CASE \/ ApproveList(q) \/ Mark(q) \/ \E d \in Draft : Reuse(q, d)
      BY <2>1, <1>3 DEF ApproveList, Mark, Reuse, tables
    <2>2. CASE \/ ApproveRefused(q) \/ Commit(q) \/ RejectWrite(q) \/ EditWrite(q)
               \/ \E d \in Draft : ResolveFails(q, d)
      BY <2>2, <1>2 DEF ApproveRefused, Commit, RejectWrite, EditWrite, ResolveFails
    <2> QED
      BY <1>4, <1>6, <2>1, <2>2 DEF Step
  <1>7. ASSUME NEW h \in HandMade, CreateByHand(h) PROVE NoNamesake'
    <2>1. ASSUME NEW q \in Request PROVE pc[q] = "idle" /\ made'[q] = {}
      BY <1>7 DEF CreateByHand, ScreensMayAct, Shape, local
    <2> QED
      BY <2>1 DEF NoNamesake
  <1>8. ASSUME NEW r \in rows, DeleteRow(r) PROVE NoNamesake'
    BY <1>8 DEF DeleteRow, local, NoNamesake
  <1>9. CASE UNCHANGED vars
    BY <1>9, <1>3 DEF vars
  <1> QED
    BY <1>2, <1>3, <1>5, <1>6, <1>7, <1>8, <1>9 DEF Next, Abort, DeadlockVictim

\* "An employer the account already has is reused rather than duplicated": when
\* requests do not overlap, with each other or with the screens, no approval adds
\* a second employer of a name, whatever the batch (resolveEmployer).
THEOREM EmployerReusedHolds == OneAtATime /\ ~ Overlapping => (Spec => EmployerReused)
  <1> SUFFICES ASSUME OneAtATime, ~ Overlapping PROVE Spec => EmployerReused
    OBVIOUS
  <1>1. Init => NoNamesake
    BY DEF Init, NoNamesake
  <1>2. Inv /\ NoNamesake /\ [Next]_vars => NoNamesake'
    BY StepNoNamesake
  <1>3. Inv /\ NoNamesake /\ [Next]_vars =>
          [\A r \in rows' \ rows : r.kind = "employer" /\ r.draft # NoDraft =>
             \A e \in rows : ~ (e.kind = "employer" /\ e.key = r.key)]_vars
    <2> SUFFICES ASSUME Inv, NoNamesake, [Next]_vars,
                        NEW r \in rows' \ rows, r.kind = "employer", r.draft # NoDraft,
                        NEW e \in rows
                 PROVE  ~ (e.kind = "employer" /\ e.key = r.key)
      OBVIOUS
    <2>1. ASSUME NEW q \in Request, Commit(q) PROVE r \in made[q]
      BY <2>1 DEF Commit
    <2>2. ASSUME NEW h \in HandMade, CreateByHand(h) PROVE r.draft = NoDraft
      BY <2>2 DEF CreateByHand
    <2>3. ASSUME NEW s \in rows, DeleteRow(s) PROVE FALSE
      BY <2>3 DEF DeleteRow
    <2>4. ASSUME NEW q \in Request, Begin(q) \/ Abort(q) \/ DeadlockVictim(q) PROVE FALSE
      BY <2>4 DEF Begin, BatchList, ApproveRead, RejectRead, EditRead, ReadPending, Abort,
        DeadlockVictim, tables
    <2>5. ASSUME NEW q \in Request, Step(q), ~ Commit(q) PROVE FALSE
      BY <2>5 DEF Step, ApproveList, ApproveRefused, Reuse, Insert, ResolveFails, Mark,
        RejectWrite, EditWrite, tables
    <2> QED
      BY <2>1, <2>2, <2>3, <2>4, <2>5 DEF Next, vars, NoNamesake
  <1> QED
    BY <1>1, <1>2, <1>3, InvHolds, PTL DEF Spec, EmployerReused

-----------------------------------------------------------------------------
(* What a batch resolution leaves behind.                                  *)

\* What a draft depends on is above it, and so is all above that.
LEMMA AboveClosed ==
  ASSUME NEW d \in Draft, NEW e \in Draft, e \in DependsOn[d] \cup Above(d)
  PROVE  e \in Above(d) /\ Above(e) \subseteq Above(d)
  <1>1. e \in Above(d)
    BY DEF Above
  <1>2. ASSUME NEW f \in Above(e) PROVE f \in Above(d)
    <2> SUFFICES ASSUME NEW S \in SUBSET Draft,
                        DependsOn[d] \cup UNION {DependsOn[x] : x \in S} \subseteq S
                 PROVE  f \in S
      BY DEF Above
    <2>1. e \in S
      BY <1>1 DEF Above
    <2>2. DependsOn[e] \cup UNION {DependsOn[x] : x \in S} \subseteq S
      BY <2>1
    <2> QED
      BY <1>2, <2>2 DEF Above
  <1> QED
    BY <1>1, <1>2

\* Walking up within a set of drafts never ends but in a cycle.
LEMMA WalkMeetsCycle ==
  ASSUME NEW A \in SUBSET Draft, A # {},
         \A d \in A : \E e \in A : e \in DependsOn[d]
  PROVE  \E d \in A : d \in Above(d)
  <1>1. \A d \in Draft : IsFiniteSet(Above(d)) /\ Cardinality(Above(d)) \in Nat
    <2>1. IsFiniteSet(Draft)
      BY DraftsAssumption, FS_Interval DEF Draft
    <2> QED
      BY <2>1, FS_Subset, FS_CardinalityType DEF Above
  <1> DEFINE Sizes == {Cardinality(Above(d)) : d \in A}
  <1>2. Sizes # {} /\ Sizes \subseteq Nat
    BY <1>1
  <1>3. PICK n \in Sizes : \A k \in Sizes : ~ (<<k, n>> \in OpToRel(<, Nat))
    <2> HIDE DEF Sizes
    <2> QED
      BY <1>2, NatLessThanWellFounded, WFMin, Zenon
  <1>4. PICK d \in A : n = Cardinality(Above(d))
    OBVIOUS
  <1>5. PICK e \in A : e \in DependsOn[d]
    OBVIOUS
  <1>6. e \in Above(d) /\ Above(e) \subseteq Above(d)
    BY <1>5, AboveClosed
  <1>7. CASE Above(e) = Above(d)
    BY <1>6, <1>7
  <1>8. CASE Above(e) # Above(d)
    <2>1. /\ Cardinality(Above(e)) <= Cardinality(Above(d))
          /\ Cardinality(Above(e)) # Cardinality(Above(d))
      BY <1>1, <1>6, <1>8, FS_Subset
    <2>2. Cardinality(Above(e)) < n /\ Cardinality(Above(e)) \in Nat /\ n \in Nat
      BY <1>1, <1>4, <2>1
    <2>3. Cardinality(Above(e)) \in Sizes
      OBVIOUS
    <2> QED
      BY <1>3, <2>2, <2>3 DEF OpToRel
  <1> QED
    BY <1>7, <1>8

\* Whatever a draft in hand waits for is in hand as well, or was decided without it.
Listed ==
  \A q \in Request : pc[q] \in {"resolve", "mark"} =>
    \A d \in todo[q] : \A e \in DependsOn[d] :
      parents[q][e] # NoRow \/ status[e] # "pending" \/ e \in todo[q]

\* Nothing is pending again once it is decided, though it may be decided again.
LEMMA StaysDecided ==
  ASSUME Inv, [Next]_vars, NEW d \in Draft, status[d] # "pending"
  PROVE  status'[d] # "pending"
  <1> USE DEF Inv, TypeInv, TypeOK
  <1>1. ASSUME NEW q \in Request, Commit(q) PROVE status'[d] # "pending"
    BY <1>1 DEF Commit
  <1>2. ASSUME NEW q \in Request, RejectWrite(q) PROVE status'[d] # "pending"
    BY <1>2 DEF RejectWrite, Shape
  <1>3. ASSUME NEW q \in Request, Step(q), ~ Commit(q), ~ RejectWrite(q)
        PROVE  UNCHANGED status
    BY <1>3 DEF Step, ApproveList, ApproveRefused, Reuse, Insert, ResolveFails, Mark, EditWrite,
      tables
  <1>4. ASSUME NEW q \in Request, Begin(q) \/ Abort(q) \/ DeadlockVictim(q)
        PROVE  UNCHANGED status
    BY <1>4 DEF Begin, BatchList, ApproveRead, RejectRead, EditRead, ReadPending, Abort,
      DeadlockVictim, tables
  <1> QED
    BY <1>1, <1>2, <1>3, <1>4 DEF Next, CreateByHand, DeleteRow, vars

\* What one request has listed stays accounted for, whatever it does itself.
LEMMA OneListed ==
  ASSUME Inv, Listed, [Next]_vars, NEW q \in Request,
         pc'[q] \in {"resolve", "mark"}, NEW d \in todo'[q], NEW e \in DependsOn[d],
         status'[e] = "pending"
  PROVE  parents'[q][e] # NoRow \/ e \in todo'[q]
  <1> USE DEF Inv, TypeInv, TypeOK
  <1> DEFINE Kept == /\ pc[q] \in {"resolve", "mark"} /\ todo'[q] = todo[q]
                     /\ \A x \in Draft : parents[q][x] # NoRow => parents'[q][x] # NoRow
             Goal == parents'[q][e] # NoRow \/ e \in todo'[q]
  <1>1. d \in Draft /\ e \in Draft
    <2>1. todo' \in [Request -> SUBSET Draft]
      BY StepTypeInv
    <2> QED
      BY <2>1, DraftsAssumption
  <1>2. status[e] = "pending"
    BY <1>1, StaysDecided
  <1>3. ASSUME Kept PROVE Goal
    BY <1>1, <1>2, <1>3 DEF Listed
  <1>4. CASE BatchList(q)
    <2>1. todo'[q] = {x \in Draft : status[x] = "pending"}
      BY <1>4 DEF BatchList
    <2> QED
      BY <1>1, <1>2, <2>1
  <1>5. CASE ApproveList(q)
    <2>1. /\ parents'[q] = ResolvedMap /\ todo' = todo
          /\ \A x \in todo[q] : \A y \in DependsOn[x] : ResolvedMap[y] # NoRow
      BY <1>5 DEF ApproveList
    <2> QED
      BY <2>1
  <1>6. ASSUME NEW x \in Draft, Reuse(q, x) \/ Insert(q, x) PROVE Kept
    <2>1. PICK id : /\ id # NoRow /\ parents' = [parents EXCEPT ![q][x] = id]
                    /\ pc[q] = "resolve" /\ todo' = todo
      <3>1. CASE Reuse(q, x)
        <4>1. PICK r \in Existing(q, x) : parents' = [parents EXCEPT ![q][x] = r.id]
          BY <3>1 DEF Reuse
        <4>2. r.id \in RowId
          BY DEF Existing, Visible, Row
        <4> QED
          BY <3>1, <4>1, <4>2, Ids DEF Reuse
      <3>2. CASE Insert(q, x)
        BY <3>2, Ids DEF Insert
      <3> QED
        BY <1>6, <3>1, <3>2
    <2> QED
      BY <2>1
  <1>7. CASE Mark(q)
    <2>1. /\ todo'[q] = todo[q] \ {at[q]} /\ pc[q] = "mark" /\ at[q] \in Draft
          /\ parents' = parents
      BY <1>7 DEF Mark, Shape
    <2>2. parents[q][at[q]] # NoRow
      BY <2>1 DEF Flight, CarriesReady, Carries
    <2> QED
      BY <1>1, <1>2, <2>1, <2>2 DEF Listed
  <1>8. ASSUME NEW p \in Request, Finish(p) PROVE Kept
    <2>1. pc'[p] = "idle" /\ \A x \in Request \ {p} :
            pc'[x] = pc[x] /\ todo'[x] = todo[x] /\ parents'[x] = parents[x]
      BY <1>8 DEF Finish
    <2> QED
      BY <2>1
  <1>9. ASSUME NEW p \in Request, NEW x \in Draft,
               ApproveRead(p, x) \/ RejectRead(p, x) \/ EditRead(p, x)
        PROVE  Kept
    <2>1. /\ pc'[p] \in {"list", "reject", "edit"} /\ UNCHANGED parents
          /\ \A y \in Request \ {p} : pc'[y] = pc[y] /\ todo'[y] = todo[y]
      BY <1>9 DEF ApproveRead, RejectRead, EditRead, ReadPending
    <2> QED
      BY <2>1
  <1>10. ASSUME NEW p \in Request \ {q}, NEW x \in Draft,
                \/ BatchList(p) \/ ApproveList(p) \/ Mark(p) \/ Reuse(p, x) \/ Insert(p, x)
         PROVE  Kept
    <2>1. pc'[q] = pc[q] /\ todo'[q] = todo[q] /\ parents'[q] = parents[q]
      BY <1>10 DEF BatchList, ApproveList, Mark, Reuse, Insert
    <2> QED
      BY <2>1
  <1>11. ASSUME UNCHANGED local PROVE Kept
    <2>1. pc' = pc /\ todo' = todo /\ parents' = parents
      BY <1>11 DEF local
    <2> QED
      BY <2>1
  <1>12. ASSUME NEW p \in Request, Step(p) \/ Begin(p) \/ Abort(p) \/ DeadlockVictim(p)
         PROVE  Goal
    <2>1. \/ Finish(p) \/ BatchList(p) \/ ApproveList(p) \/ Mark(p)
          \/ \E x \in Draft : \/ Reuse(p, x) \/ Insert(p, x)
                             \/ ApproveRead(p, x) \/ RejectRead(p, x) \/ EditRead(p, x)
      BY <1>12 DEF Step, Begin, ApproveRefused, ResolveFails, Commit, RejectWrite, EditWrite,
        Abort, DeadlockVictim
    <2> HIDE DEF Kept, Goal
    <2>2. CASE p = q
      BY <2>1, <2>2, <1>3, <1>4, <1>5, <1>6, <1>7, <1>8, <1>9 DEF Goal
    <2>3. CASE p # q
      BY <1>1, <2>1, <2>3, <1>3, <1>8, <1>9, <1>10
    <2> QED
      BY <2>2, <2>3
  <1> QED
    BY <1>3, <1>11, <1>12 DEF Next, CreateByHand, DeleteRow, vars, local

LEMMA StepListed == Inv /\ Listed /\ [Next]_vars => Listed'
  BY OneListed DEF Listed

\* Of what depends on nothing rejected and on no cycle, all is ready or handled.
LEMMA LeftForAReason == Listed /\ Inv => NothingLeftBehind
  <1> SUFFICES ASSUME Listed, Inv, NEW q \in Request, pc[q] = "resolve", Ready(q) = {},
                      NEW d \in todo[q],
                      \A e \in Above(d) :
                        /\ status[e] # "rejected" /\ e \notin Above(e)
                        /\ ~ (status[e] = "approved" /\ parents[q][e] = NoRow /\ e \notin todo[q])
               PROVE  FALSE
    BY DEF NothingLeftBehind
  <1> DEFINE A == todo[q] \cap ({d} \cup Above(d))
  <1>1. A \in SUBSET Draft /\ d \in A
    BY DEF Inv, TypeInv, TypeOK
  <1>2. ASSUME NEW x \in A PROVE \E e \in A : e \in DependsOn[x]
    <2>1. PICK e \in DependsOn[x] : parents[q][e] = NoRow
      BY DEF Ready
    <2>2. e \in Draft
      BY <1>1, DraftsAssumption
    <2>3. e \in Above(x) /\ (x = d \/ Above(x) \subseteq Above(d))
      BY <1>1, <2>2, AboveClosed
    <2>4. e \in Above(d)
      BY <2>3
    <2>5. e \in todo[q]
      <3>1. status[e] \in {"pending", "approved", "rejected"}
        BY <2>2 DEF Inv, TypeInv, TypeOK
      <3> QED
        BY <1>1, <2>1, <2>4, <3>1 DEF Listed
    <2> QED
      BY <2>4, <2>5
  <1>3. PICK x \in A : x \in Above(x)
    <2> HIDE DEF A
    <2> QED
      BY <1>1, <1>2, WalkMeetsCycle
  <1>4. x \in Above(d)
    BY <1>1, <1>3
  <1> QED
    BY <1>3, <1>4

\* What is left over of a batch is in or below a cycle, or below something that is
\* rejected or was when the batch was listed, as topoOrder says, for any batch in any
\* listing and whatever other requests do meanwhile.
THEOREM NothingLeftBehindHolds == Spec => []NothingLeftBehind
  <1>1. Init => Listed
    BY DEF Init, Listed
  <1> QED
    BY <1>1, StepListed, LeftForAReason, InvHolds, PTL DEF Spec

\* What CareerImport stages hangs under earlier places of its plan (StagedWhole),
\* so it has no cycle: a batch resolution of it leaves behind only what is below
\* a draft rejected by then or when it listed the batch, in whatever order.
THEOREM OnlyRejectionHoldsBack ==
  ASSUME NEW plan \in [Draft -> Nat],
         \A d \in Draft : \A p \in DependsOn[d] : plan[p] < plan[d]
  PROVE  Spec => [](\A q \in Request : pc[q] = "resolve" /\ Ready(q) = {} =>
                      \A d \in todo[q] : \E e \in Above(d) :
                        \/ status[e] = "rejected"
                        \/ status[e] = "approved" /\ parents[q][e] = NoRow /\ e \notin todo[q])
  <1> DEFINE HeldBack == \A q \in Request : pc[q] = "resolve" /\ Ready(q) = {} =>
                           \A d \in todo[q] : \E e \in Above(d) :
                             \/ status[e] = "rejected"
                             \/ status[e] = "approved" /\ parents[q][e] = NoRow /\ e \notin todo[q]
  <1>1. ASSUME NEW e \in Draft PROVE e \notin Above(e)
    <2> DEFINE Earlier == {x \in Draft : plan[x] < plan[e]}
    <2>1. DependsOn[e] \subseteq Earlier
      BY DraftsAssumption
    <2>2. ASSUME NEW x \in Earlier PROVE DependsOn[x] \subseteq Earlier
      <3>1. ASSUME NEW p \in DependsOn[x] PROVE p \in Draft /\ plan[p] < plan[e]
        <4>1. p \in Draft /\ plan[p] < plan[x] /\ plan[x] < plan[e]
          BY DraftsAssumption
        <4>2. plan[p] \in Nat /\ plan[x] \in Nat /\ plan[e] \in Nat
          BY <4>1
        <4> QED
          BY <4>1, <4>2
      <3> QED
        BY <3>1
    <2>3. e \notin Earlier
      OBVIOUS
    <2>4. Earlier \in SUBSET Draft
      OBVIOUS
    <2> HIDE DEF Earlier
    <2>5. DependsOn[e] \cup UNION {DependsOn[x] : x \in Earlier} \subseteq Earlier
      BY <2>1, <2>2
    <2> QED
      BY <2>3, <2>4, <2>5 DEF Above
  <1>2. NothingLeftBehind => HeldBack
    <2>1. \A d : Above(d) \subseteq Draft
      BY DEF Above
    <2> QED
      BY <1>1, <2>1 DEF NothingLeftBehind
  <1>3. Spec => []NothingLeftBehind
    BY NothingLeftBehindHolds
  <1> HIDE DEF HeldBack
  <1>4. Spec => []HeldBack
    BY <1>2, <1>3, PTL
  <1> QED
    BY <1>4 DEF HeldBack

=============================================================================
