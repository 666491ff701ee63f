--------------------------- MODULE MCEntityDrafts ---------------------------
(***************************************************************************)
(* A batch of a position, the employer it hangs under and a skill, for     *)
(* TLC.  The drafts of one staging transaction share created_at, so the    *)
(* listing falls back on random ids and a child may well come first.       *)
(***************************************************************************)
EXTENDS EntityDrafts, TLC

KindsOf == <<"position", "employer", "skill">>
Depends == <<{2}, {}, {}>>

Engineer(draft) == [key |-> "engineer", parent |-> draft, form |-> "good"]
Acme(form)      == [key |-> "acme", parent |-> NoDraft, form |-> form]
Go(form)        == [key |-> "go", parent |-> NoDraft, form |-> form]

Staged == <<Engineer(2), Acme("good"), Go("good")>>

\* The reviewer renames the position and unhooks it from its parent, or empties
\* a skill's tag, both of which validate() lets through, or submits what it refuses.
SomeEdits == <<{[Engineer(NoDraft) EXCEPT !.key = "staff"]},
               {Acme("refused_by_validate")},
               {Go("refused_by_table")}>>
NoEdits == <<{}, {}, {}>>

NothingByHand == {}
AddedByHand == {[kind |-> "skill", key |-> "go"]}

Symmetry == Permutations(Request)
=============================================================================
