---------------------------- MODULE DraftReview -----------------------------
(***************************************************************************)
(* What the review of an import promises the person reviewing it: every    *)
(* draft is decided once, a draft is approved only with or after the       *)
(* drafts it depends on, an approval writes at most one row and writes it  *)
(* from the content the draft shows, and nothing else writes rows.         *)
(* EntityDrafts implements it when requests do not overlap.                *)
(***************************************************************************)
CONSTANTS
  Draft,           \* the drafts of the batch
  DependsOn,       \* the drafts each one depends on
  Content,         \* what a draft may say
  RowId,           \* identities of the rows written
  NoRow            \* the row of a draft that is not approved

VARIABLES
  verdict,   \* the decision on each draft
  content,   \* what each draft says
  row,       \* the row each approved draft became
  ledger     \* the rows written by approvals: for which draft, saying what

vars == <<verdict, content, row, ledger>>

Init ==
  /\ verdict = [d \in Draft |-> "pending"]
  /\ content \in [Draft -> Content]
  /\ row = [d \in Draft |-> NoRow]
  /\ ledger = {}

Pending  == {d \in Draft : verdict[d] = "pending"}
Approved == {d \in Draft : verdict[d] = "approved"}

\* The drafts of S become rows together; those of New get a row of their own,
\* the others are recognised in rows that exist.
Approve(S, New) ==
  /\ S \subseteq Pending
  /\ New \subseteq S
  /\ \A d \in S : DependsOn[d] \subseteq Approved \cup S
  /\ verdict' = [d \in Draft |-> IF d \in S THEN "approved" ELSE verdict[d]]
  /\ \A d \in S : row'[d] \in RowId
  /\ row' = [d \in Draft |-> IF d \in S THEN row'[d] ELSE row[d]]
  /\ ledger' = ledger \cup {[draft |-> d, id |-> row'[d], says |-> content[d]]
                             : d \in New}
  /\ UNCHANGED content

Reject(d) ==
  /\ d \in Pending
  /\ verdict' = [verdict EXCEPT ![d] = "rejected"]
  /\ UNCHANGED <<content, row, ledger>>

Edit(d) ==
  /\ d \in Pending
  /\ \E c \in Content : content' = [content EXCEPT ![d] = c]
  /\ UNCHANGED <<verdict, row, ledger>>

Next ==
  \/ \E S \in SUBSET Draft : \E New \in SUBSET S : Approve(S, New)
  \/ \E d \in Draft : Reject(d) \/ Edit(d)

Spec == Init /\ [][Next]_vars

=============================================================================
