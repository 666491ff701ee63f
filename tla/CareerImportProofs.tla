------------------------- MODULE CareerImportProofs -------------------------
(***************************************************************************)
(* Proofs about CareerImport, for any answers of the model, any account    *)
(* and any number of imports and of edits made while they are flagged.     *)
(*                                                                         *)
(* A plan is sound as PlanDrafts makes it and flagging changes none of     *)
(* what that says (Planned). A card is flagged from what the account has   *)
(* at that moment, so it tells of all that is there throughout and of      *)
(* nothing that was never there; an edit that follows makes the first less *)
(* and the second more, and takes nothing back (Told).                     *)
(***************************************************************************)
EXTENDS CareerImport, SequenceTheorems, TLAPS

Drafts ==
  [kind : DOMAIN ParentKind, label : Label, parents : SUBSET Nat,
   collisions : SUBSET Label, new : SUBSET Label, crowded : SUBSET Label]

Account == [labels : SUBSET Label, categories : SUBSET Label]

Stages == {"idle", "reading", "flagging", "crowding", "ready", "failing", "done"}

Requests == [at : Stages, plan : Seq(Drafts), next : Nat, ever : Account, throughout : Account]

TypeInv ==
  /\ batch \in [Batch -> {"none", "extracting", "review", "failed"}]
  /\ drafts \in [Batch -> Seq(Drafts)]
  /\ account \in Account
  /\ req \in [Batch -> Requests]

Size(x) ==
  Len(x.employers) + Len(x.positions) + Len(x.contributions)
    + Len(x.skills) + Len(x.preferences) + Len(x.education) + Len(x.credentials)

Sized(plan) == \E x \in Extractions : Len(plan) = Size(x)

\* A draft hangs under one that comes before it, of the kind it needs.
Hung(plan, i) ==
  /\ plan[i].parents \subseteq 1 .. i - 1
  /\ {plan[j].kind : j \in plan[i].parents} = ParentKind[plan[i].kind]

Planned(plan) ==
  /\ Sized(plan)
  /\ \A i \in 1 .. Len(plan) :
       Hung(plan, i) /\ (plan[i].kind = "preference" => plan[i].label # <<>>)

\* A card says what there was to say, between two states of the account.
Told(d, proposed, ever, throughout) ==
  /\ d.kind = "preference" =>
       {q \in throughout.labels : Collides(d.label, q)} \subseteq d.collisions
  /\ d.kind = "skill" =>
       /\ d.label \notin ever.categories => d.new = {d.label}
       /\ d.label \notin ever.categories /\ HasSharedToken(proposed \ ever.categories) =>
            proposed \ ever.categories \subseteq d.crowded
       /\ d.new \cap throughout.categories = {}

Within(low, high) == low.labels \subseteq high.labels /\ low.categories \subseteq high.categories

\* Cards before the one at hand are told; those after it are as they were planned.
Flags(b) ==
  LET r == req[b]
  IN  r.at \in {"flagging", "crowding"} =>
        /\ Planned(r.plan)
        /\ Within(r.throughout, account) /\ Within(account, r.ever)
        /\ r.next \in 1 .. Len(r.plan) + 1
        /\ \A i \in 1 .. r.next - 1 : Told(r.plan[i], Proposed(r.plan), r.ever, r.throughout)
        /\ \A i \in r.next + 1 .. Len(r.plan) : r.plan[i].new = {}
        /\ r.at = "flagging" /\ r.next <= Len(r.plan) => r.plan[r.next].new = {}
        /\ r.at = "crowding" =>
             /\ r.next <= Len(r.plan)
             /\ r.plan[r.next].kind = "skill"
             /\ r.plan[r.next].new = {r.plan[r.next].label}
             /\ r.plan[r.next].label \notin r.throughout.categories

\* The drafts of a batch, by the stage of its request: none until a commit took
\* effect, and all of a plan from then on, whatever status the batch is given.
Staged(b) ==
  /\ batch[b] = "none" => req[b].at = "idle"
  /\ req[b].at \notin {"ready", "failing", "done"} => drafts[b] = <<>>
  /\ batch[b] = "failed" => req[b].at = "done"
  /\ batch[b] = "review" => req[b].at = "done"
  /\ batch[b] = "review" \/ drafts[b] # <<>> \/ req[b].at = "ready" => Planned(drafts[b])
  /\ req[b].at \in {"ready", "failing"} =>
       \A i \in 1 .. Len(drafts[b]) :
         Told(drafts[b][i], Proposed(drafts[b]), req[b].ever, req[b].throughout)

Inv == TypeInv /\ \A b \in Batch : Flags(b) /\ Staged(b)

-----------------------------------------------------------------------------
(* What PlanDrafts makes                                                   *)

\* A draft as it is planned.
Plain == {d \in Drafts : d.new = {} /\ (d.kind = "preference" => d.label # <<>>)}

LEMMA PlainDraft ==
  ASSUME NEW kind \in DOMAIN ParentKind, NEW label \in Label, NEW parents \in SUBSET Nat,
         kind = "preference" => label # <<>>
  PROVE  Draft(kind, label, parents) \in Plain
  BY DEF Draft, Plain, Drafts

\* A list of drafts that hang under nothing.
LEMMA AloneDrafts ==
  ASSUME NEW kind \in {"skill", "preference", "education", "credential"},
         NEW names \in Seq(Label), \A i \in DOMAIN names : names[i] # <<>>
  PROVE  /\ Alone(kind, names) \in Seq(Plain)
         /\ Len(Alone(kind, names)) = Len(names)
         /\ \A i \in 1 .. Len(names) : /\ Alone(kind, names)[i].parents = {}
                                       /\ Alone(kind, names)[i].kind = kind
  <1>1. DOMAIN names = 1 .. Len(names) /\ Len(names) \in Nat
    BY LenProperties
  <1>2. kind \in DOMAIN ParentKind
    BY DEF ParentKind
  <1>3. \A i \in 1 .. Len(names) : Draft(kind, names[i], {}) \in Plain
    BY <1>1, <1>2, PlainDraft, ElementOfSeq
  <1>4. Alone(kind, names) = [i \in 1 .. Len(names) |-> Draft(kind, names[i], {})]
    BY <1>1 DEF Alone
  <1>5. Alone(kind, names) \in Seq(Plain) /\ Len(Alone(kind, names)) = Len(names)
    BY <1>1, <1>3, <1>4
  <1> QED
    BY <1>4, <1>5 DEF Draft

Sound(plan) == plan \in Seq(Plain) /\ \A i \in 1 .. Len(plan) : Hung(plan, i)

\* A list appended to a plan, of drafts that hang under those of the plan.
LEMMA AppendDrafts ==
  ASSUME NEW s, Sound(s), NEW t \in Seq(Plain),
         \A k \in 1 .. Len(t) : /\ t[k].parents \subseteq 1 .. Len(s)
                                /\ {s[j].kind : j \in t[k].parents} = ParentKind[t[k].kind]
  PROVE  Sound(s \o t) /\ Len(s \o t) = Len(s) + Len(t)
  <1> DEFINE u == s \o t
  <1>1. s \in Seq(Plain) /\ Len(s) \in Nat /\ Len(t) \in Nat
    BY LenProperties DEF Sound
  <1>2. /\ u \in Seq(Plain) /\ Len(u) = Len(s) + Len(t)
        /\ \A i \in 1 .. Len(s) + Len(t) : u[i] = IF i <= Len(s) THEN s[i] ELSE t[i - Len(s)]
    BY <1>1, ConcatProperties
  <1> HIDE DEF u
  <1>3. ASSUME NEW i \in 1 .. Len(u) PROVE Hung(u, i)
    <2>1. CASE i <= Len(s)
      <3>1. Hung(s, i) /\ u[i] = s[i]
        BY <1>1, <1>2, <2>1 DEF Sound
      <3>2. \A j \in s[i].parents : u[j] = s[j]
        BY <1>1, <1>2, <2>1, <3>1 DEF Hung
      <3> QED
        BY <3>1, <3>2 DEF Hung
    <2>2. CASE ~ i <= Len(s)
      <3>1. i - Len(s) \in 1 .. Len(t) /\ u[i] = t[i - Len(s)]
        BY <1>1, <1>2, <2>2
      <3>2. PICK k \in 1 .. Len(t) : k = i - Len(s)
        BY <3>1
      <3>3. /\ t[k].parents \subseteq 1 .. Len(s)
            /\ {s[j].kind : j \in t[k].parents} = ParentKind[t[k].kind]
        OBVIOUS
      <3>4. \A j \in t[k].parents : u[j] = s[j]
        BY <1>1, <1>2, <3>3
      <3>5. t[k].parents \subseteq 1 .. i - 1
        BY <1>1, <2>2, <3>3
      <3> QED
        BY <3>1, <3>2, <3>3, <3>4, <3>5 DEF Hung
    <2> QED
      BY <2>1, <2>2
  <1> QED
    BY <1>2, <1>3 DEF Sound, u

\* ... and of drafts that hang under nothing.
LEMMA AppendAlone ==
  ASSUME NEW s, Sound(s), NEW kind \in {"skill", "preference", "education", "credential"},
         NEW names \in Seq(Label), \A i \in DOMAIN names : names[i] # <<>>
  PROVE  /\ Sound(s \o Alone(kind, names))
         /\ Len(s \o Alone(kind, names)) = Len(s) + Len(names)
  <1> DEFINE t == Alone(kind, names)
  <1>1. t \in Seq(Plain) /\ Len(t) = Len(names)
    BY AloneDrafts
  <1>2. \A k \in 1 .. Len(t) : t[k].parents = {} /\ t[k].kind = kind
    BY AloneDrafts
  <1>3. ParentKind[kind] = {}
    BY DEF ParentKind
  <1> HIDE DEF t
  <1>4. \A k \in 1 .. Len(t) : /\ t[k].parents \subseteq 1 .. Len(s)
                               /\ {s[j].kind : j \in t[k].parents} = ParentKind[t[k].kind]
    BY <1>2, <1>3
  <1>5. Sound(s \o t) /\ Len(s \o t) = Len(s) + Len(t)
    BY <1>1, <1>4, AppendDrafts
  <1> QED
    BY <1>1, <1>5 DEF t

LEMMA PlainList ==
  ASSUME NEW n \in Nat, NEW f, f = [i \in 1 .. n |-> f[i]], \A i \in 1 .. n : f[i] \in Plain
  PROVE  f \in Seq(Plain) /\ Len(f) = n
  <1>1. f \in [1 .. n -> Plain]
    OBVIOUS
  <1>2. f \in Seq(Plain)
    BY <1>1
  <1>3. DOMAIN f = 1 .. Len(f) /\ Len(f) \in Nat /\ DOMAIN f = 1 .. n
    BY <1>1, <1>2, LenProperties
  <1> QED
    BY <1>2, <1>3

\* What is found of a reference that is there.
LEMMA PlacesFound ==
  ASSUME NEW S, NEW rows \in Seq(S), NEW ref \in Refs(rows)
  PROVE  Places(rows, ref) \subseteq 1 .. Len(rows) /\ Places(rows, ref) # {}
  <1>1. DOMAIN rows = 1 .. Len(rows)
    BY LenProperties
  <1> QED
    BY <1>1 DEF Places, Refs

\* A plan is as long as its answer and sound as it comes from PlanDrafts.
LEMMA PlanPlanned ==
  ASSUME NEW x \in Extractions, Plannable(x)
  PROVE  PlanDrafts(x) \in Seq(Plain) /\ Planned(PlanDrafts(x))
  <1> DEFINE E == Len(x.employers)
             P == Len(x.positions)
             C == Len(x.contributions)
             under(i) == {E + p : p \in Places(x.positions, x.contributions[i])}
             employers == [i \in DOMAIN x.employers |-> Draft("employer", x.employers[i].name, {})]
             positions == [i \in DOMAIN x.positions |->
               Draft("position", <<>>, Places(x.employers, x.positions[i].employer))]
             works == [i \in DOMAIN x.contributions |-> Draft("contribution", <<>>, under(i))]
             jobs == employers \o positions
             career == jobs \o works
  <1>1. /\ x.employers \in Seq([ref : STRING, name : Label])
        /\ x.positions \in Seq([ref : STRING, employer : STRING])
        /\ x.contributions \in Seq(STRING)
        /\ x.skills \in Seq(Label) /\ x.preferences \in Seq(Label)
        /\ x.education \in Seq(Label) /\ x.credentials \in Seq(Label)
    BY CareerImportAssumption DEF Extraction
  <1>2. /\ DOMAIN x.employers = 1 .. E /\ E \in Nat
        /\ DOMAIN x.positions = 1 .. P /\ P \in Nat
        /\ DOMAIN x.contributions = 1 .. C /\ C \in Nat
    BY <1>1, LenProperties
  <1>3. /\ "employer" \in DOMAIN ParentKind /\ "position" \in DOMAIN ParentKind
        /\ "contribution" \in DOMAIN ParentKind /\ <<>> \in Label
    BY EmptySeq DEF ParentKind, Label
  <1>a. \A i \in 1 .. E : x.employers[i].name \in Label
    <2>1. \A i \in 1 .. Len(x.employers) : x.employers[i] \in [ref : STRING, name : Label]
      BY <1>1, ElementOfSeq
    <2> QED
      BY <2>1
  <1>b. \A i \in 1 .. P : /\ Places(x.employers, x.positions[i].employer) \subseteq 1 .. E
                          /\ Places(x.employers, x.positions[i].employer) # {}
    BY <1>1, <1>2, PlacesFound DEF Plannable
  <1>c. \A i \in 1 .. C : /\ Places(x.positions, x.contributions[i]) \subseteq 1 .. P
                          /\ Places(x.positions, x.contributions[i]) # {}
    BY <1>1, <1>2, PlacesFound DEF Plannable
  <1>d. /\ employers = [i \in 1 .. E |-> Draft("employer", x.employers[i].name, {})]
        /\ positions = [i \in 1 .. P |->
             Draft("position", <<>>, Places(x.employers, x.positions[i].employer))]
        /\ works = [i \in 1 .. C |-> Draft("contribution", <<>>, under(i))]
    BY <1>2
  <1>8. PlanDrafts(x) = career \o Alone("skill", x.skills) \o Alone("preference", x.preferences)
                          \o Alone("education", x.education) \o Alone("credential", x.credentials)
    BY DEF PlanDrafts
  <1> HIDE DEF E, P, C, employers, positions, works
  <1>4. /\ employers \in Seq(Plain) /\ Len(employers) = E
        /\ \A i \in 1 .. E : employers[i].kind = "employer" /\ employers[i].parents = {}
    <2>1. ASSUME NEW i \in 1 .. E
          PROVE  /\ employers[i] \in Plain
                 /\ employers[i].kind = "employer" /\ employers[i].parents = {}
      <3>1. employers[i] = Draft("employer", x.employers[i].name, {})
        BY <1>d
      <3> QED
        BY <1>3, <1>a, <3>1, PlainDraft DEF Draft
    <2> QED
      BY <1>2, <1>d, <2>1, PlainList
  <1>5. /\ positions \in Seq(Plain) /\ Len(positions) = P
        /\ \A i \in 1 .. P : /\ positions[i].kind = "position"
                             /\ positions[i].parents \subseteq 1 .. E
                             /\ positions[i].parents # {}
    <2>1. ASSUME NEW i \in 1 .. P
          PROVE  /\ positions[i] \in Plain /\ positions[i].kind = "position"
                 /\ positions[i].parents \subseteq 1 .. E /\ positions[i].parents # {}
      <3> DEFINE places == Places(x.employers, x.positions[i].employer)
      <3>1. positions[i] = Draft("position", <<>>, places)
        BY <1>d
      <3>2. places \subseteq 1 .. E /\ places # {}
        BY <1>b
      <3> HIDE DEF places
      <3>3. places \in SUBSET Nat
        BY <1>2, <3>2
      <3> QED
        BY <1>3, <3>1, <3>2, <3>3, PlainDraft DEF Draft
    <2> QED
      BY <1>2, <1>d, <2>1, PlainList
  <1>6. /\ works \in Seq(Plain) /\ Len(works) = C
        /\ \A i \in 1 .. C : /\ works[i].kind = "contribution"
                             /\ works[i].parents \subseteq E + 1 .. E + P
                             /\ works[i].parents # {}
    <2>1. ASSUME NEW i \in 1 .. C
          PROVE  /\ works[i] \in Plain /\ works[i].kind = "contribution"
                 /\ works[i].parents \subseteq E + 1 .. E + P /\ works[i].parents # {}
      <3> DEFINE places == Places(x.positions, x.contributions[i])
                 mine == under(i)
      <3>1. works[i] = Draft("contribution", <<>>, mine)
        BY <1>d
      <3>2. places \subseteq 1 .. P /\ places # {}
        BY <1>c
      <3>3. mine = {E + p : p \in places}
        OBVIOUS
      <3> HIDE DEF places, mine
      <3>4. \A p \in places : E + p \in E + 1 .. E + P
        BY <1>2, <3>2
      <3>5. mine \subseteq E + 1 .. E + P /\ mine # {}
        BY <3>2, <3>3, <3>4
      <3>6. mine \in SUBSET Nat
        BY <1>2, <3>5
      <3> QED
        BY <1>3, <3>1, <3>5, <3>6, PlainDraft DEF Draft
    <2> QED
      BY <1>2, <1>d, <2>1, PlainList
  <1>7. /\ ParentKind["employer"] = {}
        /\ ParentKind["position"] = {"employer"}
        /\ ParentKind["contribution"] = {"position"}
    BY DEF ParentKind
  <1>9. Sound(employers)
    BY <1>4, <1>7 DEF Sound, Hung
  <1>10. Sound(jobs) /\ Len(jobs) = E + P
    <2>1. \A k \in 1 .. Len(positions) :
            /\ positions[k].parents \subseteq 1 .. Len(employers)
            /\ {employers[j].kind : j \in positions[k].parents} = ParentKind[positions[k].kind]
      BY <1>4, <1>5, <1>7
    <2> QED
      BY <1>4, <1>5, <1>9, <2>1, AppendDrafts
  <1>11. \A j \in E + 1 .. E + P : jobs[j].kind = "position"
    <2>1. /\ Len(employers) = E /\ Len(positions) = P
          /\ \A i \in 1 .. Len(employers) + Len(positions) :
               jobs[i] = IF i <= Len(employers) THEN employers[i] ELSE positions[i - Len(employers)]
      BY <1>4, <1>5, ConcatProperties
    <2>2. ASSUME NEW j \in E + 1 .. E + P PROVE jobs[j].kind = "position"
      <3>1. jobs[j] = positions[j - E] /\ j - E \in 1 .. P
        BY <1>2, <2>1
      <3> QED
        BY <1>5, <3>1
    <2> QED
      BY <2>2
  <1> HIDE DEF jobs
  <1>12. Sound(career) /\ Len(career) = E + P + C
    <2>1. ASSUME NEW k \in 1 .. Len(works)
          PROVE  /\ works[k].parents \subseteq 1 .. Len(jobs)
                 /\ {jobs[j].kind : j \in works[k].parents} = ParentKind[works[k].kind]
      <3> DEFINE mine == works[k].parents
      <3>1. mine \subseteq E + 1 .. E + P /\ mine # {} /\ works[k].kind = "contribution"
        BY <1>6
      <3> HIDE DEF mine
      <3>2. mine \subseteq 1 .. Len(jobs)
        BY <1>2, <1>10, <3>1
      <3>3. \A j \in mine : jobs[j].kind = "position"
        BY <1>11, <3>1
      <3>4. {jobs[j].kind : j \in mine} = {"position"}
        BY <3>1, <3>3
      <3> QED
        BY <1>7, <3>1, <3>2, <3>4 DEF mine
    <2> QED
      BY <1>6, <1>10, <2>1, AppendDrafts
  <1> HIDE DEF career
  <1>13. \A names \in {x.skills, x.preferences, x.education, x.credentials} :
           \A i \in DOMAIN names : names[i] # <<>>
    BY DEF Plannable
  <1> DEFINE p1 == career \o Alone("skill", x.skills)
             p2 == p1 \o Alone("preference", x.preferences)
             p3 == p2 \o Alone("education", x.education)
             p4 == p3 \o Alone("credential", x.credentials)
  <1>14. Sound(p1) /\ Len(p1) = Len(career) + Len(x.skills)
    BY <1>1, <1>12, <1>13, AppendAlone
  <1> HIDE DEF p1
  <1>15. Sound(p2) /\ Len(p2) = Len(p1) + Len(x.preferences)
    BY <1>1, <1>13, <1>14, AppendAlone
  <1> HIDE DEF p2
  <1>16. Sound(p3) /\ Len(p3) = Len(p2) + Len(x.education)
    BY <1>1, <1>13, <1>15, AppendAlone
  <1> HIDE DEF p3
  <1>17. Sound(p4) /\ Len(p4) = Len(p3) + Len(x.credentials)
    BY <1>1, <1>13, <1>16, AppendAlone
  <1>18. PlanDrafts(x) = p4
    BY <1>8 DEF p1, p2, p3
  <1>19. Len(p4) = Size(x)
    BY <1>12, <1>14, <1>15, <1>16, <1>17 DEF Size, E, P, C
  <1> HIDE DEF p4
  <1>20. \A i \in 1 .. Len(p4) : p4[i].kind = "preference" => p4[i].label # <<>>
    BY <1>17, ElementOfSeq DEF Sound, Plain
  <1> QED
    BY <1>17, <1>18, <1>19, <1>20 DEF Sound, Planned, Sized

-----------------------------------------------------------------------------
(* What flagging keeps                                                     *)

\* What a card says is not taken back by what is added or deleted later.
LEMMA ToldLater ==
  ASSUME NEW d, NEW proposed, NEW ever, NEW later, NEW throughout, NEW still,
         Told(d, proposed, ever, throughout), Within(ever, later), Within(still, throughout)
  PROVE  Told(d, proposed, later, still)
  <1>1. HasSharedToken(proposed \ later.categories) => HasSharedToken(proposed \ ever.categories)
    BY DEF HasSharedToken, Within
  <1> QED
    BY <1>1 DEF Told, Within

\* A flag changes a card, not the plan.
LEMMA PlanKept ==
  ASSUME NEW plan \in Seq(Drafts), Planned(plan), NEW n \in 1 .. Len(plan), NEW d \in Drafts,
         d.kind = plan[n].kind, d.label = plan[n].label, d.parents = plan[n].parents
  PROVE  LET flagged == [plan EXCEPT ![n] = d]
         IN  /\ flagged \in Seq(Drafts) /\ Len(flagged) = Len(plan)
             /\ Planned(flagged) /\ Proposed(flagged) = Proposed(plan)
             /\ \A i \in 1 .. Len(plan) : flagged[i] = IF i = n THEN d ELSE plan[i]
  <1> DEFINE flagged == [plan EXCEPT ![n] = d]
  <1>1. /\ flagged \in Seq(Drafts) /\ Len(flagged) = Len(plan)
        /\ \A i \in 1 .. Len(plan) : flagged[i] = IF i = n THEN d ELSE plan[i]
    BY ExceptSeq
  <1>2. Len(plan) \in Nat /\ DOMAIN plan = 1 .. Len(plan) /\ DOMAIN flagged = 1 .. Len(plan)
    BY <1>1, LenProperties
  <1> HIDE DEF flagged
  <1>3. \A i \in 1 .. Len(plan) : /\ flagged[i].kind = plan[i].kind
                                  /\ flagged[i].label = plan[i].label
                                  /\ flagged[i].parents = plan[i].parents
    BY <1>1
  <1>4. ASSUME NEW i \in 1 .. Len(plan) PROVE Hung(flagged, i)
    <2>1. Hung(plan, i)
      BY DEF Planned
    <2>2. \A j \in plan[i].parents : flagged[j].kind = plan[j].kind
      BY <1>2, <1>3, <2>1 DEF Hung
    <2>3. {flagged[j].kind : j \in plan[i].parents} = {plan[j].kind : j \in plan[i].parents}
      BY <2>2
    <2> QED
      BY <1>3, <2>1, <2>3 DEF Hung
  <1>5. Planned(flagged)
    BY <1>1, <1>3, <1>4 DEF Planned, Sized
  <1>6. Proposed(flagged) = Proposed(plan)
    BY <1>2, <1>3 DEF Proposed
  <1> QED
    BY <1>1, <1>5, <1>6 DEF flagged

\* A request that does nothing, while the account stays as it is.
LEMMA OthersKept ==
  ASSUME NEW c \in Batch, Flags(c), Staged(c), account' = account,
         req'[c] = req[c], batch'[c] = batch[c], drafts'[c] = drafts[c]
  PROVE  Flags(c)' /\ Staged(c)'
  BY DEF Flags, Staged

\* The card at hand is flagged, in whole or by its first statement.
LEMMA CardFlagged ==
  ASSUME Inv, NEW b \in Batch, req[b].at \in {"flagging", "crowding"},
         Flagging(b, req[b].at), NEW at \in {"flagging", "crowding"}, NEW d \in Drafts,
         d.kind = Current(b).kind, d.label = Current(b).label, d.parents = Current(b).parents,
         at = "flagging" => Told(d, Proposed(req[b].plan), req[b].ever, req[b].throughout),
         at = "crowding" => /\ d.kind = "skill" /\ d.new = {d.label}
                            /\ d.label \notin req[b].throughout.categories,
         Flagged(b, d, at), UNCHANGED <<batch, drafts, account>>
  PROVE  Inv'
  <1> DEFINE r == req[b]
             n == req[b].next
             plan == req[b].plan
             flagged == [plan EXCEPT ![n] = d]
  <1>1. r \in Requests /\ plan \in Seq(Drafts) /\ n \in Nat
    BY DEF Inv, TypeInv, Requests
  <1>2. n \in 1 .. Len(plan) /\ Len(plan) \in Nat
    BY <1>1, LenProperties DEF Flagging
  <1>3. /\ flagged \in Seq(Drafts) /\ Len(flagged) = Len(plan)
        /\ Planned(flagged) /\ Proposed(flagged) = Proposed(plan)
        /\ \A i \in 1 .. Len(plan) : flagged[i] = IF i = n THEN d ELSE plan[i]
    <2>1. Planned(plan)
      BY DEF Inv, Flags
    <2> HIDE DEF plan, n
    <2>2. d.kind = plan[n].kind /\ d.label = plan[n].label /\ d.parents = plan[n].parents
      BY DEF Current, plan, n
    <2> QED
      BY <1>1, <1>2, <2>1, <2>2, PlanKept
  <1>4. /\ req'[b].plan = flagged /\ req'[b].at = at /\ req'[b] \in Requests
        /\ req'[b].ever = r.ever /\ req'[b].throughout = r.throughout
        /\ req'[b].next = IF at = "flagging" THEN n + 1 ELSE n
        /\ \A c \in Batch \ {b} : req'[c] = req[c]
        /\ req' \in [Batch -> Requests]
    <2>1. req' = [req EXCEPT ![b] = [r EXCEPT !.plan = flagged, !.at = at,
                                              !.next = IF at = "flagging" THEN n + 1 ELSE n]]
      BY <1>1 DEF Flagged, Inv, TypeInv, Requests
    <2> DEFINE upto == IF at = "flagging" THEN n + 1 ELSE n
               new == [r EXCEPT !.plan = flagged, !.at = at, !.next = upto]
    <2>2. upto \in Nat
      BY <1>1
    <2>3. req' = [req EXCEPT ![b] = new]
      BY <2>1
    <2> HIDE DEF flagged, upto, r
    <2>4. /\ new \in Requests /\ new.plan = flagged /\ new.at = at /\ new.next = upto
          /\ new.ever = r.ever /\ new.throughout = r.throughout
      BY <1>1, <1>3, <2>2 DEF Requests, Stages
    <2> HIDE DEF new
    <2>5. req \in [Batch -> Requests]
      BY DEF Inv, TypeInv
    <2>6. req'[b] = new /\ req' \in [Batch -> Requests] /\ \A c \in Batch \ {b} : req'[c] = req[c]
      BY <2>3, <2>4, <2>5
    <2> QED
      BY <2>4, <2>6 DEF upto
  <1>5. Flags(b) /\ Staged(b)
    BY DEF Inv
  <1> HIDE DEF flagged
  <1>6. Flags(b)'
    <2> DEFINE P == Proposed(plan)
               upto == IF at = "flagging" THEN n + 1 ELSE n
    <2>1. /\ Within(r.throughout, account) /\ Within(account, r.ever)
          /\ \A i \in 1 .. n - 1 : Told(plan[i], P, r.ever, r.throughout)
          /\ \A i \in n + 1 .. Len(plan) : plan[i].new = {}
      BY <1>5 DEF Flags
    <2> HIDE DEF P, plan, n
    <2>2. upto \in 1 .. Len(flagged) + 1 /\ (at = "crowding" => upto = n)
      BY <1>2, <1>3
    <2>3. \A i \in 1 .. upto - 1 : Told(flagged[i], P, r.ever, r.throughout)
      <3> SUFFICES ASSUME NEW i \in 1 .. upto - 1
                   PROVE  Told(flagged[i], P, r.ever, r.throughout)
        OBVIOUS
      <3>1. CASE i = n
        <4>1. at = "flagging" /\ flagged[i] = d
          BY <1>2, <1>3, <3>1
        <4> QED
          BY <4>1 DEF P, plan
      <3>2. CASE i # n
        <4>1. i \in 1 .. n - 1 /\ flagged[i] = plan[i]
          BY <1>2, <1>3, <3>2
        <4> QED
          BY <2>1, <4>1
      <3> QED
        BY <3>1, <3>2
    <2>4. \A i \in n + 1 .. Len(flagged) : flagged[i].new = {}
      BY <1>2, <1>3, <2>1
    <2>5. upto \in Nat /\ Len(flagged) \in Nat
      BY <1>2, <1>3
    <2>6. \A i \in upto + 1 .. Len(flagged) : flagged[i].new = {}
      BY <1>2, <2>4, <2>5
    <2>7. at = "flagging" /\ upto <= Len(flagged) => flagged[upto].new = {}
      BY <1>2, <2>4, <2>5
    <2>8. at = "crowding" =>
            /\ upto <= Len(flagged) /\ flagged[upto].kind = "skill"
            /\ flagged[upto].new = {flagged[upto].label}
            /\ flagged[upto].label \notin r.throughout.categories
      BY <1>2, <1>3, <2>2
    <2>9. req'[b].next = upto /\ account' = account /\ Proposed(flagged) = P
      BY <1>3, <1>4 DEF P
    <2> HIDE DEF upto
    <2> QED
      BY <1>3, <1>4, <2>1, <2>2, <2>3, <2>6, <2>7, <2>8, <2>9 DEF Flags
  <1>7. Staged(b)'
    BY <1>4, <1>5 DEF Staged
  <1>8. \A c \in Batch \ {b} : Flags(c)' /\ Staged(c)'
    BY <1>4, OthersKept DEF Inv
  <1> QED
    BY <1>4, <1>6, <1>7, <1>8 DEF Inv, TypeInv

-----------------------------------------------------------------------------
(* Each step keeps the invariant                                           *)

LEMMA AtHand ==
  ASSUME Inv, NEW b \in Batch, NEW at \in {"flagging", "crowding"}, Flagging(b, at)
  PROVE  /\ Current(b) \in Drafts
         /\ req[b].next \in 1 .. Len(req[b].plan)
         /\ Within(req[b].throughout, account) /\ Within(account, req[b].ever)
         /\ account \in Account
         /\ at = "flagging" => Current(b).new = {}
         /\ at = "crowding" =>
              /\ Current(b).kind = "skill" /\ Current(b).new = {Current(b).label}
              /\ Current(b).label \notin req[b].throughout.categories
  <1>1. req[b].plan \in Seq(Drafts) /\ req[b].at = at /\ account \in Account
    BY DEF Inv, TypeInv, Requests, Flagging
  <1>2. req[b].next \in 1 .. Len(req[b].plan) /\ Len(req[b].plan) \in Nat
    BY <1>1, LenProperties DEF Flagging
  <1>3. Current(b) \in Drafts
    BY <1>1, <1>2, ElementOfSeq DEF Current
  <1> QED
    BY <1>1, <1>2, <1>3 DEF Inv, Flags, Current

LEMMA FlagPreferenceInv ==
  ASSUME Inv, NEW b \in Batch, FlagPreference(b)
  PROVE  Inv'
  <1> DEFINE d == Current(b)
             found == CheckPreferenceLabel(d.label, account.labels)
             e == [d EXCEPT !.collisions = found]
  <1>1. /\ d \in Drafts /\ account \in Account /\ d.kind = "preference"
        /\ Within(req[b].throughout, account) /\ Within(account, req[b].ever)
    BY AtHand DEF FlagPreference
  <1>2. found \subseteq account.labels /\ found \in SUBSET Label
    BY <1>1 DEF CheckPreferenceLabel, Account
  <1>3. /\ Flagged(b, e, "flagging") /\ Flagging(b, "flagging") /\ req[b].at = "flagging"
        /\ UNCHANGED <<batch, drafts, account>>
    BY DEF FlagPreference, Flagging
  <1>4. {q \in req[b].throughout.labels : Collides(d.label, q)} \subseteq found
    BY <1>1 DEF CheckPreferenceLabel, Within
  <1> HIDE DEF d, found
  <1>5. /\ e \in Drafts /\ e.kind = d.kind /\ e.label = d.label /\ e.parents = d.parents
        /\ e.collisions = found
    BY <1>1, <1>2 DEF Drafts
  <1> HIDE DEF e
  <1>6. Told(e, Proposed(req[b].plan), req[b].ever, req[b].throughout)
    BY <1>1, <1>2, <1>4, <1>5 DEF Told, Within
  <1> QED
    BY <1>3, <1>5, <1>6, CardFlagged DEF d

LEMMA FlagSkillInv ==
  ASSUME Inv, NEW b \in Batch, FlagSkill(b)
  PROVE  Inv'
  <1> DEFINE d == Current(b)
             e == [d EXCEPT !.new = {d.label}]
  <1>1. /\ d \in Drafts /\ account \in Account /\ d.kind = "skill" /\ d.new = {}
        /\ Within(req[b].throughout, account) /\ Within(account, req[b].ever)
    BY AtHand DEF FlagSkill
  <1>2. /\ Flagging(b, "flagging") /\ req[b].at = "flagging" /\ UNCHANGED <<batch, drafts, account>>
        /\ IF d.label \in account.categories THEN Flagged(b, d, "flagging")
           ELSE Flagged(b, e, "crowding")
    BY DEF FlagSkill, Flagging
  <1> HIDE DEF d
  <1>3. CASE d.label \in account.categories
    <2>1. Told(d, Proposed(req[b].plan), req[b].ever, req[b].throughout)
      BY <1>1, <1>3 DEF Told, Within
    <2> QED
      BY <1>1, <1>2, <1>3, <2>1, CardFlagged DEF d
  <1>4. CASE d.label \notin account.categories
    <2>1. /\ e \in Drafts /\ e.kind = d.kind /\ e.label = d.label /\ e.parents = d.parents
          /\ e.new = {e.label}
      BY <1>1 DEF Drafts
    <2>2. e.label \notin req[b].throughout.categories
      BY <1>1, <1>4, <2>1 DEF Within
    <2> HIDE DEF e
    <2> QED
      BY <1>1, <1>2, <1>4, <2>1, <2>2, CardFlagged DEF d
  <1> QED
    BY <1>3, <1>4

LEMMA FlagCrowdInv ==
  ASSUME Inv, NEW b \in Batch, FlagCrowd(b)
  PROVE  Inv'
  <1> DEFINE d == Current(b)
             P == Proposed(req[b].plan)
             crowd == CrowdedBatchCategories(req[b].plan, account.categories)
             e == [d EXCEPT !.crowded = crowd]
  <1>1. /\ d \in Drafts /\ d.kind = "skill" /\ d.new = {d.label}
        /\ Within(account, req[b].ever) /\ d.label \notin req[b].throughout.categories
    BY AtHand DEF FlagCrowd
  <1>2. /\ Flagging(b, "crowding") /\ req[b].at = "crowding" /\ UNCHANGED <<batch, drafts, account>>
        /\ Flagged(b, e, "flagging")
    BY DEF FlagCrowd, Flagging
  <1>3. P \subseteq Label
    <2> DEFINE plan == req[b].plan
    <2>1. plan \in Seq(Drafts)
      BY DEF Inv, TypeInv, Requests
    <2> HIDE DEF plan
    <2>2. DOMAIN plan = 1 .. Len(plan)
      BY <2>1, LenProperties
    <2>3. \A i \in 1 .. Len(plan) : plan[i] \in Drafts
      BY <2>1, ElementOfSeq
    <2>4. Proposed(plan) \subseteq Label
      BY <2>2, <2>3 DEF Proposed, Drafts
    <2> QED
      BY <2>4 DEF plan
  <1>4. /\ crowd \subseteq Label
        /\ HasSharedToken(P \ account.categories) => crowd = P \ account.categories
    BY <1>3 DEF CrowdedBatchCategories, IsCrowded
  <1> HIDE DEF d, P, crowd
  <1>5. /\ e \in Drafts /\ e.kind = d.kind /\ e.label = d.label /\ e.parents = d.parents
        /\ e.new = {e.label} /\ e.crowded = crowd
    BY <1>1, <1>4 DEF Drafts
  <1> HIDE DEF e
  <1>6. HasSharedToken(P \ req[b].ever.categories) => HasSharedToken(P \ account.categories)
    BY <1>1 DEF HasSharedToken, Within
  <1>7. Told(e, P, req[b].ever, req[b].throughout)
    BY <1>1, <1>4, <1>5, <1>6 DEF Told, Within
  <1> QED
    BY <1>2, <1>5, <1>7, CardFlagged DEF d, P

LEMMA FlagNothingInv ==
  ASSUME Inv, NEW b \in Batch, FlagNothing(b)
  PROVE  Inv'
  <1> DEFINE d == Current(b)
  <1>1. d \in Drafts /\ d.kind \notin {"preference", "skill"}
    BY AtHand DEF FlagNothing
  <1>2. /\ Flagging(b, "flagging") /\ req[b].at = "flagging" /\ UNCHANGED <<batch, drafts, account>>
        /\ Flagged(b, d, "flagging")
    BY DEF FlagNothing, Flagging
  <1> HIDE DEF d
  <1>3. Told(d, Proposed(req[b].plan), req[b].ever, req[b].throughout)
    BY <1>1 DEF Told
  <1> QED
    BY <1>1, <1>2, <1>3, CardFlagged DEF d

\* The request of one batch is taken to a stage in which nothing is flagged.
LEMMA StageInv ==
  ASSUME Inv, NEW b \in Batch, NEW r \in Requests, r.at \notin {"flagging", "crowding"},
         req' = [req EXCEPT ![b] = r], account' = account,
         NEW s \in {"none", "extracting", "review", "failed"}, batch' = [batch EXCEPT ![b] = s],
         NEW p \in Seq(Drafts), drafts' = [drafts EXCEPT ![b] = p],
         Staged(b)'
  PROVE  Inv'
  <1>1. TypeInv' /\ req'[b] = r
    BY DEF Inv, TypeInv
  <1>2. Flags(b)'
    BY <1>1 DEF Flags
  <1>3. \A c \in Batch \ {b} : req'[c] = req[c] /\ batch'[c] = batch[c] /\ drafts'[c] = drafts[c]
    BY DEF Inv, TypeInv
  <1>4. \A c \in Batch \ {b} : Flags(c)' /\ Staged(c)'
    BY <1>3, OthersKept DEF Inv
  <1> QED
    BY <1>1, <1>2, <1>4 DEF Inv

\* What is known of one batch, and of what stays of it.
LEMMA OneBatch ==
  ASSUME Inv, NEW b \in Batch
  PROVE  /\ Staged(b) /\ Flags(b) /\ req[b] \in Requests /\ account \in Account
         /\ batch[b] \in {"none", "extracting", "review", "failed"} /\ drafts[b] \in Seq(Drafts)
         /\ batch = [batch EXCEPT ![b] = batch[b]] /\ drafts = [drafts EXCEPT ![b] = drafts[b]]
         /\ \A at \in Stages : /\ [req[b] EXCEPT !.at = at] \in Requests
                              /\ [req[b] EXCEPT !.at = at].at = at
                              /\ [req EXCEPT ![b].at = at]
                                   = [req EXCEPT ![b] = [req[b] EXCEPT !.at = at]]
                              /\ [Idle EXCEPT !.at = at] \in Requests
                              /\ [Idle EXCEPT !.at = at].at = at
  <1>1. /\ req \in [Batch -> Requests] /\ batch \in [Batch -> {"none", "extracting", "review", "failed"}]
        /\ drafts \in [Batch -> Seq(Drafts)] /\ account \in Account
    BY DEF Inv, TypeInv
  <1>2. AtFirst \in Account /\ <<>> \in Seq(Drafts)
    BY CareerImportAssumption, EmptySeq DEF Account
  <1>3. Idle \in Requests
    BY <1>2 DEF Idle, Requests, Stages
  <1>4. req[b] \in Requests
    BY <1>1
  <1>5. ASSUME NEW r \in Requests, NEW at \in Stages
        PROVE  [r EXCEPT !.at = at] \in Requests /\ [r EXCEPT !.at = at].at = at
    BY DEF Requests
  <1>6. \A at \in Stages : [req EXCEPT ![b].at = at] = [req EXCEPT ![b] = [req[b] EXCEPT !.at = at]]
    BY <1>1
  <1>7. batch = [batch EXCEPT ![b] = batch[b]] /\ drafts = [drafts EXCEPT ![b] = drafts[b]]
    BY <1>1
  <1> QED
    BY <1>1, <1>3, <1>4, <1>5, <1>6, <1>7 DEF Inv

LEMMA CreateInv ==
  ASSUME Inv, NEW b \in Batch, CreateImportBatch(b)
  PROVE  Inv'
  <1> DEFINE r == [req[b] EXCEPT !.at = "reading"]
  <1>1. r \in Requests /\ r.at = "reading" /\ req' = [req EXCEPT ![b] = r]
    BY OneBatch DEF CreateImportBatch, Go, Stages
  <1>2. /\ batch' = [batch EXCEPT ![b] = "extracting"] /\ drafts' = [drafts EXCEPT ![b] = drafts[b]]
        /\ account' = account /\ drafts[b] \in Seq(Drafts)
    BY OneBatch DEF CreateImportBatch
  <1>3. drafts[b] = <<>>
    BY OneBatch DEF CreateImportBatch, Staged
  <1> HIDE DEF r
  <1>4. req'[b] = r /\ batch'[b] = "extracting" /\ drafts'[b] = <<>>
    BY <1>1, <1>2, <1>3 DEF Inv, TypeInv
  <1>5. Staged(b)'
    BY <1>1, <1>4 DEF Staged
  <1> QED
    BY <1>1, <1>2, <1>5, StageInv

LEMMA CompleteInv ==
  ASSUME Inv, NEW b \in Batch, Complete(b)
  PROVE  Inv'
  <1>1. PICK x \in Extractions :
          IF Plannable(x)
          THEN req' = [req EXCEPT ![b] = [at |-> "flagging", plan |-> PlanDrafts(x), next |-> 1,
                                          ever |-> account, throughout |-> account]]
          ELSE Go(b, "failing")
    BY DEF Complete
  <1>2. /\ req[b].at = "reading" /\ account' = account /\ batch' = batch /\ drafts' = drafts
        /\ Staged(b) /\ account \in Account
    BY OneBatch DEF Complete
  <1>3. CASE Plannable(x)
    <2> DEFINE plan == PlanDrafts(x)
               r == [at |-> "flagging", plan |-> plan, next |-> 1,
                     ever |-> account, throughout |-> account]
    <2>1. plan \in Seq(Plain) /\ Planned(plan)
      BY <1>3, PlanPlanned
    <2>2. req' = [req EXCEPT ![b] = r]
      BY <1>1, <1>3
    <2> HIDE DEF plan
    <2>3. /\ Len(plan) \in Nat /\ DOMAIN plan = 1 .. Len(plan)
          /\ \A i \in 1 .. Len(plan) : plan[i] \in Plain
      BY <2>1, LenProperties, ElementOfSeq
    <2>4. plan \in Seq(Drafts)
      BY <2>1 DEF Plain
    <2>5. r \in Requests
      BY <1>2, <2>4 DEF Requests, Stages
    <2>6. /\ r.at = "flagging" /\ r.plan = plan /\ r.next = 1
          /\ r.ever = account /\ r.throughout = account
      OBVIOUS
    <2> HIDE DEF r
    <2>7. /\ TypeInv' /\ req'[b] = r /\ \A c \in Batch \ {b} : req'[c] = req[c]
      BY <1>2, <2>2, <2>5 DEF Inv, TypeInv
    <2>8. Flags(b)'
      BY <1>2, <2>1, <2>3, <2>6, <2>7 DEF Flags, Within, Plain
    <2>9. Staged(b)'
      BY <1>2, <2>6, <2>7 DEF Staged
    <2>10. \A c \in Batch \ {b} : Flags(c)' /\ Staged(c)'
      BY <1>2, <2>7, OthersKept DEF Inv
    <2> QED
      BY <2>7, <2>8, <2>9, <2>10 DEF Inv
  <1>4. CASE ~ Plannable(x)
    <2> DEFINE r == [req[b] EXCEPT !.at = "failing"]
    <2>1. r \in Requests /\ r.at = "failing" /\ req' = [req EXCEPT ![b] = r]
      BY <1>1, <1>4, OneBatch DEF Go, Stages
    <2>2. /\ batch' = [batch EXCEPT ![b] = batch[b]] /\ drafts' = [drafts EXCEPT ![b] = drafts[b]]
          /\ drafts[b] \in Seq(Drafts) /\ batch[b] \in {"none", "extracting", "review", "failed"}
      BY <1>2, OneBatch
    <2> HIDE DEF r
    <2>3. req'[b] = r
      BY <2>1 DEF Inv, TypeInv
    <2>4. Staged(b)'
      BY <1>2, <2>1, <2>3 DEF Staged
    <2> QED
      BY <1>2, <2>1, <2>2, <2>4, StageInv
  <1> QED
    BY <1>3, <1>4

\* A request that is lost or fails: its plan goes with its transaction.
LEMMA GivenUp ==
  ASSUME Inv, NEW b \in Batch, NEW at \in {"failing", "done"},
         req[b].at \in {"reading", "flagging", "crowding", "ready", "failing"},
         at = "failing" => req[b].at \in {"reading", "flagging", "crowding"},
         req' = [req EXCEPT ![b] = [Idle EXCEPT !.at = at]], UNCHANGED <<batch, drafts, account>>
  PROVE  Inv'
  <1> DEFINE r == [Idle EXCEPT !.at = at]
  <1>1. r \in Requests /\ r.at = at /\ req' = [req EXCEPT ![b] = r]
    BY OneBatch DEF Stages
  <1>2. /\ batch' = [batch EXCEPT ![b] = batch[b]] /\ drafts' = [drafts EXCEPT ![b] = drafts[b]]
        /\ batch' = batch /\ drafts' = drafts /\ account' = account
        /\ drafts[b] \in Seq(Drafts) /\ batch[b] \in {"none", "extracting", "review", "failed"}
        /\ Staged(b)
    BY OneBatch
  <1> HIDE DEF r
  <1>3. req'[b] = r
    BY <1>1 DEF Inv, TypeInv
  <1>4. Staged(b)'
    BY <1>1, <1>2, <1>3 DEF Staged
  <1> QED
    BY <1>1, <1>2, <1>4, StageInv

LEMMA ExtractFailsInv ==
  ASSUME Inv, NEW b \in Batch, ExtractFails(b)
  PROVE  Inv'
  BY GivenUp DEF ExtractFails

LEMMA LoseInv ==
  ASSUME Inv, NEW b \in Batch, Lose(b)
  PROVE  Inv'
  BY GivenUp DEF Lose

\* The drafts become visible, and the request learns of it or does not.
LEMMA StageDraftsInv ==
  ASSUME Inv, NEW b \in Batch, NEW at \in {"ready", "failing"}, StageDrafts(b, at)
  PROVE  Inv'
  <1> DEFINE r == [req[b] EXCEPT !.at = at]
             plan == req[b].plan
             n == req[b].next
  <1>0. at \in Stages
    BY DEF Stages
  <1>1. r \in Requests /\ r.at = at /\ req' = [req EXCEPT ![b] = r]
    BY <1>0, OneBatch DEF StageDrafts, Go
  <1>2. /\ r.ever = req[b].ever /\ r.throughout = req[b].throughout
        /\ plan \in Seq(Drafts) /\ n \in Nat
    BY OneBatch DEF Requests
  <1>3. /\ drafts' = [drafts EXCEPT ![b] = plan] /\ batch' = [batch EXCEPT ![b] = batch[b]]
        /\ batch' = batch /\ account' = account /\ batch[b] \in {"none", "extracting", "review", "failed"}
        /\ Staged(b) /\ Flags(b) /\ req[b].at = "flagging" /\ n \notin DOMAIN plan
    BY OneBatch DEF StageDrafts
  <1>4. /\ Planned(plan) /\ n \in 1 .. Len(plan) + 1
        /\ \A i \in 1 .. n - 1 : Told(plan[i], Proposed(plan), r.ever, r.throughout)
    BY <1>2, <1>3 DEF Flags
  <1> HIDE DEF r, plan, n
  <1>5. n = Len(plan) + 1 /\ Len(plan) \in Nat
    BY <1>2, <1>3, <1>4, LenProperties
  <1>6. req'[b] = r /\ drafts'[b] = plan
    BY <1>1, <1>3 DEF Inv, TypeInv
  <1>7. \A i \in 1 .. Len(plan) : Told(plan[i], Proposed(plan), r.ever, r.throughout)
    BY <1>4, <1>5
  <1>8. Staged(b)'
    BY <1>1, <1>3, <1>4, <1>6, <1>7 DEF Staged
  <1> QED
    BY <1>1, <1>2, <1>3, <1>8, StageInv

\* The request sets the status of its batch, and answers.
LEMMA SetStatusInv ==
  ASSUME Inv, NEW b \in Batch, NEW at \in {"ready", "failing"}, NEW status \in {"review", "failed"},
         status = "review" <=> at = "ready", SetStatus(b, at, status)
  PROVE  Inv'
  <1> DEFINE r == [req[b] EXCEPT !.at = "done"]
  <1>1. r \in Requests /\ r.at = "done" /\ req' = [req EXCEPT ![b] = r]
    BY OneBatch DEF SetStatus, Go, Stages
  <1>2. /\ batch' = [batch EXCEPT ![b] = status] /\ drafts' = [drafts EXCEPT ![b] = drafts[b]]
        /\ drafts' = drafts /\ account' = account /\ drafts[b] \in Seq(Drafts)
        /\ Staged(b) /\ req[b].at = at
    BY OneBatch DEF SetStatus
  <1> HIDE DEF r
  <1>3. req'[b] = r /\ batch'[b] = status
    BY <1>1, <1>2 DEF Inv, TypeInv
  <1>4. Staged(b)'
    BY <1>1, <1>2, <1>3 DEF Staged
  <1> QED
    BY <1>1, <1>2, <1>4, StageInv

\* A page adds or deletes a label: the account moves, and what has been there
\* at all and all the while moves with it.
LEMMA ToggleInv ==
  ASSUME Inv, NEW field \in {"labels", "categories"}, NEW label \in Label, Toggle(field, label)
  PROVE  Inv'
  <1>1. /\ account \in Account /\ req \in [Batch -> Requests]
        /\ batch' = batch /\ drafts' = drafts
        /\ account' = [account EXCEPT ![field] =
             IF label \in @ THEN @ \ {label} ELSE @ \cup {label}]
    BY DEF Inv, TypeInv, Toggle
  <1>2. account' \in Account
    BY <1>1 DEF Account
  <1>3. ASSUME NEW b \in Batch
        PROVE  req'[b] \in Requests /\ Flags(b)' /\ Staged(b)'
    <2> DEFINE r == req[b]
               ever == [r.ever EXCEPT ![field] = @ \cup account'[field]]
               throughout == [r.throughout EXCEPT ![field] = @ \cap account'[field]]
    <2>1. r \in Requests /\ Flags(b) /\ Staged(b)
      BY OneBatch
    <2>2. CASE ~ Reading(b)
      <3>1. req'[b] = req[b]
        BY <2>2 DEF Toggle
      <3> QED
        BY <1>1, <2>1, <2>2, <3>1 DEF Flags, Staged, Reading
    <2>3. CASE Reading(b)
      <3>1. req'[b] = [r EXCEPT !.ever = ever, !.throughout = throughout]
        BY <2>1, <2>3 DEF Toggle, Requests, Account
      <3>2. r.ever \in Account /\ r.throughout \in Account
        BY <2>1 DEF Requests
      <3>3. Within(r.throughout, account) /\ Within(account, r.ever)
        BY <2>1, <2>3 DEF Flags, Reading
      <3>4. /\ ever \in Account /\ throughout \in Account
            /\ Within(r.ever, ever) /\ Within(throughout, r.throughout)
            /\ Within(account', ever) /\ Within(throughout, account')
        BY <1>1, <1>2, <3>2, <3>3 DEF Account, Within
      <3> HIDE DEF ever, throughout
      <3>5. /\ req'[b] \in Requests
            /\ req'[b].at = r.at /\ req'[b].plan = r.plan /\ req'[b].next = r.next
            /\ req'[b].ever = ever /\ req'[b].throughout = throughout
        BY <2>1, <3>1, <3>4 DEF Requests
      <3> HIDE DEF r
      <3>6. \A i \in 1 .. r.next - 1 :
              Told(r.plan[i], Proposed(r.plan), r.ever, r.throughout)
                => Told(r.plan[i], Proposed(r.plan), ever, throughout)
        BY <3>4, ToldLater
      <3>7. \A i : i \notin r.throughout.categories => i \notin throughout.categories
        BY <3>4 DEF Within
      <3>8. Flags(b)'
        BY <2>1, <2>3, <3>4, <3>5, <3>6, <3>7 DEF Flags, Reading, r
      <3>9. Staged(b)'
        BY <1>1, <2>1, <2>3, <3>5 DEF Staged, Reading, r
      <3> QED
        BY <3>5, <3>8, <3>9
    <2> QED
      BY <2>2, <2>3
  <1>4. req' \in [Batch -> Requests]
    <2>1. req' = [b \in Batch |-> req'[b]]
      BY DEF Toggle
    <2> QED
      BY <1>3, <2>1
  <1> QED
    BY <1>1, <1>2, <1>3, <1>4 DEF Inv, TypeInv

LEMMA InitInv == Init => Inv
  <1> SUFFICES ASSUME Init PROVE Inv
    OBVIOUS
  <1>1. AtFirst \in Account /\ <<>> \in Seq(Drafts)
    BY CareerImportAssumption, EmptySeq DEF Account
  <1>2. Idle \in Requests /\ Idle.at = "idle"
    BY <1>1 DEF Idle, Requests, Stages
  <1>3. TypeInv
    BY <1>1, <1>2 DEF TypeInv, Init
  <1>4. ASSUME NEW b \in Batch PROVE Flags(b) /\ Staged(b)
    BY <1>2 DEF Init, Flags, Staged
  <1> QED
    BY <1>3, <1>4 DEF Inv

LEMMA NextInv == Inv /\ [Next]_vars => Inv'
  <1> SUFFICES ASSUME Inv, [Next]_vars PROVE Inv'
    OBVIOUS
  <1>1. ASSUME NEW b \in Batch, Request(b) PROVE Inv'
    <2>1. CASE Complete(b)
      BY <2>1, CompleteInv
    <2>2. CASE FlagPreference(b)
      BY <2>2, FlagPreferenceInv
    <2>3. CASE FlagSkill(b)
      BY <2>3, FlagSkillInv
    <2>4. CASE FlagCrowd(b)
      BY <2>4, FlagCrowdInv
    <2>5. CASE FlagNothing(b)
      BY <2>5, FlagNothingInv
    <2>6. CASE Commit(b)
      BY <2>6, StageDraftsInv DEF Commit
    <2>7. CASE MarkReview(b)
      BY <2>7, SetStatusInv DEF MarkReview
    <2>8. CASE MarkFailed(b)
      BY <2>8, SetStatusInv DEF MarkFailed
    <2> QED
      BY <1>1, <2>1, <2>2, <2>3, <2>4, <2>5, <2>6, <2>7, <2>8 DEF Request
  <1>2. ASSUME NEW b \in Batch, CreateImportBatch(b) PROVE Inv'
    BY <1>2, CreateInv
  <1>3. ASSUME NEW b \in Batch, ExtractFails(b) PROVE Inv'
    BY <1>3, ExtractFailsInv
  <1>4. ASSUME NEW b \in Batch, Lose(b) PROVE Inv'
    BY <1>4, LoseInv
  <1>9. ASSUME NEW b \in Batch, CommitUnreported(b) PROVE Inv'
    BY <1>9, StageDraftsInv DEF CommitUnreported
  <1>5. Edits.labels \subseteq Label /\ Edits.categories \subseteq Label
    BY CareerImportAssumption
  <1>6. CASE EditPreference
    BY <1>5, <1>6, ToggleInv DEF EditPreference
  <1>7. CASE EditCategory
    BY <1>5, <1>7, ToggleInv DEF EditCategory
  <1>8. CASE UNCHANGED vars
    <2>1. TypeInv'
      BY <1>8 DEF vars, Inv, TypeInv
    <2>2. \A b \in Batch : Flags(b)' /\ Staged(b)'
      BY <1>8, OthersKept DEF vars, Inv
    <2> QED
      BY <2>1, <2>2 DEF Inv
  <1> QED
    BY <1>1, <1>2, <1>3, <1>4, <1>6, <1>7, <1>8, <1>9 DEF Next

\* Plans stay sound while they are flagged and edits go on, each card is told
\* when its turn has come, and a batch has no drafts until its transaction
\* commits and a whole sound plan from then on, though the commit be reported as
\* an error (PlanDrafts, FlagDraft, StageDrafts, StartCareerImport).
THEOREM InvHolds == Spec => []Inv
  BY InitInv, NextInv, PTL DEF Spec

-----------------------------------------------------------------------------
(* What the runs check                                                     *)

\* A batch, in review or failed, has all the drafts of one answer or none, in
\* review it has them, and each hangs under an earlier draft of the kind the
\* review resolves it against (PlanDrafts, StageDrafts, StartCareerImport).
THEOREM StagedWholeHolds == Spec => []StagedWhole
  <1>1. Inv => StagedWhole
    <2> SUFFICES ASSUME Inv, NEW b \in Batch
                 PROVE  batch[b] = "review" \/ drafts[b] # <<>> =>
                          /\ \E x \in Extractions : Len(drafts[b]) = Size(x)
                          /\ \A i \in DOMAIN drafts[b] : Hung(drafts[b], i)
      BY DEF StagedWhole, Size, Hung
    <2>1. Staged(b) /\ drafts[b] \in Seq(Drafts)
      BY OneBatch
    <2>2. DOMAIN drafts[b] = 1 .. Len(drafts[b])
      BY <2>1, LenProperties
    <2> QED
      BY <2>1, <2>2 DEF Staged, Planned, Sized
  <1> QED
    BY <1>1, InvHolds, PTL

LEMMA RunOfItself ==
  ASSUME NEW p \in Label, p # <<>>
  PROVE  ContainsRun(p, p)
  <1>1. Len(p) \in Nat /\ p \in Seq(Word)
    BY LenProperties DEF Label
  <1>2. 0 \in 0 .. Len(p) - Len(p) /\ SubSeq(p, 0 + 1, 0 + Len(p)) = p
    BY <1>1, SubSeqFull
  <1> QED
    BY <1>2 DEF ContainsRun

\* Where one label of a posting brings the other, a run of the one is in the other.
LEMMA EntailedCollides ==
  ASSUME NEW p \in Label \ {<<>>}, NEW q \in Label \ {<<>>}, NEW fields, p \in fields, q \in fields,
         Entails(p, q, fields)
  PROVE  Collides(p, q)
  BY RunOfItself DEF Entails, Collides

\* When the drafts of a batch can be seen its cards say what the account gives
\* reason to look at, however it was edited while they were flagged (CheckPreferenceLabel,
\* crowdedBatchCategories, FlagDraft).
THEOREM FlagsTellHolds == Spec => []FlagsTell
  <1>1. ASSUME Inv PROVE FlagsTell
    <2> SUFFICES ASSUME NEW b \in Batch, req[b].at \in {"ready", "failing"},
                        NEW i \in DOMAIN drafts[b]
                 PROVE
      LET ever == req[b].ever
          throughout == req[b].throughout
          fresh == Proposed(drafts[b]) \ ever.categories
          fields == throughout.labels \cup {drafts[b][j].label : j \in DOMAIN drafts[b]}
          d == drafts[b][i]
      IN  /\ d.kind = "preference" =>
               {q \in throughout.labels \ {<<>>} : Entails(d.label, q, fields)} \subseteq d.collisions
          /\ d.kind = "skill" =>
               /\ d.label \in fresh => d.new = {d.label}
               /\ d.label \in fresh /\ HasSharedToken(fresh) => fresh \subseteq d.crowded
               /\ d.new \cap throughout.categories = {}
      BY DEF FlagsTell
    <2> DEFINE plan == drafts[b]
               d == plan[i]
               fields == req[b].throughout.labels \cup {plan[j].label : j \in DOMAIN plan}
    <2>1. /\ Staged(b) /\ plan \in Seq(Drafts) /\ req[b].throughout \in Account
      BY <1>1, OneBatch DEF Requests
    <2>2. i \in 1 .. Len(plan) /\ d \in Drafts
      BY <2>1, LenProperties, ElementOfSeq
    <2>3. /\ Told(d, Proposed(plan), req[b].ever, req[b].throughout)
          /\ d.kind = "preference" => d.label # <<>>
      BY <2>1, <2>2 DEF Staged, Planned
    <2>4. d.label \in Label /\ d.label \in fields
      BY <2>2 DEF Drafts
    <2>5. req[b].throughout.labels \subseteq Label /\ req[b].throughout.labels \subseteq fields
      BY <2>1 DEF Account
    <2> HIDE DEF fields
    <2>6. \A q \in req[b].throughout.labels \ {<<>>} :
            d.kind = "preference" /\ Entails(d.label, q, fields) => Collides(d.label, q)
      BY <2>3, <2>4, <2>5, EntailedCollides
    <2> QED
      BY <2>3, <2>6 DEF Told, fields
  <1> QED
    BY <1>1, InvHolds, PTL

=============================================================================
