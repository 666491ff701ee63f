---------------------------- MODULE FitScoreProofs ----------------------------
(***************************************************************************)
(* Proofs about FitScore, for any words, skills, vocabulary, bands and     *)
(* postings.                                                               *)
(*                                                                         *)
(* A score is the size of a set of halves, so it grows when each entry's   *)
(* credit does (CreditsGrow). A row more leaves every entry that was       *)
(* answered answered (EvidenceGrows); a deeper level leaves the evidence   *)
(* the same rows (SameEvidence) and the strongest of them no weaker.       *)
(***************************************************************************)
EXTENDS FitScore, FiniteSetTheorems, FunctionTheorems, WellFoundedInduction,
        SequenceTheorems, TLAPS

TypeOK == posting \in Postings /\ depth \in [Skill -> Levels \cup {Unknown}]

THEOREM TypesHold == Spec => []TypeOK
  <1>1. Init => TypeOK
    BY DEF Init, TypeOK
  <1>2. TypeOK /\ [Next]_vars => TypeOK'
    BY DEF TypeOK, Next, vars, Create, Update, Delete
  <1> QED
    BY <1>1, <1>2, PTL DEF Spec

-----------------------------------------------------------------------------
(* The least and the greatest of a set of numbers                          *)

\* Of some numbers one is the least, and Min is it.
LEMMA Least ==
  ASSUME NEW S \in SUBSET Nat, S # {}
  PROVE  /\ \E i \in S : \A j \in S : i <= j
         /\ Min(S) \in S
         /\ \A j \in S : Min(S) <= j
  <1>1. PICK i \in S : \A j \in S : ~ (<<j, i>> \in OpToRel(<, Nat))
    BY NatLessThanWellFounded, WFMin, Zenon
  <1>2. \A j \in S : ~ (j < i)
    BY <1>1, Zenon DEF OpToRel
  <1>3. \A j \in S : i <= j
    BY <1>2
  <1> QED
    BY <1>3 DEF Min

\* Of finitely many numbers one is the greatest, and Max is it.
LEMMA Greatest ==
  ASSUME NEW S \in SUBSET Nat, S # {}, IsFiniteSet(S)
  PROVE  /\ Max(S) \in S
         /\ \A j \in S : j <= Max(S)
  <1> DEFINE Bounded(T) == \E i \in T : \A j \in T : j <= i
             Sizes == {n \in Nat : \E T \in SUBSET Nat :
                         IsFiniteSet(T) /\ T # {} /\ Cardinality(T) = n /\ ~ Bounded(T)}
  <1>1. Sizes = {}
    <2> SUFFICES ASSUME Sizes # {} PROVE FALSE
      OBVIOUS
    <2>1. PICK n \in Sizes : \A m \in Sizes : n <= m
      BY Least
    <2>2. PICK T \in SUBSET Nat :
            IsFiniteSet(T) /\ T # {} /\ Cardinality(T) = n /\ ~ Bounded(T)
      BY <2>1
    <2>3. PICK x \in T : TRUE
      BY <2>2
    <2> DEFINE U == T \ {x}
    <2>4. IsFiniteSet(U) /\ Cardinality(U) = n - 1
      BY <2>2, <2>3, FS_RemoveElement
    <2>5. U # {} /\ U \in SUBSET Nat
      BY <2>2, <2>3
    <2>6. n - 1 \in Nat
      BY <2>4, FS_CardinalityType
    <2>7. Bounded(U)
      <3>1. n - 1 \notin Sizes
        BY <2>1, <2>6
      <3> QED
        BY <2>4, <2>5, <2>6, <3>1
    <2>8. PICK i \in U : \A j \in U : j <= i
      BY <2>7
    <2>9. \A j \in T : j <= IF i <= x THEN x ELSE i
      BY <2>3, <2>8
    <2> QED
      BY <2>2, <2>3, <2>8, <2>9
  <1>2. Cardinality(S) \in Nat
    BY FS_CardinalityType
  <1>3. Bounded(S)
    BY <1>1, <1>2
  <1> QED
    BY <1>3 DEF Max

-----------------------------------------------------------------------------
(* Levels                                                                  *)

Ranks == {0} \cup {Bands[i].rank : i \in DOMAIN Bands}

LEMMA BandsAreRows ==
  /\ DOMAIN Bands = 1 .. Len(Bands) /\ Len(Bands) \in Nat
  /\ \A i \in DOMAIN Bands : Bands[i].rank \in Nat \ {0}
  <1>1. Bands \in Seq([value : STRING, rank : Nat \ {0}, aliases : SUBSET STRING])
    BY ScoreAssumption
  <1>2. DOMAIN Bands = 1 .. Len(Bands) /\ Len(Bands) \in Nat
    BY <1>1, LenProperties
  <1>3. ASSUME NEW i \in DOMAIN Bands PROVE Bands[i].rank \in Nat \ {0}
    <2>1. Bands[i] \in [value : STRING, rank : Nat \ {0}, aliases : SUBSET STRING]
      BY <1>1, <1>2, ElementOfSeq, Zenon
    <2> QED
      BY <2>1
  <1> QED
    BY <1>2, <1>3

\* Bands have finitely many ranks, and every level has one or ranks 0.
LEMMA RankIsARank ==
  /\ IsFiniteSet(Ranks) /\ Ranks \subseteq Nat
  /\ \A level : Rank(level) \in Ranks
  /\ Rank(Unknown) = 0
  <1>1. IsFiniteSet(Ranks)
    <2> DEFINE rank == [i \in DOMAIN Bands |-> Bands[i].rank]
               R    == {Bands[i].rank : i \in DOMAIN Bands}
    <2>1. rank \in Surjection(DOMAIN Bands, R)
      <3>1. rank \in [DOMAIN Bands -> R] /\ \A r \in R : \E i \in DOMAIN Bands : rank[i] = r
        OBVIOUS
      <3> QED
        BY <3>1, Fun_IsSurj
    <2>2. IsFiniteSet(DOMAIN Bands)
      BY BandsAreRows, FS_Interval
    <2>3. IsFiniteSet(R)
      BY <2>1, <2>2, FS_Surjection
    <2> HIDE DEF R
    <2>4. IsFiniteSet(R \cup {0}) /\ R \cup {0} = {0} \cup R
      BY <2>3, FS_AddElement
    <2> QED
      BY <2>4 DEF Ranks, R
  <1>2. Ranks \subseteq Nat
    BY BandsAreRows DEF Ranks
  <1>3. ASSUME NEW level PROVE Rank(level) \in Ranks
    <2> DEFINE named   == {i \in DOMAIN Bands : Bands[i].value = level}
               aliased == {i \in DOMAIN Bands : level \in Bands[i].aliases}
    <2>1. \A S \in SUBSET DOMAIN Bands : S # {} => Max(S) \in S
      <3> SUFFICES ASSUME NEW S \in SUBSET DOMAIN Bands, S # {} PROVE Max(S) \in S
        OBVIOUS
      <3>1. IsFiniteSet(DOMAIN Bands) /\ DOMAIN Bands \subseteq Nat
        BY BandsAreRows, FS_Interval
      <3>2. IsFiniteSet(S) /\ S \in SUBSET Nat
        BY <3>1, FS_Subset
      <3> QED
        BY <3>2, Greatest
    <2>2. named # {} => Max(named) \in DOMAIN Bands
      BY <2>1
    <2>3. aliased # {} => Max(aliased) \in DOMAIN Bands
      BY <2>1
    <2>4. Rank(level) = CASE named # {}   -> Bands[Max(named)].rank
                          [] named = {} /\ aliased # {} -> Bands[Max(aliased)].rank
                          [] OTHER -> 0
      BY DEF Rank, RankOf
    <2>5. CASE named # {}
      <3> HIDE DEF aliased, named
      <3>1. Rank(level) = Bands[Max(named)].rank
        BY <2>4, <2>5
      <3> QED
        BY <2>2, <2>5, <3>1 DEF Ranks
    <2>6. CASE named = {} /\ aliased # {}
      <3> HIDE DEF aliased, named
      <3>1. Rank(level) = Bands[Max(aliased)].rank
        BY <2>4, <2>6
      <3> QED
        BY <2>3, <2>6, <3>1 DEF Ranks
    <2>7. CASE named = {} /\ aliased = {}
      <3> HIDE DEF aliased, named
      <3>1. Rank(level) = 0
        BY <2>4, <2>7
      <3> QED
        BY <3>1 DEF Ranks
    <2> QED
      BY <2>5, <2>6, <2>7
  <1>4. Rank(Unknown) = 0
    BY ScoreAssumption DEF Rank, RankOf
  <1> QED
    BY <1>1, <1>2, <1>3, <1>4

\* StrongestProficiency is that of one of the skills, and of none less.
LEMMA Strongest ==
  ASSUME NEW E
  PROVE  /\ StrongestProficiency(E) \in Nat
         /\ \A t \in E : Rank(t.proficiency) <= StrongestProficiency(E)
         /\ E # {} => \E t \in E : StrongestProficiency(E) = Rank(t.proficiency)
  <1> DEFINE R == {Rank(t.proficiency) : t \in E}
  <1>1. R \subseteq Ranks
    BY RankIsARank
  <1>2. IsFiniteSet(R) /\ R \in SUBSET Nat
    BY <1>1, RankIsARank, FS_Subset
  <1>3. CASE E = {}
    BY <1>3 DEF StrongestProficiency
  <1>4. CASE E # {}
    <2>1. R # {} /\ StrongestProficiency(E) = Max(R)
      BY <1>4 DEF StrongestProficiency
    <2>2. Max(R) \in R /\ \A r \in R : r <= Max(R)
      BY <1>2, <2>1, Greatest
    <2> HIDE DEF R
    <2>3. \A t \in E : Rank(t.proficiency) \in R
      BY DEF R
    <2>4. \E t \in E : Max(R) = Rank(t.proficiency)
      BY <2>2 DEF R
    <2> QED
      BY <1>2, <2>1, <2>2, <2>3, <2>4
  <1> QED
    BY <1>3, <1>4

-----------------------------------------------------------------------------
(* Evidence                                                                *)

Placed(rows) == \A r \in rows : r.at \in Nat

\* The alternatives of an entry that some row's category answers.
Hits(rows, entry) == {a \in DOMAIN entry : entry[a] # <<>> /\ CategoryHits(rows, entry[a]) # {}}

LEMMA EntryIsASeq ==
  ASSUME NEW entry \in Entry
  PROVE  DOMAIN entry = 1 .. Len(entry) /\ Len(entry) \in Nat
  BY LenProperties DEF Entry

\* The first row of some is one of them, and none is listed before it.
LEMMA FirstIsOne ==
  ASSUME NEW H, H # {}, Placed(H)
  PROVE  FirstOf(H) \in H /\ \A t \in H : FirstOf(H).at <= t.at
  <1> DEFINE P == {r.at : r \in H}
  <1>1. P \in SUBSET Nat /\ P # {}
    BY DEF Placed
  <1>2. PICK i \in P : \A j \in P : i <= j
    BY <1>1, Least
  <1>3. PICK r \in H : r.at = i
    BY <1>2
  <1>4. \A t \in H : r.at <= t.at
    BY <1>2, <1>3
  <1> QED
    BY <1>3, <1>4 DEF FirstOf

\* The search of the category rung ends at a row that answers, if one does.
LEMMA RungFound ==
  ASSUME NEW rows, Placed(rows), NEW entry \in Entry, Hits(rows, entry) # {}
  PROVE  LET alt   == entry[Min(Hits(rows, entry))]
             first == FirstOf(CategoryHits(rows, alt))
         IN  /\ Min(Hits(rows, entry)) \in Hits(rows, entry)
             /\ first \in CategoryHits(rows, alt) /\ first \in rows
             /\ \A t \in CategoryHits(rows, alt) : first.at <= t.at
             /\ ByCategory(rows, entry) = {r \in rows : r.category = first.category}
  <1> DEFINE H   == Hits(rows, entry)
             alt == entry[Min(H)]
             C   == CategoryHits(rows, alt)
  <1>1. H \in SUBSET Nat
    BY EntryIsASeq DEF Hits
  <1>2. Min(H) \in H
    BY <1>1, Least
  <1>3. C # {} /\ C \subseteq rows
    BY <1>2 DEF Hits, CategoryHits
  <1>4. FirstOf(C) \in C /\ \A t \in C : FirstOf(C).at <= t.at
    BY <1>3, FirstIsOne DEF Placed
  <1>5. ByCategory(rows, entry) = {r \in rows : r.category = FirstOf(C).category}
    BY DEF ByCategory, Hits
  <1> QED
    BY <1>2, <1>3, <1>4, <1>5

LEMMA NoHitNoRung ==
  ASSUME NEW rows, NEW entry, Hits(rows, entry) = {}
  PROVE  ByCategory(rows, entry) = {}
  BY DEF ByCategory, Hits

\* What the rungs come to, stated as conditions that exclude each other.
LEMMA Rungs ==
  ASSUME NEW rows, NEW entry
  PROVE  /\ ByName(rows, entry) # {} => Evidence(rows, entry) = ByName(rows, entry)
         /\ ByName(rows, entry) = {} /\ ByAlias(rows, entry) # {} =>
              Evidence(rows, entry) = ByAlias(rows, entry)
         /\ ByName(rows, entry) = {} /\ ByAlias(rows, entry) = {} =>
              Evidence(rows, entry) = ByCategory(rows, entry)
  <1> DEFINE N == ByName(rows, entry)
             A == ByAlias(rows, entry)
             C == ByCategory(rows, entry)
  <1>1. Evidence(rows, entry) =
          CASE N # {} -> N [] N = {} /\ A # {} -> A [] OTHER -> C
    BY DEF Evidence
  <1> HIDE DEF N, A, C
  <1>2. /\ N # {} => Evidence(rows, entry) = N
        /\ N = {} /\ A # {} => Evidence(rows, entry) = A
        /\ N = {} /\ A = {} => Evidence(rows, entry) = C
    BY <1>1
  <1> QED
    BY <1>2 DEF N, A, C

\* Rows more leave no entry unanswered that was answered.
LEMMA EvidenceGrows ==
  ASSUME NEW rows, NEW more, rows \subseteq more, Placed(more),
         NEW entry \in Entry, Evidence(rows, entry) # {}
  PROVE  Evidence(more, entry) # {}
  <1>1. Placed(rows)
    BY DEF Placed
  <1>2. ByName(rows, entry) \subseteq ByName(more, entry)
    BY DEF ByName
  <1>3. ByAlias(rows, entry) \subseteq ByAlias(more, entry)
    BY DEF ByAlias
  <1>4. CASE ByName(more, entry) # {} \/ ByAlias(more, entry) # {}
    BY <1>4, Rungs
  <1>5. CASE ByName(more, entry) = {} /\ ByAlias(more, entry) = {}
    <2>1. Evidence(rows, entry) = ByCategory(rows, entry)
          /\ Evidence(more, entry) = ByCategory(more, entry)
      BY <1>2, <1>3, <1>5, Rungs
    <2>2. Hits(rows, entry) # {}
      BY <2>1, NoHitNoRung
    <2>3. Hits(rows, entry) \subseteq Hits(more, entry)
      BY DEF Hits, CategoryHits
    <2>4. PICK first \in more : ByCategory(more, entry) = {r \in more : r.category = first.category}
      BY <2>2, <2>3, RungFound
    <2> QED
      BY <2>1, <2>4
  <1> QED
    BY <1>4, <1>5

-----------------------------------------------------------------------------
(* Credit                                                                  *)

LEMMA CreditIs ==
  ASSUME NEW p, NEW rows, NEW entry
  PROVE  LET evidence == Evidence(rows, entry)
             wanted   == Rank(RequiredLevel(entry, p.stated))
         IN  /\ Credit(p, rows, entry) \in 0 .. 2
             /\ evidence = {} => Credit(p, rows, entry) = 0
             /\ evidence # {} /\ StrongestProficiency(evidence) >= wanted =>
                  Credit(p, rows, entry) = 2
             /\ evidence # {} /\ ~ (StrongestProficiency(evidence) >= wanted) =>
                  Credit(p, rows, entry) = 1
  <1> DEFINE E    == Evidence(rows, entry)
             met  == StrongestProficiency(E) >= Rank(RequiredLevel(entry, p.stated))
  <1>1. Credit(p, rows, entry) = CASE E = {} -> 0 [] E # {} /\ met -> 2 [] OTHER -> 1
    BY DEF Credit
  <1> HIDE DEF E, met
  <1>2. /\ Credit(p, rows, entry) \in 0 .. 2
        /\ E = {} => Credit(p, rows, entry) = 0
        /\ E # {} /\ met => Credit(p, rows, entry) = 2
        /\ E # {} /\ ~ met => Credit(p, rows, entry) = 1
    BY <1>1
  <1> QED
    BY <1>2 DEF E, met

\* With more credit for each entry more halves are earned.
LEMMA HalvesGrow ==
  ASSUME NEW p, NEW rows, NEW more, NEW entries, NEW places, IsFiniteSet(places),
         \A i \in places : Credit(p, rows, entries[i]) <= Credit(p, more, entries[i])
  PROVE  /\ Cardinality(Halves(p, rows, entries, places)) \in Nat
         /\ Cardinality(Halves(p, more, entries, places)) \in Nat
         /\ Cardinality(Halves(p, rows, entries, places))
              <= Cardinality(Halves(p, more, entries, places))
  <1> DEFINE few  == Halves(p, rows, entries, places)
             many == Halves(p, more, entries, places)
  <1>1. few \subseteq many
    <2> SUFFICES ASSUME NEW x \in few PROVE x \in many
      OBVIOUS
    <2>1. x \in places \X {1, 2} /\ x[2] <= Credit(p, rows, entries[x[1]])
      BY DEF Halves
    <2>2. x[1] \in places /\ x[2] \in Nat
      BY <2>1
    <2>3. Credit(p, rows, entries[x[1]]) \in Nat /\ Credit(p, more, entries[x[1]]) \in Nat
      BY CreditIs
    <2>4. Credit(p, rows, entries[x[1]]) <= Credit(p, more, entries[x[1]])
      BY <2>2
    <2>5. x[2] <= Credit(p, more, entries[x[1]])
      BY <2>1, <2>2, <2>3, <2>4
    <2> QED
      BY <2>1, <2>5 DEF Halves
  <1>2. IsFiniteSet({1, 2})
    <2>1. IsFiniteSet({1}) /\ {1} \cup {2} = {1, 2}
      BY FS_Singleton
    <2> QED
      BY <2>1, FS_AddElement
  <1>3. IsFiniteSet(places \X {1, 2})
    BY <1>2, FS_Product
  <1>4. IsFiniteSet(many)
    BY <1>3, FS_Subset DEF Halves
  <1>5. IsFiniteSet(few)
    BY <1>1, <1>4, FS_Subset
  <1> QED
    BY <1>1, <1>4, <1>5, FS_Subset, FS_CardinalityType

\* A posting's lists, and the places of the entries that score.
LEMMA PostingIs ==
  ASSUME NEW p \in JDSignals
  PROVE  \A list \in {p.required, p.preferred, p.competencies} :
           /\ DOMAIN list = 1 .. Len(list) /\ Len(list) \in Nat
           /\ IsFiniteSet(DOMAIN list)
           /\ \A i \in DOMAIN list : list[i] \in Entry
  <1> SUFFICES ASSUME NEW list \in Seq(Entry)
               PROVE  /\ DOMAIN list = 1 .. Len(list) /\ Len(list) \in Nat
                      /\ IsFiniteSet(DOMAIN list)
                      /\ \A i \in DOMAIN list : list[i] \in Entry
    BY DEF JDSignals
  <1>1. DOMAIN list = 1 .. Len(list) /\ Len(list) \in Nat
    BY LenProperties
  <1>2. IsFiniteSet(DOMAIN list)
    BY <1>1, FS_Interval
  <1>3. \A i \in DOMAIN list : list[i] \in Entry
    BY <1>1, ElementOfSeq
  <1> QED
    BY <1>1, <1>2, <1>3

\* A score grows with the credits.
LEMMA CreditsGrow ==
  ASSUME NEW p \in JDSignals, NEW rows, NEW more,
         \A e \in Entry : Credit(p, rows, e) <= Credit(p, more, e)
  PROVE  Earned(p, more) >= Earned(p, rows)
  <1>1. IsFiniteSet(DedupeCompetencies(p))
    BY PostingIs, FS_Subset DEF DedupeCompetencies
  <1> DEFINE few(entries, places)  == Cardinality(Halves(p, rows, entries, places))
             many(entries, places) == Cardinality(Halves(p, more, entries, places))
  <1>2. /\ few(p.required, DOMAIN p.required) \in Nat
        /\ many(p.required, DOMAIN p.required) \in Nat
        /\ few(p.required, DOMAIN p.required) <= many(p.required, DOMAIN p.required)
    <2>1. IsFiniteSet(DOMAIN p.required) /\ \A i \in DOMAIN p.required : p.required[i] \in Entry
      BY PostingIs
    <2> QED
      BY <2>1, HalvesGrow
  <1>3. /\ few(p.preferred, DOMAIN p.preferred) \in Nat
        /\ many(p.preferred, DOMAIN p.preferred) \in Nat
        /\ few(p.preferred, DOMAIN p.preferred) <= many(p.preferred, DOMAIN p.preferred)
    <2>1. IsFiniteSet(DOMAIN p.preferred) /\ \A i \in DOMAIN p.preferred : p.preferred[i] \in Entry
      BY PostingIs
    <2> QED
      BY <2>1, HalvesGrow
  <1>4. /\ few(p.competencies, DedupeCompetencies(p)) \in Nat
        /\ many(p.competencies, DedupeCompetencies(p)) \in Nat
        /\ few(p.competencies, DedupeCompetencies(p)) <= many(p.competencies, DedupeCompetencies(p))
    <2>1. \A i \in DedupeCompetencies(p) : p.competencies[i] \in Entry
      BY PostingIs DEF DedupeCompetencies
    <2> QED
      BY <1>1, <2>1, HalvesGrow
  <1>5. Earned(p, rows) = 2 * few(p.required, DOMAIN p.required)
                          + few(p.preferred, DOMAIN p.preferred)
                          + few(p.competencies, DedupeCompetencies(p))
        /\ Earned(p, more) = 2 * many(p.required, DOMAIN p.required)
                             + many(p.preferred, DOMAIN p.preferred)
                             + many(p.competencies, DedupeCompetencies(p))
    BY DEF Earned
  <1> HIDE DEF few, many
  <1> QED
    BY <1>2, <1>3, <1>4, <1>5

-----------------------------------------------------------------------------
(* The profile grows and deepens                                           *)

RowAt(o, d, i) ==
  [at |-> i, name |-> o[i].name, aliases |-> o[i].aliases,
   category |-> o[i].category, proficiency |-> d[o[i]]]

LEMMA OrderIsASeq ==
  ASSUME NEW o \in Orders
  PROVE  DOMAIN o \subseteq Nat /\ \A i \in DOMAIN o : o[i] \in Skill
  <1>1. o \in Seq(Skill)
    BY ScoreAssumption
  <1> QED
    BY <1>1, LenProperties, ElementOfSeq

LEMMA ListedRows ==
  ASSUME NEW o \in Orders, NEW d
  PROVE  /\ Listed(o, d) = {RowAt(o, d, i) : i \in {i \in DOMAIN o : d[o[i]] # Unknown}}
         /\ Placed(Listed(o, d))
  BY OrderIsASeq DEF Listed, RowAt, Placed

\* MoreSkillsNeverHurt: a created skill opens no gap and, where no depth is
\* stated, lowers no score (satisfies, ScoreCapabilityFit).
THEOREM MoreSkillsNeverHurtHolds == Spec => []MoreSkillsNeverHurt
  <1>1. ASSUME TypeOK PROVE MoreSkillsNeverHurt
    <2> SUFFICES ASSUME NEW s \in Skill \ Active, NEW l \in Levels, NEW o \in Orders
                 PROVE  LET rows == Listed(o, depth)
                            more == Listed(o, [depth EXCEPT ![s] = l])
                        IN  /\ Gaps(posting, more) \subseteq Gaps(posting, rows)
                            /\ Earned(Unlevelled(posting), more)
                                 >= Earned(Unlevelled(posting), rows)
      BY DEF MoreSkillsNeverHurt
    <2> DEFINE d    == [depth EXCEPT ![s] = l]
               rows == Listed(o, depth)
               more == Listed(o, d)
               p    == Unlevelled(posting)
    <2>1. posting \in JDSignals
      BY <1>1, ScoreAssumption DEF TypeOK
    <2>2. p \in JDSignals /\ p.stated = <<>>
      <3> DEFINE Stated == Seq([requirement : Entry, level : STRING])
      <3>1. <<>> \in Stated
        BY EmptySeq
      <3> HIDE DEF Stated
      <3>2. posting \in [required : Seq(Entry), preferred : Seq(Entry), competencies : Seq(Entry),
                          stated : Stated, practice : Seq(Entry),
                          industry : Phrase, arrangement : Phrase, culture : SUBSET Phrase]
        BY <2>1 DEF JDSignals, Stated
      <3>3. p \in [required : Seq(Entry), preferred : Seq(Entry), competencies : Seq(Entry),
                    stated : Stated, practice : Seq(Entry),
                    industry : Phrase, arrangement : Phrase, culture : SUBSET Phrase]
            /\ p.stated = <<>>
        BY <3>1, <3>2 DEF Unlevelled
      <3> QED
        BY <3>3 DEF JDSignals, Stated
    <2>3. rows \subseteq more
      <3>1. depth[s] = Unknown
        BY DEF Active
      <3>2. \A i \in DOMAIN o : depth[o[i]] # Unknown => d[o[i]] = depth[o[i]]
        BY <1>1, <3>1, OrderIsASeq DEF TypeOK
      <3> HIDE DEF d
      <3>3. \A i \in DOMAIN o :
              depth[o[i]] # Unknown => d[o[i]] # Unknown /\ RowAt(o, d, i) = RowAt(o, depth, i)
        BY <3>2 DEF RowAt
      <3> QED
        BY <3>3, ListedRows
    <2>4. Placed(more)
      BY ListedRows
    <2> HIDE DEF d, rows, more, p
    <2>5. \A e \in Entry : Evidence(rows, e) # {} => Evidence(more, e) # {}
      BY <2>3, <2>4, EvidenceGrows
    <2>6. Gaps(posting, more) \subseteq Gaps(posting, rows)
      <3>1. \A e \in ToSet(posting.required) : e \in Entry
        BY <2>1, PostingIs DEF ToSet
      <3> QED
        BY <2>5, <3>1 DEF Gaps
    <2>7. \A e \in Entry : Credit(p, rows, e) <= Credit(p, more, e)
      <3> SUFFICES ASSUME NEW e \in Entry PROVE Credit(p, rows, e) <= Credit(p, more, e)
        OBVIOUS
      <3>1. Rank(RequiredLevel(e, p.stated)) = 0
        <4>1. RequiredLevel(e, <<>>) = Unknown
          BY DEF RequiredLevel
        <4> QED
          BY <2>2, <4>1, RankIsARank
      <3>2. \A E : StrongestProficiency(E) >= 0
        BY Strongest
      <3>3. CASE Evidence(rows, e) = {}
        BY <3>3, CreditIs
      <3>4. CASE Evidence(rows, e) # {}
        <4>1. Credit(p, rows, e) = 2
          BY <3>1, <3>2, <3>4, CreditIs
        <4>2. Credit(p, more, e) = 2
          BY <2>5, <3>1, <3>2, <3>4, CreditIs
        <4> QED
          BY <4>1, <4>2
      <3> QED
        BY <3>3, <3>4
    <2>8. Earned(p, more) >= Earned(p, rows)
      BY <2>2, <2>7, CreditsGrow
    <2> QED
      BY <2>6, <2>8 DEF d, rows, more, p
  <1> QED
    BY <1>1, TypesHold, PTL

\* Two rows that differ at most in their proficiency.
Alike(r, t) ==
  r.at = t.at /\ r.name = t.name /\ r.aliases = t.aliases /\ r.category = t.category

\* The same listing, no row of it less deep.
Deepened(rows, deep) ==
  /\ Placed(rows) /\ Placed(deep)
  /\ \A r, t \in rows : r.at = t.at => r = t
  /\ \A r \in rows : \E t \in deep : Alike(r, t) /\ Rank(r.proficiency) <= Rank(t.proficiency)
  /\ \A t \in deep : \E r \in rows : Alike(r, t)

LEMMA ListingDeepens ==
  ASSUME TypeOK, NEW s \in Active, NEW l \in Levels, NEW o \in Orders,
         Rank(l) > Rank(depth[s])
  PROVE  Deepened(Listed(o, depth), Listed(o, [depth EXCEPT ![s] = l]))
  <1> DEFINE d == [depth EXCEPT ![s] = l]
  <1>1. s \in Skill /\ depth[s] # Unknown /\ l # Unknown
    BY ScoreAssumption DEF Active, Levels
  <1>2. d[s] = l /\ \A k \in Skill : k # s => d[k] = depth[k]
    BY <1>1 DEF TypeOK
  <1>3. \A i \in DOMAIN o : d[o[i]] # Unknown <=> depth[o[i]] # Unknown
    BY <1>1, <1>2, OrderIsASeq
  <1>4. \A i \in DOMAIN o : Rank(depth[o[i]]) <= Rank(d[o[i]])
    <2>1. \A level : Rank(level) \in Nat
      BY RankIsARank
    <2> QED
      BY <1>2, <2>1, OrderIsASeq
  <1> HIDE DEF d
  <1>5. \A i : Alike(RowAt(o, depth, i), RowAt(o, d, i))
    BY DEF Alike, RowAt
  <1>6. /\ \A i : RowAt(o, depth, i).at = i
        /\ \A i : RowAt(o, depth, i).proficiency = depth[o[i]]
        /\ \A i : RowAt(o, d, i).proficiency = d[o[i]]
    BY DEF RowAt
  <1>7. \A r, t \in Listed(o, depth) : r.at = t.at => r = t
    BY <1>6, ListedRows
  <1>8. \A r \in Listed(o, depth) :
          \E t \in Listed(o, d) : Alike(r, t) /\ Rank(r.proficiency) <= Rank(t.proficiency)
    <2> SUFFICES ASSUME NEW i \in DOMAIN o, depth[o[i]] # Unknown
                 PROVE  \E t \in Listed(o, d) :
                          /\ Alike(RowAt(o, depth, i), t)
                          /\ Rank(RowAt(o, depth, i).proficiency) <= Rank(t.proficiency)
      BY ListedRows
    <2>1. RowAt(o, d, i) \in Listed(o, d)
      BY <1>3, ListedRows
    <2> QED
      BY <1>4, <1>5, <1>6, <2>1
  <1>9. \A t \in Listed(o, d) : \E r \in Listed(o, depth) : Alike(r, t)
    BY <1>3, <1>5, ListedRows
  <1>10. Placed(Listed(o, depth)) /\ Placed(Listed(o, d))
    BY ListedRows
  <1> QED
    BY <1>7, <1>8, <1>9, <1>10 DEF Deepened, d

\* A deeper profile answers an entry with the same rows.
LEMMA SameEvidence ==
  ASSUME NEW rows, NEW deep, Deepened(rows, deep), NEW entry \in Entry
  PROVE  /\ \A r \in Evidence(rows, entry) :
              \E t \in Evidence(deep, entry) : Rank(r.proficiency) <= Rank(t.proficiency)
         /\ Evidence(deep, entry) # {} => Evidence(rows, entry) # {}
  <1> DEFINE Over(S, T) ==
               /\ \A r \in S : \E t \in T : Alike(r, t) /\ Rank(r.proficiency) <= Rank(t.proficiency)
               /\ \A t \in T : \E r \in S : Alike(r, t)
  <1>1. Over(rows, deep)
    BY DEF Deepened
  <1>2. Over(ByName(rows, entry), ByName(deep, entry))
    BY <1>1 DEF ByName, Alike
  <1>3. Over(ByAlias(rows, entry), ByAlias(deep, entry))
    BY <1>1 DEF ByAlias, Alike
  <1>4. \A alt : Over(CategoryHits(rows, alt), CategoryHits(deep, alt))
    BY <1>1 DEF CategoryHits, Alike
  <1>5. Hits(rows, entry) = Hits(deep, entry)
    BY <1>4 DEF Hits
  <1>6. Over(ByCategory(rows, entry), ByCategory(deep, entry))
    <2>1. CASE Hits(rows, entry) = {}
      BY <1>5, <2>1, NoHitNoRung
    <2>2. CASE Hits(rows, entry) # {}
      <3> DEFINE alt == entry[Min(Hits(rows, entry))]
                 one == FirstOf(CategoryHits(rows, alt))
                 two == FirstOf(CategoryHits(deep, alt))
      <3>1. /\ one \in CategoryHits(rows, alt) /\ one \in rows
            /\ \A t \in CategoryHits(rows, alt) : one.at <= t.at
            /\ ByCategory(rows, entry) = {r \in rows : r.category = one.category}
        BY <2>2, RungFound DEF Deepened
      <3>2. /\ two \in CategoryHits(deep, alt) /\ two \in deep
            /\ \A t \in CategoryHits(deep, alt) : two.at <= t.at
            /\ ByCategory(deep, entry) = {r \in deep : r.category = two.category}
        BY <1>5, <2>2, RungFound DEF Deepened
      <3> HIDE DEF alt, one, two
      <3>3. PICK r \in CategoryHits(rows, alt) : Alike(r, two)
        BY <1>4, <3>2
      <3>4. PICK t \in CategoryHits(deep, alt) : Alike(one, t)
        BY <1>4, <3>1
      <3>5. r \in rows /\ one.at <= r.at /\ r.at = two.at /\ two.at <= t.at /\ t.at = one.at
        BY <3>1, <3>2, <3>3, <3>4 DEF CategoryHits, Alike
      <3>6. one.at \in Nat /\ two.at \in Nat
        BY <3>1, <3>2 DEF Deepened, Placed
      <3>7. one.at = r.at
        BY <3>5, <3>6
      <3>8. one = r
        BY <3>1, <3>5, <3>7 DEF Deepened
      <3>9. one.category = two.category
        BY <3>3, <3>8 DEF Alike
      <3> QED
        BY <1>1, <3>1, <3>2, <3>9 DEF Alike
    <2> QED
      BY <2>1, <2>2
  <1>7. Over(Evidence(rows, entry), Evidence(deep, entry))
    <2>1. (ByName(rows, entry) = {} <=> ByName(deep, entry) = {})
          /\ (ByAlias(rows, entry) = {} <=> ByAlias(deep, entry) = {})
      BY <1>2, <1>3
    <2> HIDE DEF Over
    <2>2. CASE ByName(rows, entry) # {}
      BY <1>2, <2>1, <2>2, Rungs
    <2>3. CASE ByName(rows, entry) = {} /\ ByAlias(rows, entry) # {}
      BY <1>3, <2>1, <2>3, Rungs
    <2>4. CASE ByName(rows, entry) = {} /\ ByAlias(rows, entry) = {}
      BY <1>6, <2>1, <2>4, Rungs
    <2> QED
      BY <2>2, <2>3, <2>4
  <1> QED
    BY <1>7

\* DeeperNeverHurts: a skill recorded as deeper lowers no score (score,
\* strongestProficiency).
THEOREM DeeperNeverHurtsHolds == Spec => []DeeperNeverHurts
  <1>1. ASSUME TypeOK PROVE DeeperNeverHurts
    <2> SUFFICES ASSUME NEW s \in Active, NEW l \in Levels, NEW o \in Orders,
                        Rank(l) > Rank(depth[s])
                 PROVE  Earned(posting, Listed(o, [depth EXCEPT ![s] = l]))
                          >= Earned(posting, Listed(o, depth))
      BY DEF DeeperNeverHurts
    <2> DEFINE rows == Listed(o, depth)
               deep == Listed(o, [depth EXCEPT ![s] = l])
    <2>1. posting \in JDSignals
      BY <1>1, ScoreAssumption DEF TypeOK
    <2>2. Deepened(rows, deep)
      BY <1>1, ListingDeepens
    <2> HIDE DEF rows, deep
    <2>3. ASSUME NEW e \in Entry
          PROVE  Credit(posting, rows, e) <= Credit(posting, deep, e)
      <3> DEFINE R      == Evidence(rows, e)
                 D      == Evidence(deep, e)
                 wanted == Rank(RequiredLevel(e, posting.stated))
      <3>1. /\ \A r \in R : \E t \in D : Rank(r.proficiency) <= Rank(t.proficiency)
            /\ D # {} => R # {}
        BY <2>2, SameEvidence
      <3>2. \A level : Rank(level) \in Nat
        BY RankIsARank
      <3>3. CASE R = {}
        BY <3>3, CreditIs
      <3>4. CASE R # {}
        <4>1. D # {}
          BY <3>1, <3>4
        <4>2. PICK r \in R : StrongestProficiency(R) = Rank(r.proficiency)
          BY <3>4, Strongest
        <4>3. PICK t \in D : Rank(r.proficiency) <= Rank(t.proficiency)
          BY <3>1
        <4>4. Rank(t.proficiency) <= StrongestProficiency(D) /\ StrongestProficiency(D) \in Nat
          BY Strongest
        <4> HIDE DEF wanted
        <4>5. StrongestProficiency(R) >= wanted => StrongestProficiency(D) >= wanted
          <5>1. wanted \in Nat
            BY <3>2 DEF wanted
          <5> QED
            BY <3>2, <4>2, <4>3, <4>4, <5>1
        <4>6. Credit(posting, rows, e) \in 0 .. 2 /\ Credit(posting, deep, e) \in 1 .. 2
          BY <4>1, CreditIs
        <4>7. CASE StrongestProficiency(R) >= wanted
          <5>1. Credit(posting, deep, e) = 2
            BY <4>1, <4>5, <4>7, CreditIs DEF wanted
          <5> QED
            BY <4>6, <5>1
        <4>8. CASE ~ (StrongestProficiency(R) >= wanted)
          <5>1. Credit(posting, rows, e) = 1
            BY <3>4, <4>8, CreditIs DEF wanted
          <5> QED
            BY <4>6, <5>1
        <4> QED
          BY <4>7, <4>8
      <3> QED
        BY <3>3, <3>4
    <2>4. Earned(posting, deep) >= Earned(posting, rows)
      BY <2>1, <2>3, CreditsGrow
    <2> QED
      BY <2>4 DEF rows, deep
  <1> QED
    BY <1>1, TypesHold, PTL

-----------------------------------------------------------------------------
(* What is said twice                                                      *)

\* One phrase by itself flattens to itself.
LEMMA FlattenOne ==
  ASSUME NEW b
  PROVE  FlattenSeq(<<b>>) = b
  <1> DEFINE one     == <<b>>
             body(f) == [i \in 1 .. Len(one) |-> IF i = 1 THEN one[i] ELSE f[i - 1] \o one[i]]
             g       == [i \in {1} |-> b]
  <1>1. FlattenSeq(one) = (CHOOSE f : f = body(f))[1]
    BY DEF FlattenSeq
  <1>2. 1 .. Len(one) = {1} /\ one[1] = b
    OBVIOUS
  <1>3. \A f : body(f) = [i \in {1} |-> IF i = 1 THEN b ELSE f[i - 1] \o one[i]]
    BY <1>2
  <1> HIDE DEF one
  <1>4. \A f : body(f) = g
    BY <1>3
  <1> HIDE DEF body
  <1>5. (CHOOSE f : f = body(f)) = g
    BY <1>4
  <1>6. FlattenSeq(one) = b
    BY <1>1, <1>5
  <1> QED
    BY <1>6 DEF one

LEMMA TokensAreWords ==
  ASSUME NEW a \in Phrase
  PROVE  /\ Tokens(a) \in Seq(Word) /\ Len(Tokens(a)) = Len(a) /\ Len(a) \in Nat
         /\ \A i \in 1 .. Len(a) : Tokens(a)[i] = Fold[a[i]]
  <1>1. DOMAIN a = 1 .. Len(a) /\ Len(a) \in Nat /\ \A i \in 1 .. Len(a) : a[i] \in Word
    BY LenProperties, ElementOfSeq DEF Phrase
  <1>2. Tokens(a) \in [1 .. Len(a) -> Word]
    BY <1>1, ScoreAssumption DEF Tokens
  <1>3. Tokens(a) \in Seq(Word) /\ Len(Tokens(a)) = Len(a)
    BY <1>1, <1>2
  <1> QED
    BY <1>1, <1>3 DEF Tokens

\* A phrase is in another when its words are there, one after another.
LEMMA RunIsContained ==
  ASSUME NEW a \in Phrase, a # <<>>, NEW b \in Phrase, NEW k \in Nat,
         k + Len(a) <= Len(b), \A i \in 1 .. Len(a) : b[k + i] = a[i]
  PROVE  ContainsPhrase(a, b)
  <1> DEFINE n   == Tokens(a)
             h   == Tokens(b)
             run == SubSeq(h, k + 1, k + Len(n))
  <1>1. /\ n \in Seq(Word) /\ Len(n) = Len(a) /\ Len(a) \in Nat
        /\ h \in Seq(Word) /\ Len(h) = Len(b) /\ Len(b) \in Nat
        /\ \A i \in 1 .. Len(a) : n[i] = Fold[a[i]]
        /\ \A i \in 1 .. Len(b) : h[i] = Fold[b[i]]
    BY TokensAreWords
  <1> HIDE DEF n, h
  <1>2. Len(a) > 0
    BY <1>1, EmptySeq DEF Phrase
  <1>3. n # <<>>
    BY <1>1, <1>2
  <1>4. k \in 0 .. Len(h) - Len(n)
    BY <1>1
  <1>5. run = n
    <2>1. \A i \in k + 1 .. k + Len(n) : h[i] \in Word
      BY <1>1, ElementOfSeq
    <2>2. /\ run \in Seq(Word) /\ Len(run) = Len(n)
          /\ \A i \in 1 .. Len(n) : run[i] = h[k + i]
      <3>1. k + 1 \in Int /\ k + Len(n) \in Int /\ k + 1 <= k + Len(n)
            /\ (k + Len(n)) - (k + 1) + 1 = Len(n)
        BY <1>1, <1>2
      <3>2. \A i \in 1 .. Len(n) : k + 1 + i - 1 = k + i
        BY <1>1
      <3>3. /\ run \in Seq(Word) /\ Len(run) = (k + Len(n)) - (k + 1) + 1
            /\ \A i \in 1 .. (k + Len(n)) - (k + 1) + 1 : run[i] = h[k + 1 + i - 1]
        BY <2>1, <3>1, SubSeqProperties
      <3> QED
        BY <3>1, <3>2, <3>3
    <2>3. \A i \in 1 .. Len(n) : run[i] = n[i]
      <3> SUFFICES ASSUME NEW i \in 1 .. Len(n) PROVE run[i] = n[i]
        OBVIOUS
      <3>1. k + i \in 1 .. Len(b) /\ i \in 1 .. Len(a)
        BY <1>1
      <3>2. run[i] = h[k + i]
        BY <2>2
      <3>3. h[k + i] = Fold[b[k + i]]
        BY <1>1, <3>1
      <3>4. n[i] = Fold[a[i]]
        BY <1>1, <3>1
      <3>5. b[k + i] = a[i]
        BY <3>1
      <3> HIDE DEF run
      <3> QED
        BY <3>2, <3>3, <3>4, <3>5
    <2> HIDE DEF run
    <2> QED
      BY <1>1, <2>2, <2>3, SeqEqual
  <1> QED
    BY <1>3, <1>4, <1>5 DEF ContainsPhrase, n, h

\* A phrase is in itself and in itself with a word more at either end.
LEMMA SaidAgain ==
  ASSUME NEW a \in Phrase, a # <<>>, NEW w \in Word
  PROVE  \A b \in {a, Append(a, w), <<w>> \o a} : ContainsPhrase(a, b)
  <1>1. Len(a) \in Nat /\ a \in Seq(Word)
    BY LenProperties DEF Phrase
  <1>2. ContainsPhrase(a, a)
    BY <1>1, RunIsContained
  <1>3. ContainsPhrase(a, Append(a, w))
    <2> DEFINE b == Append(a, w)
    <2>1. b \in Phrase /\ Len(b) = Len(a) + 1 /\ \A i \in 1 .. Len(a) : b[i] = a[i]
      BY <1>1, AppendProperties DEF Phrase
    <2> HIDE DEF b
    <2>2. 0 + Len(a) <= Len(b) /\ \A i \in 1 .. Len(a) : b[0 + i] = a[i]
      BY <1>1, <2>1
    <2>3. ContainsPhrase(a, b)
      BY <2>1, <2>2, RunIsContained
    <2> QED
      BY <2>3 DEF b
  <1>4. ContainsPhrase(a, <<w>> \o a)
    <2> DEFINE b == <<w>> \o a
    <2>1. <<w>> \in Seq(Word) /\ Len(<<w>>) = 1
      OBVIOUS
    <2>2. b \in Phrase /\ Len(b) = 1 + Len(a)
          /\ \A i \in 1 .. 1 + Len(a) : b[i] = IF i <= 1 THEN <<w>>[i] ELSE a[i - 1]
      BY <1>1, <2>1, ConcatProperties DEF Phrase
    <2> HIDE DEF b
    <2>3. 1 + Len(a) <= Len(b) /\ \A i \in 1 .. Len(a) : b[1 + i] = a[i]
      BY <1>1, <2>2
    <2>4. ContainsPhrase(a, b)
      BY <2>2, <2>3, RunIsContained
    <2> QED
      BY <2>4 DEF b
  <1> QED
    BY <1>2, <1>3, <1>4

\* SaidOnce: a competency that repeats a named skill, alone or in a longer
\* phrase, is not scored (dedupeCompetencies).
THEOREM SaidOnceHolds == Spec => []SaidOnce
  <1>1. ASSUME TypeOK PROVE SaidOnce
    <2> DEFINE named == Named(posting.required \o posting.preferred)
    <2> SUFFICES ASSUME NEW a \in named, NEW w \in Word,
                        NEW again \in {<<a>>, <<Append(a, w)>>, <<<<w>> \o a>>}
                 PROVE  LET said == [posting EXCEPT !.competencies = Append(@, again)]
                        IN  /\ Possible(said) = Possible(posting)
                            /\ DedupeCompetencies(said) = DedupeCompetencies(posting)
      BY DEF SaidOnce
    <2>0. PICK b \in {a, Append(a, w), <<w>> \o a} : again = <<b>>
      OBVIOUS
    <2> DEFINE said == [posting EXCEPT !.competencies = Append(@, again)]
               old  == posting.competencies
               new  == Append(old, again)
    <2>1. posting \in JDSignals
      BY <1>1, ScoreAssumption DEF TypeOK
    <2>2. a \in Phrase /\ a # <<>>
      <3>1. posting.required \in Seq(Entry) /\ posting.preferred \in Seq(Entry)
        BY <2>1 DEF JDSignals
      <3> DEFINE both == posting.required \o posting.preferred
      <3>2. both \in Seq(Entry)
        BY <3>1, ConcatProperties
      <3> HIDE DEF both
      <3>3. \A i \in DOMAIN both : both[i] \in Entry
        BY <3>2, LenProperties, ElementOfSeq
      <3>4. PICK i \in DOMAIN both : a \in Alternatives(both[i])
        BY DEF Named, both
      <3>5. both[i] \in Seq(Phrase)
        BY <3>3 DEF Entry
      <3>6. a \in ToSet(both[i]) /\ a # <<>>
        BY <3>4 DEF Alternatives
      <3> QED
        BY <3>5, <3>6, LenProperties, ElementOfSeq DEF ToSet
    <2>3. MatchesSignal(FlattenSeq(again), named)
      <3>1. FlattenSeq(again) = b
        BY <2>0, FlattenOne
      <3>2. ContainsPhrase(a, b)
        BY <2>2, SaidAgain
      <3> HIDE DEF named
      <3> QED
        BY <3>1, <3>2 DEF MatchesSignal
    <2>4. /\ said.competencies = new /\ said.required = posting.required
          /\ said.preferred = posting.preferred
      BY <2>1 DEF JDSignals
    <2>5. old \in Seq(Entry) /\ DOMAIN old = 1 .. Len(old) /\ Len(old) \in Nat
      BY <2>1, PostingIs DEF JDSignals
    <2>6. again \in Entry
      <3>1. a \in Seq(Word)
        BY <2>2 DEF Phrase
      <3>2. Append(a, w) \in Seq(Word)
        BY <3>1, AppendProperties
      <3>3. <<w>> \o a \in Seq(Word)
        <4>1. <<w>> \in Seq(Word)
          OBVIOUS
        <4> QED
          BY <3>1, <4>1, ConcatProperties
      <3>4. b \in Seq(Word)
        BY <3>1, <3>2, <3>3
      <3> QED
        BY <2>0, <3>4 DEF Entry, Phrase
    <2>7. /\ DOMAIN new = 1 .. Len(old) + 1
          /\ \A i \in 1 .. Len(old) : new[i] = old[i]
          /\ new[Len(old) + 1] = again
      <3>1. new \in Seq(Entry) /\ Len(new) = Len(old) + 1
            /\ (\A i \in 1 .. Len(old) : new[i] = old[i]) /\ new[Len(old) + 1] = again
        BY <2>5, <2>6, AppendProperties
      <3> QED
        BY <3>1, LenProperties
    <2> HIDE DEF said, old, new, named
    <2> DEFINE Kept(list) == {i \in DOMAIN list :
                                ~ Blank(list[i]) /\ ~ MatchesSignal(FlattenSeq(list[i]), named)}
    <2>8. DedupeCompetencies(said) = Kept(new) /\ DedupeCompetencies(posting) = Kept(old)
      BY <2>4 DEF DedupeCompetencies, named, old
    <2>9. Kept(new) = Kept(old)
      BY <2>3, <2>5, <2>7
    <2> HIDE DEF Kept
    <2>10. Possible(said) = Possible(posting)
      BY <2>4, <2>8, <2>9 DEF Possible
    <2> QED
      BY <2>8, <2>9, <2>10 DEF said
  <1> QED
    BY <1>1, TypesHold, PTL

-----------------------------------------------------------------------------
(* What is said of a group again                                           *)

\* The sequence made of a finite set has its members.
LEMMA SeqOfSet ==
  ASSUME NEW S, IsFiniteSet(S)
  PROVE  ToSet(SetToSeq(S)) = S /\ SetToSeq(S) \in Seq(S)
  <1> DEFINE n == Cardinality(S)
  <1>1. n \in Nat
    BY FS_CardinalityType
  <1>2. \E f \in [1 .. n -> S] : IsInjective(f)
    <2>1. PICK m \in Nat : ExistsBijection(1 .. m, S)
      BY FS_NatBijection
    <2>2. n = m
      BY <2>1, FS_CountingElements
    <2>3. PICK f \in Bijection(1 .. n, S) : TRUE
      BY <2>1, <2>2 DEF ExistsBijection
    <2> QED
      BY <2>3 DEF Bijection, Injection
  <1> DEFINE f == SetToSeq(S)
  <1>3. f \in [1 .. n -> S] /\ IsInjective(f)
    BY <1>2 DEF SetToSeq
  <1> HIDE DEF f
  <1>4. ToSet(f) \subseteq S
    BY <1>3 DEF ToSet
  <1>5. Cardinality(ToSet(f)) = n
    <2>1. f \in Bijection(1 .. n, ToSet(f))
      BY <1>3 DEF Bijection, Injection, Surjection, ToSet, IsInjective
    <2> HIDE DEF n
    <2>2. ExistsBijection(1 .. n, ToSet(f))
      BY <2>1 DEF ExistsBijection
    <2> QED
      BY <1>1, <2>2, FS_CountingElements
  <1>6. ToSet(f) = S
    BY <1>4, <1>5, FS_Subset
  <1>7. f \in Seq(S)
    BY <1>1, <1>3
  <1> QED
    BY <1>6, <1>7 DEF f

\* A group beside one that has all its alternatives, and maybe more, changes
\* no answer: it is dropped, or says the same.
LEMMA PartIsHarmless ==
  ASSUME NEW old, NEW new, NEW e \in ToSet(old), NEW part,
         ToSet(new) = ToSet(old) \cup {part},
         Alternatives(part) \subseteq Alternatives(e), NEW pref
  PROVE  CorePracticeAnswered(pref, CollapseSubsumed(new)) <=>
           CorePracticeAnswered(pref, CollapseSubsumed(old))
  <1> DEFINE answered(g) == Alternatives(g) # {}
                              /\ \A alt \in Alternatives(g) : PreferenceMatches(pref, {alt})
             within(g, h) == Alternatives(g) \subseteq Alternatives(h)
                               /\ Alternatives(g) # Alternatives(h)
  <1>1. \A list : CorePracticeAnswered(pref, CollapseSubsumed(list)) <=>
          \E g \in ToSet(list) : answered(g) /\ \A h \in ToSet(list) : ~ within(g, h)
    BY DEF CorePracticeAnswered, CollapseSubsumed
  <1>2. ASSUME NEW g \in ToSet(old), answered(g), \A h \in ToSet(old) : ~ within(g, h)
        PROVE  g \in ToSet(new) /\ \A h \in ToSet(new) : ~ within(g, h)
    <2>1. ~ within(g, part)
      BY <1>2
    <2> QED
      BY <1>2, <2>1
  <1>3. ASSUME NEW g \in ToSet(new), answered(g), \A h \in ToSet(new) : ~ within(g, h)
        PROVE  \E k \in ToSet(old) : answered(k) /\ \A h \in ToSet(old) : ~ within(k, h)
    <2>1. CASE g \in ToSet(old)
      BY <1>3, <2>1
    <2>2. CASE g = part
      <3>1. Alternatives(e) = Alternatives(part)
        BY <1>3, <2>2
      <3> QED
        BY <1>3, <2>2, <3>1
    <2> QED
      BY <2>1, <2>2
  <1> HIDE DEF answered, within
  <1> QED
    BY <1>1, <1>2, <1>3

\* Preferences that are no core practice do not look at the practice groups.
LEMMA PracticeAside ==
  ASSUME NEW pref, NEW p \in JDSignals, NEW practice,
         CorePracticeAnswered(pref, CollapseSubsumed(practice)) <=>
           CorePracticeAnswered(pref, CollapseSubsumed(p.practice))
  PROVE  Answered(pref, [p EXCEPT !.practice = practice]) = Answered(pref, p)
  <1> DEFINE q == [p EXCEPT !.practice = practice]
  <1>1. /\ q.practice = practice /\ q.required = p.required
        /\ q.competencies = p.competencies /\ q.industry = p.industry
        /\ q.arrangement = p.arrangement /\ q.culture = p.culture
    BY DEF JDSignals
  <1> HIDE DEF q
  <1>2. FieldsFor(pref.type, q) = FieldsFor(pref.type, p)
    BY <1>1 DEF FieldsFor
  <1>3. CASE pref.type = "core_practice"
    <2>1. Answered(pref, q) = CorePracticeAnswered(pref, CollapseSubsumed(practice))
          /\ Answered(pref, p) = CorePracticeAnswered(pref, CollapseSubsumed(p.practice))
      BY <1>1, <1>3 DEF Answered
    <2> QED
      BY <2>1 DEF CorePracticeAnswered, q
  <1>4. CASE pref.type # "core_practice"
    BY <1>2, <1>4 DEF Answered, q
  <1> QED
    BY <1>3, <1>4

\* RestatementIsHarmless: listing part of a group again, before it or after,
\* changes the answer to no preference (collapseSubsumed).
THEOREM RestatementIsHarmlessHolds == Spec => []RestatementIsHarmless
  <1>1. ASSUME TypeOK PROVE RestatementIsHarmless
    <2> SUFFICES ASSUME NEW e \in ToSet(posting.practice), NEW pref \in Preferences,
                        NEW part \in (SUBSET Alternatives(e)) \ {{}}, NEW alt \in part
                 PROVE  LET before == [posting EXCEPT !.practice = <<<<alt>>>> \o @]
                            after  == [posting EXCEPT !.practice = Append(@, SetToSeq(part))]
                        IN  /\ Answered(pref, before) = Answered(pref, posting)
                            /\ Answered(pref, after) = Answered(pref, posting)
      BY DEF RestatementIsHarmless
    <2> DEFINE old   == posting.practice
               one   == <<alt>>
               again == SetToSeq(part)
    <2>1. posting \in JDSignals /\ old \in Seq(Entry)
      BY <1>1, ScoreAssumption DEF TypeOK, JDSignals
    <2>2. DOMAIN old = 1 .. Len(old) /\ Len(old) \in Nat /\ \A i \in DOMAIN old : old[i] \in Entry
      BY <2>1, LenProperties, ElementOfSeq
    <2>3. e \in Seq(Phrase)
      BY <2>2 DEF ToSet, Entry
    <2>4. DOMAIN e = 1 .. Len(e) /\ Len(e) \in Nat /\ \A i \in DOMAIN e : e[i] \in Phrase
      BY <2>3, LenProperties, ElementOfSeq
    <2>5. IsFiniteSet(ToSet(e))
      <3>1. e \in [DOMAIN e -> ToSet(e)] /\ \A x \in ToSet(e) : \E i \in DOMAIN e : e[i] = x
        BY <2>3, <2>4, LenProperties DEF ToSet
      <3>2. e \in Surjection(DOMAIN e, ToSet(e))
        BY <3>1, Fun_IsSurj
      <3>3. IsFiniteSet(DOMAIN e)
        BY <2>4, FS_Interval
      <3> QED
        BY <3>2, <3>3, FS_Surjection
    <2>6. part \subseteq ToSet(e) /\ part \subseteq Phrase /\ <<>> \notin part
      BY <2>4 DEF Alternatives, ToSet
    <2>7. ToSet(again) = part /\ again \in Entry
      <3>1. IsFiniteSet(part)
        BY <2>5, <2>6, FS_Subset
      <3>2. ToSet(again) = part /\ again \in Seq(part)
        BY <3>1, SeqOfSet
      <3> HIDE DEF again
      <3>3. again \in Seq(Phrase)
        BY <2>6, <3>2, SeqMonotonic
      <3> QED
        BY <3>2, <3>3 DEF Entry
    <2>8. ToSet(one) = {alt} /\ one \in Entry
      <3>1. alt \in Phrase
        BY <2>6
      <3> QED
        BY <3>1 DEF ToSet, Entry
    <2>9. Alternatives(again) \subseteq Alternatives(e) /\ Alternatives(one) \subseteq Alternatives(e)
      BY <2>7, <2>8 DEF Alternatives
    <2> HIDE DEF old, one, again
    <2>10. ToSet(<<one>> \o old) = ToSet(old) \cup {one}
      <3> DEFINE new == <<one>> \o old
      <3>1. <<one>> \in Seq(Entry) /\ Len(<<one>>) = 1
        BY <2>8
      <3>2. /\ DOMAIN new = 1 .. 1 + Len(old)
            /\ \A i \in 1 .. 1 + Len(old) : new[i] = IF i <= 1 THEN one ELSE old[i - 1]
        <4>1. new \in Seq(Entry) /\ Len(new) = 1 + Len(old)
              /\ \A i \in 1 .. 1 + Len(old) : new[i] = IF i <= 1 THEN <<one>>[i] ELSE old[i - 1]
          BY <2>1, <3>1, ConcatProperties
        <4>2. DOMAIN new = 1 .. 1 + Len(old)
          BY <4>1, LenProperties
        <4> QED
          BY <2>2, <4>1, <4>2
      <3> HIDE DEF new
      <3>3. new[1] = one /\ \A i \in DOMAIN old : new[i + 1] = old[i] /\ i + 1 \in DOMAIN new
        BY <2>2, <3>2
      <3>4. \A i \in DOMAIN new : new[i] = one \/ (i - 1 \in DOMAIN old /\ new[i] = old[i - 1])
        BY <2>2, <3>2
      <3>5. 1 \in DOMAIN new
        BY <2>2, <3>2
      <3>6. ToSet(new) = ToSet(old) \cup {one}
        BY <3>3, <3>4, <3>5 DEF ToSet
      <3> QED
        BY <3>6 DEF new
    <2>11. ToSet(Append(old, again)) = ToSet(old) \cup {again}
      <3> DEFINE new == Append(old, again)
      <3>1. /\ DOMAIN new = 1 .. Len(old) + 1
            /\ \A i \in 1 .. Len(old) : new[i] = old[i]
            /\ new[Len(old) + 1] = again
        <4>1. new \in Seq(Entry) /\ Len(new) = Len(old) + 1
              /\ (\A i \in 1 .. Len(old) : new[i] = old[i]) /\ new[Len(old) + 1] = again
          BY <2>1, <2>7, AppendProperties
        <4>2. DOMAIN new = 1 .. Len(old) + 1
          BY <4>1, LenProperties
        <4> QED
          BY <4>1, <4>2
      <3> HIDE DEF new
      <3>2. ToSet(new) = ToSet(old) \cup {again}
        BY <2>2, <3>1 DEF ToSet
      <3> QED
        BY <3>2 DEF new
    <2>12. e \in ToSet(old)
      BY DEF old
    <2>13. /\ CorePracticeAnswered(pref, CollapseSubsumed(<<one>> \o old)) <=>
                CorePracticeAnswered(pref, CollapseSubsumed(old))
           /\ CorePracticeAnswered(pref, CollapseSubsumed(Append(old, again))) <=>
                CorePracticeAnswered(pref, CollapseSubsumed(old))
      BY <2>9, <2>10, <2>11, <2>12, PartIsHarmless
    <2> QED
      BY <2>1, <2>13, PracticeAside DEF old, one, again
  <1> QED
    BY <1>1, TypesHold, PTL

-----------------------------------------------------------------------------
(* The score and the gaps agree.                                           *)

LEMMA HalvesBounded ==
  ASSUME NEW p, NEW rows, NEW entries, NEW places, IsFiniteSet(places)
  PROVE  LET halves == Cardinality(Halves(p, rows, entries, places))
             full   == 2 * Cardinality(places)
         IN  /\ halves \in Nat /\ full \in Nat /\ halves <= full
             /\ halves = full => \A i \in places : Credit(p, rows, entries[i]) = 2
  <1> DEFINE earned == Halves(p, rows, entries, places)
             all    == places \X {1, 2}
  <1>1. IsFiniteSet({1, 2}) /\ Cardinality({1, 2}) = 2
    <2>1. IsFiniteSet({1}) /\ Cardinality({1}) = 1 /\ {1} \cup {2} = {1, 2} /\ 2 \notin {1}
      BY FS_Singleton
    <2> QED
      BY <2>1, FS_AddElement
  <1>2. IsFiniteSet(all) /\ Cardinality(all) = Cardinality(places) * 2
    BY <1>1, FS_Product
  <1>3. earned \in SUBSET all
    BY DEF Halves
  <1>4. /\ Cardinality(earned) <= Cardinality(all)
        /\ Cardinality(earned) = Cardinality(all) => earned = all
        /\ Cardinality(earned) \in Nat /\ Cardinality(places) \in Nat
    BY <1>2, <1>3, FS_Subset, FS_CardinalityType
  <1>5. ASSUME earned = all, NEW i \in places PROVE Credit(p, rows, entries[i]) = 2
    <2>1. <<i, 2>> \in earned
      BY <1>5
    <2>2. 2 <= Credit(p, rows, entries[i])
      BY <2>1 DEF Halves
    <2>3. Credit(p, rows, entries[i]) \in 0 .. 2
      BY CreditIs
    <2> QED
      BY <2>2, <2>3
  <1> HIDE DEF earned, all
  <1>6. 2 * Cardinality(places) = Cardinality(all)
    BY <1>2, <1>4
  <1> QED
    BY <1>4, <1>5, <1>6 DEF earned

\* The score of ScoreCapabilityFit is a share of what is possible, and a posting
\* answered in full has no gap to report: what is counted as possible is what is
\* scored, competencies left out as repetitions included in neither.
THEOREM FullScoreHasNoGaps ==
  Spec => [](\A o \in Orders :
               LET rows == Listed(o, depth)
               IN  /\ Earned(posting, rows) <= Possible(posting)
                   /\ Earned(posting, rows) = Possible(posting) => Gaps(posting, rows) = {})
  <1> DEFINE Agree == \A o \in Orders :
               LET rows == Listed(o, depth)
               IN  /\ Earned(posting, rows) <= Possible(posting)
                   /\ Earned(posting, rows) = Possible(posting) => Gaps(posting, rows) = {}
  <1>1. ASSUME TypeOK PROVE Agree
    <2> SUFFICES ASSUME NEW rows
                 PROVE  /\ Earned(posting, rows) <= Possible(posting)
                        /\ Earned(posting, rows) = Possible(posting) => Gaps(posting, rows) = {}
      OBVIOUS
    <2> DEFINE p == posting
               comps == DedupeCompetencies(p)
               halves(entries, places) == Cardinality(Halves(p, rows, entries, places))
    <2>1. p \in JDSignals
      BY <1>1, ScoreAssumption DEF TypeOK
    <2>2. /\ IsFiniteSet(DOMAIN p.required) /\ Cardinality(DOMAIN p.required) = Len(p.required)
          /\ IsFiniteSet(DOMAIN p.preferred) /\ Cardinality(DOMAIN p.preferred) = Len(p.preferred)
          /\ Len(p.required) \in Nat /\ Len(p.preferred) \in Nat
      <3>1. \A n \in Nat : IsFiniteSet(1 .. n) /\ Cardinality(1 .. n) = n
        BY FS_Interval
      <3>2. /\ DOMAIN p.required = 1 .. Len(p.required) /\ Len(p.required) \in Nat
            /\ DOMAIN p.preferred = 1 .. Len(p.preferred) /\ Len(p.preferred) \in Nat
        BY <2>1, PostingIs
      <3> QED
        BY <3>1, <3>2
    <2>3. IsFiniteSet(comps)
      BY <2>1, PostingIs, FS_Subset DEF DedupeCompetencies
    <2> HIDE DEF comps
    <2>4. /\ halves(p.required, DOMAIN p.required) \in Nat
          /\ halves(p.required, DOMAIN p.required) <= 2 * Len(p.required)
          /\ halves(p.required, DOMAIN p.required) = 2 * Len(p.required)
               => \A i \in DOMAIN p.required : Credit(p, rows, p.required[i]) = 2
      BY <2>2, HalvesBounded
    <2>5. /\ halves(p.preferred, DOMAIN p.preferred) \in Nat
          /\ halves(p.preferred, DOMAIN p.preferred) <= 2 * Len(p.preferred)
      BY <2>2, HalvesBounded
    <2>6. /\ halves(p.competencies, comps) \in Nat /\ Cardinality(comps) \in Nat
          /\ halves(p.competencies, comps) <= 2 * Cardinality(comps)
      BY <2>3, HalvesBounded, FS_CardinalityType
    <2>7. /\ Earned(p, rows) = 2 * halves(p.required, DOMAIN p.required)
                               + halves(p.preferred, DOMAIN p.preferred)
                               + halves(p.competencies, comps)
          /\ Possible(p) = 4 * Len(p.required) + 2 * Len(p.preferred) + 2 * Cardinality(comps)
      BY DEF Earned, Possible, comps
    <2> HIDE DEF halves
    <2>0. /\ Earned(p, rows) <= Possible(p)
          /\ Earned(p, rows) = Possible(p)
               => halves(p.required, DOMAIN p.required) = 2 * Len(p.required)
      <3>1. PICK a \in Nat, m \in Nat : /\ a = halves(p.required, DOMAIN p.required)
                                        /\ m = Len(p.required) /\ a <= 2 * m
        BY <2>2, <2>4, Zenon
      <3>2. PICK b \in Nat, n \in Nat : /\ b = halves(p.preferred, DOMAIN p.preferred)
                                        /\ n = Len(p.preferred) /\ b <= 2 * n
        BY <2>2, <2>5, Zenon
      <3>3. PICK c \in Nat, k \in Nat : /\ c = halves(p.competencies, comps)
                                        /\ k = Cardinality(comps) /\ c <= 2 * k
        BY <2>6, Zenon
      <3>4. /\ 2 * a + b + c <= 4 * m + 2 * n + 2 * k
            /\ 2 * a + b + c = 4 * m + 2 * n + 2 * k => a = 2 * m
        <4>1. a <= 2 * m /\ b <= 2 * n /\ c <= 2 * k
          BY <3>1, <3>2, <3>3, Zenon
        <4> QED
          BY <4>1
      <3>5. Earned(p, rows) = 2 * a + b + c /\ Possible(p) = 4 * m + 2 * n + 2 * k
        BY <2>7, <3>1, <3>2, <3>3, Zenon
      <3> QED
        BY <3>1, <3>4, <3>5, Zenon
    <2>8. Earned(p, rows) <= Possible(p)
      BY <2>0
    <2>9. ASSUME Earned(p, rows) = Possible(p) PROVE Gaps(p, rows) = {}
      <3>1. halves(p.required, DOMAIN p.required) = 2 * Len(p.required)
        BY <2>0, <2>9, Zenon
      <3>2. ASSUME NEW i \in DOMAIN p.required PROVE Evidence(rows, p.required[i]) # {}
        <4>1. Credit(p, rows, p.required[i]) = 2
          BY <2>4, <3>1
        <4> QED
          BY <4>1, CreditIs
      <3> QED
        BY <3>2 DEF Gaps, ToSet
    <2> QED
      BY <2>8, <2>9
  <1> HIDE DEF Agree
  <1>2. Spec => []Agree
    BY <1>1, TypesHold, PTL
  <1> QED
    BY <1>2 DEF Agree

=============================================================================
