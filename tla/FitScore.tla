------------------------------ MODULE FitScore ------------------------------
(***************************************************************************)
(* The scorer of the fit gate (internal/fitgate/scorer.go): how a posting's *)
(* signals are answered by a profile that its owner goes on editing.       *)
(*                                                                         *)
(* A phrase is a sequence of words, an entry of the posting the sequence   *)
(* of its alternatives, a blank one among them the empty phrase. Points    *)
(* are counted in halves, so that half credit is a whole number.           *)
(***************************************************************************)
EXTENDS Naturals, FiniteSets, SequencesExt

CONSTANTS
  Word, Fold,       \* words, and the token tokenize() makes of each
  Skill,            \* skills, each with name, aliases and category
  CategoryTerms,    \* the category's name and its competency vocabulary
  Bands,            \* proficiency_levels in the order they are listed
  Orders,           \* orders the table of skills may be listed in
  Unknown,          \* a level no band has, and that of no skill
  Postings,         \* signals a posting may have been read into
  Preferences       \* rows of the preferences table

Phrase == Seq(Word)
Entry == Seq(Phrase)
Levels == {Bands[i].value : i \in DOMAIN Bands}

JDSignals ==
  [required : Seq(Entry), preferred : Seq(Entry), competencies : Seq(Entry),
   stated : Seq([requirement : Entry, level : STRING]), practice : Seq(Entry),
   industry : Phrase, arrangement : Phrase, culture : SUBSET Phrase]

ASSUME ScoreAssumption ==
  /\ Fold \in [Word -> Word]
  /\ \A s \in Skill : s.name \in Phrase \ {<<>>} /\ s.category \in DOMAIN CategoryTerms
  /\ Bands \in Seq([value : STRING, rank : Nat \ {0}, aliases : SUBSET STRING])
  /\ \A i \in DOMAIN Bands : Unknown # Bands[i].value /\ Unknown \notin Bands[i].aliases
  /\ Orders \subseteq Seq(Skill) /\ \A o \in Orders : ToSet(o) = Skill
  /\ Postings \subseteq JDSignals

VARIABLES
  posting,   \* the signals under evaluation
  depth      \* the active skills, with the proficiency recorded for each

vars == <<posting, depth>>

-----------------------------------------------------------------------------
(* Words and phrases                                                       *)

Tokens(phrase) == [i \in DOMAIN phrase |-> Fold[phrase[i]]]

ContainsPhrase(needle, haystack) ==
  LET n == Tokens(needle)
      h == Tokens(haystack)
  IN  n # <<>> /\ \E i \in 0 .. Len(h) - Len(n) : SubSeq(h, i + 1, i + Len(n)) = n

\* A term answers what it sits inside of; never the other way round.
MatchesTerm(terms, asked) == \E t \in terms : ContainsPhrase(t, asked)

\* A label is matched in both directions.
MatchesSignal(label, fields) ==
  \E f \in fields : ContainsPhrase(f, label) \/ ContainsPhrase(label, f)

Alternatives(entry) == ToSet(entry) \ {<<>>}

Blank(entry) == entry = <<<<>>>>

-----------------------------------------------------------------------------
(* Levels                                                                  *)

\* A value beats an alias, and a later row an earlier one.
RankOf(rows, level) ==
  LET named   == {i \in DOMAIN rows : rows[i].value = level}
      aliased == {i \in DOMAIN rows : level \in rows[i].aliases}
  IN  CASE named # {}   -> rows[Max(named)].rank
        [] named = {} /\ aliased # {} -> rows[Max(aliased)].rank
        [] OTHER -> 0

Rank(level) == RankOf(Bands, level)

\* The first statement about this very entry counts; one nobody can rank is none.
RequiredLevel(entry, stated) ==
  LET about == {i \in DOMAIN stated : stated[i].requirement = entry}
  IN  IF about = {} \/ Rank(stated[Min(about)].level) = 0
      THEN Unknown ELSE stated[Min(about)].level

StrongestProficiency(evidence) ==
  IF evidence = {} THEN 0 ELSE Max({Rank(t.proficiency) : t \in evidence})

-----------------------------------------------------------------------------
(* Skills against an entry; rows is the profile, each row with its place in *)
(* the listing                                                             *)

ByName(rows, entry) ==
  {r \in rows : \E alt \in Alternatives(entry) : MatchesTerm({r.name}, alt)}

ByAlias(rows, entry) ==
  {r \in rows : \E alt \in Alternatives(entry) : MatchesTerm(r.aliases, alt)}

FirstOf(rows) == CHOOSE r \in rows : \A t \in rows : r.at <= t.at

CategoryHits(rows, alt) == {r \in rows : MatchesTerm(CategoryTerms[r.category], alt)}

\* Variant for a mutant: the search ends at the first row, answered or not.
ByCategoryOfFirst(rows, entry) ==
  LET first == FirstOf(rows)
      hit   == {a \in DOMAIN entry : first \in CategoryHits(rows, entry[a])}
  IN  IF rows = {} \/ hit = {} THEN {} ELSE {r \in rows : r.category = first.category}

\* The first skill, for the first alternative, whose category answers; its
\* evidence is all the profile has in that category.
ByCategory(rows, entry) ==
  LET hit   == {a \in DOMAIN entry : entry[a] # <<>> /\ CategoryHits(rows, entry[a]) # {}}
      first == FirstOf(CategoryHits(rows, entry[Min(hit)]))
  IN  IF hit = {} THEN {} ELSE {r \in rows : r.category = first.category}

\* The kinds in order of strength, each across every alternative.
Evidence(rows, entry) ==
  LET byName  == ByName(rows, entry)
      byAlias == ByAlias(rows, entry)
  IN  CASE byName # {} -> byName
        [] byName = {} /\ byAlias # {} -> byAlias
        [] OTHER -> ByCategory(rows, entry)

-----------------------------------------------------------------------------
(* ScoreCapabilityFit                                                      *)

Named(lists) == UNION {Alternatives(lists[i]) : i \in DOMAIN lists}

\* Variant for a mutant: only the required skills are looked through.
DedupeAgainstRequired(p) ==
  {i \in DOMAIN p.competencies :
     /\ ~ Blank(p.competencies[i])
     /\ ~ MatchesSignal(FlattenSeq(p.competencies[i]), Named(p.required))}

\* Places of the competencies the posting has not already stated as a skill.
DedupeCompetencies(p) ==
  {i \in DOMAIN p.competencies :
     /\ ~ Blank(p.competencies[i])
     /\ ~ MatchesSignal(FlattenSeq(p.competencies[i]), Named(p.required \o p.preferred))}

\* Variant for a mutant: only the very level that is stated will do.
CreditForExact(p, rows, entry) ==
  LET evidence == Evidence(rows, entry)
      wanted   == RequiredLevel(entry, p.stated)
  IN  CASE evidence = {} -> 0
        [] evidence # {} /\ (wanted = Unknown \/ StrongestProficiency(evidence) = Rank(wanted)) -> 2
        [] OTHER -> 1

\* Both halves, one when short of a stated level, none for a gap.
Credit(p, rows, entry) ==
  LET evidence == Evidence(rows, entry)
      wanted   == RequiredLevel(entry, p.stated)
  IN  CASE evidence = {} -> 0
        [] evidence # {} /\ StrongestProficiency(evidence) >= Rank(wanted) -> 2
        [] OTHER -> 1

\* The halves earned on the entries at the given places of a list.
Halves(p, rows, entries, places) ==
  {x \in places \X {1, 2} : x[2] <= Credit(p, rows, entries[x[1]])}

\* The lists that score, in half points: a required skill counts double.
Earned(p, rows) ==
  2 * Cardinality(Halves(p, rows, p.required, DOMAIN p.required))
  + Cardinality(Halves(p, rows, p.preferred, DOMAIN p.preferred))
  + Cardinality(Halves(p, rows, p.competencies, DedupeCompetencies(p)))

Possible(p) ==
  4 * Len(p.required) + 2 * Len(p.preferred) + 2 * Cardinality(DedupeCompetencies(p))

Scored(p) == Possible(p) # 0

Gaps(p, rows) == {e \in ToSet(p.required) : Evidence(rows, e) = {}}

-----------------------------------------------------------------------------
(* ScorePreferenceFit                                                      *)

\* Variant for a mutant: the posting's list as it is.
CollapseNothing(entries) == {e \in ToSet(entries) : Alternatives(e) # {}}

\* Entries whose alternatives are not a strict part of another's.
CollapseSubsumed(entries) ==
  {e \in ToSet(entries) :
     /\ Alternatives(e) # {}
     /\ \A f \in ToSet(entries) :
          ~ (Alternatives(e) \subseteq Alternatives(f) /\ Alternatives(e) # Alternatives(f))}

\* The fields a preference of each type is weighed against.
FieldsFor(type, p) ==
  LET prose == {FlattenSeq(c) : c \in ToSet(p.competencies)}
  IN  CASE type = "domain"     -> {p.industry} \cup prose
        [] type = "role_shape" -> p.culture \cup prose
        [] type = "culture"    -> {p.arrangement} \cup p.culture \cup prose
        [] OTHER -> {p.industry, p.arrangement} \cup p.culture \cup Named(p.required)

PreferenceMatches(pref, fields) ==
  \E term \in {pref.label} \cup pref.aliases : MatchesSignal(term, fields)

\* A group offers substitutes: it is answered by who answers all of them.
CorePracticeAnswered(pref, entries) ==
  \E e \in entries :
    Alternatives(e) # {} /\ \A alt \in Alternatives(e) : PreferenceMatches(pref, {alt})

Answered(pref, p) ==
  IF pref.type = "core_practice"
  THEN CorePracticeAnswered(pref, CollapseSubsumed(p.practice))
  ELSE PreferenceMatches(pref, FieldsFor(pref.type, p))

\* Four lists; what is avoided is in none.
ScorePreferenceFit(prefs, p) ==
  LET soft == {r \in prefs : ~ r.gate}
  IN  [matches   |-> {r \in soft : r.sentiment = "positive" /\ Answered(r, p)},
       gaps      |-> {r \in soft : r.sentiment = "positive" /\ ~ Answered(r, p)},
       conflicts |-> {r \in soft : r.sentiment = "negative" /\ Answered(r, p)},
       gateHits  |-> {r \in prefs : r.gate /\ Answered(r, p)}]

-----------------------------------------------------------------------------
(* The profile                                                             *)

Active == {s \in Skill : depth[s] # Unknown}

\* What the matcher sees of the profile d, listed in the order o: the query that
\* lists it has no ORDER BY.
Listed(o, d) ==
  {[at |-> i, name |-> o[i].name, aliases |-> o[i].aliases,
    category |-> o[i].category, proficiency |-> d[o[i]]]
     : i \in {i \in DOMAIN o : d[o[i]] # Unknown}}

Init == posting \in Postings /\ depth = [s \in Skill |-> Unknown]

Create(s, l) ==
  /\ depth[s] = Unknown
  /\ depth' = [depth EXCEPT ![s] = l]
  /\ UNCHANGED posting

Update(s, l) ==
  /\ depth[s] # Unknown /\ depth[s] # l
  /\ depth' = [depth EXCEPT ![s] = l]
  /\ UNCHANGED posting

Delete(s) ==
  /\ depth[s] # Unknown
  /\ depth' = [depth EXCEPT ![s] = Unknown]
  /\ UNCHANGED posting

Next == \E s \in Skill : Delete(s) \/ \E l \in Levels : Create(s, l) \/ Update(s, l)

Spec == Init /\ [][Next]_vars

-----------------------------------------------------------------------------

Unlevelled(p) == [p EXCEPT !.stated = <<>>]

\* One more skill never opens a gap, and never lowers the score of a posting
\* that states no depth, wherever the new row comes in the listing.
MoreSkillsNeverHurt ==
  \A s \in Skill \ Active, l \in Levels, o \in Orders :
    LET rows == Listed(o, depth)
        more == Listed(o, [depth EXCEPT ![s] = l])
    IN  /\ Gaps(posting, more) \subseteq Gaps(posting, rows)
        /\ Earned(Unlevelled(posting), more) >= Earned(Unlevelled(posting), rows)

\* Recording a skill as deeper than before never lowers a score.
DeeperNeverHurts ==
  \A s \in Active, l \in Levels, o \in Orders :
    Rank(l) > Rank(depth[s]) =>
      Earned(posting, Listed(o, [depth EXCEPT ![s] = l])) >= Earned(posting, Listed(o, depth))

\* A competency that repeats a named skill, alone or in a longer phrase, changes
\* nothing: one requirement is not scored twice.
SaidOnce ==
  \A a \in Named(posting.required \o posting.preferred), w \in Word :
    \A again \in {<<a>>, <<Append(a, w)>>, <<<<w>> \o a>>} :
      LET said == [posting EXCEPT !.competencies = Append(@, again)]
      IN  /\ Possible(said) = Possible(posting)
          /\ DedupeCompetencies(said) = DedupeCompetencies(posting)

\* Listing some of a group's alternatives again, before it or after, decides no
\* preference: who may be excused from a skill is not held to it.
RestatementIsHarmless ==
  \A e \in ToSet(posting.practice), pref \in Preferences :
    \A part \in (SUBSET Alternatives(e)) \ {{}} : \A alt \in part :
      LET before == [posting EXCEPT !.practice = <<<<alt>>>> \o @]
          after  == [posting EXCEPT !.practice = Append(@, SetToSeq(part))]
      IN  /\ Answered(pref, before) = Answered(pref, posting)
          /\ Answered(pref, after) = Answered(pref, posting)

=============================================================================
