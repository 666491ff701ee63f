\* A profile grows and shrinks under each of the postings.
CONSTANTS
  Word <- Words
  Fold <- Tokenized
  Skill <- Skills
  CategoryTerms <- Vocabulary
  Bands <- Scale
  Orders <- Either
  Unknown = "none"
  Postings <- AllPostings
  Preferences <- Rows
SPECIFICATION Spec
INVARIANTS MoreSkillsNeverHurt DeeperNeverHurts SaidOnce RestatementIsHarmless
