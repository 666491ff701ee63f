-------------------------- MODULE OnboardingProofs --------------------------
(***************************************************************************)
(* Proofs about Onboarding, for any answers, any vocabulary and any number *)
(* of faults, edits and rounds of the interview.                           *)
(*                                                                         *)
(* A turn works on the state of the last checkpoint, so what a node was    *)
(* told is still what the checkpoint says (Said). Nobody but the interview *)
(* makes rows of the career, so a name that was not listed is not there    *)
(* when the row is made (RowsInv), and an answer about the work has at     *)
(* most one row for every call whose answer was lost, and one more when it *)
(* is recorded (TextInv). A link keeps its tag, so a claim keeps a tag of  *)
(* its spelling up to case that is attached to its contribution (TagsInv). *)
(***************************************************************************)
EXTENDS Onboarding, FiniteSetTheorems, FunctionTheorems, WellFoundedInduction, SequenceTheorems, TLAPS

Fields ==
  {"at", "retry", "told", "employer", "employerNote", "employerRow", "title", "titleNote",
   "started", "startedNote", "ended", "positionRow", "text", "contribution", "candidates",
   "index", "reply", "rounds"}

Answer == [name : Spelling, category : STRING, durable : BOOLEAN]

\* A name or a title is what was said, or a placeholder with a note.
Named(field, note, answer) ==
  /\ field = (IF answer = Sentence THEN Placeholder ELSE answer)
  /\ note = (answer = Sentence)

BegunAsTold(s) ==
  /\ s.started = (IF s.told.start = Sentence THEN Fallback ELSE Earliest[s.told.start])
  /\ s.startedNote = (s.told.start = Sentence)

EndedAsTold(s) ==
  /\ s.ended = <<>> <=> s.told.end = Still
  /\ s.ended # <<>> =>
       \/ s.ended[1] = Fallback
       \/ s.ended[1] \in Larger(s.started, Earliest[s.told.end]) .. Latest[s.told.end]

\* What a checkpoint says of the job was said of this job.
Said(s) ==
  /\ DOMAIN s = Fields /\ DOMAIN s.told = {"employer", "title", "start", "end"}
  /\ s.started \in Nat
  /\ s.at = "resolve_employer_again" =>
       s.reply \in Company \cup {Sentence} /\ s.told.employer = s.reply
  /\ s.at = "resolve_employer" => Named(s.employer, s.employerNote, s.told.employer)
  /\ s.at \in {"ask_position_start", "ask_position_end", "resolve_position"} =>
       Named(s.title, s.titleNote, s.told.title)
  /\ s.at \in {"ask_position_end", "resolve_position"} => BegunAsTold(s)
  /\ s.at = "resolve_position" => EndedAsTold(s)

\* The candidate a node is about is one of those that were read.
Picked(s) ==
  /\ s.candidates \in Seq(Answer) /\ s.index \in Nat \ {0}
  /\ s.at \in {"confirm_next_tag", "ask_skill_depth", "attach_tag", "record_skill"} =>
       s.index <= Len(s.candidates)

\* A turn works on the checkpoint, and an answer is one to its question.
TurnInv ==
  turn # Off =>
    /\ DOMAIN turn = {"on", "s", "message", "pc", "tag"} /\ turn.s = cp
    /\ turn.message # Silent =>
         /\ cp.at = "ask_employer" => turn.message \in Company \cup {Sentence}
         /\ cp.at = "ask_position_title" => turn.message \in Title \cup {Sentence}
         /\ cp.at = "ask_position_start" => turn.message \in DateAnswer \cup {Sentence}
         /\ cp.at = "ask_position_end" => turn.message \in DateAnswer \cup {Still, Sentence}
         /\ cp.at = "ask_more_employers" => turn.message \in Company \cup {Sentence, Done}

RowsInv ==
  /\ made \in Nat /\ IsFiniteSet(rows)
  /\ \A x \in rows : x.id \in 1 .. made
  /\ \A x, y \in rows : x.id = y.id => x = y
  /\ \A x, y \in rows :
       /\ x.kind = y.kind /\ x.kind # "contribution" /\ x.under = y.under
       /\ x.label = y.label /\ x.label # Placeholder
       => x = y
  /\ turn # Off /\ turn.pc = "create" =>
       /\ cp.at = "resolve_employer" => \A e \in Of("employer") : e.label # cp.employer
       /\ cp.at = "resolve_position" =>
            \A p \in Of("position") : ~ (p.under = cp.employerRow /\ p.label = cp.title)

Kept(text) == {x \in rows : x.kind = "contribution" /\ x.label = text}

TextInv ==
  /\ lost \in Nat /\ cp.text \in Nat
  /\ \A x \in Of("contribution") : x.label \in 0 .. cp.text
  /\ \A text \in Nat :
       Cardinality(Kept(text)) <=
         IF cp.at = "record_contribution" /\ text = cp.text THEN lost ELSE lost + 1

\* What was attached to a contribution and not put back after a page took it off.
Attachments == links \cup unlinked

\* A tag of this spelling, up to case, is attached to the contribution, or was
\* until a page took it off.
Evidenced(from, tag) ==
  \/ from = 0 \/ ~ Has("contribution", from)
  \/ \E l \in Attachments : l = <<from, l[2]>> /\ Fold[l[2]] = Fold[tag]

TagsInv ==
  /\ tags \subseteq [name : Spelling, category : STRING]
  /\ \A l \in links : \E t \in tags : t.name = l[2]
  /\ \A k \in skills : /\ \E t \in tags : t.name = k.tag
                       /\ k.from \in 0 .. made
                       /\ Evidenced(k.from, k.tag)
  /\ cp.contribution \in 0 .. made
  /\ turn # Off /\ cp.at \in {"attach_tag", "record_skill"} =>
       /\ turn.pc \in {"attach", "depth"} => Fold[turn.tag] = Fold[Candidate.name]
       /\ turn.pc = "depth" => Evidenced(cp.contribution, turn.tag)

Inv == TurnInv /\ Said(cp) /\ Picked(cp) /\ RowsInv /\ TextInv /\ TagsInv

-----------------------------------------------------------------------------
(* Tags up to case                                                         *)

\* Of some places in a listing one is the first.
LEMMA First ==
  ASSUME NEW S \in SUBSET Nat, S # {}
  PROVE  \E i \in S : \A j \in S : i <= j
  <1>1. PICK i \in S : \A j \in S : ~ (<<j, i>> \in OpToRel(<, Nat))
    BY NatLessThanWellFounded, WFMin, Zenon
  <1>2. \A j \in S : ~ (j < i)
    BY <1>1, Zenon DEF OpToRel
  <1> QED
    BY <1>2

LEMMA FirstOfThem ==
  ASSUME tags \subseteq [name : Spelling, category : STRING], NEW name, Alike(name) # {}
  PROVE  FirstAlike(name) \in Alike(name)
  <1> DEFINE S == {i \in DOMAIN TagNames : TagNames[i] \in Alike(name)}
             first(i) == TagNames[i] \in Alike(name)
                           /\ \A j \in 1 .. i - 1 : TagNames[j] \notin Alike(name)
  <1>1. DOMAIN TagNames = 1 .. Len(TagNames) /\ Len(TagNames) \in Nat
    BY OnboardingAssumption, LenProperties
  <1>2. Alike(name) \subseteq {TagNames[i] : i \in DOMAIN TagNames}
    BY DEF Alike, Spelling, ToSet
  <1>3. S # {} /\ S \in SUBSET Nat
    BY <1>1, <1>2
  <1>4. PICK i \in S : \A j \in S : i <= j
    BY <1>3, First
  <1>5. i \in DOMAIN TagNames /\ first(i)
    BY <1>1, <1>4
  <1>6. first(CHOOSE k \in DOMAIN TagNames : first(k))
    BY <1>5
  <1> QED
    BY <1>6 DEF FirstAlike

-----------------------------------------------------------------------------
(* What a step that writes nothing keeps                                   *)

\* A turn is over; a call of it may have failed.
LEMMA StopKeeps ==
  ASSUME Inv, Stop, UNCHANGED Tables, lost' = lost
  PROVE  Inv'
  <1>1. cp' = cp /\ turn' = Off
    BY DEF Stop
  <1>2. TurnInv' /\ Said(cp)' /\ Picked(cp)'
    BY <1>1 DEF Inv, TurnInv, Said, Picked, Named, BegunAsTold, EndedAsTold
  <1>3. RowsInv' /\ TextInv'
    BY <1>1 DEF Inv, RowsInv, TextInv, Tables, Career, Kept, Of
  <1>4. TagsInv'
    BY <1>1 DEF Inv, TagsInv, Tables, Career, Vocabulary, Evidenced, Attachments,
       Has, Of
  <1> QED
    BY <1>2, <1>3, <1>4 DEF Inv

\* A node is done: what it made of its state is sound.
LEMMA AdvanceKeeps ==
  ASSUME Inv, NEW s, Advance(s), Quiet, Said(s), Picked(s), s.contribution = cp.contribution,
         \/ s.text = cp.text /\ s.at # "record_contribution"
         \/ s.text = cp.text + 1 /\ s.at = "record_contribution"
  PROVE  Inv'
  <1>1. /\ cp' = s /\ DOMAIN turn' = {"on", "s", "message", "pc", "tag"} /\ turn'.s = s
        /\ turn'.message = Silent /\ turn'.pc = "start"
    BY DEF Advance, On
  <1>2. UNCHANGED Tables /\ UNCHANGED Trouble
    BY DEF Quiet, Tables
  <1>3. TurnInv' /\ Said(cp)' /\ Picked(cp)'
    BY <1>1 DEF TurnInv, Said, Picked, Named, BegunAsTold, EndedAsTold
  <1>4. RowsInv'
    BY <1>1, <1>2 DEF Inv, RowsInv, Tables, Career, Of
  <1>5. TextInv'
    <2>1. /\ lost' = lost /\ cp'.text \in Nat /\ cp'.text \in {cp.text, cp.text + 1}
          /\ rows' = rows /\ lost \in Nat
      BY <1>1, <1>2 DEF Inv, TextInv, Tables, Career, Trouble
    <2>2. (\A x \in Of("contribution") : x.label \in 0 .. cp.text)'
      BY <2>1 DEF Inv, TextInv, Of
    <2>3. ASSUME NEW text \in Nat
          PROVE  Cardinality(Kept(text))' <=
                   IF cp'.at = "record_contribution" /\ text = cp'.text THEN lost ELSE lost + 1
      <3>1. Kept(text)' = Kept(text)
        BY <2>1 DEF Kept
      <3>2. Cardinality(Kept(text)) <=
              IF cp.at = "record_contribution" /\ text = cp.text THEN lost ELSE lost + 1
        BY DEF Inv, TextInv
      <3>3. Cardinality(Kept(text)) \in Nat
        <4>1. Kept(text) \subseteq rows /\ IsFiniteSet(rows)
          BY DEF Kept, Inv, RowsInv
        <4> QED
          BY <4>1, FS_Subset, FS_CardinalityType
      <3>4. CASE cp'.at = "record_contribution" /\ text = cp'.text
        <4>1. text = cp.text + 1 /\ cp.text \in Nat
          BY <1>1, <3>4 DEF Inv, TextInv
        <4>2. Kept(text) = {}
          BY <4>1 DEF Kept, Inv, TextInv, Of
        <4> QED
          BY <2>1, <3>1, <4>2, FS_EmptySet
      <3>5. CASE ~ (cp'.at = "record_contribution" /\ text = cp'.text)
        BY <2>1, <3>1, <3>2, <3>3, <3>5
      <3> QED
        BY <3>4, <3>5
    <2> QED
      BY <2>1, <2>2, <2>3 DEF TextInv
  <1>6. TagsInv'
    BY <1>1, <1>2 DEF Inv, TagsInv, Tables, Career, Vocabulary, Evidenced, Attachments,
       Has, Of
  <1> QED
    BY <1>3, <1>4, <1>5, <1>6 DEF Inv

\* A turn whose question has no answer yet ends; else the answer is worked in.
LEMMA AskKeeps ==
  ASSUME Inv, Quiet, NEW s, IF turn.message = Silent THEN Stop ELSE Advance(s),
         turn.message # Silent =>
           /\ Said(s) /\ Picked(s) /\ s.contribution = cp.contribution
           /\ \/ s.text = cp.text /\ s.at # "record_contribution"
              \/ s.text = cp.text + 1 /\ s.at = "record_contribution"
  PROVE  Inv'
  BY StopKeeps, AdvanceKeeps DEF Quiet, Tables, Trouble

LEMMA Working ==
  ASSUME Inv, NEW node, At(node)
  PROVE  /\ turn # Off /\ turn.s = cp /\ cp.at = node
         /\ Said(cp) /\ Picked(cp) /\ TurnInv
         /\ cp.text \in Nat /\ cp.contribution \in Nat
  BY DEF Inv, At, TurnInv, TextInv, TagsInv, RowsInv

-----------------------------------------------------------------------------
(* The questions about a job                                               *)

\* What a question about a job leaves alone.
Beside(s, t) ==
  /\ DOMAIN t = Fields /\ DOMAIN t.told = {"employer", "title", "start", "end"}
  /\ t.candidates = s.candidates /\ t.index = s.index
  /\ t.text = s.text /\ t.contribution = s.contribution

LEMMA AskEmployerInv ==
  ASSUME Inv, AskEmployer
  PROVE  Inv'
  <1> DEFINE answer == turn.message
             t == [cp EXCEPT !.told.employer = answer]
             s == RouteEmployer(
                    CASE answer # Sentence -> Name(t, answer)
                      [] answer = Sentence /\ "employer" \in cp.retry -> Name(t, Placeholder)
                      [] OTHER -> Missed(t, "employer"))
  <1>1. At("ask_employer") /\ Quiet
    BY DEF AskEmployer, Ask
  <1>2. turn.s = cp /\ cp.at = "ask_employer" /\ Said(cp) /\ Picked(cp) /\ TurnInv /\ turn # Off
    BY <1>1, Working
  <1>3. IF answer = Silent THEN Stop ELSE Advance(s)
    BY <1>2 DEF AskEmployer, Ask
  <1>4. ASSUME answer # Silent
        PROVE  Said(s) /\ Picked(s) /\ s.contribution = cp.contribution
               /\ s.text = cp.text /\ s.at # "record_contribution"
    <2>1. answer \in Company \cup {Sentence} /\ Placeholder \notin Company
      BY <1>2, <1>4, OnboardingAssumption DEF TurnInv
    <2>2. Beside(cp, t) /\ t.told.employer = answer /\ t.started = cp.started /\ t.retry = cp.retry
      BY <1>2 DEF Said, Fields, Beside
    <2> HIDE DEF t
    <2>3. /\ Beside(cp, s) /\ s.told = t.told /\ s.started = t.started
          /\ \/ s.at = "ask_employer"
             \/ s.at = "resolve_employer" /\ Named(s.employer, s.employerNote, answer)
      <3>1. CASE answer # Sentence
        <4>1. s = RouteEmployer(Name(t, answer))
          BY <3>1
        <4> HIDE DEF s
        <4> QED
          BY <2>1, <2>2, <3>1, <4>1 DEF RouteEmployer, Name, Fields, Named, Beside
      <3>2. CASE answer = Sentence /\ "employer" \in cp.retry
        <4>1. s = RouteEmployer(Name(t, Placeholder))
          BY <3>2
        <4> HIDE DEF s
        <4> QED
          BY <2>2, <3>2, <4>1 DEF RouteEmployer, Name, Fields, Named, Beside
      <3>3. CASE answer = Sentence /\ "employer" \notin cp.retry
        <4>1. s = RouteEmployer(Missed(t, "employer"))
          BY <3>3
        <4> HIDE DEF s
        <4>2. "employer" \in Missed(t, "employer").retry
          BY <2>2 DEF Missed, Fields, Beside
        <4> QED
          BY <2>2, <4>1, <4>2 DEF RouteEmployer, Missed, Fields, Beside
      <3> QED
        BY <3>1, <3>2, <3>3
    <2> HIDE DEF s
    <2> QED
      BY <1>2, <2>2, <2>3 DEF Said, Picked, Beside
  <1> HIDE DEF s
  <1> QED
    BY <1>1, <1>3, <1>4, AskKeeps

LEMMA AskPositionTitleInv ==
  ASSUME Inv, AskPositionTitle
  PROVE  Inv'
  <1> DEFINE answer == turn.message
             t == [cp EXCEPT !.told.title = answer]
             s == RoutePositionTitle(
                    CASE answer # Sentence -> Entitle(t, answer)
                      [] answer = Sentence /\ "title" \in cp.retry -> Entitle(t, Placeholder)
                      [] OTHER -> Missed(t, "title"))
  <1>1. At("ask_position_title") /\ Quiet
    BY DEF AskPositionTitle, Ask
  <1>2. turn.s = cp /\ cp.at = "ask_position_title" /\ Said(cp) /\ Picked(cp) /\ TurnInv /\ turn # Off
    BY <1>1, Working
  <1>3. IF answer = Silent THEN Stop ELSE Advance(s)
    BY <1>2 DEF AskPositionTitle, Ask
  <1>4. ASSUME answer # Silent
        PROVE  Said(s) /\ Picked(s) /\ s.contribution = cp.contribution
               /\ s.text = cp.text /\ s.at # "record_contribution"
    <2>1. answer \in Title \cup {Sentence} /\ Placeholder \notin Title
      BY <1>2, <1>4, OnboardingAssumption DEF TurnInv
    <2>2. Beside(cp, t) /\ t.told.title = answer /\ t.started = cp.started /\ t.retry = cp.retry
      BY <1>2 DEF Said, Fields, Beside
    <2> HIDE DEF t
    <2>3. /\ Beside(cp, s) /\ s.told = t.told /\ s.started = t.started
          /\ \/ s.at = "ask_position_title"
             \/ s.at = "ask_position_start" /\ Named(s.title, s.titleNote, answer)
      <3>1. CASE answer # Sentence
        <4>1. s = RoutePositionTitle(Entitle(t, answer))
          BY <3>1
        <4> HIDE DEF s
        <4> QED
          BY <2>1, <2>2, <3>1, <4>1 DEF RoutePositionTitle, Entitle, Fields, Named, Beside
      <3>2. CASE answer = Sentence /\ "title" \in cp.retry
        <4>1. s = RoutePositionTitle(Entitle(t, Placeholder))
          BY <3>2
        <4> HIDE DEF s
        <4> QED
          BY <2>2, <3>2, <4>1 DEF RoutePositionTitle, Entitle, Fields, Named, Beside
      <3>3. CASE answer = Sentence /\ "title" \notin cp.retry
        <4>1. s = RoutePositionTitle(Missed(t, "title"))
          BY <3>3
        <4> HIDE DEF s
        <4>2. "title" \in Missed(t, "title").retry
          BY <2>2 DEF Missed, Fields, Beside
        <4> QED
          BY <2>2, <4>1, <4>2 DEF RoutePositionTitle, Missed, Fields, Beside
      <3> QED
        BY <3>1, <3>2, <3>3
    <2> HIDE DEF s
    <2> QED
      BY <1>2, <2>2, <2>3 DEF Said, Picked, Beside
  <1> HIDE DEF s
  <1> QED
    BY <1>1, <1>3, <1>4, AskKeeps

LEMMA AskPositionStartInv ==
  ASSUME Inv, AskPositionStart
  PROVE  Inv'
  <1> DEFINE answer == turn.message
             t == [cp EXCEPT !.told.start = answer]
             starts(date, note) ==
               [t EXCEPT !.started = date, !.startedNote = note, !.retry = @ \ {"start"}]
             s == RoutePositionStart(
                    CASE answer \in DateAnswer -> starts(Earliest[answer], FALSE)
                      [] answer \notin DateAnswer /\ "start" \in cp.retry -> starts(Fallback, TRUE)
                      [] OTHER -> Missed(t, "start"))
  <1>1. At("ask_position_start") /\ Quiet
    BY DEF AskPositionStart, Ask
  <1>2. turn.s = cp /\ cp.at = "ask_position_start" /\ Said(cp) /\ Picked(cp) /\ TurnInv /\ turn # Off
    BY <1>1, Working
  <1>3. IF answer = Silent THEN Stop ELSE Advance(s)
    BY <1>2 DEF AskPositionStart, Ask
  <1>4. ASSUME answer # Silent
        PROVE  Said(s) /\ Picked(s) /\ s.contribution = cp.contribution
               /\ s.text = cp.text /\ s.at # "record_contribution"
    <2>1. /\ answer \in DateAnswer \cup {Sentence} /\ Sentence \notin DateAnswer
          /\ answer \in DateAnswer => Earliest[answer] \in Nat
      BY <1>2, <1>4, OnboardingAssumption DEF TurnInv
    <2>2. /\ Beside(cp, t) /\ t.told.start = answer /\ t.told.title = cp.told.title
          /\ t.started = cp.started /\ t.retry = cp.retry
          /\ t.title = cp.title /\ t.titleNote = cp.titleNote
      BY <1>2 DEF Said, Fields, Beside
    <2> HIDE DEF t
    <2>3. /\ Beside(cp, s) /\ s.told = t.told /\ s.title = t.title /\ s.titleNote = t.titleNote
          /\ s.started \in Nat
          /\ \/ s.at = "ask_position_start"
             \/ s.at = "ask_position_end" /\ BegunAsTold(s)
      <3>1. CASE answer \in DateAnswer
        <4>1. s = RoutePositionStart(starts(Earliest[answer], FALSE))
          BY <3>1
        <4> HIDE DEF s
        <4>2. answer # Sentence
          BY <2>1, <3>1
        <4>3. /\ Beside(cp, s) /\ s.told = t.told /\ s.title = t.title /\ s.titleNote = t.titleNote
              /\ s.started = Earliest[answer] /\ s.startedNote = FALSE
              /\ s.at \in {"ask_position_start", "ask_position_end"}
          BY <2>2, <4>1 DEF RoutePositionStart, Fields, Beside
        <4> QED
          BY <2>1, <2>2, <3>1, <4>2, <4>3 DEF BegunAsTold
      <3>2. CASE answer \notin DateAnswer /\ "start" \in cp.retry
        <4>1. s = RoutePositionStart(starts(Fallback, TRUE))
          BY <3>2
        <4> HIDE DEF s
        <4> QED
          BY <2>1, <2>2, <3>2, <4>1 DEF RoutePositionStart, Fields, BegunAsTold, Beside, Fallback
      <3>3. CASE answer \notin DateAnswer /\ "start" \notin cp.retry
        <4>1. s = RoutePositionStart(Missed(t, "start"))
          BY <3>3
        <4> HIDE DEF s
        <4>2. "start" \in Missed(t, "start").retry
          BY <2>2 DEF Missed, Fields, Beside
        <4> QED
          BY <1>2, <2>2, <4>1, <4>2 DEF RoutePositionStart, Missed, Fields, Beside, Said
      <3> QED
        BY <3>1, <3>2, <3>3
    <2> HIDE DEF s
    <2> QED
      BY <1>2, <2>2, <2>3 DEF Said, Picked, Beside
  <1> HIDE DEF s
  <1> QED
    BY <1>1, <1>3, <1>4, AskKeeps

LEMMA AskPositionEndInv ==
  ASSUME Inv, AskPositionEnd
  PROVE  Inv'
  <1> DEFINE answer == turn.message
             t == [cp EXCEPT !.told.end = answer]
             s == RoutePositionEnd(EndOf(t, answer))
  <1>1. At("ask_position_end") /\ Quiet
    BY DEF AskPositionEnd, Ask
  <1>2. turn.s = cp /\ cp.at = "ask_position_end" /\ Said(cp) /\ Picked(cp) /\ TurnInv /\ turn # Off
    BY <1>1, Working
  <1>3. IF answer = Silent THEN Stop ELSE Advance(s)
    BY <1>2 DEF AskPositionEnd, Ask
  <1>4. ASSUME answer # Silent
        PROVE  Said(s) /\ Picked(s) /\ s.contribution = cp.contribution
               /\ s.text = cp.text /\ s.at # "record_contribution"
    <2>1. /\ answer \in DateAnswer \cup {Still, Sentence}
          /\ Still \notin DateAnswer /\ Sentence \notin DateAnswer /\ Sentence # Still
          /\ answer \in DateAnswer => /\ Earliest[answer] \in Nat /\ Latest[answer] \in Nat
                                      /\ Earliest[answer] <= Latest[answer]
      BY <1>2, <1>4, OnboardingAssumption DEF TurnInv
    <2>2. /\ Beside(cp, t) /\ t.told.end = answer
          /\ t.told.title = cp.told.title /\ t.told.start = cp.told.start
          /\ t.started = cp.started /\ t.startedNote = cp.startedNote /\ t.retry = cp.retry
          /\ t.title = cp.title /\ t.titleNote = cp.titleNote
      BY <1>2 DEF Said, Fields, Beside
    <2> HIDE DEF t
    <2> DEFINE Rest(r) ==
          /\ Beside(t, r) /\ r.told = t.told /\ r.title = t.title /\ r.titleNote = t.titleNote
          /\ r.started = t.started /\ r.startedNote = t.startedNote
    <2>3. /\ Rest(s)
          /\ \/ s.at = "ask_position_end"
             \/ s.at = "resolve_position" /\ EndedAsTold(s)
      <3>1. ASSUME NEW ended, EndOf(t, answer) = Ended(t, ended)
            PROVE  Rest(s) /\ s.ended = ended
        <4> DEFINE r == Ended(t, ended)
        <4>1. Rest(r) /\ r.ended = ended
          BY <2>2 DEF Ended, Fields, Beside
        <4>2. s = RoutePositionEnd(r)
          BY <3>1
        <4> HIDE DEF r, s
        <4> QED
          BY <4>1, <4>2 DEF RoutePositionEnd, Fields, Beside
      <3>2. s.at = "ask_position_end" \/ s.at = "resolve_position"
        <4> DEFINE r == EndOf(t, answer)
        <4>1. DOMAIN r = Fields
          BY <2>2, Zenon DEF EndOf, Ended, Missed, Beside
        <4> HIDE DEF r
        <4>2. RoutePositionEnd(r).at \in {"ask_position_end", "resolve_position"}
          BY <4>1 DEF RoutePositionEnd, Fields
        <4> QED
          BY <4>2 DEF r
      <3>3. CASE Dated(t, answer)
        <4> DEFINE month == Larger(Earliest[answer], t.started)
        <4>1. EndOf(t, answer) = Ended(t, <<month>>)
          <5>1. answer # Still /\ answer # Sentence
            BY <2>1, <3>3 DEF Dated
          <5> QED
            BY <3>3, <5>1 DEF EndOf
        <4>2. answer \in DateAnswer /\ ~ EndsBefore(answer, t.started) /\ t.started \in Nat
          BY <1>2, <2>2, <3>3 DEF Dated, Said
        <4>3. month \in Larger(t.started, Earliest[answer]) .. Latest[answer]
          BY <2>1, <4>2 DEF EndsBefore, Larger, Fallback
        <4> HIDE DEF month
        <4>4. Rest(s) /\ s.ended = <<month>>
          BY <3>1, <4>1
        <4> HIDE DEF s
        <4>5. s.ended # <<>> /\ s.ended[1] = month
          BY <4>4
        <4> QED
          BY <2>1, <2>2, <3>2, <4>2, <4>3, <4>4, <4>5 DEF EndedAsTold
      <3>4. CASE answer = Still
        <4>1. EndOf(t, answer) = Ended(t, <<>>)
          BY <2>1, <3>4 DEF EndOf, Dated
        <4>2. Rest(s) /\ s.ended = <<>>
          BY <3>1, <4>1
        <4> HIDE DEF s
        <4> QED
          BY <2>2, <3>2, <3>4, <4>2 DEF EndedAsTold
      <3>5. CASE ~ Dated(t, answer) /\ answer # Still /\ "end" \in t.retry
        <4>1. EndOf(t, answer) = Ended(t, <<Fallback>>)
          BY <3>5 DEF EndOf
        <4>2. Rest(s) /\ s.ended = <<Fallback>>
          BY <3>1, <4>1
        <4> HIDE DEF s
        <4>3. s.ended # <<>> /\ s.ended[1] = Fallback
          BY <4>2
        <4> QED
          BY <2>2, <3>2, <3>5, <4>2, <4>3 DEF EndedAsTold
      <3>6. CASE ~ Dated(t, answer) /\ answer # Still /\ "end" \notin t.retry
        <4> DEFINE r == Missed(t, "end")
        <4>1. s = RoutePositionEnd(r)
          <5>1. EndOf(t, answer) = r
            BY <3>6 DEF EndOf
          <5> QED
            BY <5>1
        <4>2. Rest(r) /\ "end" \in r.retry
          BY <2>2 DEF Missed, Fields, Beside
        <4> HIDE DEF s, r
        <4> QED
          BY <4>1, <4>2 DEF RoutePositionEnd, Fields, Beside
      <3> QED
        BY <3>3, <3>4, <3>5, <3>6
    <2> HIDE DEF s
    <2> QED
      BY <1>2, <2>2, <2>3 DEF Said, Picked, Beside, BegunAsTold
  <1> HIDE DEF s
  <1> QED
    BY <1>1, <1>3, <1>4, AskKeeps

-----------------------------------------------------------------------------
(* The other questions                                                     *)

\* A node that changes nothing a job or a candidate is told by.
LEMMA SameJob ==
  ASSUME Said(cp), NEW s, DOMAIN s = Fields, s.told = cp.told, s.started = cp.started,
         s.at \notin {"resolve_employer_again", "resolve_employer", "ask_position_start",
                      "ask_position_end", "resolve_position"}
  PROVE  Said(s)
  BY DEF Said

LEMMA AskContributionInv ==
  ASSUME Inv, AskContribution
  PROVE  Inv'
  <1> DEFINE s == [cp EXCEPT !.text = @ + 1, !.at = "record_contribution"]
  <1>1. At("ask_contribution") /\ Quiet
    BY DEF AskContribution, Ask
  <1>2. turn.s = cp /\ Said(cp) /\ Picked(cp) /\ cp.text \in Nat
    BY <1>1, Working
  <1>3. IF turn.message = Silent THEN Stop ELSE Advance(s)
    BY <1>2 DEF AskContribution, Ask
  <1>4. /\ DOMAIN s = Fields /\ s.told = cp.told /\ s.started = cp.started
        /\ s.contribution = cp.contribution /\ s.text = cp.text + 1 /\ s.at = "record_contribution"
        /\ s.candidates = cp.candidates /\ s.index = cp.index
    BY <1>2 DEF Said, Fields
  <1> HIDE DEF s
  <1>5. Said(s) /\ Picked(s)
    BY <1>2, <1>4, SameJob DEF Picked
  <1> QED
    BY <1>1, <1>3, <1>4, <1>5, AskKeeps

LEMMA ConfirmNextTagInv ==
  ASSUME Inv, ConfirmNextTag
  PROVE  Inv'
  <1> DEFINE answer == turn.message
             next == CASE answer = No -> "advance_tag_index"
                       [] answer # No /\ cp.candidates[cp.index].durable -> "ask_skill_depth"
                       [] OTHER -> "attach_tag"
             s == [cp EXCEPT !.reply = answer, !.at = next]
  <1>1. At("confirm_next_tag") /\ Quiet
    BY DEF ConfirmNextTag, Ask
  <1>2. turn.s = cp /\ Said(cp) /\ Picked(cp) /\ cp.at = "confirm_next_tag"
    BY <1>1, Working
  <1>3. IF answer = Silent THEN Stop ELSE Advance(s)
    BY <1>2 DEF ConfirmNextTag, Ask
  <1>4. next \in {"advance_tag_index", "ask_skill_depth", "attach_tag"}
    OBVIOUS
  <1> HIDE DEF next
  <1>5. /\ DOMAIN s = Fields /\ s.told = cp.told /\ s.started = cp.started
        /\ s.contribution = cp.contribution /\ s.text = cp.text /\ s.at = next
        /\ s.candidates = cp.candidates /\ s.index = cp.index
    BY <1>2 DEF Said, Fields
  <1> HIDE DEF s
  <1>6. Said(s) /\ Picked(s)
    BY <1>2, <1>4, <1>5, SameJob DEF Picked
  <1> QED
    BY <1>1, <1>3, <1>4, <1>5, <1>6, AskKeeps

LEMMA AskSkillDepthInv ==
  ASSUME Inv, AskSkillDepth
  PROVE  Inv'
  <1> DEFINE s == [cp EXCEPT !.reply = turn.message, !.at = "record_skill"]
  <1>1. At("ask_skill_depth") /\ Quiet
    BY DEF AskSkillDepth, Ask
  <1>2. turn.s = cp /\ Said(cp) /\ Picked(cp) /\ cp.at = "ask_skill_depth"
    BY <1>1, Working
  <1>3. IF turn.message = Silent THEN Stop ELSE Advance(s)
    BY <1>2 DEF AskSkillDepth, Ask
  <1>4. /\ DOMAIN s = Fields /\ s.told = cp.told /\ s.started = cp.started
        /\ s.contribution = cp.contribution /\ s.text = cp.text /\ s.at = "record_skill"
        /\ s.candidates = cp.candidates /\ s.index = cp.index
    BY <1>2 DEF Said, Fields
  <1> HIDE DEF s
  <1>5. Said(s) /\ Picked(s)
    BY <1>2, <1>4, SameJob DEF Picked
  <1> QED
    BY <1>1, <1>3, <1>4, <1>5, AskKeeps

LEMMA AskMoreContributionsInv ==
  ASSUME Inv, AskMoreContributions
  PROVE  Inv'
  <1> DEFINE answer == turn.message
             s == IF answer = Done THEN [cp EXCEPT !.reply = answer, !.at = "ask_more_employers"]
                  ELSE [cp EXCEPT !.reply = answer, !.rounds = @ + 1,
                                  !.at = "record_contribution_again"]
  <1>1. At("ask_more_contributions") /\ Quiet
    BY DEF AskMoreContributions, Ask
  <1>2. turn.s = cp /\ Said(cp) /\ Picked(cp)
    BY <1>1, Working
  <1>3. IF answer = Silent THEN Stop ELSE Advance(s)
    BY <1>2 DEF AskMoreContributions, Ask
  <1>4. /\ DOMAIN s = Fields /\ s.told = cp.told /\ s.started = cp.started
        /\ s.contribution = cp.contribution /\ s.text = cp.text
        /\ s.at \in {"ask_more_employers", "record_contribution_again"}
        /\ s.candidates = cp.candidates /\ s.index = cp.index
    BY <1>2 DEF Said, Fields
  <1> HIDE DEF s
  <1>5. Said(s) /\ Picked(s)
    BY <1>2, <1>4, SameJob DEF Picked
  <1> QED
    BY <1>1, <1>3, <1>4, <1>5, AskKeeps

LEMMA AskMoreEmployersInv ==
  ASSUME Inv, AskMoreEmployers
  PROVE  Inv'
  <1> DEFINE answer == turn.message
             told == [Untold EXCEPT !.employer = answer]
             s == IF answer = Done THEN [cp EXCEPT !.reply = answer, !.at = "finish"]
                  ELSE [cp EXCEPT !.reply = answer, !.rounds = @ + 1, !.told = told,
                                  !.at = "resolve_employer_again"]
  <1>1. At("ask_more_employers") /\ Quiet
    BY DEF AskMoreEmployers, Ask
  <1>2. turn.s = cp /\ Said(cp) /\ Picked(cp) /\ TurnInv /\ turn # Off /\ cp.at = "ask_more_employers"
    BY <1>1, Working
  <1>3. IF answer = Silent THEN Stop ELSE Advance(s)
    BY <1>2 DEF AskMoreEmployers, Ask
  <1>4. DOMAIN told = {"employer", "title", "start", "end"} /\ told.employer = answer
    BY DEF Untold
  <1> HIDE DEF told
  <1>5. /\ DOMAIN s = Fields /\ s.started = cp.started
        /\ s.contribution = cp.contribution /\ s.text = cp.text
        /\ s.candidates = cp.candidates /\ s.index = cp.index
        /\ \/ s.at = "finish" /\ s.told = cp.told
           \/ answer # Done /\ s.at = "resolve_employer_again" /\ s.told = told /\ s.reply = answer
    BY <1>2 DEF Said, Fields
  <1> HIDE DEF s
  <1>6. answer # Silent => answer \in Company \cup {Sentence, Done}
    BY <1>2 DEF TurnInv
  <1>7. answer # Silent => Said(s) /\ Picked(s)
    BY <1>2, <1>4, <1>5, <1>6 DEF Picked, Said
  <1> QED
    BY <1>1, <1>3, <1>5, <1>7, AskKeeps

-----------------------------------------------------------------------------
(* The nodes that neither ask nor write                                    *)

LEMMA ExtractTagsInv ==
  ASSUME Inv, ExtractTags
  PROVE  Inv'
  <1>1. PICK candidates \in Proposals :
          /\ At("extract_tags") /\ Quiet
          /\ Advance(RouteTagConfirmation([turn.s EXCEPT !.candidates = candidates, !.index = 1]))
    BY DEF ExtractTags, Pure
  <1> DEFINE t == [cp EXCEPT !.candidates = candidates, !.index = 1]
             s == RouteTagConfirmation(t)
  <1>2. turn.s = cp /\ Said(cp) /\ Picked(cp)
    BY <1>1, Working
  <1>3. candidates \in Seq(Answer)
    BY OnboardingAssumption DEF Answer
  <1>4. /\ DOMAIN t = Fields /\ t.told = cp.told /\ t.started = cp.started
        /\ t.contribution = cp.contribution /\ t.text = cp.text
        /\ t.candidates = candidates /\ t.index = 1
    BY <1>2 DEF Said, Fields
  <1>5. Advance(s)
    BY <1>1, <1>2
  <1> HIDE DEF t
  <1>6. /\ DOMAIN s = Fields /\ s.told = t.told /\ s.started = t.started
        /\ s.contribution = t.contribution /\ s.text = t.text
        /\ s.candidates = t.candidates /\ s.index = t.index
        /\ \/ s.at = "confirm_next_tag" /\ t.index <= Len(t.candidates)
           \/ s.at = "ask_more_contributions"
    BY <1>4 DEF RouteTagConfirmation, Fields
  <1> HIDE DEF s
  <1>7. Said(s) /\ Picked(s)
    BY <1>2, <1>3, <1>4, <1>6, SameJob DEF Picked
  <1> QED
    BY <1>1, <1>4, <1>5, <1>6, <1>7, AdvanceKeeps

LEMMA AdvanceTagIndexInv ==
  ASSUME Inv, AdvanceTagIndex
  PROVE  Inv'
  <1> DEFINE t == [cp EXCEPT !.index = @ + 1]
             s == RouteTagConfirmation(t)
  <1>1. At("advance_tag_index") /\ Quiet /\ Advance(RouteTagConfirmation([turn.s EXCEPT !.index = @ + 1]))
    BY DEF AdvanceTagIndex, Pure
  <1>2. turn.s = cp /\ Said(cp) /\ Picked(cp)
    BY <1>1, Working
  <1>3. /\ DOMAIN t = Fields /\ t.told = cp.told /\ t.started = cp.started
        /\ t.contribution = cp.contribution /\ t.text = cp.text
        /\ t.candidates = cp.candidates /\ t.index = cp.index + 1
    BY <1>2 DEF Said, Fields
  <1>4. Advance(s)
    BY <1>1, <1>2
  <1> HIDE DEF t
  <1>5. /\ DOMAIN s = Fields /\ s.told = t.told /\ s.started = t.started
        /\ s.contribution = t.contribution /\ s.text = t.text
        /\ s.candidates = t.candidates /\ s.index = t.index
        /\ \/ s.at = "confirm_next_tag" /\ t.index <= Len(t.candidates)
           \/ s.at = "ask_more_contributions"
    BY <1>3 DEF RouteTagConfirmation, Fields
  <1> HIDE DEF s
  <1>6. Said(s) /\ Picked(s)
    BY <1>2, <1>3, <1>5, SameJob DEF Picked
  <1> QED
    BY <1>1, <1>3, <1>4, <1>5, <1>6, AdvanceKeeps

LEMMA RecordContributionAgainInv ==
  ASSUME Inv, RecordContributionAgain
  PROVE  Inv'
  <1> DEFINE s == [cp EXCEPT !.text = @ + 1, !.at = "record_contribution"]
  <1>1. /\ At("record_contribution_again") /\ Quiet
        /\ Advance([turn.s EXCEPT !.text = @ + 1, !.at = "record_contribution"])
    BY DEF RecordContributionAgain, Pure
  <1>2. turn.s = cp /\ Said(cp) /\ Picked(cp)
    BY <1>1, Working
  <1>3. /\ DOMAIN s = Fields /\ s.told = cp.told /\ s.started = cp.started
        /\ s.contribution = cp.contribution /\ s.text = cp.text + 1 /\ s.at = "record_contribution"
        /\ s.candidates = cp.candidates /\ s.index = cp.index
    BY <1>2 DEF Said, Fields
  <1>4. Advance(s)
    BY <1>1, <1>2
  <1> HIDE DEF s
  <1>5. Said(s) /\ Picked(s)
    BY <1>2, <1>3, SameJob DEF Picked
  <1> QED
    BY <1>1, <1>3, <1>4, <1>5, AdvanceKeeps

LEMMA ResolveEmployerAgainInv ==
  ASSUME Inv, ResolveEmployerAgain
  PROVE  Inv'
  <1> DEFINE s == NextEmployer(cp)
  <1>1. At("resolve_employer_again") /\ Quiet /\ Advance(NextEmployer(turn.s))
    BY DEF ResolveEmployerAgain, Pure
  <1>2. turn.s = cp /\ Said(cp) /\ Picked(cp) /\ cp.at = "resolve_employer_again"
    BY <1>1, Working
  <1>3. Advance(s)
    BY <1>1, <1>2
  <1>4. cp.reply \in Company \cup {Sentence} /\ cp.told.employer = cp.reply /\ Placeholder \notin Company
    BY <1>2, OnboardingAssumption DEF Said
  <1>5. /\ Beside(cp, s) /\ s.told = cp.told /\ s.started = cp.started
        /\ \/ s.at = "ask_employer"
           \/ s.at = "resolve_employer" /\ Named(s.employer, s.employerNote, cp.reply)
    <2>1. CASE cp.reply = Sentence
      <3> DEFINE r == Missed(cp, "employer")
      <3>1. s = RouteEmployer(r)
        BY <2>1 DEF NextEmployer
      <3>2. Beside(cp, r) /\ r.told = cp.told /\ r.started = cp.started /\ "employer" \in r.retry
        BY <1>2 DEF Missed, Fields, Beside, Said
      <3> HIDE DEF s, r
      <3> QED
        BY <3>1, <3>2 DEF RouteEmployer, Fields, Beside
    <2>2. CASE cp.reply # Sentence
      <3> DEFINE r == Name(cp, cp.reply)
      <3>1. s = RouteEmployer(r)
        BY <2>2 DEF NextEmployer
      <3>2. /\ Beside(cp, r) /\ r.told = cp.told /\ r.started = cp.started
            /\ r.employer = cp.reply /\ r.employerNote = (cp.reply = Placeholder)
        BY <1>2 DEF Name, Fields, Beside, Said
      <3> HIDE DEF s, r
      <3>3. /\ Beside(cp, s) /\ s.told = cp.told /\ s.started = cp.started
            /\ s.employer = cp.reply /\ s.employerNote = (cp.reply = Placeholder)
            /\ s.at \in {"ask_employer", "resolve_employer"}
        BY <3>1, <3>2 DEF RouteEmployer, Fields, Beside
      <3> QED
        BY <1>4, <2>2, <3>3 DEF Named
    <2> QED
      BY <2>1, <2>2
  <1> HIDE DEF s
  <1>6. Said(s) /\ Picked(s)
    BY <1>2, <1>4, <1>5 DEF Said, Picked, Beside
  <1> QED
    BY <1>1, <1>3, <1>5, <1>6, AdvanceKeeps DEF Beside

LEMMA FinishInv ==
  ASSUME Inv, Finish
  PROVE  Inv'
  <1> DEFINE s == [cp EXCEPT !.at = "end"]
  <1>1. At("finish") /\ Quiet /\ cp' = [turn.s EXCEPT !.at = "end"] /\ turn' = Off
    BY DEF Finish
  <1>2. turn.s = cp /\ cp.at = "finish" /\ Said(cp) /\ Picked(cp)
    BY <1>1, Working
  <1>3. /\ DOMAIN s = Fields /\ s.told = cp.told /\ s.started = cp.started
        /\ s.contribution = cp.contribution /\ s.text = cp.text /\ s.at = "end"
        /\ s.candidates = cp.candidates /\ s.index = cp.index
    BY <1>2 DEF Said, Fields
  <1>4. cp' = s
    BY <1>1, <1>2
  <1> HIDE DEF s
  <1>5. Said(s) /\ Picked(s)
    BY <1>2, <1>3, SameJob DEF Picked
  <1>6. TurnInv' /\ Said(cp)' /\ Picked(cp)'
    BY <1>1, <1>4, <1>5 DEF TurnInv, Said, Picked, Named, BegunAsTold, EndedAsTold
  <1>7. RowsInv' /\ TagsInv'
    BY <1>1, <1>3, <1>4
    DEF Inv, RowsInv, TagsInv, Quiet, Career, Vocabulary, Of, Has, Evidenced, Attachments
  <1>8. TextInv'
    BY <1>1, <1>2, <1>3, <1>4 DEF Inv, TextInv, Quiet, Career, Trouble, Of, Kept
  <1> QED
    BY <1>6, <1>7, <1>8 DEF Inv

\* A call or the model fails: the turn is over and nothing else has changed.
LEMMA FailsInv ==
  ASSUME Inv, Fails
  PROVE  Inv'
  BY StopKeeps DEF Fails

\* A message is an answer to the question on the screen.
LEMMA SendInv ==
  ASSUME Inv, Send
  PROVE  Inv'
  <1>1. PICK message \in Answers(cp) : turn' = On(cp, message, "start", None)
    BY DEF Send
  <1>2. UNCHANGED cp /\ UNCHANGED Tables /\ UNCHANGED Trouble
    BY DEF Send, Quiet, Tables
  <1>3. /\ DOMAIN turn' = {"on", "s", "message", "pc", "tag"} /\ turn'.s = cp
        /\ turn'.message = message /\ turn'.pc = "start"
    BY <1>1 DEF On
  <1>4. /\ cp.at = "ask_employer" => message \in Company \cup {Sentence}
        /\ cp.at = "ask_position_title" => message \in Title \cup {Sentence}
        /\ cp.at = "ask_position_start" => message \in DateAnswer \cup {Sentence}
        /\ cp.at = "ask_position_end" => message \in DateAnswer \cup {Still, Sentence}
        /\ cp.at = "ask_more_employers" => message \in Company \cup {Sentence, Done}
    <2>1. \A q : Unclear(cp, q) \subseteq {Sentence}
      BY DEF Unclear
    <2>2. CASE cp.at = "ask_employer"
      <3>1. Answers(cp) = Company \cup Unclear(cp, "employer")
        BY <2>2 DEF Answers
      <3> QED
        BY <2>1, <2>2, <3>1
    <2>3. CASE cp.at = "ask_position_title"
      <3>1. Answers(cp) = Title \cup Unclear(cp, "title")
        BY <2>3 DEF Answers
      <3> QED
        BY <2>1, <2>3, <3>1
    <2>4. CASE cp.at = "ask_position_start"
      <3>1. Answers(cp) = DateAnswer \cup Unclear(cp, "start")
        BY <2>4 DEF Answers
      <3> QED
        BY <2>1, <2>4, <3>1
    <2>5. CASE cp.at = "ask_position_end"
      <3>1. Answers(cp) = DateAnswer \cup {Still} \cup Unclear(cp, "end")
        BY <2>5 DEF Answers
      <3> QED
        BY <2>1, <2>5, <3>1
    <2>6. CASE cp.at = "ask_more_employers"
      <3>1. Answers(cp) = {Done} \cup IF Spare THEN Company \cup {Sentence} ELSE {}
        BY <2>6 DEF Answers
      <3> QED
        BY <2>6, <3>1
    <2> QED
      BY <2>2, <2>3, <2>4, <2>5, <2>6
  <1>5. TurnInv' /\ Said(cp)' /\ Picked(cp)'
    BY <1>2, <1>3, <1>4 DEF Inv, TurnInv, Said, Picked, Named, BegunAsTold, EndedAsTold
  <1>6. RowsInv' /\ TextInv'
    BY <1>2, <1>3 DEF Inv, RowsInv, TextInv, Tables, Career, Trouble, Kept, Of
  <1>7. TagsInv'
    BY <1>2, <1>3 DEF Inv, TagsInv, Tables, Career, Vocabulary, Evidenced, Attachments,
       Has, Of
  <1> QED
    BY <1>5, <1>6, <1>7 DEF Inv

-----------------------------------------------------------------------------
(* Rows of the career                                                      *)

\* A turn goes on to its next call.
LEMMA GotoNext ==
  ASSUME Inv, turn # Off, NEW pc, Goto(pc)
  PROVE  /\ turn' # Off /\ cp' = cp /\ turn'.pc = pc /\ turn'.tag = turn.tag
         /\ TurnInv' /\ Said(cp)' /\ Picked(cp)'
  <1>1. /\ DOMAIN turn' = {"on", "s", "message", "pc", "tag"} /\ turn'.s = cp /\ cp' = cp
        /\ turn'.message = turn.message /\ turn'.pc = pc /\ turn'.tag = turn.tag
    BY DEF Inv, TurnInv, Goto
  <1>2. turn' # Off
    BY <1>1 DEF Off
  <1>3. TurnInv' /\ Said(cp)' /\ Picked(cp)'
    BY <1>1 DEF Inv, TurnInv, Said, Picked, Named, BegunAsTold, EndedAsTold
  <1> QED
    BY <1>1, <1>2, <1>3

\* A row is made that is not there yet, or may be there more than once.
LEMMA PutRows ==
  ASSUME Inv, NEW kind, NEW under, NEW label, Put(Row(kind, under, label)),
         \/ kind = "contribution" \/ label = Placeholder
         \/ \A x \in Of(kind) : ~ (x.under = under /\ x.label = label),
         turn' = Off \/ turn'.pc # "create"
  PROVE  RowsInv'
  <1> DEFINE row == Row(kind, under, label)
  <1>1. /\ row.kind = kind /\ row.id = made + 1 /\ row.under = under /\ row.label = label
        /\ rows' = rows \cup {row} /\ made' = made + 1 /\ made \in Nat /\ IsFiniteSet(rows)
    BY DEF Put, Row, Inv, RowsInv
  <1> HIDE DEF row
  <1>2. IsFiniteSet(rows')
    BY <1>1, FS_AddElement
  <1>3. \A x \in rows : x.id \in 1 .. made
    BY DEF Inv, RowsInv
  <1>4. \A x \in rows' : x.id \in 1 .. made'
    BY <1>1, <1>3
  <1>5. \A x, y \in rows' : x.id = y.id => x = y
    BY <1>1, <1>3 DEF Inv, RowsInv
  <1>6. ASSUME NEW x \in rows', NEW y \in rows',
               x.kind = y.kind, x.kind # "contribution", x.under = y.under,
               x.label = y.label, x.label # Placeholder
        PROVE  x = y
    <2>1. CASE x \in rows /\ y \in rows
      BY <1>6, <2>1 DEF Inv, RowsInv
    <2>2. CASE x = row /\ y \in rows
      BY <1>1, <1>6, <2>2 DEF Of
    <2>3. CASE x \in rows /\ y = row
      BY <1>1, <1>6, <2>3 DEF Of
    <2> QED
      BY <1>1, <2>1, <2>2, <2>3
  <1> QED
    BY <1>1, <1>2, <1>4, <1>5, <1>6 DEF RowsInv

\* An employer or a position says nothing about answers on the work.
LEMMA PutText ==
  ASSUME Inv, NEW kind, NEW under, NEW label, Put(Row(kind, under, label)), kind # "contribution",
         cp.at # "record_contribution", cp'.at # "record_contribution", cp'.text = cp.text,
         lost' \in {lost, lost + 1}
  PROVE  TextInv'
  <1> DEFINE row == Row(kind, under, label)
  <1>1. row.kind = kind /\ rows' = rows \cup {row}
    BY DEF Put, Row
  <1> HIDE DEF row
  <1>2. Of("contribution")' = Of("contribution") /\ \A text : Kept(text)' = Kept(text)
    BY <1>1 DEF Of, Kept
  <1>3. ASSUME NEW text \in Nat PROVE Cardinality(Kept(text)) \in Nat /\ Cardinality(Kept(text)) <= lost + 1
    <2>1. Kept(text) \subseteq rows /\ IsFiniteSet(rows)
      BY DEF Kept, Inv, RowsInv
    <2>2. Cardinality(Kept(text)) \in Nat
      BY <2>1, FS_Subset, FS_CardinalityType
    <2> QED
      BY <2>2 DEF Inv, TextInv
  <1>4. lost \in Nat /\ cp.text \in Nat /\ \A x \in Of("contribution") : x.label \in 0 .. cp.text
    BY DEF Inv, TextInv
  <1>5. \A text \in Nat : Cardinality(Kept(text)') <= lost' + 1
    BY <1>2, <1>3, <1>4
  <1> QED
    BY <1>2, <1>4, <1>5 DEF TextInv

\* A row is new, so no claim was heard in it.
LEMMA PutTags ==
  ASSUME Inv, NEW kind, NEW under, NEW label, Put(Row(kind, under, label)),
         cp'.contribution \in 0 .. made + 1,
         turn' = Off \/ cp'.at \notin {"attach_tag", "record_skill"}
  PROVE  TagsInv'
  <1> DEFINE row == Row(kind, under, label)
  <1>1. /\ row.id = made + 1 /\ rows' = rows \cup {row} /\ made' = made + 1 /\ made \in Nat
        /\ tags' = tags /\ links' = links /\ skills' = skills /\ unlinked' = unlinked
    BY DEF Put, Row, Vocabulary, Inv, RowsInv
  <1> HIDE DEF row
  <1>2. ASSUME NEW k \in skills
        PROVE  /\ \E t \in tags : t.name = k.tag
               /\ k.from \in 0 .. made + 1 /\ Evidenced(k.from, k.tag)'
    <2>1. /\ \E t \in tags : t.name = k.tag
          /\ k.from \in 0 .. made /\ Evidenced(k.from, k.tag)
      BY DEF Inv, TagsInv
    <2>2. k.from \in 0 .. made + 1 /\ k.from # row.id
      BY <1>1, <2>1
    <2>3. Has("contribution", k.from)' => Has("contribution", k.from)
      BY <1>1, <2>2 DEF Has, Of
    <2> QED
      BY <1>1, <2>1, <2>2, <2>3 DEF Evidenced, Attachments
  <1> QED
    BY <1>1, <1>2 DEF Inv, TagsInv

\* A row of the career that is not about the work is written and answered, or
\* its answer is lost.
LEMMA PutKeeps ==
  ASSUME Inv, NEW kind, NEW under, NEW label, Put(Row(kind, under, label)), kind # "contribution",
         \/ label = Placeholder
         \/ \A x \in Of(kind) : ~ (x.under = under /\ x.label = label),
         cp.at # "record_contribution", NEW s, Answered(Advance(s)),
         Said(s), Picked(s), s.contribution = cp.contribution, s.text = cp.text,
         s.at \notin {"record_contribution", "attach_tag", "record_skill"}
  PROVE  Inv'
  <1>1. cp.contribution \in 0 .. made + 1 /\ lost \in Nat /\ made \in Nat
    BY DEF Inv, TagsInv, TextInv, RowsInv
  <1>2. CASE Advance(s) /\ UNCHANGED Trouble
    <2>1. /\ cp' = s /\ DOMAIN turn' = {"on", "s", "message", "pc", "tag"} /\ turn'.s = s
          /\ turn'.message = Silent /\ turn'.pc = "start" /\ lost' = lost
      BY <1>2 DEF Advance, On, Trouble
    <2>2. TurnInv' /\ Said(cp)' /\ Picked(cp)'
      BY <2>1 DEF TurnInv, Said, Picked, Named, BegunAsTold, EndedAsTold
    <2>3. RowsInv'
      BY <2>1, PutRows
    <2>4. TextInv'
      BY <2>1, PutText
    <2>5. TagsInv'
      BY <1>1, <2>1, PutTags
    <2> QED
      BY <2>2, <2>3, <2>4, <2>5 DEF Inv
  <1>3. CASE Stop /\ lost' = lost + 1
    <2>1. cp' = cp /\ turn' = Off
      BY <1>3 DEF Stop
    <2>2. TurnInv' /\ Said(cp)' /\ Picked(cp)'
      BY <2>1 DEF Inv, TurnInv, Said, Picked, Named, BegunAsTold, EndedAsTold
    <2>3. RowsInv'
      BY <2>1, PutRows
    <2>4. TextInv'
      BY <1>3, <2>1, PutText
    <2>5. TagsInv'
      BY <1>1, <2>1, PutTags
    <2> QED
      BY <2>2, <2>3, <2>4, <2>5 DEF Inv
  <1> QED
    BY <1>2, <1>3 DEF Answered

\* The node has its row: nothing said of the job changes.
LEMMA HaveRow ==
  ASSUME Said(cp), Picked(cp), NEW id
  PROVE  /\ LET s == HaveEmployer(cp, id)
            IN  /\ Said(s) /\ Picked(s) /\ s.contribution = cp.contribution /\ s.text = cp.text
                /\ s.at = "ask_position_title"
         /\ LET s == HavePosition(cp, id)
            IN  /\ Said(s) /\ Picked(s) /\ s.contribution = cp.contribution /\ s.text = cp.text
                /\ s.at = "ask_contribution"
  <1> DEFINE e == HaveEmployer(cp, id)
             p == HavePosition(cp, id)
  <1>1. /\ DOMAIN e = Fields /\ e.told = cp.told /\ e.started = cp.started
        /\ e.contribution = cp.contribution /\ e.text = cp.text /\ e.at = "ask_position_title"
        /\ e.candidates = cp.candidates /\ e.index = cp.index
    BY DEF HaveEmployer, Said, Fields
  <1>2. /\ DOMAIN p = Fields /\ p.told = cp.told /\ p.started = cp.started
        /\ p.contribution = cp.contribution /\ p.text = cp.text /\ p.at = "ask_contribution"
        /\ p.candidates = cp.candidates /\ p.index = cp.index
    BY DEF HavePosition, Said, Fields
  <1> HIDE DEF e, p
  <1>3. Said(e) /\ Said(p)
    BY <1>1, <1>2, SameJob
  <1>4. Picked(e) /\ Picked(p)
    BY <1>1, <1>2 DEF Picked
  <1> QED
    BY <1>1, <1>2, <1>3, <1>4 DEF e, p

LEMMA ListEmployersInv ==
  ASSUME Inv, ListEmployers
  PROVE  Inv'
  <1> DEFINE found == {e \in Of("employer") : e.label = cp.employer}
             s == HaveEmployer(cp, Oldest(found).id)
  <1>1. At("resolve_employer") /\ Quiet
    BY DEF ListEmployers
  <1>2. turn.s = cp /\ Said(cp) /\ Picked(cp) /\ cp.at = "resolve_employer" /\ turn # Off
    BY <1>1, Working
  <1>3. IF found = {} THEN Goto("create") ELSE Advance(s)
    BY <1>2 DEF ListEmployers
  <1>4. CASE found = {}
    <2>1. /\ turn' # Off /\ cp' = cp /\ turn'.pc = "create"
          /\ TurnInv' /\ Said(cp)' /\ Picked(cp)'
      BY <1>2, <1>3, <1>4, GotoNext
    <2>2. \A e \in Of("employer") : e.label # cp.employer
      BY <1>4
    <2>3. RowsInv'
      BY <1>1, <1>2, <2>1, <2>2 DEF Inv, RowsInv, Quiet, Career, Of
    <2>4. TextInv' /\ TagsInv'
      BY <1>1, <1>2, <2>1
      DEF Inv, TextInv, TagsInv, Quiet, Career, Vocabulary, Trouble, Of, Kept, Has, Evidenced,
          Attachments
    <2> QED
      BY <2>1, <2>3, <2>4 DEF Inv
  <1>5. CASE found # {}
    <2>1. /\ Said(s) /\ Picked(s) /\ s.contribution = cp.contribution /\ s.text = cp.text
          /\ s.at = "ask_position_title"
      BY <1>2, HaveRow
    <2>2. Advance(s)
      BY <1>3, <1>5
    <2> HIDE DEF s
    <2> QED
      BY <1>1, <2>1, <2>2, AdvanceKeeps
  <1> QED
    BY <1>4, <1>5

LEMMA ListPositionsInv ==
  ASSUME Inv, ListPositions
  PROVE  Inv'
  <1> DEFINE found == {p \in Of("position") : p.under = cp.employerRow /\ p.label = cp.title}
             s == HavePosition(cp, Oldest(found).id)
  <1>1. At("resolve_position") /\ Quiet
    BY DEF ListPositions
  <1>2. turn.s = cp /\ Said(cp) /\ Picked(cp) /\ cp.at = "resolve_position" /\ turn # Off
    BY <1>1, Working
  <1>3. IF found = {} THEN Goto("create") ELSE Advance(s)
    BY <1>2 DEF ListPositions
  <1>4. CASE found = {}
    <2>1. /\ turn' # Off /\ cp' = cp /\ turn'.pc = "create"
          /\ TurnInv' /\ Said(cp)' /\ Picked(cp)'
      BY <1>2, <1>3, <1>4, GotoNext
    <2>2. \A p \in Of("position") : ~ (p.under = cp.employerRow /\ p.label = cp.title)
      BY <1>4
    <2>3. RowsInv'
      BY <1>1, <1>2, <2>1, <2>2 DEF Inv, RowsInv, Quiet, Career, Of
    <2>4. TextInv' /\ TagsInv'
      BY <1>1, <1>2, <2>1
      DEF Inv, TextInv, TagsInv, Quiet, Career, Vocabulary, Trouble, Of, Kept, Has, Evidenced,
          Attachments
    <2> QED
      BY <2>1, <2>3, <2>4 DEF Inv
  <1>5. CASE found # {}
    <2>1. /\ Said(s) /\ Picked(s) /\ s.contribution = cp.contribution /\ s.text = cp.text
          /\ s.at = "ask_contribution"
      BY <1>2, HaveRow
    <2>2. Advance(s)
      BY <1>3, <1>5
    <2> HIDE DEF s
    <2> QED
      BY <1>1, <2>1, <2>2, AdvanceKeeps
  <1> QED
    BY <1>4, <1>5

LEMMA CreateEmployerInv ==
  ASSUME Inv, CreateEmployer
  PROVE  Inv'
  <1> DEFINE s == HaveEmployer(cp, made + 1)
  <1>1. At("resolve_employer") /\ (turn.pc = "create" \/ turn.s.employerNote)
    BY DEF CreateEmployer
  <1>2. turn.s = cp /\ Said(cp) /\ Picked(cp) /\ cp.at = "resolve_employer" /\ turn # Off
    BY <1>1, Working
  <1>3. Put(Row("employer", 0, cp.employer)) /\ Answered(Advance(s))
    BY <1>2 DEF CreateEmployer
  <1>4. \/ cp.employer = Placeholder
        \/ \A x \in Of("employer") : ~ (x.under = 0 /\ x.label = cp.employer)
    <2>1. CASE turn.pc = "create"
      BY <1>2, <2>1 DEF Inv, RowsInv
    <2>2. CASE cp.employerNote
      BY <1>2, <2>2 DEF Said, Named
    <2> QED
      BY <1>1, <1>2, <2>1, <2>2
  <1>5. /\ Said(s) /\ Picked(s) /\ s.contribution = cp.contribution /\ s.text = cp.text
        /\ s.at = "ask_position_title"
    BY <1>2, HaveRow
  <1> HIDE DEF s
  <1> QED
    BY <1>2, <1>3, <1>4, <1>5, PutKeeps

LEMMA CreatePositionInv ==
  ASSUME Inv, CreatePosition
  PROVE  Inv'
  <1> DEFINE s == HavePosition(cp, made + 1)
  <1>1. At("resolve_position") /\ (turn.pc = "create" \/ turn.s.titleNote)
    BY DEF CreatePosition
  <1>2. turn.s = cp /\ Said(cp) /\ Picked(cp) /\ cp.at = "resolve_position" /\ turn # Off
    BY <1>1, Working
  <1>3. CASE Has("employer", cp.employerRow)
    <2>1. Put(Row("position", cp.employerRow, cp.title)) /\ Answered(Advance(s))
      BY <1>2, <1>3 DEF CreatePosition
    <2>2. \/ cp.title = Placeholder
          \/ \A x \in Of("position") : ~ (x.under = cp.employerRow /\ x.label = cp.title)
      <3>1. CASE turn.pc = "create"
        BY <1>2, <3>1 DEF Inv, RowsInv
      <3>2. CASE cp.titleNote
        BY <1>2, <3>2 DEF Said, Named
      <3> QED
        BY <1>1, <1>2, <3>1, <3>2
    <2>3. /\ Said(s) /\ Picked(s) /\ s.contribution = cp.contribution /\ s.text = cp.text
          /\ s.at = "ask_contribution"
      BY <1>2, HaveRow
    <2> HIDE DEF s
    <2> QED
      BY <1>2, <2>1, <2>2, <2>3, PutKeeps
  <1>4. CASE ~ Has("employer", cp.employerRow)
    <2>1. Refused
      BY <1>2, <1>4 DEF CreatePosition
    <2> QED
      BY <2>1, StopKeeps DEF Refused, Quiet, Tables, Trouble
  <1> QED
    BY <1>3, <1>4

\* The answer kept by a row more, for which its recording or a fault accounts.
LEMMA KeptMore ==
  ASSUME Inv, cp.at = "record_contribution", NEW under, Put(Row("contribution", under, cp.text)),
         cp'.text = cp.text,
         \/ lost' = lost /\ cp'.at # "record_contribution"
         \/ lost' = lost + 1
  PROVE  TextInv'
  <1> DEFINE row == Row("contribution", under, cp.text)
  <1>1. /\ row.kind = "contribution" /\ row.label = cp.text /\ row.id = made + 1
        /\ rows' = rows \cup {row}
    BY DEF Put, Row
  <1> HIDE DEF row
  <1>2. /\ lost \in Nat /\ cp.text \in Nat /\ IsFiniteSet(rows)
        /\ \A x \in Of("contribution") : x.label \in 0 .. cp.text
    BY DEF Inv, TextInv, RowsInv
  <1>3. (\A x \in Of("contribution") : x.label \in 0 .. cp.text)'
    BY <1>1, <1>2 DEF Of
  <1>4. ASSUME NEW text \in Nat
        PROVE  Cardinality(Kept(text)') <=
                 IF cp'.at = "record_contribution" /\ text = cp.text THEN lost' ELSE lost' + 1
    <2>1. Kept(text) \subseteq rows
      BY DEF Kept
    <2>2. IsFiniteSet(Kept(text)) /\ Cardinality(Kept(text)) \in Nat
      BY <1>2, <2>1, FS_Subset, FS_CardinalityType
    <2>3. Cardinality(Kept(text)) <= IF text = cp.text THEN lost ELSE lost + 1
      BY DEF Inv, TextInv
    <2>4. CASE text = cp.text
      <3>1. Kept(text)' = Kept(text) \cup {row}
        BY <1>1, <2>4 DEF Kept
      <3> DEFINE K == Kept(text)
      <3> HIDE DEF K
      <3>2. /\ Cardinality(K \cup {row}) \in {Cardinality(K), Cardinality(K) + 1}
            /\ Cardinality(K) \in Nat /\ Kept(text)' = K \cup {row}
            /\ Cardinality(K) <= lost
        BY <2>2, <2>3, <2>4, <3>1, FS_AddElement DEF K
      <3>3. Cardinality(Kept(text)') \in Nat /\ Cardinality(Kept(text)') <= lost + 1
        BY <1>2, <3>2
      <3> QED
        BY <1>2, <2>4, <3>3
    <2>5. CASE text # cp.text
      <3>1. Kept(text)' = Kept(text)
        BY <1>1, <2>5 DEF Kept
      <3> QED
        BY <1>2, <2>2, <2>3, <2>5, <3>1
    <2> QED
      BY <2>4, <2>5
  <1>5. lost' \in Nat
    BY <1>2
  <1> QED
    BY <1>2, <1>3, <1>4, <1>5 DEF TextInv

LEMMA RecordContributionInv ==
  ASSUME Inv, RecordContribution
  PROVE  Inv'
  <1> DEFINE s == [cp EXCEPT !.contribution = made + 1, !.at = "extract_tags"]
  <1>1. At("record_contribution")
    BY DEF RecordContribution
  <1>2. /\ turn.s = cp /\ Said(cp) /\ Picked(cp) /\ cp.at = "record_contribution" /\ turn # Off
        /\ made \in Nat /\ lost \in Nat /\ cp.contribution \in 0 .. made
    BY <1>1, Working DEF Inv, RowsInv, TextInv, TagsInv
  <1>3. CASE Has("position", cp.positionRow)
    <2>1. Put(Row("contribution", cp.positionRow, cp.text)) /\ Answered(Advance(s))
      BY <1>2, <1>3 DEF RecordContribution, Recorded
    <2>2. /\ DOMAIN s = Fields /\ s.told = cp.told /\ s.started = cp.started
          /\ s.contribution = made + 1 /\ s.text = cp.text /\ s.at = "extract_tags"
          /\ s.candidates = cp.candidates /\ s.index = cp.index
      BY <1>2 DEF Said, Fields
    <2> HIDE DEF s
    <2>3. Said(s) /\ Picked(s)
      BY <1>2, <2>2, SameJob DEF Picked
    <2>4. CASE Advance(s) /\ UNCHANGED Trouble
      <3>1. /\ cp' = s /\ DOMAIN turn' = {"on", "s", "message", "pc", "tag"} /\ turn'.s = s
            /\ turn'.message = Silent /\ turn'.pc = "start" /\ lost' = lost
        BY <2>4 DEF Advance, On, Trouble
      <3>2. TurnInv' /\ Said(cp)' /\ Picked(cp)'
        BY <2>3, <3>1 DEF TurnInv, Said, Picked, Named, BegunAsTold, EndedAsTold
      <3>3. RowsInv'
        BY <2>1, <3>1, PutRows
      <3>4. TextInv'
        BY <1>2, <2>1, <2>2, <3>1, KeptMore
      <3>5. TagsInv'
        <4>1. cp'.contribution \in 0 .. made + 1 /\ cp'.at \notin {"attach_tag", "record_skill"}
          BY <1>2, <2>2, <3>1
        <4> QED
          BY <2>1, <4>1, PutTags
      <3> QED
        BY <3>2, <3>3, <3>4, <3>5 DEF Inv
    <2>5. CASE Stop /\ lost' = lost + 1
      <3>1. cp' = cp /\ turn' = Off
        BY <2>5 DEF Stop
      <3>2. TurnInv' /\ Said(cp)' /\ Picked(cp)'
        BY <3>1 DEF Inv, TurnInv, Said, Picked, Named, BegunAsTold, EndedAsTold
      <3>3. RowsInv'
        BY <2>1, <3>1, PutRows
      <3>4. TextInv'
        BY <1>2, <2>1, <2>5, <3>1, KeptMore
      <3>5. TagsInv'
        BY <1>2, <2>1, <3>1, PutTags
      <3> QED
        BY <3>2, <3>3, <3>4, <3>5 DEF Inv
    <2> QED
      BY <2>1, <2>4, <2>5 DEF Answered
  <1>4. CASE ~ Has("position", cp.positionRow)
    <2>1. Refused
      BY <1>2, <1>4 DEF RecordContribution
    <2> QED
      BY <2>1, StopKeeps DEF Refused, Quiet, Tables, Trouble
  <1> QED
    BY <1>3, <1>4

-----------------------------------------------------------------------------
(* Tags and skills                                                         *)

\* While a node of a candidate works, rows and answers are as they were.
LEMMA RowsKept ==
  ASSUME Inv, UNCHANGED Career, lost' \in {lost, lost + 1},
         cp' = cp, turn' = Off \/ cp.at \notin {"resolve_employer", "resolve_position"}
  PROVE  RowsInv' /\ TextInv'
  <1>1. RowsInv'
    BY DEF Inv, RowsInv, Career, Of
  <1>2. /\ lost \in Nat /\ \A text \in Nat : Kept(text)' = Kept(text)
    BY DEF Inv, TextInv, Career, Kept
  <1>3. \A text \in Nat : Cardinality(Kept(text)) \in Nat
    <2> SUFFICES ASSUME NEW text \in Nat PROVE Cardinality(Kept(text)) \in Nat
      OBVIOUS
    <2>1. Kept(text) \subseteq rows /\ IsFiniteSet(rows)
      BY DEF Kept, Inv, RowsInv
    <2> QED
      BY <2>1, FS_Subset, FS_CardinalityType
  <1>4. \A text \in Nat :
          Cardinality(Kept(text)') <=
            IF cp'.at = "record_contribution" /\ text = cp'.text THEN lost' ELSE lost' + 1
    <2> SUFFICES ASSUME NEW text \in Nat
                 PROVE  Cardinality(Kept(text)) <=
                          IF cp.at = "record_contribution" /\ text = cp.text THEN lost' ELSE lost' + 1
      BY <1>2
    <2>1. Cardinality(Kept(text)) <=
            IF cp.at = "record_contribution" /\ text = cp.text THEN lost ELSE lost + 1
      BY DEF Inv, TextInv
    <2> QED
      BY <1>2, <1>3, <2>1
  <1>5. (\A x \in Of("contribution") : x.label \in 0 .. cp.text)' /\ cp'.text \in Nat /\ lost' \in Nat
    BY <1>2 DEF Inv, TextInv, Career, Of
  <1> QED
    BY <1>1, <1>4, <1>5 DEF TextInv

\* What the vocabulary has to keep, but for the turn.
Attached ==
  /\ tags \subseteq [name : Spelling, category : STRING]
  /\ \A l \in links : \E t \in tags : t.name = l[2]
  /\ \A k \in skills : /\ \E t \in tags : t.name = k.tag
                       /\ k.from \in 0 .. made
                       /\ Evidenced(k.from, k.tag)

\* A step on a candidate that ends the turn, by a refusal or a lost answer.
LEMMA TagStop ==
  ASSUME Inv, Attached', UNCHANGED Career, Stop, lost' \in {lost, lost + 1}
  PROVE  Inv'
  <1>1. cp' = cp /\ turn' = Off
    BY DEF Stop
  <1>2. TurnInv' /\ Said(cp)' /\ Picked(cp)'
    BY <1>1 DEF Inv, TurnInv, Said, Picked, Named, BegunAsTold, EndedAsTold
  <1>3. RowsInv' /\ TextInv'
    BY <1>1, RowsKept
  <1>4. TagsInv'
    BY <1>1 DEF Inv, TagsInv, Attached, Career
  <1> QED
    BY <1>2, <1>3, <1>4 DEF Inv

\* A step on a candidate after which the turn goes on with the tag it works on.
LEMMA TagGoes ==
  ASSUME Inv, Attached', UNCHANGED Career, UNCHANGED Trouble, NEW pc, NEW tag,
         turn # Off, cp.at \in {"attach_tag", "record_skill"},
         (Goto(pc) /\ tag = turn.tag) \/ (Found(tag) /\ pc = "attach"),
         pc \in {"attach", "depth"} => Fold[tag] = Fold[Candidate.name],
         pc = "depth" => Evidenced(cp.contribution, tag)'
  PROVE  Inv'
  <1>1. /\ DOMAIN turn' = {"on", "s", "message", "pc", "tag"} /\ turn'.s = cp /\ turn.s = cp
        /\ turn'.message = turn.message /\ turn'.pc = pc /\ turn'.tag = tag /\ cp' = cp
    BY DEF Inv, TurnInv, Goto, Found
  <1>2. TurnInv' /\ Said(cp)' /\ Picked(cp)'
    BY <1>1 DEF Inv, TurnInv, Said, Picked, Named, BegunAsTold, EndedAsTold
  <1>3. RowsInv' /\ TextInv'
    BY <1>1, RowsKept DEF Trouble
  <1>4. Candidate' = Candidate
    BY <1>1 DEF Candidate
  <1>5. (turn # Off /\ cp.at \in {"attach_tag", "record_skill"} =>
           /\ turn.pc \in {"attach", "depth"} => Fold[turn.tag] = Fold[Candidate.name]
           /\ turn.pc = "depth" => Evidenced(cp.contribution, turn.tag))'
    BY <1>1, <1>4
  <1>6. (cp.contribution \in 0 .. made)'
    BY <1>1 DEF Inv, TagsInv, Career
  <1>7. TagsInv'
    BY <1>5, <1>6 DEF TagsInv, Attached
  <1> QED
    BY <1>2, <1>3, <1>7 DEF Inv

\* A step that is done with a candidate.
LEMMA TagAdvances ==
  ASSUME Inv, Attached', UNCHANGED Career, UNCHANGED Trouble,
         cp.at \in {"attach_tag", "record_skill"},
         Advance([cp EXCEPT !.at = "advance_tag_index"])
  PROVE  Inv'
  <1> DEFINE s == [cp EXCEPT !.at = "advance_tag_index"]
  <1>1. /\ DOMAIN s = Fields /\ s.told = cp.told /\ s.started = cp.started
        /\ s.contribution = cp.contribution /\ s.text = cp.text /\ s.at = "advance_tag_index"
        /\ s.candidates = cp.candidates /\ s.index = cp.index
    BY DEF Inv, Said, Fields
  <1>2. Advance(s)
    OBVIOUS
  <1> HIDE DEF s
  <1>3. Said(s) /\ Picked(s)
    BY <1>1, SameJob DEF Inv, Picked
  <1>4. /\ cp' = s /\ DOMAIN turn' = {"on", "s", "message", "pc", "tag"} /\ turn'.s = s
        /\ turn'.message = Silent /\ turn'.pc = "start"
    BY <1>2 DEF Advance, On
  <1>5. TurnInv' /\ Said(cp)' /\ Picked(cp)'
    BY <1>3, <1>4 DEF TurnInv, Said, Picked, Named, BegunAsTold, EndedAsTold
  <1>6. RowsInv' /\ TextInv'
    BY <1>1, <1>4 DEF Inv, RowsInv, TextInv, Career, Trouble, Of, Kept
  <1>7. TagsInv'
    BY <1>1, <1>4 DEF Inv, TagsInv, Attached, Career
  <1> QED
    BY <1>5, <1>6, <1>7 DEF Inv

\* A node of a candidate, and the candidate.
LEMMA OnCandidate ==
  ASSUME Inv, NEW pc, Tagging(pc)
  PROVE  /\ turn # Off /\ turn.s = cp /\ turn.pc = pc
         /\ cp.at \in {"attach_tag", "record_skill"} /\ cp.at \notin {"resolve_employer", "resolve_position"}
         /\ Candidate \in Answer /\ Candidate = cp.candidates[cp.index]
         /\ Attached /\ DOMAIN turn = {"on", "s", "message", "pc", "tag"}
  <1>1. turn # Off /\ turn.s = cp /\ turn.pc = pc /\ cp.at \in {"attach_tag", "record_skill"}
    BY DEF Inv, TurnInv, Tagging
  <1>2. cp.candidates \in Seq(Answer) /\ cp.index \in 1 .. Len(cp.candidates)
    <2>1. cp.candidates \in Seq(Answer) /\ cp.index \in Nat \ {0} /\ cp.index <= Len(cp.candidates)
      BY <1>1 DEF Inv, Picked
    <2>2. Len(cp.candidates) \in Nat
      BY <2>1, LenProperties
    <2> QED
      BY <2>1, <2>2
  <1>3. Candidate = cp.candidates[cp.index]
    BY <1>1 DEF Candidate
  <1>4. Candidate \in Answer
    BY <1>2, <1>3, ElementOfSeq
  <1> QED
    BY <1>1, <1>3, <1>4 DEF Inv, TagsInv, Attached, TurnInv

\* What is added to the vocabulary takes nothing of it away.
LEMMA AttachedMore ==
  ASSUME Inv, UNCHANGED Career,
         tags \subseteq tags', tags' \subseteq [name : Spelling, category : STRING],
         Attachments \subseteq Attachments', \A l \in links' : \E t \in tags' : t.name = l[2],
         \A k \in skills' :
           \/ k \in skills
           \/ (\E t \in tags' : t.name = k.tag) /\ k.from \in 0 .. made /\ Evidenced(k.from, k.tag)
  PROVE  Attached'
  <1>1. rows' = rows /\ made' = made
    BY DEF Career
  <1>2. \A from, tag : Evidenced(from, tag) => Evidenced(from, tag)'
    BY <1>1 DEF Evidenced, Has, Of
  <1>3. ASSUME NEW k \in skills'
        PROVE  /\ \E t \in tags' : t.name = k.tag
               /\ k.from \in 0 .. made /\ Evidenced(k.from, k.tag)'
    BY <1>2 DEF Inv, TagsInv
  <1> QED
    BY <1>1, <1>3 DEF Attached

\* A skill is claimed of a tag that is attached to its contribution.
LEMMA PostSkillAttached ==
  ASSUME Inv, NEW c \in Answer, NEW from \in 0 .. made, NEW tag,
         from = 0 \/ (Evidenced(from, tag) /\ Fold[tag] = Fold[c.name]),
         PostSkill(c, from)
  PROVE  Attached' /\ UNCHANGED Career
  <1>1. UNCHANGED Career /\ links' = links /\ Attachments' = Attachments
    BY DEF PostSkill, Attachments
  <1>2. /\ tags \subseteq [name : Spelling, category : STRING]
        /\ \A l \in links : \E t \in tags : t.name = l[2]
    BY DEF Inv, TagsInv
  <1>3. CASE Alike(c.name) = {}
    <2> DEFINE new == [name |-> c.name, category |-> c.category]
               skill == [tag |-> c.name, from |-> from]
    <2>1. tags' = tags \cup {new} /\ skills' = skills \cup {skill}
      BY <1>3 DEF PostSkill
    <2>2. new \in [name : Spelling, category : STRING] /\ new.name = c.name
      BY DEF Answer
    <2>3. skill.tag = c.name /\ skill.from = from
      OBVIOUS
    <2>4. Evidenced(from, c.name)
      BY DEF Evidenced
    <2> HIDE DEF new, skill
    <2> QED
      BY <1>1, <1>2, <2>1, <2>2, <2>3, <2>4, AttachedMore
  <1>4. CASE Alike(c.name) # {}
    <2> DEFINE name == FirstAlike(c.name)
               skill == [tag |-> name, from |-> from]
    <2>1. tags' = tags /\ skills' = skills \cup {skill}
      BY <1>4 DEF PostSkill
    <2>2. name \in Alike(c.name)
      BY <1>2, <1>4, FirstOfThem
    <2>3. skill.tag = name /\ skill.from = from
      OBVIOUS
    <2> HIDE DEF name, skill
    <2>4. Fold[name] = Fold[c.name] /\ \E t \in tags : t.name = name
      BY <2>2 DEF Alike
    <2>5. Evidenced(from, name)
      BY <2>4 DEF Evidenced
    <2> QED
      BY <1>1, <1>2, <2>1, <2>3, <2>4, <2>5, AttachedMore
  <1> QED
    BY <1>1, <1>3, <1>4

LEMMA ListTagsInv ==
  ASSUME Inv, ListTags
  PROVE  Inv'
  <1> DEFINE name == Candidate.name
  <1>1. Tagging("start") /\ Quiet
    BY DEF ListTags
  <1>2. turn # Off /\ cp.at \in {"attach_tag", "record_skill"} /\ Attached
    BY <1>1, OnCandidate
  <1>3. UNCHANGED Career /\ UNCHANGED Trouble /\ Attached'
    BY <1>1, <1>2 DEF Quiet, Attached, Career, Vocabulary, Evidenced, Attachments,
       Has, Of
  <1>4. CASE Alike(name) = {}
    <2>1. Goto("categories")
      BY <1>4 DEF ListTags
    <2> QED
      BY <1>2, <1>3, <2>1, TagGoes
  <1>5. CASE Alike(name) # {}
    <2>1. Found(FirstAlike(name))
      BY <1>5 DEF ListTags
    <2>2. FirstAlike(name) \in Alike(name)
      BY <1>2, <1>5, FirstOfThem DEF Attached
    <2>3. Fold[FirstAlike(name)] = Fold[name]
      BY <2>2 DEF Alike
    <2> HIDE DEF name
    <2> QED
      BY <1>2, <1>3, <2>1, <2>3, TagGoes DEF name
  <1> QED
    BY <1>4, <1>5

LEMMA ListCategoriesInv ==
  ASSUME Inv, ListCategories
  PROVE  Inv'
  <1> DEFINE pc == IF Candidate.category \in categories THEN "tag" ELSE "category"
  <1>1. Tagging("categories") /\ Quiet /\ Goto(pc)
    BY DEF ListCategories
  <1>2. turn # Off /\ cp.at \in {"attach_tag", "record_skill"} /\ Attached
    BY <1>1, OnCandidate
  <1>3. UNCHANGED Career /\ UNCHANGED Trouble /\ Attached'
    BY <1>1, <1>2 DEF Quiet, Attached, Career, Vocabulary, Evidenced, Attachments,
       Has, Of
  <1>4. pc \notin {"attach", "depth"}
    OBVIOUS
  <1> HIDE DEF pc
  <1> QED
    BY <1>1, <1>2, <1>3, <1>4, TagGoes

LEMMA CreateCategoryInv ==
  ASSUME Inv, CreateCategory
  PROVE  Inv'
  <1>1. Tagging("category")
    BY DEF CreateCategory
  <1>2. turn # Off /\ cp.at \in {"attach_tag", "record_skill"} /\ Attached
    BY <1>1, OnCandidate
  <1>3. CASE Candidate.category \notin categories
    <2>1. Answered(Goto("tag")) /\ UNCHANGED <<Career, tags, links, skills, unlinked>>
      BY <1>3 DEF CreateCategory
    <2>2. UNCHANGED Career /\ Attached'
      BY <1>2, <2>1 DEF Attached, Career, Evidenced, Attachments, Has, Of
    <2>3. CASE Goto("tag") /\ UNCHANGED Trouble
      BY <1>2, <2>2, <2>3, TagGoes
    <2>4. CASE Stop /\ lost' = lost + 1
      BY <2>2, <2>4, TagStop
    <2> QED
      BY <2>1, <2>3, <2>4 DEF Answered
  <1>4. CASE Candidate.category \in categories
    <2>1. Refused
      BY <1>4 DEF CreateCategory
    <2> QED
      BY <2>1, StopKeeps DEF Refused, Quiet, Tables, Trouble
  <1> QED
    BY <1>3, <1>4

LEMMA CreateTagInv ==
  ASSUME Inv, CreateTag
  PROVE  Inv'
  <1> DEFINE c == Candidate
             new == [name |-> c.name, category |-> c.category]
             free == c.category \in categories /\ ~ \E t \in tags : t.name = c.name
  <1>1. Tagging("tag")
    BY DEF CreateTag
  <1>2. turn # Off /\ cp.at \in {"attach_tag", "record_skill"} /\ Attached /\ c \in Answer
    BY <1>1, OnCandidate
  <1>3. CASE free
    <2>1. /\ tags' = tags \cup {new} /\ Answered(Found(c.name))
          /\ UNCHANGED <<Career, categories, links, skills, unlinked>>
      BY <1>3 DEF CreateTag
    <2>2. new \in [name : Spelling, category : STRING]
      BY <1>2 DEF Answer
    <2> HIDE DEF new
    <2>3. UNCHANGED Career /\ Attached'
      BY <1>2, <2>1, <2>2, AttachedMore DEF Attached, Attachments
    <2>4. CASE Found(c.name) /\ UNCHANGED Trouble
      BY <1>2, <2>3, <2>4, TagGoes
    <2>5. CASE Stop /\ lost' = lost + 1
      BY <2>3, <2>5, TagStop
    <2> QED
      BY <2>1, <2>4, <2>5 DEF Answered
  <1>4. CASE ~ free
    <2>1. Refused
      BY <1>4 DEF CreateTag
    <2> QED
      BY <2>1, StopKeeps DEF Refused, Quiet, Tables, Trouble
  <1> QED
    BY <1>3, <1>4

LEMMA AttachTagInv ==
  ASSUME Inv, AttachTag
  PROVE  Inv'
  <1> DEFINE link == <<cp.contribution, turn.tag>>
             there == Has("contribution", cp.contribution) /\ \E t \in tags : t.name = turn.tag
  <1>1. Tagging("attach")
    BY DEF AttachTag
  <1>2. /\ turn # Off /\ turn.s = cp /\ turn.pc = "attach"
        /\ cp.at \in {"attach_tag", "record_skill"} /\ Attached
    BY <1>1, OnCandidate
  <1>3. Fold[turn.tag] = Fold[Candidate.name]
    BY <1>2 DEF Inv, TagsInv
  <1>4. CASE there
    <2>1. /\ Link(cp.contribution, turn.tag)
          /\ Answered(IF cp.at = "record_skill" THEN Goto("depth")
                      ELSE Advance([cp EXCEPT !.at = "advance_tag_index"]))
      BY <1>2, <1>4 DEF AttachTag
    <2>2. link[2] = turn.tag /\ link = <<cp.contribution, link[2]>>
      OBVIOUS
    <2>0. /\ links' = links \cup {link} /\ UNCHANGED <<Career, categories, tags, skills>>
          /\ Attachments' = Attachments \cup {link}
      BY <2>1 DEF Link, Attachments
    <2> HIDE DEF link
    <2>3. UNCHANGED Career /\ Attached'
      BY <1>2, <1>4, <2>0, <2>2, AttachedMore DEF Attached
    <2>4. CASE cp.at = "record_skill" /\ Goto("depth") /\ UNCHANGED Trouble
      <3>1. cp' = cp /\ link \in Attachments'
        BY <2>0, <2>4 DEF Goto
      <3>2. \E l \in Attachments' : l = <<cp.contribution, l[2]>> /\ Fold[l[2]] = Fold[turn.tag]
        BY <2>2, <3>1
      <3>3. \A g : g = turn.tag => Evidenced(cp.contribution, g)'
        BY <3>1, <3>2 DEF Evidenced
      <3> QED
        BY <1>2, <1>3, <2>3, <2>4, <3>3, TagGoes
    <2>5. CASE cp.at = "attach_tag" /\ Advance([cp EXCEPT !.at = "advance_tag_index"])
                 /\ UNCHANGED Trouble
      BY <1>2, <2>3, <2>5, TagAdvances
    <2>6. CASE Stop /\ lost' = lost + 1
      BY <2>3, <2>6, TagStop
    <2> QED
      BY <1>2, <2>1, <2>4, <2>5, <2>6 DEF Answered
  <1>5. CASE ~ there
    <2>1. Refused
      BY <1>2, <1>5 DEF AttachTag
    <2> QED
      BY <2>1, StopKeeps DEF Refused, Quiet, Tables, Trouble
  <1> QED
    BY <1>4, <1>5

LEMMA RecordSkillInv ==
  ASSUME Inv, RecordSkill
  PROVE  Inv'
  <1> DEFINE next == [cp EXCEPT !.at = "advance_tag_index"]
  <1>1. At("record_skill") /\ turn.pc = "depth"
    BY DEF RecordSkill, Ready
  <1>2. turn # Off /\ turn.s = cp /\ cp.at = "record_skill"
    BY <1>1, Working
  <1>3. Candidate \in Answer /\ Attached
    BY <1>1, <1>2, OnCandidate DEF Tagging
  <1>4. /\ Evidenced(cp.contribution, turn.tag) /\ Fold[turn.tag] = Fold[Candidate.name]
        /\ cp.contribution \in 0 .. made
    BY <1>1, <1>2 DEF Inv, TagsInv
  <1>5. CASE cp.reply # Depth
    <2>1. Advance(next) /\ Quiet
      BY <1>2, <1>5 DEF RecordSkill
    <2>2. UNCHANGED Career /\ UNCHANGED Trouble /\ Attached'
      BY <1>3, <2>1 DEF Quiet, Attached, Career, Vocabulary, Evidenced, Attachments,
       Has, Of
    <2> QED
      BY <1>2, <2>1, <2>2, TagAdvances
  <1>6. CASE cp.reply = Depth /\ Owned(Candidate)
    <2>1. Refused
      BY <1>2, <1>6 DEF RecordSkill
    <2> QED
      BY <2>1, StopKeeps DEF Refused, Quiet, Tables, Trouble
  <1>7. CASE cp.reply = Depth /\ ~ Owned(Candidate)
    <2>1. PostSkill(Candidate, cp.contribution) /\ Answered(Advance(next))
      BY <1>2, <1>7 DEF RecordSkill
    <2>2. Attached' /\ UNCHANGED Career
      BY <1>3, <1>4, <2>1, PostSkillAttached
    <2>3. CASE Advance(next) /\ UNCHANGED Trouble
      BY <1>2, <2>2, <2>3, TagAdvances
    <2>4. CASE Stop /\ lost' = lost + 1
      BY <2>2, <2>4, TagStop
    <2> QED
      BY <2>1, <2>3, <2>4 DEF Answered
  <1> QED
    BY <1>5, <1>6, <1>7

-----------------------------------------------------------------------------
(* The pages                                                               *)

\* An edit of the vocabulary.
LEMMA EditKeeps ==
  ASSUME Inv, UNCHANGED Career, Attachments \subseteq Attachments', Attached', Edit
  PROVE  Inv'
  <1>1. cp' = cp /\ turn' = turn /\ lost' = lost /\ rows' = rows /\ made' = made
    BY DEF Edit, Career
  <1>2. TurnInv' /\ Said(cp)' /\ Picked(cp)'
    BY <1>1 DEF Inv, TurnInv, Said, Picked, Named, BegunAsTold, EndedAsTold
  <1>3. RowsInv' /\ TextInv'
    BY <1>1 DEF Inv, RowsInv, TextInv, Kept, Of
  <1>4. Candidate' = Candidate
    BY <1>1 DEF Candidate
  <1>5. Evidenced(cp.contribution, turn.tag) => Evidenced(cp.contribution, turn.tag)'
    BY <1>1 DEF Evidenced, Has, Of
  <1>6. TagsInv'
    BY <1>1, <1>4, <1>5 DEF Inv, TagsInv, Attached
  <1> QED
    BY <1>2, <1>3, <1>6 DEF Inv

LEMMA DeleteRowInv ==
  ASSUME Inv, DeleteRow
  PROVE  Inv'
  <1>1. PICK x \in rows : rows' = rows \ {x} /\ links' = {l \in links : l[1] # x.id}
    BY DEF DeleteRow
  <1>2. /\ cp' = cp /\ turn' = turn /\ lost' = lost /\ made' = made
        /\ tags' = tags /\ skills' = skills /\ unlinked' = unlinked
    BY DEF DeleteRow, Edit
  <1>3. TurnInv' /\ Said(cp)' /\ Picked(cp)'
    BY <1>2 DEF Inv, TurnInv, Said, Picked, Named, BegunAsTold, EndedAsTold
  <1>4. rows' \subseteq rows /\ IsFiniteSet(rows)
    BY <1>1 DEF Inv, RowsInv
  <1>5. RowsInv'
    <2>1. IsFiniteSet(rows')
      BY <1>4, FS_Subset
    <2> QED
      BY <1>2, <1>4, <2>1 DEF Inv, RowsInv, Of
  <1>6. TextInv'
    <2>1. ASSUME NEW text \in Nat PROVE Cardinality(Kept(text)') <= Cardinality(Kept(text))
                                        /\ Cardinality(Kept(text)') \in Nat
                                        /\ Cardinality(Kept(text)) \in Nat
      <3>1. Kept(text)' \subseteq Kept(text) /\ Kept(text) \subseteq rows
        BY <1>4 DEF Kept
      <3>2. IsFiniteSet(Kept(text))
        BY <1>4, <3>1, FS_Subset
      <3> QED
        BY <3>1, <3>2, FS_Subset, FS_CardinalityType
    <2>2. \A y \in Of("contribution")' : y.label \in 0 .. cp.text
      BY <1>4 DEF Inv, TextInv, Of
    <2>3. \A text \in Nat :
            Cardinality(Kept(text)') <=
              IF cp.at = "record_contribution" /\ text = cp.text THEN lost ELSE lost + 1
      <3> SUFFICES ASSUME NEW text \in Nat
                   PROVE  Cardinality(Kept(text)') <=
                            IF cp.at = "record_contribution" /\ text = cp.text THEN lost ELSE lost + 1
        OBVIOUS
      <3>1. lost \in Nat /\ Cardinality(Kept(text)) <=
              IF cp.at = "record_contribution" /\ text = cp.text THEN lost ELSE lost + 1
        BY DEF Inv, TextInv
      <3> QED
        BY <2>1, <3>1
    <2> QED
      BY <1>2, <2>2, <2>3 DEF Inv, TextInv
  <1>7. \A from, tag : Evidenced(from, tag) => Evidenced(from, tag)'
    <2> SUFFICES ASSUME NEW from, NEW tag, Evidenced(from, tag), from # 0,
                        Has("contribution", from)'
                 PROVE  \E l \in Attachments' : l = <<from, l[2]>> /\ Fold[l[2]] = Fold[tag]
      BY DEF Evidenced
    <2>1. PICK y \in rows' : y.kind = "contribution" /\ y.id = from
      BY DEF Has, Of
    <2>2. y \in rows /\ y # x /\ x.id # from
      BY <1>1, <2>1 DEF Inv, RowsInv
    <2>3. Has("contribution", from)
      BY <2>1, <2>2 DEF Has, Of
    <2>4. PICK l \in Attachments : l = <<from, l[2]>> /\ Fold[l[2]] = Fold[tag]
      BY <2>3 DEF Evidenced
    <2>5. l[1] = from
      BY <2>4
    <2> QED
      BY <1>1, <1>2, <2>2, <2>4, <2>5 DEF Attachments
  <1>8. Candidate' = Candidate
    BY <1>2 DEF Candidate
  <1>9. Evidenced(cp.contribution, turn.tag) => Evidenced(cp.contribution, turn.tag)'
    <2>1. SUFFICES ASSUME Evidenced(cp.contribution, turn.tag)
                   PROVE  Evidenced(cp.contribution, turn.tag)'
      OBVIOUS
    <2>2. PICK from, tag : from = cp.contribution /\ tag = turn.tag
      OBVIOUS
    <2>3. Evidenced(from, tag)
      BY <2>1, <2>2 DEF Evidenced, Has
    <2>4. Evidenced(from, tag)'
      BY <1>7, <2>3
    <2>5. cp.contribution' = from /\ turn.tag' = tag
      BY <1>2, <2>2
    <2> QED
      BY <2>4, <2>5 DEF Evidenced, Has
  <1>10. Attached'
    <2>1. links' \subseteq links
      BY <1>1
    <2>2. \A k \in skills : Evidenced(k.from, k.tag)'
      BY <1>7 DEF Inv, TagsInv
    <2> QED
      BY <1>2, <2>1, <2>2 DEF Inv, TagsInv, Attached
  <1>11. TagsInv'
    BY <1>2, <1>8, <1>9, <1>10 DEF Inv, TagsInv, Attached
  <1> QED
    BY <1>3, <1>5, <1>6, <1>11 DEF Inv

LEMMA AssignTagInv ==
  ASSUME Inv, AssignTag
  PROVE  Inv'
  <1>1. PICK x \in Of("contribution"), t \in tags : Link(x.id, t.name)
    BY DEF AssignTag
  <1>2. links' = links \cup {<<x.id, t.name>>} /\ UNCHANGED <<Career, tags, skills>> /\ Edit
    BY <1>1 DEF Link, AssignTag
  <1>3. Attachments \subseteq Attachments'
    BY <1>1 DEF Link, Attachments
  <1>4. \A l \in links' : \E u \in tags : u.name = l[2]
    BY <1>2 DEF Inv, TagsInv
  <1>5. Attached'
    BY <1>2, <1>3, <1>4, AttachedMore DEF Inv, TagsInv
  <1> QED
    BY <1>2, <1>3, <1>5, EditKeeps

LEMMA UnassignTagInv ==
  ASSUME Inv, UnassignTag
  PROVE  Inv'
  <1>1. PICK l \in links : links' = links \ {l} /\ unlinked' = unlinked \cup {l}
    BY DEF UnassignTag
  <1>2. UNCHANGED <<Career, tags, skills>> /\ Edit
    BY DEF UnassignTag
  <1>3. Attachments \subseteq Attachments'
    BY <1>1 DEF Attachments
  <1>4. \A m \in links' : \E u \in tags : u.name = m[2]
    BY <1>1 DEF Inv, TagsInv
  <1>5. Attached'
    BY <1>2, <1>3, <1>4, AttachedMore DEF Inv, TagsInv
  <1> QED
    BY <1>2, <1>3, <1>5, EditKeeps

LEMMA CreateTwinInv ==
  ASSUME Inv, CreateTwin
  PROVE  Inv'
  <1>1. PICK name \in Spelling, t \in tags : tags' = tags \cup {[t EXCEPT !.name = name]}
    BY DEF CreateTwin
  <1>2. UNCHANGED <<Career, categories, links, skills, unlinked>> /\ Edit
    BY DEF CreateTwin
  <1>3. tags \subseteq [name : Spelling, category : STRING]
    BY DEF Inv, TagsInv
  <1>4. [t EXCEPT !.name = name] \in [name : Spelling, category : STRING]
    BY <1>3
  <1>5. Attached'
    BY <1>1, <1>2, <1>3, <1>4, AttachedMore DEF Inv, TagsInv, Attachments
  <1> QED
    BY <1>2, <1>5, EditKeeps DEF Attachments

LEMMA DeleteTagInv ==
  ASSUME Inv, DeleteTag
  PROVE  Inv'
  <1>1. PICK t \in tags :
          ~ Claimed(t.name) /\ (~ \E l \in links : l[2] = t.name) /\ tags' = tags \ {t}
    BY DEF DeleteTag
  <1>2. UNCHANGED <<Career, categories, links, skills, unlinked>> /\ Edit
    BY DEF DeleteTag
  <1>3. \A from, tag : Evidenced(from, tag)' <=> Evidenced(from, tag)
    BY <1>2 DEF Evidenced, Attachments, Has, Of, Career
  <1>4. ASSUME NEW l \in links PROVE \E u \in tags' : u.name = l[2]
    BY <1>1 DEF Inv, TagsInv
  <1>5. ASSUME NEW k \in skills PROVE \E u \in tags' : u.name = k.tag
    BY <1>1 DEF Inv, TagsInv, Claimed
  <1>6. ASSUME NEW k \in skills PROVE k.from \in 0 .. made /\ Evidenced(k.from, k.tag)'
    BY <1>3 DEF Inv, TagsInv
  <1>7. Attached'
    BY <1>1, <1>2, <1>4, <1>5, <1>6 DEF Inv, TagsInv, Attached, Career
  <1> QED
    BY <1>2, <1>7, EditKeeps DEF Attachments

LEMMA DeleteCategoryInv ==
  ASSUME Inv, DeleteCategory
  PROVE  Inv'
  <1>1. UNCHANGED <<Career, tags, links, skills, unlinked>> /\ Edit
    BY DEF DeleteCategory
  <1>2. Attached'
    BY <1>1, AttachedMore DEF Inv, TagsInv, Attachments
  <1> QED
    BY <1>1, <1>2, EditKeeps DEF Attachments

LEMMA CreateSkillInv ==
  ASSUME Inv, CreateSkill
  PROVE  Inv'
  <1>0. PICK proposal \in Proposals : \E i \in DOMAIN proposal : PostSkill(proposal[i], 0)
    BY DEF CreateSkill
  <1>1. PICK i \in DOMAIN proposal : PostSkill(proposal[i], 0)
    BY <1>0
  <1> DEFINE c == proposal[i]
  <1>2. proposal \in Seq(Answer)
    BY OnboardingAssumption DEF Answer
  <1>3. c \in Answer
    BY <1>2, LenProperties, ElementOfSeq
  <1>4. 0 \in 0 .. made
    BY DEF Inv, RowsInv
  <1> HIDE DEF c
  <1>5. PostSkill(c, 0)
    BY <1>1 DEF c
  <1>6. Attached' /\ UNCHANGED Career
    BY <1>3, <1>4, <1>5, PostSkillAttached
  <1>7. Edit /\ UNCHANGED <<links, unlinked>>
    BY <1>5 DEF CreateSkill, PostSkill
  <1> QED
    BY <1>6, <1>7, EditKeeps DEF Attachments

LEMMA DeleteSkillInv ==
  ASSUME Inv, DeleteSkill
  PROVE  Inv'
  <1>1. /\ UNCHANGED <<Career, categories, tags, links, unlinked>> /\ Edit
        /\ skills' \subseteq skills
    BY DEF DeleteSkill
  <1>2. Attached'
    BY <1>1, AttachedMore DEF Inv, TagsInv, Attachments
  <1> QED
    BY <1>1, <1>2, EditKeeps DEF Attachments

-----------------------------------------------------------------------------
(* The invariant                                                           *)

LEMMA InitInv == Init => Inv
  <1> SUFFICES ASSUME Init PROVE Inv
    OBVIOUS
  <1>1. /\ cp = Opening /\ turn = Off /\ rows = {} /\ made = 0 /\ tags = {} /\ links = {}
        /\ skills = {} /\ lost = 0
    BY DEF Init
  <1>2. /\ DOMAIN cp = Fields /\ cp.at = "ask_employer" /\ cp.told = Untold /\ cp.started = 0
        /\ cp.text = 0 /\ cp.contribution = 0 /\ cp.candidates = <<>> /\ cp.index = 1
    BY <1>1 DEF Opening, Fields, Fallback
  <1>3. DOMAIN Untold = {"employer", "title", "start", "end"}
    BY DEF Untold
  <1>4. Said(cp)
    BY <1>2, <1>3 DEF Said
  <1>5. Picked(cp)
    BY <1>2, EmptySeq DEF Picked
  <1>6. TurnInv /\ TagsInv
    BY <1>1, <1>2 DEF TurnInv, TagsInv
  <1>7. RowsInv
    BY <1>1, FS_EmptySet DEF RowsInv
  <1>8. TextInv
    <2>1. \A text : Kept(text) = {}
      BY <1>1 DEF Kept
    <2>2. Cardinality({}) = 0
      BY FS_EmptySet
    <2>3. \A text : Cardinality(Kept(text)) = 0
      BY <2>1, <2>2
    <2> QED
      BY <1>1, <1>2, <2>3 DEF TextInv, Of
  <1> QED
    BY <1>4, <1>5, <1>6, <1>7, <1>8 DEF Inv

LEMMA NextInv == Inv /\ [Next]_vars => Inv'
  <1> SUFFICES ASSUME Inv, [Next]_vars PROVE Inv'
    OBVIOUS
  <1>1. CASE Send
    BY <1>1, SendInv
  <1>2. CASE Fails
    BY <1>2, FailsInv
  <1>3. CASE Node
    BY <1>3, AskEmployerInv, ListEmployersInv, CreateEmployerInv,
       AskPositionTitleInv, AskPositionStartInv, AskPositionEndInv,
       ListPositionsInv, CreatePositionInv,
       AskContributionInv, RecordContributionInv, ExtractTagsInv,
       ConfirmNextTagInv, ListTagsInv, ListCategoriesInv, CreateCategoryInv,
       CreateTagInv, AttachTagInv, AskSkillDepthInv, RecordSkillInv, AdvanceTagIndexInv,
       AskMoreContributionsInv, RecordContributionAgainInv,
       AskMoreEmployersInv, ResolveEmployerAgainInv, FinishInv
    DEF Node
  <1>4. CASE Pages
    BY <1>4, DeleteRowInv, AssignTagInv, UnassignTagInv, CreateTwinInv, DeleteTagInv,
       DeleteCategoryInv, CreateSkillInv, DeleteSkillInv
    DEF Pages
  <1>5. CASE UNCHANGED vars
    <2>1. TurnInv' /\ Said(cp)' /\ Picked(cp)'
      BY <1>5 DEF vars, Inv, TurnInv, Said, Picked, Named, BegunAsTold, EndedAsTold
    <2>2. RowsInv' /\ TextInv'
      BY <1>5 DEF vars, Inv, RowsInv, TextInv, Kept, Of
    <2>3. TagsInv'
      BY <1>5 DEF vars, Inv, TagsInv, Evidenced, Attachments, Has, Of, Candidate
    <2> QED
      BY <2>1, <2>2, <2>3 DEF Inv
  <1> QED
    BY <1>1, <1>2, <1>3, <1>4, <1>5 DEF Next

\* The checkpoint says what was said of the job, rows are made once and claims
\* keep their evidence, through faults, lost answers and edits (graph.py).
THEOREM InvHolds == Spec => []Inv
  BY InitInv, NextInv, PTL DEF Spec

-----------------------------------------------------------------------------
(* What the runs check                                                     *)

\* What the nodes resolve_employer and resolve_position are about to write is
\* what the person said of this job (graph.py, ask_* and resolve_*).
THEOREM RowsAsToldHolds == Spec => []RowsAsTold
  <1>1. Inv => RowsAsTold
    BY DEF Inv, TurnInv, Said, Named, BegunAsTold, EndedAsTold, RowsAsTold, At
  <1> QED
    BY <1>1, InvHolds, PTL

\* An employer and a position are made once however often their turn is tried
\* again, and an answer about the work once more for each answer that was lost
\* (resolve_employer, resolve_position, record_contribution).
THEOREM WrittenOnceHolds == Spec => []WrittenOnce
  <1>1. ASSUME Inv PROVE WrittenOnce
    <2> SUFFICES ASSUME NEW x \in rows, x.label # Placeholder
                 PROVE  Cardinality({y \in rows :
                          y.kind = x.kind /\ y.under = x.under /\ y.label = x.label})
                          <= (IF x.kind = "contribution" THEN 1 + lost ELSE 1)
      BY DEF WrittenOnce
    <2> DEFINE S == {y \in rows : y.kind = x.kind /\ y.under = x.under /\ y.label = x.label}
    <2>1. IsFiniteSet(rows) /\ lost \in Nat
      BY <1>1 DEF Inv, RowsInv, TextInv
    <2>2. CASE x.kind = "contribution"
      <3> DEFINE K == Kept(x.label)
      <3>1. S \subseteq K /\ K \subseteq rows
        BY <2>2 DEF Kept
      <3>2. x.label \in Nat
        BY <1>1, <2>2 DEF Inv, TextInv, Of
      <3>3. Cardinality(K) <= lost + 1
        <4>1. Cardinality(K) <= IF cp.at = "record_contribution" /\ x.label = cp.text
                                THEN lost ELSE lost + 1
          BY <1>1, <3>2 DEF Inv, TextInv
        <4>2. Cardinality(K) \in Nat
          BY <2>1, <3>1, FS_Subset, FS_CardinalityType
        <4> QED
          BY <2>1, <4>1, <4>2
      <3> HIDE DEF S, K
      <3>4. IsFiniteSet(K)
        BY <2>1, <3>1, FS_Subset
      <3>5. Cardinality(S) <= Cardinality(K) /\ Cardinality(S) \in Nat /\ Cardinality(K) \in Nat
        BY <3>1, <3>4, FS_Subset, FS_CardinalityType
      <3> QED
        BY <2>1, <2>2, <3>3, <3>5 DEF S
    <2>3. CASE x.kind # "contribution"
      <3>1. S = {x}
        BY <1>1, <2>3 DEF Inv, RowsInv
      <3>2. Cardinality(S) = 1
        BY <3>1, FS_Singleton
      <3> HIDE DEF S
      <3> QED
        BY <2>3, <3>2 DEF S
    <2> QED
      BY <2>2, <2>3
  <1> QED
    BY <1>1, InvHolds, PTL

\* A claim is evidenced by the contribution it was heard in, unless a page
\* deleted that or took the tag off it, or the tag is there in two spellings
\* (attach_tag, record_skill; the pages are those of Pages).
THEOREM ClaimsAreEvidencedHolds == Spec => []ClaimsAreEvidenced
  <1>1. ASSUME Inv PROVE ClaimsAreEvidenced
    <2> SUFFICES ASSUME NEW k \in skills, k.from # 0, <<k.from, k.tag>> \notin links,
                        Has("contribution", k.from),
                        ~ \E l \in unlinked : l[1] = k.from /\ Fold[l[2]] = Fold[k.tag]
                 PROVE  Cardinality(Alike(k.tag)) > 1
      BY DEF ClaimsAreEvidenced
    <2>1. PICK l \in links : l = <<k.from, l[2]>> /\ Fold[l[2]] = Fold[k.tag]
      <3>1. PICK l \in Attachments : l = <<k.from, l[2]>> /\ Fold[l[2]] = Fold[k.tag]
        BY <1>1 DEF Inv, TagsInv, Evidenced
      <3>2. l[1] = k.from
        BY <3>1
      <3> QED
        BY <3>1, <3>2 DEF Attachments
    <2> DEFINE u == l[2]
               A == Alike(k.tag)
    <2>2. u # k.tag
      BY <2>1
    <2>3. u \in A /\ k.tag \in A
      BY <1>1, <2>1 DEF Inv, TagsInv, Alike
    <2>4. IsFiniteSet(A)
      <3>1. A \subseteq Spelling
        BY <1>1 DEF Inv, TagsInv, Alike
      <3>2. IsFiniteSet(Spelling)
        <4>1. DOMAIN TagNames = 1 .. Len(TagNames) /\ Len(TagNames) \in Nat
          BY OnboardingAssumption, LenProperties
        <4>2. IsFiniteSet(DOMAIN TagNames)
          BY <4>1, FS_Interval
        <4>3. TagNames \in [DOMAIN TagNames -> Spelling]
          BY OnboardingAssumption DEF Spelling, ToSet
        <4>4. \A s \in Spelling : \E n \in DOMAIN TagNames : TagNames[n] = s
          BY DEF Spelling, ToSet
        <4>5. TagNames \in Surjection(DOMAIN TagNames, Spelling)
          BY <4>3, <4>4, Fun_IsSurj
        <4> QED
          BY <4>2, <4>5, FS_Surjection
      <3> QED
        BY <3>1, <3>2, FS_Subset
    <2> HIDE DEF u, A
    <2>5. Cardinality({u, k.tag}) = 2
      <3>1. IsFiniteSet({u}) /\ Cardinality({u}) = 1
        BY FS_Singleton
      <3>2. Cardinality({u} \cup {k.tag}) = 2
        <4>1. k.tag \notin {u}
          BY <2>2
        <4>2. \A v : IsFiniteSet({u}) /\ v \notin {u}
                        => Cardinality({u} \cup {v}) = Cardinality({u}) + 1
          BY FS_AddElement
        <4>3. Cardinality({u} \cup {k.tag}) = Cardinality({u}) + 1
          BY <3>1, <4>1, <4>2
        <4> QED
          BY <3>1, <4>3
      <3>3. {u} \cup {k.tag} = {u, k.tag}
        OBVIOUS
      <3> QED
        BY <3>2, <3>3
    <2>6. Cardinality({u, k.tag}) <= Cardinality(A) /\ Cardinality(A) \in Nat
      BY <2>3, <2>4, FS_Subset, FS_CardinalityType
    <2> QED
      BY <2>5, <2>6 DEF A
  <1> QED
    BY <1>1, InvHolds, PTL

=============================================================================
