----------------------------- MODULE Onboarding -----------------------------
(***************************************************************************)
(* One onboarding interview (onboarding-agent) of a person who answers in  *)
(* a browser and whose career the agent writes through the REST API.       *)
(*                                                                         *)
(* A turn runs the graph node by node from the last checkpoint until a     *)
(* node asks; every node that completes is checkpointed, and the turn may  *)
(* fail in the middle of one. One turn runs at a time.                     *)
(***************************************************************************)
EXTENDS Naturals, FiniteSets, SequencesExt

CONSTANTS
  Company, Title, \* names an answer may be
  DateAnswer,     \* answers that hold a date ...
  Earliest, Latest,    \* ... and the first and last month each may mean
  Proposals,      \* lists of candidates the model may read in a contribution
  TagNames,       \* spellings of tags, in the order ListTags lists them
  Fold,           \* a spelling in lower case
  Silent, Sentence, Placeholder, Still, Yes, No, Done, Depth,  \* other answers
  None,           \* null
  MaxExtra        \* faults, edits, and questions and jobs more than one

Spelling == ToSet(TagNames)
Fallback == 0     \* 1900-01-01

ASSUME OnboardingAssumption ==
  /\ Earliest \in [DateAnswer -> Nat \ {Fallback}] /\ Latest \in [DateAnswer -> Nat]
  /\ \A d \in DateAnswer : Earliest[d] <= Latest[d]
  /\ Proposals \subseteq Seq([name : Spelling, category : STRING, durable : BOOLEAN])
  /\ TagNames \in Seq(STRING) /\ DOMAIN Fold = Spelling
  /\ Placeholder \notin Company \cup Title
  /\ {Sentence, Still} \cap (Company \cup Title \cup DateAnswer) = {} /\ Sentence # Still
  /\ MaxExtra \in Nat

VARIABLES
  cp,         \* the last checkpoint of the thread
  turn,       \* the turn under way
  rows,       \* employers, positions and contributions the account has
  made,       \* rows made so far
  categories, tags, links, skills,
  unlinked,   \* tags a page took off a contribution and nobody has put back
  faults,     \* calls that failed, up to MaxExtra ...
  lost,       \* ... and those of them that had their effect
  edits       \* made on the pages, up to MaxExtra

vars == <<cp, turn, rows, made, categories, tags, links, skills, unlinked,
          faults, lost, edits>>

Career == <<rows, made>>
Vocabulary == <<categories, tags, links, skills, unlinked>>
Trouble == <<faults, lost, edits>>
Tables == <<Career, Vocabulary>>
Quiet == UNCHANGED <<Career, Vocabulary, Trouble>>

Untold == [employer |-> None, title |-> None, start |-> None, end |-> None]

\* Before the first question; retry holds the flags that ask a question again.
Opening ==
  [at |-> "ask_employer", retry |-> {}, told |-> Untold,
   employer |-> None, employerNote |-> FALSE, employerRow |-> 0,
   title |-> None, titleNote |-> FALSE, started |-> Fallback, startedNote |-> FALSE,
   ended |-> None, positionRow |-> 0,
   text |-> 0, contribution |-> 0, candidates |-> <<>>, index |-> 1,
   reply |-> Silent, rounds |-> 0]

Off == [on |-> FALSE]

\* The first question is on the screen and the account is empty.
Init ==
  /\ cp = Opening
  /\ turn = Off
  /\ rows = {} /\ made = 0 /\ categories = {} /\ tags = {} /\ links = {} /\ skills = {}
  /\ unlinked = {}
  /\ faults = 0 /\ lost = 0 /\ edits = 0

Of(kind) == {x \in rows : x.kind = kind}
Has(kind, id) == \E x \in Of(kind) : x.id = id

-----------------------------------------------------------------------------
(* A turn                                                                  *)

Spare == cp.rounds + faults + edits < MaxExtra

Unclear(s, question) == IF Spare \/ question \in s.retry THEN {Sentence} ELSE {}

\* What a person may say to the question of a node.
Answers(s) ==
  CASE s.at = "ask_employer" -> Company \cup Unclear(s, "employer")
    [] s.at = "ask_position_title" -> Title \cup Unclear(s, "title")
    [] s.at = "ask_position_start" -> DateAnswer \cup Unclear(s, "start")
    [] s.at = "ask_position_end" -> DateAnswer \cup {Still} \cup Unclear(s, "end")
    [] s.at = "confirm_next_tag" -> {Yes, No}
    [] s.at = "ask_skill_depth" -> {Depth, Sentence}
    [] s.at = "ask_more_contributions" -> {Done} \cup IF Spare THEN {Sentence} ELSE {}
    [] s.at = "ask_more_employers" ->
         {Done} \cup IF Spare THEN Company \cup {Sentence} ELSE {}
    [] s.at = "end" -> {}
    [] OTHER -> {Sentence}

On(s, message, pc, tag) ==
  [on |-> TRUE, s |-> s, message |-> message, pc |-> pc, tag |-> tag]

Send ==
  /\ turn = Off
  /\ \E message \in Answers(cp) : turn' = On(cp, message, "start", None)
  /\ UNCHANGED cp /\ Quiet

Stop == turn' = Off /\ UNCHANGED cp

At(node) == turn # Off /\ turn.s.at = node

\* A node is done and its state is checkpointed.
Advance(s) ==
  /\ turn' = On(s, Silent, "start", None)
  /\ cp' = s

\* The node is in the middle of its calls: nothing is checkpointed.
Goto(pc) ==
  turn' = [turn EXCEPT !.pc = pc] /\ UNCHANGED cp

\* A call or the model fails before it had an effect.
Fails ==
  /\ turn # Off /\ Spare
  /\ Stop /\ faults' = faults + 1
  /\ UNCHANGED <<Tables, lost, edits>>

\* A call had its effect; its answer arrives, or the turn fails without it.
Answered(Go) ==
  \/ Go /\ UNCHANGED Trouble
  \/ /\ Spare /\ Stop
     /\ faults' = faults + 1 /\ lost' = lost + 1 /\ UNCHANGED edits

\* Refused by the API: the turn fails and nothing has changed.
Refused == Stop /\ Quiet

\* interrupt(): the question ends the turn unless the message answers it.
Ask(node, After(_, _)) ==
  /\ At(node)
  /\ IF turn.message = Silent THEN Stop
     ELSE Advance(After(turn.s, turn.message))
  /\ Quiet

Pure(node, After(_)) ==
  /\ At(node) /\ Advance(After(turn.s))
  /\ Quiet

-----------------------------------------------------------------------------
(* The questions about a job                                               *)

\* A question is asked again once.
Missed(s, question) ==
  [s EXCEPT !.retry = @ \cup {question}, !.rounds = IF question \in s.retry THEN @ ELSE @ + 1]

RouteEmployer(s) ==
  [s EXCEPT !.at = IF "employer" \in s.retry THEN "ask_employer" ELSE "resolve_employer"]

Name(s, answer) ==
  [s EXCEPT !.employer = answer, !.employerNote = (answer = Placeholder),
            !.retry = @ \ {"employer"}]

AskEmployer ==
  Ask("ask_employer", LAMBDA s, answer :
    LET t == [s EXCEPT !.told.employer = answer]
    IN  RouteEmployer(
          CASE answer # Sentence -> Name(t, answer)
            [] answer = Sentence /\ "employer" \in s.retry -> Name(t, Placeholder)
            [] OTHER -> Missed(t, "employer")))

RoutePositionTitle(s) ==
  [s EXCEPT !.at = IF "title" \in s.retry THEN "ask_position_title" ELSE "ask_position_start"]

Entitle(s, answer) ==
  [s EXCEPT !.title = answer, !.titleNote = (answer = Placeholder), !.retry = @ \ {"title"}]

AskPositionTitle ==
  Ask("ask_position_title", LAMBDA s, answer :
    LET t == [s EXCEPT !.told.title = answer]
    IN  RoutePositionTitle(
          CASE answer # Sentence -> Entitle(t, answer)
            [] answer = Sentence /\ "title" \in s.retry -> Entitle(t, Placeholder)
            [] OTHER -> Missed(t, "title")))

\* Variant for a mutant: a date that is in the state counts as this job's.
RouteByPresence(s) ==
  [s EXCEPT !.at = IF s.started = Fallback THEN "ask_position_start" ELSE "ask_position_end"]

RoutePositionStart(s) ==
  [s EXCEPT !.at = IF "start" \in s.retry THEN "ask_position_start" ELSE "ask_position_end"]

AskPositionStart ==
  Ask("ask_position_start", LAMBDA s, answer :
    LET t == [s EXCEPT !.told.start = answer]
        starts(date, note) ==
          [t EXCEPT !.started = date, !.startedNote = note, !.retry = @ \ {"start"}]
    IN  RoutePositionStart(
          CASE answer \in DateAnswer -> starts(Earliest[answer], FALSE)
            [] answer \notin DateAnswer /\ "start" \in s.retry -> starts(Fallback, TRUE)
            [] OTHER -> Missed(t, "start")))

\* At the precision of the answer; a job whose start is unknown ends any time.
EndsBefore(answer, started) == started # Fallback /\ Latest[answer] < started

RoutePositionEnd(s) ==
  [s EXCEPT !.at = IF "end" \in s.retry THEN "ask_position_end" ELSE "resolve_position"]

Larger(a, b) == IF a >= b THEN a ELSE b

Ended(s, ended) == [s EXCEPT !.ended = ended, !.retry = @ \ {"end"}]

Dated(s, answer) == answer \in DateAnswer /\ ~ EndsBefore(answer, s.started)

\* Variant for a mutant: only what is no date at all is given up.
EndOrAskAgain(s, answer) ==
  CASE Dated(s, answer) -> Ended(s, <<Larger(Earliest[answer], s.started)>>)
    [] answer = Still -> Ended(s, <<>>)
    [] answer = Sentence /\ "end" \in s.retry -> Ended(s, <<Fallback>>)
    [] OTHER -> Missed(s, "end")

EndOf(s, answer) ==
  CASE Dated(s, answer) -> Ended(s, <<Larger(Earliest[answer], s.started)>>)
    [] answer = Still -> Ended(s, <<>>)
    [] ~ Dated(s, answer) /\ answer # Still /\ "end" \in s.retry -> Ended(s, <<Fallback>>)
    [] OTHER -> Missed(s, "end")

AskPositionEnd ==
  Ask("ask_position_end", LAMBDA s, answer :
    RoutePositionEnd(EndOf([s EXCEPT !.told.end = answer], answer)))

-----------------------------------------------------------------------------
(* Employers, positions and contributions are written                      *)

Put(row) ==
  /\ rows' = rows \cup {row} /\ made' = made + 1
  /\ UNCHANGED Vocabulary

Row(kind, under, label) ==
  [kind |-> kind, id |-> made + 1, under |-> under, label |-> label]

Oldest(S) == CHOOSE x \in S : \A y \in S : x.id <= y.id

HaveEmployer(s, id) == [s EXCEPT !.employerRow = id, !.at = "ask_position_title"]

ListEmployers ==
  /\ At("resolve_employer") /\ turn.pc = "start" /\ ~ turn.s.employerNote
  /\ LET s == turn.s
         found == {e \in Of("employer") : e.label = s.employer}
     IN  IF found = {} THEN Goto("create") ELSE Advance(HaveEmployer(s, Oldest(found).id))
  /\ Quiet

\* A placeholder is a row of its own, whatever there is.
CreateEmployer ==
  /\ At("resolve_employer")
  /\ turn.pc = "create" \/ turn.s.employerNote
  /\ Put(Row("employer", 0, turn.s.employer))
  /\ Answered(Advance(HaveEmployer(turn.s, made + 1)))

HavePosition(s, id) == [s EXCEPT !.positionRow = id, !.at = "ask_contribution"]

ListPositions ==
  /\ At("resolve_position") /\ turn.pc = "start" /\ ~ turn.s.titleNote
  /\ LET s == turn.s
         found == {p \in Of("position") : p.under = s.employerRow /\ p.label = s.title}
     IN  IF found = {} THEN Goto("create") ELSE Advance(HavePosition(s, Oldest(found).id))
  /\ Quiet

CreatePosition ==
  /\ At("resolve_position")
  /\ turn.pc = "create" \/ turn.s.titleNote
  /\ IF Has("employer", turn.s.employerRow)
     THEN /\ Put(Row("position", turn.s.employerRow, turn.s.title))
          /\ Answered(Advance(HavePosition(turn.s, made + 1)))
     ELSE Refused

AskContribution ==
  Ask("ask_contribution", LAMBDA s, answer :
    [s EXCEPT !.text = @ + 1, !.at = "record_contribution"])

\* Variant for a mutant: the node goes on to the model before it is checkpointed.
RecordedAndRead(s) ==
  /\ turn' = On(s, Silent, "start", None)
  /\ UNCHANGED cp

Recorded(s) == Advance(s)

RecordContribution ==
  /\ At("record_contribution")
  /\ IF Has("position", turn.s.positionRow)
     THEN /\ Put(Row("contribution", turn.s.positionRow, turn.s.text))
          /\ Answered(Recorded([turn.s EXCEPT !.contribution = made + 1, !.at = "extract_tags"]))
     ELSE Refused

-----------------------------------------------------------------------------
(* Tags and skills                                                         *)

RouteTagConfirmation(s) ==
  [s EXCEPT !.at = IF s.index <= Len(s.candidates)
                   THEN "confirm_next_tag" ELSE "ask_more_contributions"]

ExtractTags ==
  \E candidates \in Proposals :
    Pure("extract_tags", LAMBDA s :
      RouteTagConfirmation([s EXCEPT !.candidates = candidates, !.index = 1]))

Candidate == turn.s.candidates[turn.s.index]

ConfirmNextTag ==
  Ask("confirm_next_tag", LAMBDA s, answer :
    [s EXCEPT !.reply = answer,
              !.at = CASE answer = No -> "advance_tag_index"
                       [] answer # No /\ s.candidates[s.index].durable -> "ask_skill_depth"
                       [] OTHER -> "attach_tag"])

AskSkillDepth ==
  Ask("ask_skill_depth", LAMBDA s, answer :
    [s EXCEPT !.reply = answer, !.at = "record_skill"])

AdvanceTagIndex ==
  Pure("advance_tag_index", LAMBDA s : RouteTagConfirmation([s EXCEPT !.index = @ + 1]))

Tagging(pc) == turn # Off /\ turn.s.at \in {"attach_tag", "record_skill"} /\ turn.pc = pc

Alike(name) == {t.name : t \in {t \in tags : Fold[t.name] = Fold[name]}}

\* The first tag listed that is spelled so, up to case.
FirstAlike(name) ==
  TagNames[CHOOSE i \in DOMAIN TagNames :
    TagNames[i] \in Alike(name) /\ \A j \in 1 .. i - 1 : TagNames[j] \notin Alike(name)]

\* The call after the next is made about this tag.
Found(name) ==
  turn' = [turn EXCEPT !.pc = "attach", !.tag = name] /\ UNCHANGED cp

ListTags ==
  /\ Tagging("start")
  /\ LET name == Candidate.name
     IN  IF Alike(name) = {} THEN Goto("categories") ELSE Found(FirstAlike(name))
  /\ Quiet

ListCategories ==
  /\ Tagging("categories")
  /\ Goto(IF Candidate.category \in categories THEN "tag" ELSE "category")
  /\ Quiet

\* UNIQUE (user_id, name)
CreateCategory ==
  /\ Tagging("category")
  /\ IF Candidate.category \notin categories
     THEN /\ categories' = categories \cup {Candidate.category}
          /\ Answered(Goto("tag"))
          /\ UNCHANGED <<Career, tags, links, skills, unlinked>>
     ELSE Refused

\* The name is compared as it is spelled, and the category must be there.
CreateTag ==
  /\ Tagging("tag")
  /\ LET c == Candidate
     IN  IF c.category \in categories /\ ~ \E t \in tags : t.name = c.name
         THEN /\ tags' = tags \cup {[name |-> c.name, category |-> c.category]}
              /\ Answered(Found(c.name))
              /\ UNCHANGED <<Career, categories, links, skills, unlinked>>
         ELSE Refused

\* Variant for a mutant: the claim is made before the tag is attached.
ClaimFirst == turn.pc \in {"attach", "depth"}

Ready == turn.pc = "depth"

\* ON CONFLICT DO NOTHING: a tag that is there already stays there.
Link(contribution, name) ==
  /\ links' = links \cup {<<contribution, name>>}
  /\ unlinked' = unlinked \ {<<contribution, name>>}
  /\ UNCHANGED <<Career, categories, tags, skills>>

AttachTag ==
  /\ Tagging("attach")
  /\ LET s == turn.s
     IN  IF Has("contribution", s.contribution) /\ \E t \in tags : t.name = turn.tag
         THEN /\ Link(s.contribution, turn.tag)
              /\ Answered(IF s.at = "record_skill" THEN Goto("depth")
                          ELSE Advance([s EXCEPT !.at = "advance_tag_index"]))
         ELSE Refused

Claimed(name) == \E k \in skills : k.tag = name

\* POST /skills finds or makes the tag by itself; a second claim on it is a 409.
PostSkill(c, from) ==
  LET fresh == Alike(c.name) = {}
      name  == IF fresh THEN c.name ELSE FirstAlike(c.name)
  IN  /\ ~ Claimed(name)
      /\ tags' = tags \cup IF fresh THEN {[name |-> name, category |-> c.category]} ELSE {}
      /\ categories' = categories \cup IF fresh THEN {c.category} ELSE {}
      /\ skills' = skills \cup {[tag |-> name, from |-> from]}
      /\ UNCHANGED <<Career, links, unlinked>>

Owned(c) == Alike(c.name) # {} /\ Claimed(FirstAlike(c.name))

\* A depth nobody can read off the answer is not asserted.
RecordSkill ==
  /\ At("record_skill") /\ Ready
  /\ LET s == turn.s
         next == [s EXCEPT !.at = "advance_tag_index"]
     IN  CASE s.reply # Depth -> Advance(next) /\ Quiet
           [] s.reply = Depth /\ Owned(Candidate) -> Refused
           [] OTHER -> PostSkill(Candidate, s.contribution) /\ Answered(Advance(next))

-----------------------------------------------------------------------------
(* Another contribution, another job                                       *)

AskMoreContributions ==
  Ask("ask_more_contributions", LAMBDA s, answer :
    IF answer = Done THEN [s EXCEPT !.reply = answer, !.at = "ask_more_employers"]
    ELSE [s EXCEPT !.reply = answer, !.rounds = @ + 1, !.at = "record_contribution_again"])

RecordContributionAgain ==
  Pure("record_contribution_again", LAMBDA s :
    [s EXCEPT !.text = @ + 1, !.at = "record_contribution"])

AskMoreEmployers ==
  Ask("ask_more_employers", LAMBDA s, answer :
    IF answer = Done THEN [s EXCEPT !.reply = answer, !.at = "finish"]
    ELSE [s EXCEPT !.reply = answer, !.rounds = @ + 1,
                   !.told = [Untold EXCEPT !.employer = answer],
                   !.at = "resolve_employer_again"])

NextEmployer(s) ==
  RouteEmployer(IF s.reply = Sentence THEN Missed(s, "employer") ELSE Name(s, s.reply))

ResolveEmployerAgain == Pure("resolve_employer_again", NextEmployer)

Finish ==
  /\ At("finish")
  /\ cp' = [turn.s EXCEPT !.at = "end"] /\ turn' = Off
  /\ Quiet

-----------------------------------------------------------------------------
(* The Career and Vocabulary pages                                         *)

Edit ==
  /\ Spare /\ edits' = edits + 1
  /\ UNCHANGED <<cp, turn, faults, lost>>

DeleteRow ==
  /\ \E x \in rows :
       /\ ~ \E y \in rows : y.under = x.id
       /\ rows' = rows \ {x}
       /\ links' = {l \in links : l[1] # x.id}
  /\ UNCHANGED <<made, categories, tags, skills, unlinked>> /\ Edit

\* Both must be of the account; what is there already changes nothing.
AssignTag ==
  /\ \E x \in Of("contribution"), t \in tags :
       <<x.id, t.name>> \notin links /\ Link(x.id, t.name)
  /\ Edit

UnassignTag ==
  /\ \E l \in links : links' = links \ {l} /\ unlinked' = unlinked \cup {l}
  /\ UNCHANGED <<Career, categories, tags, skills>> /\ Edit

CreateTwin ==
  /\ \E name \in Spelling, t \in tags :
       /\ ~ \E u \in tags : u.name = name
       /\ tags' = tags \cup {[t EXCEPT !.name = name]}
  /\ UNCHANGED <<Career, categories, links, skills, unlinked>> /\ Edit

DeleteTag ==
  /\ \E t \in tags :
       /\ ~ Claimed(t.name) /\ ~ \E l \in links : l[2] = t.name
       /\ tags' = tags \ {t}
  /\ UNCHANGED <<Career, categories, links, skills, unlinked>> /\ Edit

DeleteCategory ==
  /\ \E c \in categories :
       /\ ~ \E t \in tags : t.category = c
       /\ categories' = categories \ {c}
  /\ UNCHANGED <<Career, tags, links, skills, unlinked>> /\ Edit

CreateSkill ==
  /\ \E proposal \in Proposals : \E i \in DOMAIN proposal : PostSkill(proposal[i], 0)
  /\ Edit

DeleteSkill ==
  /\ \E k \in skills : skills' = skills \ {k}
  /\ UNCHANGED <<Career, categories, tags, links, unlinked>> /\ Edit

-----------------------------------------------------------------------------

Node ==
  \/ AskEmployer \/ ListEmployers \/ CreateEmployer
  \/ AskPositionTitle \/ AskPositionStart \/ AskPositionEnd
  \/ ListPositions \/ CreatePosition
  \/ AskContribution \/ RecordContribution \/ ExtractTags
  \/ ConfirmNextTag \/ ListTags \/ ListCategories \/ CreateCategory
  \/ CreateTag \/ AttachTag \/ AskSkillDepth \/ RecordSkill \/ AdvanceTagIndex
  \/ AskMoreContributions \/ RecordContributionAgain
  \/ AskMoreEmployers \/ ResolveEmployerAgain \/ Finish

Pages ==
  \/ DeleteRow \/ AssignTag \/ UnassignTag \/ CreateTwin \/ DeleteTag
  \/ DeleteCategory \/ CreateSkill \/ DeleteSkill

Next == Send \/ Node \/ Fails \/ Pages

\* The agent goes on with a turn, and the person with the interview.
Fairness == WF_vars(Node) /\ WF_vars(Send)

Spec == Init /\ [][Next]_vars /\ Fairness

-----------------------------------------------------------------------------

\* What the agent is about to write about a job is what the person said of this
\* job: the name or title, or a placeholder with a note when it could not be
\* read; a date, or the placeholder date; "still there" only when it was said.
RowsAsTold ==
  turn # Off =>
    LET s == turn.s
        told == s.told
        named(field, note, answer) ==
          /\ field = (IF answer = Sentence THEN Placeholder ELSE answer)
          /\ note = (answer = Sentence)
    IN  /\ At("resolve_employer") => named(s.employer, s.employerNote, told.employer)
        /\ At("resolve_position") =>
             /\ named(s.title, s.titleNote, told.title)
             /\ s.started = (IF told.start = Sentence THEN Fallback ELSE Earliest[told.start])
             /\ s.startedNote = (told.start = Sentence)
             /\ s.ended = <<>> <=> told.end = Still
             /\ s.ended # <<>> =>
                  \/ s.ended[1] = Fallback
                  \/ s.ended[1] \in Larger(s.started, Earliest[told.end]) .. Latest[told.end]

\* An employer and a position are made once however often their turn is tried
\* again, and an answer about the work is kept once more only for a write whose
\* answer was lost. Placeholders are rows of their own.
WrittenOnce ==
  \A x \in rows :
    x.label # Placeholder =>
      Cardinality({y \in rows : y.kind = x.kind /\ y.under = x.under /\ y.label = x.label})
        <= (IF x.kind = "contribution" THEN 1 + lost ELSE 1)

\* A skill the interview claims is evidenced by the contribution it was heard
\* in, unless a page deleted that or took the tag off it, or the tag is there in
\* two spellings.
ClaimsAreEvidenced ==
  \A k \in skills :
    \/ k.from = 0 \/ <<k.from, k.tag>> \in links
    \/ ~ Has("contribution", k.from)
    \/ \E l \in unlinked : l[1] = k.from /\ Fold[l[2]] = Fold[k.tag]
    \/ Cardinality(Alike(k.tag)) > 1

\* The node at the checkpoint will be refused again and again.
Stuck ==
  \/ cp.at = "resolve_position" /\ ~ Has("employer", cp.employerRow)
  \/ cp.at = "record_contribution" /\ ~ Has("position", cp.positionRow)
  \/ cp.at \in {"attach_tag", "record_skill"} /\ ~ Has("contribution", cp.contribution)
  \/ cp.at = "record_skill" /\ cp.reply = Depth /\ Owned(cp.candidates[cp.index])

\* A person who goes on answering is told that the interview is done, whatever
\* they answer, unless it has come to a node that the API refuses for good.
InterviewFinishes == []<>(cp.at = "end" \/ Stuck)

=============================================================================
