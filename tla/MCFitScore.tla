----------------------------- MODULE MCFitScore -----------------------------
(* Four skills in three categories, two of which claim the same competency. *)
EXTENDS FitScore

Words == {"go", "golang", "kafka", "apache", "jenkins", "splunk", "api", "apis", "ci", "only",
          "language", "data"}
Tokenized == [w \in Words |-> IF w = "apis" THEN "api" ELSE w]

skill(name, aliases, category) == [name |-> <<name>>, aliases |-> aliases, category |-> category]
Go      == skill("go", {<<"golang">>}, "Language")
Kafka   == skill("kafka", {}, "Data")
Jenkins == skill("jenkins", {}, "Delivery")
Splunk  == skill("splunk", {<<"go", "apis">>}, "Operations")

Skills == {Go, Kafka, Jenkins, Splunk}

Either == {<<Go, Kafka, Jenkins, Splunk>>, <<Splunk, Jenkins, Kafka, Go>>}

Vocabulary ==
  [Language |-> {<<"language">>}, Data |-> {<<"data">>},
   Delivery |-> {<<"ci">>}, Operations |-> {<<"ci">>, <<"api">>}]

Scale == <<[value |-> "novice", rank |-> 1, aliases |-> {"junior"}],
           [value |-> "expert", rank |-> 2, aliases |-> {"deep", "novice"}]>>

AskGo    == <<<<"golang">>>>
AskKafka == <<<<"apache", "kafka">>>>
AskEither == <<<<"go">>, <<>>, <<"kafka">>>>
AskCi    == <<<<"ci">>>>
AskApis  == <<<<"apis">>, <<"ci">>>>
Nothing  == <<<<>>>>

Signals(required, preferred, competencies, stated) ==
  [required |-> required, preferred |-> preferred, competencies |-> competencies,
   stated |-> stated, practice |-> <<>>,
   industry |-> <<"data">>, arrangement |-> <<>>, culture |-> {<<"apache">>}]

Stated(ask, level) == <<[requirement |-> ask, level |-> level]>>

Scoring ==
  {Signals(r, p, c, s) :
     r \in {<<AskApis>>, <<AskEither, AskGo>>, <<AskCi, AskKafka>>},
     p \in {<<>>, <<AskKafka>>},
     c \in {<<>>, <<Nothing, AskCi>>, <<<<<<"go", "apis">>>>>>},
     s \in {Stated(AskApis, "expert"), Stated(AskEither, "deep"), Stated(AskCi, "novice"),
            Stated(AskCi, "expert"), Stated(AskApis, "guru")}}

Practising ==
  {[Signals(<<AskGo>>, <<>>, <<>>, <<>>) EXCEPT !.practice = e] :
     e \in {<<AskEither>>, <<AskEither, AskGo>>, <<AskKafka, Nothing>>, <<AskApis, AskEither>>}}

AllPostings == {Signals(<<>>, <<>>, <<Nothing>>, <<>>)} \cup Scoring \cup Practising

pref(type, label, aliases) ==
  [type |-> type, label |-> label, aliases |-> aliases, sentiment |-> "negative", gate |-> TRUE]

Rows == {pref("core_practice", <<"kafka", "only">>, {}),
         pref("core_practice", <<"go">>, {<<"apache", "kafka">>}),
         pref("dealbreaker", <<"api">>, {})}
=============================================================================
