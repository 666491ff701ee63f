--------------------------- MODULE MCCareerImport ---------------------------
(* Careers of one or two jobs, some of them misread.                       *)
EXTENDS CareerImport

Career(employers, positions, contributions) ==
  [employers |-> employers, positions |-> positions, contributions |-> contributions,
   skills |-> <<>>, preferences |-> <<>>, education |-> <<>>, credentials |-> <<>>]

Acme == [ref |-> "e1", name |-> <<"acme">>]
Post(ref, employer) == [ref |-> ref, employer |-> employer]

Jobs == Career(<<Acme, [ref |-> "e2", name |-> <<"work">>]>>, <<Post("p1", "e2"), Post("p2", "e1")>>, <<"p2">>)
Tastes ==
  [Career(<<>>, <<>>, <<>>) EXCEPT
     !.skills = <<<<"quality", "work">>, <<"quality">>, <<"art">>>>,
     !.preferences = <<<<"remote">>, <<"work", "remote">>>>]
Papers == [Career(<<Acme>>, <<>>, <<>>) EXCEPT !.education = <<<<"art">>>>, !.credentials = <<<<"art">>>>]

Misread ==
  {Career(<<Acme>>, <<Post("p1", "e2")>>, <<>>),
   Career(<<Acme>>, <<Post("p1", "e1"), Post("p1", "e1")>>, <<>>),
   Career(<<Acme, Acme>>, <<>>, <<>>),
   Career(<<Acme>>, <<>>, <<"p1">>),
   [Jobs EXCEPT !.skills = <<<<>>>>]}

Readings == {Jobs, Tastes, Papers} \cup Misread

Words == {"acme", "art", "quality", "work", "remote"}
LongWords == Words \ {"art"}

Had == [labels |-> {<<"remote", "work">>, <<"work">>}, categories |-> {<<"art">>}]
Toggled == [labels |-> {<<"remote", "work">>, <<"remote">>}, categories |-> {<<"art">>, <<"quality">>}]
=============================================================================
