---------------------------- MODULE MCOnboarding ----------------------------
(* Up to two jobs at one company, and a skill spelled in two ways.         *)
EXTENDS Onboarding, TLC

CONSTANTS before, after, wide

FirstMonth == before :> 1 @@ after :> 3 @@ wide :> 1
LastMonth == before :> 1 @@ after :> 3 @@ wide :> 4

Listing == <<"Go", "go">>
Lower == [name \in {"Go", "go"} |-> "go"]

Tag(name, durable) == [name |-> name, category |-> "Languages", durable |-> durable]
Readings == {<<>>, <<Tag("go", TRUE)>>, <<Tag("Go", FALSE)>>}
=============================================================================
