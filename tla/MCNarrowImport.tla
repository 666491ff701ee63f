--------------------------- MODULE MCNarrowImport ---------------------------
(* Two entries, one of them without a summary, for TLC. *)
EXTENDS NarrowImport

ExtractedTwo == [e \in Entry |->
  [summary |-> IF e = "e1" THEN "led" ELSE Blank, outcomes |-> Blank]]

\* The reviewer empties the summary.
OneEdit == {[summary |-> Blank]}

=============================================================================
