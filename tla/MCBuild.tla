------------------------------ MODULE MCBuild -------------------------------
(* An instance of Build for TLC. *)
EXTENDS Build

MCResults  == {"A", "B"}
MCElements == {"H"}
MCGroupOf  == [e \in {"H"} |-> "GroupH"]
MCArc      == [t \in {"A", "B", "GroupH"} |->
  CASE t = "A" -> "ArcA" [] t = "B" -> "ArcB" [] t = "GroupH" -> "ArcGroupH"]

\* A shared type that modules may hide, a chain through a group, and two
\* invokers.
MCOptions ==
  [kind : {"provide"}, type : {"A"}, deps : {<< >>}, private : BOOLEAN]
  \cup [kind : {"provide"}, type : {"B"}, deps : {<<"ArcA", "GroupH">>}, private : {FALSE}]
  \cup [kind : {"member"}, element : {"H"}, deps : {<<"A">>, << >>}]
  \cup [kind : {"invoke"}, deps : {<<"A">>, <<"B">>}]

=============================================================================
