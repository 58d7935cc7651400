----------------------------- MODULE MCLayers -------------------------------
(* An instance of Layers for TLC. *)
EXTENDS Layers

MCResults  == {"A", "B"}
MCElements == {"A"}
MCGroupOf  == [e \in {"A"} |-> "GroupA"]
MCArc      == [t \in {"A", "B", "GroupA"} |->
  CASE t = "A" -> "ArcA" [] t = "B" -> "ArcB" [] t = "GroupA" -> "ArcGroupA"]

\* Constructors of either type and members of the group, which may need the
\* other type, its Arc, the group, or the same thing twice.
MCOptions ==
  [kind : {"provide"}, type : {"A"}, deps : {<< >>, <<"B", "ArcB">>, <<"ArcGroupA">>}, private : BOOLEAN]
  \cup [kind : {"provide"}, type : {"B"}, deps : {<< >>, <<"A">>}, private : BOOLEAN]
  \cup [kind : {"supply"}, type : {"A"}, private : BOOLEAN]
  \cup [kind : {"member"}, element : {"A"}, deps : {<< >>, <<"A", "B">>, <<"GroupA">>}]
  \cup [kind : {"require"}, element : {"A"}]
  \cup [kind : {"invoke"}, deps : {<<"B">>}]

=============================================================================
