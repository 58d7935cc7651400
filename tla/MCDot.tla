-------------------------------- MODULE MCDot --------------------------------
(* Instances of Dot for TLC. *)
EXTENDS Dot

MCResults  == {"Lifecycle", "A", "B"}
MCElements == {"H"}
MCGroupOf  == [e \in {"H"} |-> "GroupH"]
MCArc      == [t \in {"Lifecycle", "A", "B", "GroupH"} |->
  CASE t = "A" -> "ArcA" [] t = "B" -> "ArcB" [] t = "GroupH" -> "ArcGroupH"
    [] t = "Lifecycle" -> "ArcLifecycle"]

\* Types and modules that are all called differently...
UniqueLabels  == [t \in {"Lifecycle", "A", "B", "GroupH"} |-> t]
UniqueModules == <<"<root>", "m">>

\* ...and two types, a::Config and b::Config, that only differ in their path.
SameLabels == [t \in {"Lifecycle", "A", "B", "GroupH"} |->
  IF t \in {"A", "B"} THEN "Config" ELSE t]

\* A and its Arc, in modules and outside, provided and supplied; B needs it,
\* a member of a group, and the group.
MCOptions ==
  [kind : {"provide"}, type : {"A"}, deps : {<<"Lifecycle">>}, private : BOOLEAN]
  \cup [kind : {"supply"}, type : {"A"}, private : BOOLEAN]
  \cup [kind : {"provide"}, type : {"B"}, deps : {<<"ArcA", "GroupH">>}, private : {FALSE}]
  \cup [kind : {"member"}, element : {"H"}, deps : {<<"A", "ArcA">>, << >>}]
  \cup [kind : {"invoke"}, deps : {<<"A">>, <<"GroupH", "ArcLifecycle">>}]

\* For the second instance: a constructor for each of the two types.
TwoConfigs == [kind : {"provide"}, type : {"A", "B"}, deps : {<< >>}, private : BOOLEAN]

=============================================================================
