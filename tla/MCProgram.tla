------------------------------ MODULE MCProgram ------------------------------
(* An instance of Program for TLC. *)
EXTENDS Program

MCResults  == {"A", "B"}
MCArc      == [t \in {"A", "B"} |-> IF t = "A" THEN "ArcA" ELSE "ArcB"]
MCGroupOf  == << >>

\* A and B share a wave, or B is built from A; an invoker of both.
MCOptions ==
  [kind : {"provide"}, type : {"A"}, deps : {<< >>}, private : {FALSE}]
  \cup [kind : {"provide"}, type : {"B"}, deps : {<< >>, <<"ArcA">>}, private : {FALSE}]
  \cup [kind : {"invoke"}, deps : {<<"B", "A">>}]

=============================================================================
