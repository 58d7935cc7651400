---------------------------- MODULE MCRegistry -----------------------------
(* An instance of Registry for TLC. *)
EXTENDS Registry

\* Arc<T> is also provided by hand, and so is Group<T>.
MCResults  == {"T", "ArcT", "GroupT", "Shutdowner"}
MCElements == {"T"}
MCGroupOf  == [e \in {"T"} |-> "GroupT"]
MCArc      == [t \in MCResults |->
  CASE t = "T" -> "ArcT" [] t = "ArcT" -> "ArcArcT"
    [] t = "GroupT" -> "ArcGroupT" [] t = "Shutdowner" -> "ArcShutdowner"]
MCBuiltins == {"Shutdowner"}

MCOptions ==
  [kind : {"provide"}, type : {"T", "ArcT", "GroupT"}, deps : {<< >>}, private : BOOLEAN]
  \cup [kind : {"supply"}, type : {"T", "ArcT", "Shutdowner"}, private : BOOLEAN]
  \cup [kind : {"member"}, element : {"T"}, deps : {<< >>}]
  \cup [kind : {"init", "require"}, element : {"T"}]
  \cup [kind : {"invoke"}, deps : {<<"T">>}]

=============================================================================
