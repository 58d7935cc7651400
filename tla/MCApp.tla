-------------------------------- MODULE MCApp --------------------------------
(* Instances of Journal, and so of App, for TLC. *)
EXTENDS Journal

\* A hook with OnStop only, one with both callbacks, and a background task.
MCKinds      == {"stop", "both", "task"}
MCStartKinds == {"both", "task"}
MCStopKinds  == {"stop", "both", "task"}
MCTaskKinds  == {"task"}

\* The default is a budget for every phase; no_*_timeout removes one.
AllBudgets   == {"build", "start", "stop"}

=============================================================================
