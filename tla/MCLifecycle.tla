----------------------------- MODULE MCLifecycle -----------------------------
(* Instances of Lifecycle for TLC. *)
EXTENDS Lifecycle

\* The four shapes a hook can have.
MCKinds      == {"none", "start", "stop", "both"}
MCStartKinds == {"start", "both"}
MCStopKinds  == {"stop", "both"}

=============================================================================
