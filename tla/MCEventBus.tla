------------------------------ MODULE MCEventBus ------------------------------
(* TLC instance of EventBus; without symmetry, as its runs check liveness. *)
EXTENDS EventBus
=============================================================================
