-------------------------- MODULE MCGuardianSocket --------------------------
(* Named so that the run has a module of its own; the bounds are in the cfg. *)
EXTENDS GuardianSocket
=============================================================================
