------------------------------ MODULE MCLifespan ------------------------------
(***************************************************************************)
(* A small instance of Lifespan for TLC: three modules, two of which may   *)
(* be unregistered, and every combination of settings.                     *)
(***************************************************************************)
EXTENDS Lifespan

CONSTANTS a, b, c

MCModuleOrder == <<a, b, c>>
=============================================================================
