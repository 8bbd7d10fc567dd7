---------------------------- MODULE MCRunDispatch ----------------------------
(* TLC instances of RunDispatch: every constant is given its value by the   *)
(* configuration. Worker and lease ids are small numbers because the code   *)
(* orders them (placement breaks ties by id), so there is no symmetry to    *)
(* declare among them.                                                      *)
EXTENDS RunDispatch
=============================================================================
