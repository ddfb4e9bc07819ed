----------------------------- MODULE MCCliSync ------------------------------
(* The instance of CliSync in which TLC finds a session sent by half. *)
EXTENDS CliSync, TLC
CONSTANT f1
TwoParts == f1 :> 2
=============================================================================
