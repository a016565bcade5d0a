----------------------------- MODULE MCInstCmd -----------------------------
(***************************************************************************)
(* Three commands: 0 is a plain one, 1 an outlet cycle whose startup item  *)
(* the descriptor has, 2 an outlet cycle without one.                      *)
(***************************************************************************)
EXTENDS InstCmd

MCCycle      == {1, 2}
MCHasStartup == {1}

=============================================================================
