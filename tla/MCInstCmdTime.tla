--------------------------- MODULE MCInstCmdTime ---------------------------
(***************************************************************************)
(* The delays of the source are 40 rounds of 100 ms, an event wait of 5 s  *)
(* and transfers of up to 1 s: 40, 50 and 10 ticks.  InstCmdTime.cfg       *)
(* scales them down and keeps their order (a transfer is shorter than the  *)
(* server's wait, the wait shorter than the USB task's period), so that    *)
(* two requests fit in the state space.                                    *)
(***************************************************************************)
EXTENDS InstCmdTime

MCCycle      == {1}
MCHasStartup == {1}
=============================================================================
