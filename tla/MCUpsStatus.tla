---------------------------- MODULE MCUpsStatus ----------------------------
(* Six status bits in two reports: a token with two sources, a token that  *)
(* is part of another, and the UPS's own FSD.                              *)
EXTENDS UpsStatus

Bit(set, clear, report) == [set |-> set, clear |-> clear, report |-> report]

MCBools == << Bit("OL", "OB", 1), Bit("DISCHRG", "NULL", 1), Bit("CHRG", "NULL", 1),
              Bit("OVER", "NULL", 2), Bit("OVER", "NULL", 2), Bit("FSD", "NULL", 2) >>

\* On line and charging, on battery and overloaded, on battery and about to
\* shut down.
MCDeviceStates ==
  { <<TRUE,  FALSE, TRUE,  FALSE, FALSE, FALSE>>,
    <<FALSE, TRUE,  FALSE, TRUE,  TRUE,  FALSE>>,
    <<FALSE, TRUE,  FALSE, FALSE, TRUE,  TRUE>> }
=============================================================================
