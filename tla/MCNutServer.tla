---------------------------- MODULE MCNutServer ----------------------------
(* Instances of the NUT server for TLC.                                    *)
EXTENDS NutServer, TLC

Symmetry == Permutations(Conns)

Line(op, arg) == [op |-> op, arg |-> arg]

\* Credentials, privileged commands and an empty line: two users that share a
\* password, so that only the name tells them apart.
SessionLines ==
  {Line("USERNAME", "upsmon"), Line("USERNAME", "primary"), Line("BLANK", ""),
   Line("PASSWORD", "secret"), Line("LOGOUT", ""),
   Line("FSD", "ups"), Line("INSTCMD", "ups")}

\* Framing and connections: two lines that differ.
TrafficLines == {Line("OTHER", "ping"), Line("STATUS", "")}
=============================================================================
