---------------------------- MODULE MCHidValue ----------------------------
(* Bytes of two bits: every item of none, one or two bytes, the four-byte  *)
(* items at the limits of a long, fields of an odd and an even size, and   *)
(* the values of the commands.                                             *)
EXTENDS HidValue

Values(bytes) == 0..(2^(ByteBits * bytes) - 1)

MCEncodings ==
  UNION {Values(bytes) \X {bytes} : bytes \in {0, 1, 2}} \cup {0, 127, 128, 255} \X {4}

MCCommanded == {-1, 0, 1, 2, 3, 10, 20, 30}
=============================================================================
