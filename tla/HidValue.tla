------------------------------ MODULE HidValue ------------------------------
(***************************************************************************)
(* What GetValue and SetValue of components/nut/nut_hidparser.c make of a  *)
(* field of a report, and the limits HIDParse gives them.                  *)
(*                                                                         *)
(* The code works on the bits of a buffer one by one, so a buffer is the   *)
(* set of the numbers of its set bits.  A long has four bytes on the ESP32 *)
(* and ByteBits bits a byte: the arithmetic depends on nothing else.       *)
(***************************************************************************)
EXTENDS Integers

CONSTANTS
  ByteBits,     \* 8
  Encodings,    \* the data of Logical Minimum and Maximum items: <<value, bytes>>
  Sizes,        \* bits of the field
  Commanded     \* the values the table of instant commands writes

LongBits == 4 * ByteBits

\* 1L << n
Power[n \in 0..LongBits] == IF n = 0 THEN 1 ELSE 2 * Power[n - 1]

Longs == -Power[LongBits - 1]..(Power[LongBits - 1] - 1)

ASSUME ValueAssumption ==
  /\ ByteBits \in Nat \ {0}
  /\ \A e \in Encodings : e[2] \in {0, 1, 2, 4} /\ e[1] \in 0..(Power[e[2] * ByteBits] - 1)
  /\ Sizes \subseteq 1..LongBits
  /\ Commanded \subseteq Longs

VARIABLES
  LogMin, LogMax, Size,   \* of the field
  maxItem,                \* history: the item LogMax is from, if LogMin is not
                          \* newer, else NoItem
  Buf,                    \* the field in the report of the UPS
  sent                    \* history: Buf is what SetValue made of this value

vars == <<LogMin, LogMax, Size, maxItem, Buf, sent>>
limits == <<LogMin, LogMax, Size, maxItem>>

NoItem  == <<0, -1>>
NotSent == Power[LongBits]
Field   == 0..(Size - 1)      \* the bits from Offset + 8 on

TypeOK ==
  /\ LogMin \in Longs
  /\ LogMax \in Longs
  /\ Size \in Sizes
  /\ maxItem \in Encodings \cup {NoItem}
  /\ Buf \subseteq Field
  /\ sent \in Longs \cup {NotSent}

Init ==
  /\ LogMin = 0 /\ LogMax = 0
  /\ Size \in Sizes
  /\ maxItem = NoItem
  /\ Buf = {}
  /\ sent = NotSent

-----------------------------------------------------------------------------
(* HIDParse: the limits.                                                   *)

Signed(value, bits) == IF value >= Power[bits - 1] THEN value - Power[bits] ELSE value

\* The data of an item has the sign of its own width; none is 0.
FormatValue(value, bytes) == IF bytes = 0 THEN value ELSE Signed(value, bytes * ByteBits)

ItemLogMin(e) ==
  /\ LogMin' = FormatValue(e[1], e[2])
  /\ maxItem' = NoItem
  /\ Buf' = {} /\ sent' = NotSent
  /\ UNCHANGED <<LogMax, Size>>

\* Slip: a maximum whose sign bit is set is taken as it is.
ItemLogMaxSigned(e) ==
  /\ LogMax' = FormatValue(e[1], e[2])
  /\ maxItem' = e
  /\ Buf' = {} /\ sent' = NotSent
  /\ UNCHANGED <<LogMin, Size>>

\* A maximum less than the minimum is taken for an unsigned one, which a long
\* cannot hold if it has four bytes.
ItemLogMax(e) ==
  /\ LET max == FormatValue(e[1], e[2])
     IN LogMax' = IF max < LogMin THEN Signed(e[1], LongBits) ELSE max
  /\ maxItem' = e
  /\ Buf' = {} /\ sent' = NotSent
  /\ UNCHANGED <<LogMin, Size>>

-----------------------------------------------------------------------------
(* Reading and writing the field.                                          *)

\* What the loop over the bits has added up before each Weight.
Sums(bits) ==
  LET value[Weight \in 0..LongBits] ==
        IF Weight = 0 THEN 0
        ELSE value[Weight - 1] + IF Weight - 1 \in bits THEN Power[Weight - 1] ELSE 0
  IN value

Number(bits) == Sums(bits)[LongBits]
BitsOf(v)    == {w \in 0..(LongBits - 1) : (v \div Power[w]) % 2 = 1}

\* Slip: the position of the leftmost set bit, counted from 0.
hibitFromZero(x) ==
  IF x < 2 THEN 0 ELSE CHOOSE k \in 1..(LongBits - 1) : Power[k] <= x /\ x < Power[k + 1]

\* 1 + the position of the leftmost set bit.
hibit(x) == IF x = 0 THEN 0 ELSE CHOOSE k \in 1..LongBits : Power[k - 1] <= x /\ x < Power[k]

Magnitude(limit) == IF limit >= 0 THEN limit ELSE -(limit + 1)
Larger(m, n)     == IF m > n THEN m ELSE n

\* Slip: the sign bit is masked out.
MaskWithoutSign == 0..(hibit(Larger(Magnitude(LogMax), Magnitude(LogMin))) - 1)

\* The bits that tell the magnitude of the limits, and one for the sign if
\* negative numbers are involved; the others are thrown away.
SignBit == hibit(Larger(Magnitude(LogMax), Magnitude(LogMin)))
Mask    == IF LogMin < 0 THEN 0..SignBit ELSE 0..(SignBit - 1)

Extended(bits) ==
  IF LogMin < 0 /\ SignBit \in bits THEN Number(bits) - Power[SignBit + 1] ELSE Number(bits)

Clamp(v) == IF v < LogMin THEN LogMin ELSE IF v > LogMax THEN LogMax ELSE v

GetValue == Clamp(Extended(Buf \cap Mask))

\* The UPS reports anything.
Report(bits) ==
  /\ Buf' = bits
  /\ sent' = NotSent
  /\ UNCHANGED limits

\* SetValue writes the low bits of the value, whatever the limits of the field
\* are; the UPS keeps and reports them.
SetValue(value) ==
  /\ Buf' = BitsOf(value) \cap Field
  /\ sent' = value
  /\ UNCHANGED limits

Next ==
  \/ \E e \in Encodings : ItemLogMin(e) \/ ItemLogMax(e)
  \/ \E bits \in SUBSET Field : Report(bits)
  \/ \E value \in Commanded : SetValue(value)

Spec == Init /\ [][Next]_vars

-----------------------------------------------------------------------------
(* Properties.                                                             *)

\* The HID reading of the field: unsigned if both limits are positive or zero,
\* else two's complement of the field's own size.
HidReading == IF LogMin >= 0 /\ LogMax >= 0 THEN Number(Buf) ELSE Signed(Number(Buf), Size)

\* The field has room for its limits in that reading.
Roomy ==
  IF LogMin >= 0 THEN LogMax < Power[Size]
  ELSE -Power[Size - 1] <= LogMin /\ LogMax < Power[Size - 1]

\* A field that reports a value within its limits is read as that value, for
\* all limits, signed or not, and all sizes with room for them: the mask and the
\* sign extension drop nothing, however much wider than the limits the field is.
\* A field too narrow for its limits is left out.
InRangeIsKept ==
  LogMin <= LogMax /\ Roomy /\ HidReading \in LogMin..LogMax => GetValue = HidReading

\* Of the values that commands write, exactly those within the limits of the
\* field are read back.  The code writes the constants of its table unchecked: the
\* -1 of shutdown.stop in a field without a sign is not what the UPS then shows.
SetIsReadBack ==
  sent # NotSent /\ LogMin <= LogMax /\ Roomy =>
    (GetValue = sent <=> sent \in LogMin..LogMax)

\* A maximum that the firmware encoded in too few bytes, so that its sign bit is
\* set, is the unsigned one if the minimum is not negative, and with any minimum
\* that came before it gives a range.  With a negative minimum the range can be
\* another than was meant (the byte 255 after -10 ends it at -1); of four bytes
\* LogMax stays negative, and every reading is clamped to it.
RangeIsRepaired ==
  maxItem # NoItem /\ maxItem[2] < 4 /\ LogMin <= maxItem[1] =>
    LogMin <= LogMax /\ (LogMin >= 0 => LogMax = maxItem[1])
=============================================================================
