-------------------------- MODULE HidParserProofs --------------------------
(***************************************************************************)
(* What is proved about the descriptor parser, for every descriptor its    *)
(* grammar allows: any pages, usages, sizes, counts and depth.             *)
(***************************************************************************)
EXTENDS HidParser, SequenceTheorems, TLAPS

USE DEF Byte

OpenCollections == [outside : Seq(Nodes), node : Nodes, index : Indices \cup {NoIndex}]

\* Usages and collections carry a page of the descriptor, never that of an index.
Named(node) == node \in Nodes /\ node[1] \in Pages

\* The Main item under way: its count fits, and it has a size.
CountInv ==
  /\ UPage \in Pages \cup {0} /\ ReportID \in IDs
  /\ Size \in Sizes \cup {0} /\ ReportCount \in Counts \cup {0}
  /\ Count \in 0..(Byte - 1)
  /\ Count > 0 => Item \in Types /\ Size > 0
  /\ Item \in Types \cup {"none"}

\* UsageTab holds what the objects made so far have left of the usages declared.
UsageInv ==
  /\ UsageTab \in Seq(Nodes) /\ declared \in Seq(Nodes)
  /\ made \in Nat
  /\ Count = 0 => made = 0
  /\ \A i \in DOMAIN UsageTab : Named(UsageTab[i])
  /\ Len(UsageTab) = IF made <= Len(declared) THEN Len(declared) - made ELSE 0
  /\ \A i \in 1..Len(UsageTab) : UsageTab[i] = declared[made + i]

\* The path is that of the open collections, and each has a usage of its own.
PathInv ==
  /\ Path \in Seq(Nodes)
  /\ open \in Seq(OpenCollections)
  /\ \A i \in DOMAIN open : Named(open[i].node)
  /\ PathIsOpenCollections

\* The offset of a report with an ID is the number of its bits, as a byte, that
\* of the reports without an ID stays 0.
OffsetInv ==
  /\ OffsetTab \in [Reports -> 0..(Byte - 1)]
  /\ extent \in [Reports -> Nat]
  /\ \A r \in Reports : OffsetTab[r] = IF r[1] = 0 THEN 0 ELSE extent[r] % Byte
  /\ OffsetIsTrue

LengthInv ==
  /\ replen \in [IDs -> Nat]
  /\ ReportHoldsFields

ParserInv == CountInv /\ UsageInv /\ PathInv /\ OffsetInv /\ LengthInv

-----------------------------------------------------------------------------
(* Sequences.                                                              *)

\* Front undoes Append.
LEMMA FrontOfAppend ==
  ASSUME NEW S, NEW s \in Seq(S), NEW e \in S
  PROVE  /\ Front(Append(s, e)) = s
         /\ Append(s, e)[Len(Append(s, e))] = e
         /\ Append(s, e) \in Seq(S)
<1>1. /\ Append(s, e) \in Seq(S) /\ Len(Append(s, e)) = Len(s) + 1
      /\ Append(s, e)[Len(s) + 1] = e
      /\ \A i \in 1..Len(s) : Append(s, e)[i] = s[i]
  BY AppendProperties
<1>2. Front(Append(s, e)) \in Seq(S) /\ Len(Front(Append(s, e))) = Len(s)
  BY <1>1, SubSeqProperties DEF Front
<1>3. \A i \in 1..Len(s) : Front(Append(s, e))[i] = s[i]
  BY <1>1, SubSeqProperties DEF Front
<1> QED
  BY <1>1, <1>2, <1>3, SeqEqual

\* The last element of a sequence is its first or comes after it.
LEMMA LengthOfNonEmpty ==
  ASSUME NEW S, NEW s \in Seq(S), s # <<>>
  PROVE  Len(s) \in Nat /\ (Len(s) = 1 \/ Len(s) > 1)
<1>1. Len(s) \in Nat /\ Len(s) # 0
  BY EmptySeq
<1>2. \A n \in Nat : n # 0 => n = 1 \/ n > 1
  OBVIOUS
<1> QED
  BY <1>1, <1>2, Zenon

\* Front takes the last element off.
LEMMA FrontProperties ==
  ASSUME NEW S, NEW s \in Seq(S), s # <<>>
  PROVE  /\ Front(s) \in Seq(S) /\ Len(Front(s)) = Len(s) - 1
         /\ Len(s) \in Nat \ {0} /\ s[Len(s)] \in S
         /\ \A i \in 1..(Len(s) - 1) : Front(s)[i] = s[i]
<1>1. Len(s) \in Nat \ {0} /\ \A i \in 1..Len(s) : s[i] \in S
  BY EmptySeq
<1> DEFINE n == Len(s) - 1
<1>2. n \in Nat /\ \A i \in 1..n : s[i] \in S
  BY <1>1
<1> HIDE DEF n
<1>3. /\ SubSeq(s, 1, n) \in Seq(S)
      /\ Len(SubSeq(s, 1, n)) = IF 1 <= n THEN n - 1 + 1 ELSE 0
      /\ \A i \in 1..(n - 1 + 1) : SubSeq(s, 1, n)[i] = s[1 + i - 1]
  BY <1>2, SubSeqProperties
<1>4. Len(SubSeq(s, 1, n)) = n /\ \A i \in 1..n : SubSeq(s, 1, n)[i] = s[i]
  BY <1>2, <1>3
<1> QED
  BY <1>1, <1>3, <1>4 DEF Front, n

\* The path inside a collection ends with its usage or its index, and the end of
\* the collection takes off what its begin has put on.
LEMMA InsideOut ==
  ASSUME NEW c \in OpenCollections, Named(c.node)
  PROVE  /\ Inside(c) \in Seq(Nodes)
         /\ IF IsIndex(Inside(c)[Len(Inside(c))])
              THEN Front(Front(Inside(c))) = c.outside
              ELSE Front(Inside(c)) = c.outside
<1> DEFINE once == Append(c.outside, c.node)
<1>1. c.outside \in Seq(Nodes) /\ c.node \in Nodes /\ c.node[1] # IndexPage
  BY ParserAssumption DEF OpenCollections, Named
<1>2. once \in Seq(Nodes) /\ Front(once) = c.outside /\ once[Len(once)] = c.node
  BY <1>1, FrontOfAppend
<1>3. CASE c.index = NoIndex
  <2>1. Inside(c) = once
    BY <1>2, <1>3, ConcatEmptySeq DEF Inside, IndexNodes
  <2> QED
    BY <1>1, <1>2, <2>1 DEF IsIndex
<1>4. CASE c.index # NoIndex
  <2> DEFINE node == <<IndexPage, c.index>>
  <2>1. node \in Nodes
    BY <1>4 DEF OpenCollections, Nodes, IndexPage, Indices
  <2>2. Inside(c) = Append(once, node)
    BY <1>2, <1>4, <2>1, AppendIsConcat DEF Inside, IndexNodes
  <2>3. /\ Inside(c) \in Seq(Nodes) /\ Front(Inside(c)) = once
        /\ Inside(c)[Len(Inside(c))] = node
    <3> HIDE DEF once, node, Nodes
    <3>1. /\ Front(Append(once, node)) = once /\ Append(once, node) \in Seq(Nodes)
          /\ Append(once, node)[Len(Append(once, node))] = node
      BY <1>2, <2>1, FrontOfAppend
    <3> QED
      BY <2>2, <3>1
  <2>4. IsIndex(node)
    BY DEF IsIndex
  <2> QED
    BY <1>2, <2>3, <2>4
<1> QED
  BY <1>3, <1>4

-----------------------------------------------------------------------------
(* The items that are not Main items.                                      *)

\* Items that set a number leave the report, the usages and the path alone.
LEMMA GlobalKeeps ==
  ASSUME ParserInv,
         \/ \E page \in Pages : ItemUPage(page)
         \/ \E id \in ReportIDs : ItemRepID(id)
         \/ \E size \in Sizes : ItemRepSize(size)
         \/ \E count \in Counts : ItemRepCount(count)
  PROVE  ParserInv'
<1> USE DEF ParserInv
<1>1. /\ UNCHANGED <<local, nesting, layout>> /\ object' = NoObject /\ Count = 0
      /\ UPage' \in Pages \cup {0} /\ ReportID' \in IDs
      /\ Size' \in Sizes \cup {0} /\ ReportCount' \in Counts \cup {0}
  BY DEF ItemUPage, ItemRepID, ItemRepSize, ItemRepCount, Read, Fetch, CountInv, IDs, Read
<1>2. CountInv'
  BY <1>1 DEF CountInv, layout
<1>3. UsageInv'
  BY <1>1 DEF UsageInv, local, layout
<1>4. PathInv'
  BY <1>1 DEF PathInv, nesting, PathIsOpenCollections
<1>5. OffsetInv'
  BY <1>1 DEF OffsetInv, layout, OffsetIsTrue
<1>6. LengthInv'
  BY <1>1 DEF LengthInv, layout, ReportHoldsFields
<1> QED
  BY <1>2, <1>3, <1>4, <1>5, <1>6

\* A usage goes to the end of both lists: no object has been made since the last
\* Main item, so the lists are the same.
LEMMA UsageKeeps ==
  ASSUME ParserInv, NEW node \in Nodes, node[1] \in Pages, PushUsage(node)
  PROVE  ParserInv'
<1> USE DEF ParserInv
<1>1. /\ UNCHANGED <<global, nesting, layout>> /\ object' = NoObject /\ Count = 0 /\ made = 0
      /\ UsageTab' = Append(UsageTab, node) /\ declared' = Append(declared, node)
  BY DEF PushUsage, Read, Fetch, UsageInv
<1>2. CountInv'
  BY <1>1 DEF CountInv, layout, global
<1>3. UsageInv'
  <2>1. /\ UsageTab' \in Seq(Nodes) /\ Len(UsageTab') = Len(UsageTab) + 1
        /\ UsageTab'[Len(UsageTab) + 1] = node
        /\ \A i \in 1..Len(UsageTab) : UsageTab'[i] = UsageTab[i]
    BY <1>1, AppendProperties DEF UsageInv
  <2>2. /\ declared' \in Seq(Nodes) /\ Len(declared') = Len(declared) + 1
        /\ declared'[Len(declared) + 1] = node
        /\ \A i \in 1..Len(declared) : declared'[i] = declared[i]
    BY <1>1, AppendProperties DEF UsageInv
  <2>3. Len(UsageTab) = Len(declared) /\ \A i \in 1..Len(UsageTab) : UsageTab[i] = declared[i]
    BY <1>1 DEF UsageInv
  <2> QED
    BY <1>1, <2>1, <2>2, <2>3 DEF UsageInv, layout, Named
<1>4. PathInv'
  BY <1>1 DEF PathInv, nesting, PathIsOpenCollections
<1>5. OffsetInv'
  BY <1>1 DEF OffsetInv, layout, OffsetIsTrue
<1>6. LengthInv'
  BY <1>1 DEF LengthInv, layout, ReportHoldsFields
<1> QED
  BY <1>2, <1>3, <1>4, <1>5, <1>6

\* A collection goes one deeper.
LEMMA CollectionKeeps ==
  ASSUME ParserInv, NEW index \in Indices \cup {NoIndex}, ItemCollection(index)
  PROVE  ParserInv'
<1> USE DEF ParserInv
<1>1. /\ UNCHANGED <<global, layout>> /\ object' = NoObject /\ Count = 0 /\ made = 0
      /\ UsageTab' = <<>> /\ declared' = <<>>
  BY DEF ItemCollection, ResetLocalState, Read, Fetch, UsageInv
<1>2. CountInv'
  BY <1>1 DEF CountInv, layout, global
<1>3. UsageInv'
  BY <1>1 DEF UsageInv, layout
<1>4. PathInv'
  <2> DEFINE c == [outside |-> Path, node |-> FirstUsage, index |-> index]
  <2>1. Named(FirstUsage)
    BY EmptySeq DEF ItemCollection, FirstUsage, UsageInv
  <2>2. c \in OpenCollections
    BY <2>1 DEF OpenCollections, PathInv, Named
  <2>3. Path' = Inside(c) /\ open' = Append(open, c)
    BY DEF ItemCollection, Inside
  <2>4. Inside(c) \in Seq(Nodes) /\ c.outside = Path /\ Named(c.node)
    BY <2>1, <2>2, InsideOut
  <2> HIDE DEF c
  <2>5. /\ open' \in Seq(OpenCollections) /\ Len(open') = Len(open) + 1
        /\ open'[Len(open')] = c
        /\ \A i \in 1..Len(open) : open'[i] = open[i]
    BY <2>2, <2>3, AppendProperties DEF PathInv
  <2>6. \A i \in DOMAIN open' : Named(open'[i].node)
    <3>1. \A i \in 1..Len(open) : Named(open[i].node)
      BY DEF PathInv
    <3>2. DOMAIN open' = 1..(Len(open) + 1) /\ Len(open) \in Nat
      BY <2>5 DEF PathInv
    <3> QED
      BY <2>4, <2>5, <3>1, <3>2
  <2>7. PathIsOpenCollections'
    <3>1. open' # <<>> /\ Path' = Inside(open'[Len(open')])
      BY <2>3, <2>5, EmptySeq DEF PathInv
    <3>2. CASE open = <<>>
      <4>1. Path = <<>> /\ Len(open') = 1 /\ open'[1] = c
        BY <2>5, <3>2, EmptySeq DEF PathInv, PathIsOpenCollections
      <4> QED
        BY <2>4, <3>1, <4>1 DEF PathIsOpenCollections
    <3>3. CASE open # <<>>
      <4>1. /\ Path = Inside(open[Len(open)]) /\ open[1].outside = <<>>
            /\ \A i \in 1..(Len(open) - 1) : open[i + 1].outside = Inside(open[i])
            /\ Len(open) \in Nat \ {0}
        BY <3>3, EmptySeq DEF PathInv, PathIsOpenCollections
      <4>2. open'[1].outside = <<>>
        BY <2>5, <4>1
      <4>3. \A i \in 1..Len(open) : open'[i + 1].outside = Inside(open'[i])
        BY <2>4, <2>5, <4>1
      <4> QED
        BY <2>5, <3>1, <4>1, <4>2, <4>3 DEF PathIsOpenCollections
    <3> QED
      BY <3>2, <3>3
  <2> QED
    BY <2>3, <2>4, <2>5, <2>6, <2>7 DEF PathInv
<1>5. OffsetInv'
  BY <1>1 DEF OffsetInv, layout, OffsetIsTrue
<1>6. LengthInv'
  BY <1>1 DEF LengthInv, layout, ReportHoldsFields
<1> QED
  BY <1>2, <1>3, <1>4, <1>5, <1>6

\* The end of a collection goes back to the path outside it, with or without an
\* index.
LEMMA EndKeeps ==
  ASSUME ParserInv, ItemEndCollection
  PROVE  ParserInv'
<1> USE DEF ParserInv
<1>1. /\ UNCHANGED <<global, layout>> /\ object' = NoObject /\ Count = 0 /\ made = 0
      /\ UsageTab' = <<>> /\ declared' = <<>>
  BY DEF ItemEndCollection, ResetLocalState, Read, Fetch, UsageInv
<1>2. CountInv'
  BY <1>1 DEF CountInv, layout, global
<1>3. UsageInv'
  BY <1>1 DEF UsageInv, layout
<1>4. PathInv'
  <2> DEFINE last == open[Len(open)]
  <2>1. /\ open # <<>> /\ open \in Seq(OpenCollections) /\ Len(open) \in Nat
        /\ Len(open) = 1 \/ Len(open) > 1
    <3>1. open # <<>> /\ open \in Seq(OpenCollections)
      BY DEF ItemEndCollection, PathInv
    <3> QED
      BY <3>1, LengthOfNonEmpty
  <2>2. last \in OpenCollections /\ Named(last.node) /\ Path = Inside(last)
    BY <2>1 DEF PathInv, PathIsOpenCollections
  <2>3. Path' = last.outside
    BY <2>2, InsideOut DEF ItemEndCollection
  <2>4. /\ open' \in Seq(OpenCollections) /\ Len(open') = Len(open) - 1
        /\ \A i \in 1..Len(open') : open'[i] = open[i]
    BY <2>1, FrontProperties DEF ItemEndCollection
  <2>5. Path' \in Seq(Nodes)
    BY <2>2, <2>3 DEF OpenCollections
  <2>6. \A i \in DOMAIN open' : Named(open'[i].node)
    <3>1. \A i \in 1..Len(open) : Named(open[i].node)
      BY DEF PathInv
    <3>2. DOMAIN open' = 1..(Len(open) - 1)
      BY <2>4
    <3> QED
      BY <2>1, <2>4, <3>1, <3>2
  <2>7. PathIsOpenCollections'
    <3>1. \A i \in 1..(Len(open') - 1) : open'[i + 1].outside = Inside(open'[i])
      BY <2>1, <2>4 DEF PathInv, PathIsOpenCollections
    <3>2. CASE Len(open) = 1
      <4>1. open' = <<>> /\ Path' = <<>>
        BY <2>1, <2>3, <2>4, <3>2 DEF PathInv, PathIsOpenCollections
      <4> QED
        BY <3>1, <4>1 DEF PathIsOpenCollections
    <3>3. CASE Len(open) > 1
      <4>1. /\ open' # <<>> /\ open'[1] = open[1]
            /\ open'[Len(open')] = open[Len(open) - 1]
        BY <2>1, <2>4, <3>3
      <4>2. /\ open[1].outside = <<>>
            /\ last.outside = Inside(open[Len(open) - 1])
        BY <2>1, <3>3 DEF PathInv, PathIsOpenCollections
      <4> QED
        BY <2>3, <3>1, <4>1, <4>2 DEF PathIsOpenCollections
    <3> QED
      BY <2>1, <3>2, <3>3
  <2> QED
    BY <2>4, <2>5, <2>6, <2>7 DEF PathInv
<1>5. OffsetInv'
  BY <1>1 DEF OffsetInv, layout, OffsetIsTrue
<1>6. LengthInv'
  BY <1>1 DEF LengthInv, layout, ReportHoldsFields
<1> QED
  BY <1>2, <1>3, <1>4, <1>5, <1>6

-----------------------------------------------------------------------------
(* Main items.                                                             *)

\* Adding to a byte that has lost its carries loses nothing more.
LEMMA ByteSum == \A a, b \in Nat : ((a % Byte) + b) % Byte = (a + b) % Byte
  OBVIOUS

\* What is left is a byte.
LEMMA ByteRange == \A a \in Nat : a % Byte \in 0..(Byte - 1)
  OBVIOUS

\* As many bytes as BytesFor says hold the bits.
LEMMA BytesHold == \A bits \in Nat : BytesFor(bits) \in Nat /\ bits <= 8 * BytesFor(bits)
  BY DEF BytesFor

\* What the two actions that lay out an object have in common.
Laying(type, count) ==
  /\ type \in Types
  /\ count \in 1..(Byte - 1)
  /\ Size \in Nat \ {0}
  /\ Count = 0 \/ Count = count
  /\ LayOut(type, count)

\* Laying out an object takes one off the count of the main item, and the item is
\* over when none is left.
LEMMA LayingCounts ==
  ASSUME ParserInv, NEW type, NEW count, Laying(type, count)
  PROVE  CountInv'
<1>1. Count' = count - 1 /\ ((count - 1) % Byte = 0 <=> Count' = 0)
  BY DEF Laying, LayOut
<1>2. /\ UNCHANGED global /\ Size > 0 /\ type \in Types
      /\ Item' = IF Count' = 0 THEN "none" ELSE type
  BY <1>1 DEF Laying, LayOut
<1> QED
  BY <1>1, <1>2 DEF Laying, ParserInv, CountInv, global

\* The next usage goes to the next object, and the last object takes the rest.
LEMMA LayingUsages ==
  ASSUME ParserInv, NEW type, NEW count, Laying(type, count)
  PROVE  UsageInv'
<1> USE DEF ParserInv, UsageInv
<1>1. count \in 1..(Byte - 1) /\ Count' = (count - 1) % Byte
  BY DEF Laying, LayOut
<1>2. CASE (count - 1) % Byte = 0
  BY <1>2 DEF Laying, LayOut, ResetLocalState
<1>3. CASE (count - 1) % Byte # 0
  <2>1. /\ UsageTab' = IF UsageTab = <<>> THEN <<>> ELSE Tail(UsageTab)
        /\ made' = made + 1 /\ declared' = declared /\ Count' # 0
    BY <1>1, <1>3 DEF Laying, LayOut
  <2>2. CASE UsageTab = <<>>
    BY <2>1, <2>2
  <2>3. CASE UsageTab # <<>>
    <3>1. /\ UsageTab' \in Seq(Nodes) /\ Len(UsageTab') = Len(UsageTab) - 1
          /\ \A i \in 1..Len(UsageTab') : UsageTab'[i] = UsageTab[i + 1]
      BY <2>1, <2>3, HeadTailProperties
    <3>2. Len(UsageTab) = Len(declared) - made /\ made < Len(declared)
      BY <2>3, LengthOfNonEmpty
    <3>3. \A i \in 1..Len(UsageTab') : Named(UsageTab'[i]) /\ UsageTab'[i] = declared[made' + i]
      BY <2>1, <3>1
    <3>4. \A i \in DOMAIN UsageTab' : Named(UsageTab'[i])
      <4>1. DOMAIN UsageTab' = 1..Len(UsageTab')
        BY <3>1
      <4> QED
        BY <3>3, <4>1
    <3>5. Len(UsageTab') = IF made' <= Len(declared') THEN Len(declared') - made' ELSE 0
      BY <2>1, <3>1, <3>2
    <3> QED
      BY <2>1, <3>1, <3>3, <3>4, <3>5
  <2> QED
    BY <2>2, <2>3
<1> QED
  BY <1>2, <1>3

\* Offsets and bits advance together, for the report of the object only.
LEMMA LayingOffsets ==
  ASSUME ParserInv, NEW type, NEW count, Laying(type, count)
  PROVE  OffsetInv'
<1> DEFINE r == Report(type)
<1>1. /\ r \in Reports /\ r[1] = ReportID /\ Size \in Nat
      /\ extent[r] \in Nat /\ OffsetTab[r] \in 0..(Byte - 1)
  BY DEF ParserInv, CountInv, OffsetInv, Laying, Report, Reports
<1>2. extent' = [extent EXCEPT ![r] = @ + Size]
  BY DEF Laying, LayOut
<1>3. OffsetTab' = IF ReportID = 0 THEN OffsetTab
                   ELSE [OffsetTab EXCEPT ![r] = (@ + Size) % Byte]
  BY DEF Laying, LayOut, Advance
<1>4. object' = NoObject
        \/ (object'.id = ReportID /\ object'.offset = OffsetTab[r] /\ object'.at = extent[r])
  BY DEF Laying, LayOut
<1> HIDE DEF r
<1>5. extent' \in [Reports -> Nat]
  BY <1>1, <1>2 DEF ParserInv, OffsetInv
<1>6. OffsetTab' \in [Reports -> 0..(Byte - 1)]
  <2>1. OffsetTab \in [Reports -> 0..(Byte - 1)]
    BY DEF ParserInv, OffsetInv
  <2>2. (OffsetTab[r] + Size) % Byte \in 0..(Byte - 1)
    <3>1. OffsetTab[r] + Size \in Nat
      BY <1>1
    <3> QED
      BY <3>1, ByteRange
  <2> QED
    BY <1>1, <1>3, <2>1, <2>2
<1>7. ASSUME NEW q \in Reports
      PROVE  OffsetTab'[q] = IF q[1] = 0 THEN 0 ELSE extent'[q] % Byte
  <2>1. OffsetTab[q] = IF q[1] = 0 THEN 0 ELSE extent[q] % Byte
    BY <1>7 DEF ParserInv, OffsetInv
  <2>4. CASE q[1] = 0
    BY <1>1, <1>3, <2>1, <2>4 DEF ParserInv, OffsetInv
  <2>2. CASE q = r /\ q[1] # 0
    <3>1. OffsetTab'[q] = ((extent[q] % Byte) + Size) % Byte /\ extent'[q] = extent[q] + Size
      BY <1>1, <1>2, <1>3, <1>7, <2>1, <2>2 DEF ParserInv, OffsetInv
    <3> QED
      BY <1>1, <2>2, <3>1, ByteSum
  <2>3. CASE q # r /\ q[1] # 0
    BY <1>2, <1>3, <2>1, <2>3 DEF ParserInv, OffsetInv
  <2> QED
    BY <2>2, <2>3, <2>4
<1>8. OffsetIsTrue'
  <2>1. OffsetTab[r] = IF ReportID = 0 THEN 0 ELSE extent[r] % Byte
    BY <1>1 DEF ParserInv, OffsetInv
  <2>2. \A n \in Nat : (n % Byte = n <=> n < Byte)
    OBVIOUS
  <2>3. extent[r] % Byte = extent[r] <=> extent[r] < Byte
    BY <1>1, <2>2
  <2>4. OffsetTab[r] = extent[r] <=> extent[r] < Byte /\ (ReportID # 0 \/ extent[r] = 0)
    BY <1>1, <2>1, <2>3
  <2> QED
    BY <1>4, <2>4 DEF OffsetIsTrue
<1> QED
  BY <1>5, <1>6, <1>7, <1>8 DEF OffsetInv

\* The buffer grows with the report, as long as the offset counts its bits.
LEMMA LayingLengths ==
  ASSUME ParserInv, NEW type, NEW count, Laying(type, count)
  PROVE  LengthInv'
<1> DEFINE r == Report(type)
           need == BytesFor(OffsetTab[r] + Size)
<1>1. /\ r \in Reports /\ r[1] = ReportID /\ Size \in Nat \ {0} /\ ReportID \in IDs
      /\ extent[r] \in Nat /\ OffsetTab[r] \in 0..(Byte - 1)
  BY DEF ParserInv, CountInv, OffsetInv, Laying, Report, Reports
<1>2. extent' = [extent EXCEPT ![r] = @ + Size]
  BY DEF Laying, LayOut
<1>3. replen' = [replen EXCEPT ![ReportID] = Longer(@, need)]
  BY DEF Laying, LayOut
<1>4. need \in Nat /\ OffsetTab[r] + Size <= 8 * need
  <2>1. PICK bits \in Nat : bits = OffsetTab[r] + Size
    BY <1>1
  <2>2. BytesFor(bits) \in Nat /\ bits <= 8 * BytesFor(bits)
    BY <2>1, BytesHold
  <2> QED
    BY <2>1, <2>2
<1>5. replen \in [IDs -> Nat] /\ extent \in [Reports -> Nat]
  BY DEF ParserInv, LengthInv, OffsetInv
<1> HIDE DEF r, need
<1>6. replen' \in [IDs -> Nat]
  BY <1>1, <1>3, <1>4, <1>5 DEF Longer
<1>7. replen'[ReportID] >= need /\ \A i \in IDs : replen'[i] >= replen[i]
  BY <1>1, <1>3, <1>4, <1>5 DEF Longer
<1>8. ASSUME NEW q \in Reports, q[1] # 0, extent'[q] <= Byte
      PROVE  extent'[q] <= 8 * replen'[q[1]]
  <2>1. q[1] \in IDs /\ replen[q[1]] \in Nat /\ replen'[q[1]] \in Nat /\ extent[q] \in Nat
    BY <1>5, <1>6 DEF Reports
  <2>2. CASE q = r
    <3>1. extent'[q] = extent[q] + Size
      BY <1>1, <1>2, <1>5, <2>2
    <3>2. OffsetTab[q] = extent[q] % Byte
      BY <1>8 DEF ParserInv, OffsetInv
    <3>3. OffsetTab[q] = extent[q]
      BY <1>1, <1>8, <2>1, <3>1, <3>2
    <3> QED
      BY <1>1, <1>4, <1>7, <2>1, <2>2, <3>1, <3>3
  <2>3. CASE q # r
    <3>1. extent'[q] = extent[q]
      BY <1>2, <1>5, <2>3
    <3>2. extent[q] <= 8 * replen[q[1]]
      BY <1>8, <3>1 DEF ParserInv, LengthInv, ReportHoldsFields
    <3> QED
      BY <1>7, <2>1, <3>1, <3>2
  <2> QED
    BY <2>2, <2>3
<1> QED
  BY <1>6, <1>8 DEF LengthInv, ReportHoldsFields

\* The two actions that lay out an object.
LEMMA MainIsLaying ==
  ASSUME ParserInv
  PROVE  /\ \A type \in Types : ItemMain(type) => Laying(type, ReportCount)
         /\ NextObject => Laying(Item, Count)
<1> USE DEF ParserInv, CountInv
<1>1. (Sizes \cup {0}) \subseteq Nat /\ Counts \subseteq 1..(Byte - 1)
  BY ParserAssumption
<1>2. Size \in Nat /\ ReportCount \in 0..(Byte - 1)
  BY <1>1
<1>3. ASSUME NEW type \in Types, ItemMain(type) PROVE Laying(type, ReportCount)
  BY <1>2, <1>3 DEF ItemMain, Fetch, Laying
<1>4. ASSUME NextObject PROVE Laying(Item, Count)
  BY <1>2, <1>4 DEF NextObject, Fetch, Laying
<1> QED
  BY <1>3, <1>4

\* Main items keep the invariant.
LEMMA MainKeeps ==
  ASSUME ParserInv, NEW type, NEW count, Laying(type, count)
  PROVE  ParserInv'
<1>1. UNCHANGED nesting
  BY DEF Laying, LayOut
<1>2. PathInv'
  BY <1>1 DEF ParserInv, PathInv, nesting, PathIsOpenCollections
<1> QED
  BY <1>2, LayingCounts, LayingUsages, LayingOffsets, LayingLengths DEF ParserInv

-----------------------------------------------------------------------------
\* Whatever descriptor is read, the parser's tables agree with what has been
\* read of it.
THEOREM ParserInvariant == Spec => []ParserInv
<1>1. Init => ParserInv
  <2> SUFFICES ASSUME Init PROVE ParserInv
    OBVIOUS
  <2> USE DEF Init
  <2>1. CountInv /\ UsageInv
    BY DEF CountInv, UsageInv, IDs
  <2>2. PathInv
    BY DEF PathInv, PathIsOpenCollections
  <2>3. OffsetInv
    BY DEF OffsetInv, OffsetIsTrue
  <2>4. LengthInv
    <3>1. \A r \in Reports : extent[r] = 0 /\ r[1] \in IDs
      BY DEF Reports
    <3> QED
      BY <3>1 DEF LengthInv, ReportHoldsFields
  <2> QED
    BY <2>1, <2>2, <2>3, <2>4 DEF ParserInv
<1>2. ParserInv /\ [Next]_vars => ParserInv'
  <2> SUFFICES ASSUME ParserInv, [Next]_vars PROVE ParserInv'
    OBVIOUS
  <2>1. CASE \/ \E page \in Pages : ItemUPage(page)
             \/ \E id \in ReportIDs : ItemRepID(id)
             \/ \E size \in Sizes : ItemRepSize(size)
             \/ \E count \in Counts : ItemRepCount(count)
    BY <2>1, GlobalKeeps
  <2>2. ASSUME NEW usage \in Usages, ItemUsage(usage) PROVE ParserInv'
    <3>1. UPage \in Pages /\ PushUsage(<<UPage, usage>>)
      BY <2>2 DEF ItemUsage, ParserInv, CountInv
    <3>2. <<UPage, usage>> \in Nodes
      BY <3>1, ParserAssumption DEF Nodes
    <3> QED
      BY <3>1, <3>2, UsageKeeps
  <2>3. ASSUME NEW page \in Pages, NEW usage \in Usages, ItemUsageLong(page, usage)
        PROVE  ParserInv'
    <3>1. <<page, usage>> \in Nodes
      BY ParserAssumption DEF Nodes
    <3> QED
      BY <2>3, <3>1, UsageKeeps DEF ItemUsageLong
  <2>4. CASE \E index \in Indices \cup {NoIndex} : ItemCollection(index)
    BY <2>4, CollectionKeeps
  <2>5. CASE ItemEndCollection
    BY <2>5, EndKeeps
  <2>6. CASE (\E type \in Types : ItemMain(type)) \/ NextObject
    BY <2>6, MainIsLaying, MainKeeps
  <2>7. CASE UNCHANGED vars
    <3>1. (CountInv /\ UsageInv)'
      BY <2>7 DEF vars, global, local, layout, ParserInv, CountInv, UsageInv
    <3>2. PathInv'
      BY <2>7 DEF vars, nesting, ParserInv, PathInv, PathIsOpenCollections
    <3>3. (OffsetInv /\ LengthInv)'
      BY <2>7 DEF vars, layout, ParserInv, OffsetInv, LengthInv, OffsetIsTrue,
         ReportHoldsFields
    <3> QED
      BY <3>1, <3>2, <3>3 DEF ParserInv
  <2> QED
    BY <2>1, <2>2, <2>3, <2>4, <2>5, <2>6, <2>7 DEF Next
<1> QED
  BY <1>1, <1>2, PTL DEF Spec

\* An object is put under the path of the collections open around it.
THEOREM PathsAreOpenCollections == Spec => []PathIsOpenCollections
<1>1. ParserInv => PathIsOpenCollections
  BY DEF ParserInv, PathInv
<1> QED
  BY <1>1, ParserInvariant, PTL

\* The offset of an object is its true bit position exactly in the first 256 bits
\* of a report with an ID, and for the first object of the one without.
THEOREM OffsetsAreTrue == Spec => []OffsetIsTrue
<1>1. ParserInv => OffsetIsTrue
  BY DEF ParserInv, OffsetInv
<1> QED
  BY <1>1, ParserInvariant, PTL

\* Every field of a report lies inside the buffer that is allocated for it.
THEOREM BuffersHoldReports == Spec => []ReportHoldsFields
<1>1. ParserInv => ReportHoldsFields
  BY DEF ParserInv, LengthInv
<1> QED
  BY <1>1, ParserInvariant, PTL

\* Each object gets the usage declared for it, in the order of the declarations,
\* and when the usages are used up, the last one with them, no object has a name.
THEOREM ObjectsTakeUsagesInOrder == Spec => UsagesInOrder
<1>1. ParserInv /\ [Next]_vars => [TakesNextUsage]_vars
  <2> SUFFICES ASSUME ParserInv, Next PROVE TakesNextUsage
    OBVIOUS
  <2> USE DEF TakesNextUsage
  <2>1. ASSUME NEW type, NEW count, Laying(type, count) PROVE TakesNextUsage
    <3>1. object' = IF FirstUsage = NoNode THEN NoObject
                    ELSE [path |-> Append(Path, FirstUsage), id |-> ReportID, type |-> type,
                          offset |-> OffsetTab[Report(type)], at |-> extent[Report(type)]]
      BY <2>1 DEF Laying, LayOut
    <3>2. made \in Nat /\ Len(declared) \in Nat
      BY DEF ParserInv, UsageInv
    <3>3. CASE made < Len(declared)
      <4>1. Len(UsageTab) \in Nat \ {0}
        BY <3>2, <3>3 DEF ParserInv, UsageInv
      <4>2. UsageTab # <<>> /\ FirstUsage = UsageTab[1]
        BY <4>1 DEF FirstUsage, ParserInv, UsageInv
      <4>3. FirstUsage = declared[made + 1] /\ Named(FirstUsage)
        BY <4>1, <4>2 DEF ParserInv, UsageInv
      <4>4. FirstUsage # NoNode
        BY <4>3, ParserAssumption DEF Named, NoNode
      <4>5. object' = [path |-> Append(Path, FirstUsage), id |-> ReportID, type |-> type,
                       offset |-> OffsetTab[Report(type)], at |-> extent[Report(type)]]
        BY <3>1, <4>4
      <4>6. object'.path = Append(Path, FirstUsage) /\ object' # NoObject
        BY <4>5 DEF NoObject
      <4> QED
        BY <3>3, <4>3, <4>6
    <3>4. CASE ~(made < Len(declared))
      <4>1. UsageTab = <<>>
        <5>1. Len(UsageTab) = 0 /\ UsageTab \in Seq(Nodes)
          BY <3>2, <3>4 DEF ParserInv, UsageInv
        <5> QED
          BY <5>1
      <4> QED
        BY <3>1, <3>4, <4>1 DEF FirstUsage
    <3> QED
      BY <3>3, <3>4
  <2>2. CASE (\E type \in Types : ItemMain(type)) \/ NextObject
    BY <2>1, <2>2, MainIsLaying
  <2>3. CASE UNCHANGED extent
    BY <2>3
  <2> QED
    BY <2>2, <2>3 DEF Next, ItemUPage, ItemUsage, ItemUsageLong, PushUsage, ItemCollection,
       ItemEndCollection, ItemRepID, ItemRepSize, ItemRepCount, Read, layout
<1> QED
  BY <1>1, ParserInvariant, PTL DEF Spec, UsagesInOrder
=============================================================================
