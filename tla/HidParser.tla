----------------------------- MODULE HidParser -----------------------------
(***************************************************************************)
(* HIDParse and Parse_ReportDesc of components/nut/nut_hidparser.c: the    *)
(* items of a HID report descriptor, read one after the other, become the  *)
(* list of objects the rest of the component looks its paths up in.        *)
(*                                                                         *)
(* The descriptor is not a constant: every next item the grammar allows is *)
(* an action, so a behaviour is a descriptor.  A node of a path is a pair  *)
(* of a usage page and a usage.  The items that only set a number of the   *)
(* object (logical and physical limits, unit, exponent, attribute) are     *)
(* left out; HidValue models what the limits are for.                      *)
(***************************************************************************)
EXTENDS Integers, Sequences

CONSTANTS
  Pages, Usages,      \* of the Usage Page and Usage items
  ReportIDs,          \* of the Report ID items; 0 when there is none
  Sizes, Counts,      \* of the Report Size and Report Count items
  MaxBits,            \* bound: bits laid out in a report (MAX_REPORT: 500 objects)
  MaxDepth,           \* bound: open collections (PATH_SIZE is 10 nodes)
  MaxUsages           \* bound: usages before a Main item (USAGE_TAB_SIZE is 50)

Byte      == 256      \* Offset and Count are uint8_t
IndexPage == 255      \* a node 0x00ffnnnn is the index of a collection
NoNode    == <<0, 0>>
NoIndex   == -1
Indices   == {1}      \* bound: indices of collections (Value - 0x80)
Types     == {"FEATURE", "INPUT"}     \* OUTPUT behaves like both

ASSUME ParserAssumption ==
  /\ Pages \subseteq Nat \ {0, IndexPage}
  /\ Usages \subseteq Nat
  /\ ReportIDs \subseteq 0..(Byte - 1)
  /\ Sizes \subseteq 0..(Byte - 1)
  /\ Counts \subseteq 1..(Byte - 1)
  /\ MaxBits \in Nat /\ MaxDepth \in Nat /\ MaxUsages \in Nat

Nodes   == Nat \X Nat
IDs     == ReportIDs \cup {0}
Reports == IDs \X Types

VARIABLES
  UPage, ReportID, Size, ReportCount,     \* global items
  UsageTab,     \* the usages not yet given to an object
  Path,         \* Data.Path: the open collections
  Item, Count,  \* the Main item under way, and how many objects it still makes
  OffsetTab,    \* next free bit of each report
  object,       \* the object HIDParse has just put in the list, until another
                \* item is read; its true bit position, at, is history
  replen,       \* bytes of the reports with an ID
  open,         \* history: for each open collection, the path outside it,
                \* its usage and its index
  declared,     \* history: the usages given before the Main item
  made,         \* history: the objects the Main item under way has made,
                \* continuations included
  extent        \* history: the bits laid out so far in each report

global  == <<UPage, ReportID, Size, ReportCount>>
local   == <<UsageTab, declared>>
nesting == <<Path, open>>
layout  == <<Item, Count, OffsetTab, replen, made, extent>>
vars == <<global, local, nesting, layout, object>>

Objects == [path : Seq(Nodes), id : IDs, type : Types, offset : 0..(Byte - 1), at : Nat]
NoObject == [path |-> <<>>]

TypeOK ==
  /\ UPage \in Pages \cup {0}
  /\ ReportID \in IDs
  /\ Size \in Sizes \cup {0}
  /\ ReportCount \in Counts \cup {0}
  /\ UsageTab \in Seq(Nodes)
  /\ Path \in Seq(Nodes)
  /\ Item \in Types \cup {"none"}
  /\ Count \in 0..(Byte - 1)
  /\ OffsetTab \in [Reports -> 0..(Byte - 1)]
  /\ object \in Objects \cup {NoObject}
  /\ replen \in [IDs -> Nat]
  /\ open \in Seq([outside : Seq(Nodes), node : Nodes, index : Indices \cup {NoIndex}])
  /\ declared \in Seq(Nodes)
  /\ made \in Nat
  /\ extent \in [Reports -> Nat]

Init ==
  /\ UPage = 0 /\ ReportID = 0 /\ Size = 0 /\ ReportCount = 0
  /\ UsageTab = <<>> /\ declared = <<>>
  /\ Path = <<>> /\ open = <<>>
  /\ Item = "none" /\ Count = 0
  /\ OffsetTab = [r \in Reports |-> 0]
  /\ object = NoObject
  /\ replen = [i \in IDs |-> 0]
  /\ made = 0
  /\ extent = [r \in Reports |-> 0]

-----------------------------------------------------------------------------
\* The next item is read only when the last Main item has made its objects.
Fetch == Count = 0

\* An item that is not a Main item.
Read == Fetch /\ object' = NoObject

ItemUPage(page) ==
  /\ Read
  /\ UPage' = page
  /\ UNCHANGED <<ReportID, Size, ReportCount, local, nesting, layout>>

PushUsage(node) ==
  /\ Read
  /\ Len(UsageTab) < MaxUsages
  /\ UsageTab' = Append(UsageTab, node)
  /\ declared' = Append(declared, node)
  /\ UNCHANGED <<global, nesting, layout>>

\* A short usage takes the page of the last Usage Page item, a long one
\* brings its own.
ItemUsage(usage) == UPage # 0 /\ PushUsage(<<UPage, usage>>)
ItemUsageLong(page, usage) == PushUsage(<<page, usage>>)

\* UsageTab[0]: zero when there is no usage.
FirstUsage == IF UsageTab = <<>> THEN NoNode ELSE Head(UsageTab)

\* Slip: usages that were not used up wait for the next item.
ResetKeepsUsages == UNCHANGED UsageTab /\ declared' = <<>>

ResetLocalState == UsageTab' = <<>> /\ declared' = <<>>

IndexNodes(index) == IF index = NoIndex THEN <<>> ELSE << <<IndexPage, index>> >>

ItemCollection(index) ==
  /\ Read
  /\ Len(open) < MaxDepth
  /\ UsageTab # <<>>
  /\ Path' = Append(Path, FirstUsage) \o IndexNodes(index)
  /\ open' = Append(open, [outside |-> Path, node |-> FirstUsage, index |-> index])
  /\ ResetLocalState
  /\ UNCHANGED <<global, layout>>

Front(s) == SubSeq(s, 1, Len(s) - 1)
IsIndex(node) == node[1] = IndexPage

\* Slip: the index of the collection stays on the path.
EndKeepsIndex ==
  /\ Read
  /\ open # <<>>
  /\ Path' = Front(Path)
  /\ open' = Front(open)
  /\ ResetLocalState
  /\ UNCHANGED <<global, layout>>

\* A collection in the grammar ends only if it is open.
ItemEndCollection ==
  /\ Read
  /\ open # <<>>
  /\ Path' = IF IsIndex(Path[Len(Path)]) THEN Front(Front(Path)) ELSE Front(Path)
  /\ open' = Front(open)
  /\ ResetLocalState
  /\ UNCHANGED <<global, layout>>

ItemRepID(id) ==
  /\ Read
  /\ ReportID' = id
  /\ UNCHANGED <<UPage, Size, ReportCount, local, nesting, layout>>

ItemRepSize(size) ==
  /\ Read
  /\ Size' = size
  /\ UNCHANGED <<UPage, ReportID, ReportCount, local, nesting, layout>>

ItemRepCount(count) ==
  /\ Read
  /\ ReportCount' = count
  /\ UNCHANGED <<UPage, ReportID, Size, local, nesting, layout>>

-----------------------------------------------------------------------------
(* Feature and Input items: one object per call of HIDParse.               *)

Report(type) == <<ReportID, type>>

\* Slip: only named objects advance the offset.
AdvanceNamed(type) ==
  OffsetTab' = IF ReportID = 0 \/ FirstUsage = NoNode THEN OffsetTab
               ELSE [OffsetTab EXCEPT ![Report(type)] = (@ + Size) % Byte]

\* GetReportOffset: the slot of ReportID 0 counts as free, so that it is taken
\* and cleared anew on every call.
Advance(type) ==
  OffsetTab' = IF ReportID = 0 THEN OffsetTab
               ELSE [OffsetTab EXCEPT ![Report(type)] = (@ + Size) % Byte]

\* Slip: bits of a last byte that is not full are not counted.
WholeBytes(bits) == bits \div 8

BytesFor(bits) == (bits + 7) \div 8
Longer(m, n) == IF m < n THEN n ELSE m

\* One of count objects is laid out.  It is an object of its own if a usage is
\* left for it, else it continues the last one and is not counted; either way
\* Parse_ReportDesc makes room for it in the report.
LayOut(type, count) ==
  LET offset == OffsetTab[Report(type)]
      last   == (count - 1) % Byte = 0
  IN
  /\ Advance(type)
  /\ replen' = [replen EXCEPT ![ReportID] = Longer(@, BytesFor(offset + Size))]
  /\ extent' = [extent EXCEPT ![Report(type)] = @ + Size]
  /\ object' = IF FirstUsage = NoNode THEN NoObject
               ELSE [path |-> Append(Path, FirstUsage), id |-> ReportID, type |-> type,
                     offset |-> offset, at |-> extent[Report(type)]]
  /\ Count' = (count - 1) % Byte
  /\ IF last THEN ResetLocalState /\ Item' = "none" /\ made' = 0
     ELSE /\ UsageTab' = IF UsageTab = <<>> THEN <<>> ELSE Tail(UsageTab)
          /\ Item' = type
          /\ made' = made + 1
          /\ UNCHANGED declared
  /\ UNCHANGED <<global, nesting>>

\* The grammar asks for a Report Size and a Report Count before a Main item.
ItemMain(type) ==
  /\ Fetch
  /\ Size > 0 /\ ReportCount > 0
  /\ extent[Report(type)] + Size * ReportCount <= MaxBits
  /\ LayOut(type, ReportCount)

\* Count > 0: no item is read.
NextObject ==
  /\ ~Fetch
  /\ LayOut(Item, Count)

Next ==
  \/ \E page \in Pages : ItemUPage(page)
  \/ \E usage \in Usages : ItemUsage(usage)
  \/ \E page \in Pages, usage \in Usages : ItemUsageLong(page, usage)
  \/ \E index \in Indices \cup {NoIndex} : ItemCollection(index)
  \/ ItemEndCollection
  \/ \E id \in ReportIDs : ItemRepID(id)
  \/ \E size \in Sizes : ItemRepSize(size)
  \/ \E count \in Counts : ItemRepCount(count)
  \/ \E type \in Types : ItemMain(type)
  \/ NextObject

Spec == Init /\ [][Next]_vars

-----------------------------------------------------------------------------
(* Properties.                                                             *)

Inside(c) == Append(c.outside, c.node) \o IndexNodes(c.index)

\* The path of a new object is that of the collections open around it, however
\* collections with and without an index are nested, closed and opened again.
PathIsOpenCollections ==
  /\ open = <<>> => Path = <<>>
  /\ open # <<>> => Path = Inside(open[Len(open)]) /\ open[1].outside = <<>>
  /\ \A i \in 1..(Len(open) - 1) : open[i + 1].outside = Inside(open[i])

\* Which objects have the true bit position of their field, padding and
\* continuations before it counted: those within the first 256 bits of a report
\* that has an ID.  Of a report without an ID only the first has, and beyond the
\* 256 bits none, for the offset is a byte: these are read from wrong bits.
OffsetIsTrue ==
  object # NoObject =>
    (object.offset = object.at <=> object.at < Byte /\ (object.id # 0 \/ object.at = 0))

\* The buffer that send_hid_report_ allocates from replen holds every field of
\* the report, if the bits of the report can be counted in a byte.
ReportHoldsFields ==
  \A r \in Reports : r[1] # 0 /\ extent[r] <= Byte => extent[r] <= 8 * replen[r[1]]

TakesNextUsage ==
  extent' # extent =>
    IF made < Len(declared)
      THEN object' # NoObject /\ object'.path = Append(Path, declared[made + 1])
      ELSE object' = NoObject

\* Of what a Main item lays out, the k-th is an object under the k-th usage that
\* was declared for it, and beyond the usages all are continuations without a
\* name: the last usage is used up like the others, although the code that
\* removes it says "(never remove the last)".  No usage is left for a later item.
UsagesInOrder == [][TakesNextUsage]_vars
=============================================================================
