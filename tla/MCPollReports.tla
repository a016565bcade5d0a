--------------------------- MODULE MCPollReports ---------------------------
(***************************************************************************)
(* Collections S and B, also nested, fields x, y and z.  "a" has two paths *)
(* of which the first wins, "e" two that are both kept; "m" is internal,   *)
(* "t" a string.  The objects are any one or two, of both types, the first *)
(* in report 1, the second there or in report 2; among them are ones that  *)
(* share a report, an ID or a path, one that stands at a collection and    *)
(* one that ends like another path.                                        *)
(***************************************************************************)
EXTENDS PollReports

MCUsages == {"S", "B", "x", "y", "z"}

Entry(name, path, convert) == [name |-> name, path |-> path, convert |-> convert]

MCReadMap == << Entry("a", <<"S", "x">>, "number"),
                Entry("a", <<"B", "x">>, "number"),
                Entry("b", <<"S", "B", "y">>, "number") >>

MCMoreMap == << Entry("e", <<"S", "z">>, "lookup"),
                Entry("e", <<"B", "z">>, "lookup"),
                Entry("m", <<"B", "y">>, "internal"),
                Entry("t", <<"B", "x">>, "string") >>

MCPaths == { <<"S", "x">>, <<"B", "x">>, <<"S", "B", "y">>, <<"S", "z">>,
             <<"B", "z">>, <<"B", "y">>, <<"S", "B">> }

Objects == [path : MCPaths, before : {<<>>}, type : Types, id : {1, 2}]

\* A collection that holds nothing.
Empty == <<"S", "B", "y">>

MCLayouts == {<<o>> : o \in Objects} \cup
             {<<[o EXCEPT !.before = Empty]>> : o \in Objects} \cup
             {<<o, p>> : o \in {x \in Objects : x.id = 1}, p \in Objects}
=============================================================================
