------------------------------ MODULE HidPaths ------------------------------
(***************************************************************************)
(* How an object of a report descriptor is found by its path:              *)
(* string_to_path and nut_hid_find_object of nut_libhid.c and              *)
(* FindObject_with_Path of nut_hidparser.c.                                *)
(*                                                                         *)
(* An object keeps the parser's whole array of nodes.  The nodes beyond    *)
(* its own path are those of what came before it, objects, items without a *)
(* usage and collections that hold nothing, and the lookup compares as     *)
(* many nodes as the path that is looked for has, never asking how many    *)
(* the object has.                                                         *)
(***************************************************************************)
EXTENDS Integers, Sequences, Functions

CONSTANTS Usages,   \* tokens of path strings the usage tables know, and indices
          Depth     \* length of the array of nodes (PATH_SIZE = 10)

ASSUME DepthAssumption == Depth \in Nat \ {0}

NoNode == ""        \* a node never written
Types  == {"feature", "input"}

IsSequence(s) == s \in Seq(Range(s))

\* An object of the report descriptor, before it was parsed; before: the nodes
\* that unnamed items and empty collections wrote since the object before it.
Declared(object) == /\ IsSequence(object.path) /\ IsSequence(object.before)
                    /\ object.path # <<>> /\ Len(object.path) <= Depth
                    /\ object.type \in Types

\* The objects of a descriptor with the array of nodes each is left with.
Parsed(objects) ==
  LET nodes[i \in 0..Len(objects)] ==
        [k \in 1..Depth |->
           IF i = 0 THEN NoNode
           ELSE IF k <= Len(objects[i].path) THEN objects[i].path[k]
           ELSE IF k <= Len(objects[i].before) THEN objects[i].before[k]
           ELSE nodes[i - 1][k]]
  IN [i \in DOMAIN objects |->
        [path |-> objects[i].path, node |-> nodes[i],
         type |-> objects[i].type, id |-> objects[i].id]]

\* A token that is no usage, no number and no index is left out.
string_to_path(tokens) ==
  LET path[n \in 0..Len(tokens)] ==
        IF n = 0 THEN <<>>
        ELSE IF tokens[n] \in Usages THEN Append(path[n - 1], tokens[n])
        ELSE path[n - 1]
  IN path[Len(tokens)]

\* Slip: the last node is not compared.
SameNodesButLast(item, path) == \A k \in 1..(Len(path) - 1) : item.node[k] = path[k]

SameNodes(item, path) == \A k \in 1..Len(path) : item.node[k] = path[k]

\* The first of a set of indices, 0 = NULL.
First(found) == IF found = {} THEN 0 ELSE CHOOSE i \in found : \A j \in found : i <= j

FindObject_with_Path(items, path, type) ==
  First({i \in DOMAIN items : items[i].type = type /\ SameNodes(items[i], path)})

\* FEATURE items are the canonical source, INPUT items the fallback.
nut_hid_find_object(items, tokens) ==
  LET path    == string_to_path(tokens)
      feature == FindObject_with_Path(items, path, "feature")
  IN IF path = <<>> THEN 0
     ELSE IF feature # 0 THEN feature
     ELSE FindObject_with_Path(items, path, "input")

-----------------------------------------------------------------------------
(* What the lookup is for.                                                 *)

Named(items, path, type) ==
  First({i \in DOMAIN items : items[i].type = type /\ items[i].path = path})

ExactObject(items, path) ==
  IF Named(items, path, "feature") # 0
    THEN Named(items, path, "feature")
    ELSE Named(items, path, "input")

ProperPrefix(p, q) == Len(p) < Len(q) /\ \A k \in 1..Len(p) : p[k] = q[k]

\* No object stands where the path only passes through, and none lies below it.
Unambiguous(items, path) ==
  \A i \in DOMAIN items :
    ~ProperPrefix(items[i].path, path) /\ ~ProperPrefix(path, items[i].path)
=============================================================================
