----------------------------- MODULE JsonValues -----------------------------
(***************************************************************************)
(* The JSON values of a problem's test cases, and the types a language may   *)
(* declare for them (the _CODECS of judge/harness.py and ALL_NODE_TYPES of   *)
(* app/sandbox.py).                                                        *)
(*                                                                         *)
(* A JSON value is a record that carries its type.  Numbers are integers in  *)
(* units of some small fraction; 2 and 2.0 are one value.  Huge is an        *)
(* integer that no float can hold.                                         *)
(***************************************************************************)
EXTENDS Integers, FiniteSets, Sequences, SequencesExt, Functions

Null     == [k |-> "null"]
Bool(b)  == [k |-> "bool", b |-> b]
Num(n)   == [k |-> "num", n |-> n]
Inf(s)   == [k |-> "inf", sign |-> s]       \* 1 or -1
NaN      == [k |-> "nan"]
Huge     == [k |-> "huge"]
Arr(s)   == [k |-> "list", v |-> s]
Map(f)   == [k |-> "map", m |-> f]

IsList(x)   == x.k = "list"
Holds(x)    == x.k \in {"list", "map"}
Members(x)  == IF IsList(x) THEN x.v ELSE x.m
IsNumber(x) == x.k \in {"num", "inf", "nan", "huge"}

\* The nodes or rows an encoding lists.
Items(wire) == IF IsList(wire) THEN wire.v ELSE <<>>

-----------------------------------------------------------------------------
(* Declared types *)

NodeTypes == {"ListNode", "TreeNode", "CyclicListNode", "RandomListNode", "GraphNode"}
EachType == [t \in {"List[ListNode]", "List[TreeNode]"} |->
               IF t = "List[ListNode]" THEN "ListNode" ELSE "TreeNode"]
AllNodeTypes == NodeTypes \cup DOMAIN EachType
=============================================================================
