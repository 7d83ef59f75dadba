------------------------------- MODULE Codecs -------------------------------
(***************************************************************************)
(* The node codecs of judge/harness.py: how the JSON of a test case becomes *)
(* the linked list, tree or graph a submission is called with, and how what *)
(* it returns becomes JSON again.                                          *)
(*                                                                         *)
(* An object graph is a record: root is a node or None, val gives a node's  *)
(* value, ptr the sequence of nodes it points to, each a node or None: next *)
(* for a ListNode, left and right for a TreeNode, next and random for a      *)
(* RandomListNode, the neighbours for a GraphNode.  idx is the index the    *)
(* harness stamped on a CyclicListNode, None on a node of the submission's   *)
(* own.  A conversion that raises gives Raised.                             *)
(***************************************************************************)
EXTENDS Compare

CONSTANTS
    MaxEncoded,     \* the most entries an encoded tree may have (_MAX_TREE_ENTRIES)
    Raised          \* not a value: the conversion raised an exception

ASSUME CodecAssumption == MaxEncoded \in Nat

None == 0

Object(n, root, val(_), ptr(_), idx(_)) ==
    [root |-> root, val |-> [i \in 1..n |-> val(i)], ptr |-> [i \in 1..n |-> ptr(i)],
     idx |-> [i \in 1..n |-> idx(i)]]
Fresh(i) == None
NextOf(o, i) == o.ptr[i][1]
First(n) == IF n = 0 THEN None ELSE 1

\* Python's nodes[i]: a negative index counts from the end, one out of range raises.
Indexed(n, i) ==
    CASE i \in 0..n - 1 -> i + 1
      [] i \in -n..-1   -> n + i + 1
      [] OTHER          -> Raised

-----------------------------------------------------------------------------
(* From JSON to objects *)

BuildList(wire) ==
    LET vs == Items(wire)
        val(i) == vs[i]
        ptr(i) == <<IF i < Len(vs) THEN i + 1 ELSE None>>
    IN  Object(Len(vs), First(Len(vs)), val, ptr, Fresh)

\* Level order: every value that is not null takes the next open child slot, and a null takes one
\* too.  The entry at place p > 1 fills slot p - 1 of the nodes' slots in level order.
BuildTree(wire) ==
    LET vs == Items(wire)
        places == {p \in DOMAIN vs : vs[p] # Null}
        rank(p) == Cardinality({q \in places : q <= p})
        \* The entries that find an open slot: reading stops when the nodes so far have no more.
        Open(p) == \A q \in 2..p : q - 1 <= 2 * Cardinality({r \in places : r < q})
        kept == {p \in places : Open(p)}
        at(i) == CHOOSE p \in kept : rank(p) = i
        child(p) == IF p \in kept THEN rank(p) ELSE None
        val(i) == vs[at(i)]
        ptr(i) == <<child(2 * i), child(2 * i + 1)>>
    IN  IF vs = <<>> \/ Head(vs) = Null
          THEN Object(0, None, val, ptr, Fresh)
          ELSE Object(Cardinality(kept), 1, val, ptr, Fresh)

\* [values, pos]: the last node's next is the one at pos, or none for -1.
BuildCyclicList(wire) ==
    LET payload == Items(wire)
        vs  == IF payload = <<>> THEN <<>> ELSE Items(payload[1])
        pos == IF payload = <<>> THEN -1 ELSE payload[2].n
        target == IF pos = -1 THEN None ELSE Indexed(Len(vs), pos)
        val(i) == vs[i]
        ptr(i) == <<IF i < Len(vs) THEN i + 1 ELSE target>>
        idx(i) == i
    IN  IF vs # <<>> /\ target = Raised THEN Raised
        ELSE Object(Len(vs), First(Len(vs)), val, ptr, idx)

\* [[val, random index or null], ...]
BuildRandomList(wire) ==
    LET ps == Items(wire)
        random(i) == IF ps[i].v[2] = Null THEN None ELSE Indexed(Len(ps), ps[i].v[2].n)
        val(i) == ps[i].v[1]
        ptr(i) == <<IF i < Len(ps) THEN i + 1 ELSE None, random(i)>>
    IN  IF \E i \in DOMAIN ps : random(i) = Raised THEN Raised
        ELSE Object(Len(ps), First(Len(ps)), val, ptr, Fresh)

\* Row i lists the values of the neighbours of the node valued i.
BuildGraph(wire) ==
    LET rows == Items(wire)
        nbr(i, j) == Indexed(Len(rows), rows[i].v[j].n - 1)
        val(i) == Num(i)
        ptr(i) == [j \in DOMAIN rows[i].v |-> nbr(i, j)]
    IN  IF \E i \in DOMAIN rows : \E j \in DOMAIN rows[i].v : nbr(i, j) = Raised THEN Raised
        ELSE Object(Len(rows), First(Len(rows)), val, ptr, Fresh)

-----------------------------------------------------------------------------
(* From objects to JSON *)

\* Mutant of WalkNext: the walk stops quietly at a node it has met.
RECURSIVE WalkQuietly(_, _, _)
WalkQuietly(o, n, order) ==
    IF n = None \/ n \in Range(order) THEN order ELSE WalkQuietly(o, NextOf(o, n), Append(order, n))

\* The nodes along next; a list that loops is refused.
RECURSIVE WalkNext(_, _, _)
WalkNext(o, n, order) ==
    IF n = None THEN order
    ELSE IF n \in Range(order) THEN Raised
    ELSE WalkNext(o, NextOf(o, n), Append(order, n))

FlattenList(o) ==
    LET order == WalkNext(o, o.root, <<>>)
    IN  IF order = Raised THEN Raised ELSE Arr([i \in DOMAIN order |-> o.val[order[i]]])

Targets(o, n) == Range(o.ptr[n]) \ {None}

RECURSIVE Reach(_, _)
Reach(o, ns) ==
    LET more == ns \cup UNION {Targets(o, n) : n \in ns}
    IN  IF more = ns THEN ns ELSE Reach(o, more)

Reachable(o) == IF o.root = None THEN {} ELSE Reach(o, {o.root})

\* A shared subtree is no cycle.
TreeHasCycle(o) == \E n \in Reachable(o) : n \in Reach(o, Targets(o, n))

TreeRefused(o) == TreeHasCycle(o)

RECURSIVE LevelOrder(_, _, _)
LevelOrder(o, queue, out) ==
    IF queue = <<>> THEN out
    ELSE IF Len(out) >= MaxEncoded THEN Raised
    ELSE LET n == Head(queue)
         IN  IF n = None THEN LevelOrder(o, Tail(queue), Append(out, Null))
             ELSE LevelOrder(o, Tail(queue) \o o.ptr[n], Append(out, o.val[n]))

RECURSIVE Trimmed(_)
Trimmed(s) == IF s # <<>> /\ Last(s) = Null THEN Trimmed(Front(s)) ELSE s

FlattenTree(o) ==
    LET out == LevelOrder(o, <<o.root>>, <<>>)
    IN  CASE o.root = None  -> Arr(<<>>)
          [] TreeRefused(o) -> Raised
          [] out = Raised   -> Raised
          [] OTHER          -> Arr(Trimmed(out))

\* A returned node is known by the index it was built at, never by its value.
EncodeCyclicNode(o) ==
    IF o.root = None \/ o.idx[o.root] = None THEN Null ELSE Num(o.idx[o.root] - 1)

\* A random pointer to a node off the list is written as none.
EncodeRandomList(o) ==
    LET order == WalkNext(o, o.root, <<>>)
        place(n) == CHOOSE i \in DOMAIN order : order[i] = n
        index(n) == IF n # None /\ n \in Range(order) THEN Num(place(n) - 1) ELSE Null
    IN  IF order = Raised THEN Raised
        ELSE Arr([i \in DOMAIN order |->
                    Arr(<<o.val[order[i]], index(o.ptr[order[i]][2])>>)])

RECURSIVE Visit(_, _, _)
Visit(o, queue, visited) ==
    IF queue = <<>> THEN visited
    ELSE LET new == SelectSeq(o.ptr[Head(queue)], LAMBDA n : n \notin Range(visited))
         IN  IF new = <<>> THEN Visit(o, Tail(queue), visited)
             ELSE Visit(o, Append(queue, new[1]), Append(visited, new[1]))

\* A row per value up to the largest; of two nodes with one value the row is the later one's.
EncodeGraph(o) ==
    LET visited == Visit(o, <<o.root>>, <<o.root>>)
        number(n) == IF o.val[n].k = "num" THEN o.val[n].n ELSE 0
        most == CHOOSE m \in {number(n) : n \in Range(visited)} :
                   \A n \in Range(visited) : number(n) <= m
        size == IF most < 0 THEN 0 ELSE most
        last(v) == CHOOSE i \in DOMAIN visited :
                      /\ number(visited[i]) = v
                      /\ \A j \in DOMAIN visited : number(visited[j]) = v => j <= i
        row(v) == IF \E n \in Range(visited) : number(n) = v
                    THEN LET n == visited[last(v)]
                         IN  [j \in DOMAIN o.ptr[n] |-> o.val[o.ptr[n][j]]]
                    ELSE <<>>
    IN  CASE o.root = None     -> Arr(<<>>)
          [] size > MaxEncoded -> Raised
          [] OTHER             -> Arr([v \in 1..size |-> Arr(row(v))])

-----------------------------------------------------------------------------
(* Declared types *)

Build(type, wire) ==
    CASE type = "ListNode"       -> BuildList(wire)
      [] type = "TreeNode"       -> BuildTree(wire)
      [] type = "CyclicListNode" -> BuildCyclicList(wire)
      [] type = "RandomListNode" -> BuildRandomList(wire)
      [] type = "GraphNode"      -> BuildGraph(wire)

Encode(type, o) ==
    CASE type = "ListNode"       -> FlattenList(o)
      [] type = "TreeNode"       -> FlattenTree(o)
      [] type = "CyclicListNode" -> EncodeCyclicNode(o)
      [] type = "RandomListNode" -> EncodeRandomList(o)
      [] type = "GraphNode"      -> EncodeGraph(o)

\* List[...]: every element by itself; one that raises raises for all.
OnEach(convert(_), s) ==
    LET done == [i \in DOMAIN s |-> convert(s[i])]
    IN  IF Raised \in Range(done) THEN Raised ELSE done

DecodeArg(type, wire) ==
    CASE type \in NodeTypes       -> Build(type, wire)
      [] type \in DOMAIN EachType -> LET one(w) == Build(EachType[type], w) IN OnEach(one, Items(wire))
      [] OTHER                    -> wire

DecodeArgs(args, params) ==
    LET done == [i \in DOMAIN args |->
                   IF i \in DOMAIN params THEN DecodeArg(params[i], args[i]) ELSE args[i]]
    IN  IF Raised \in Range(done) THEN Raised ELSE done

\* The expected answer of a problem that returns a CyclicListNode is an index, not a list.
EncodeResult(value, type) ==
    CASE type \in NodeTypes       -> Encode(type, value)
      [] type \in DOMAIN EachType ->
            LET one(o) == Encode(EachType[type], o)
                done == OnEach(one, value)
            IN  IF done = Raised THEN Raised ELSE Arr(done)
      [] OTHER                    -> value

-----------------------------------------------------------------------------
(* When two object graphs are the same structure *)

\* Alike to depth d from nodes n and m on: the same values, and pointers to what is alike.
RECURSIVE Alike(_, _, _, _, _)
Alike(o, n, p, m, d) ==
    IF n = None \/ m = None THEN n = m
    ELSE /\ o.val[n] = p.val[m]
         /\ DOMAIN o.ptr[n] = DOMAIN p.ptr[m]
         /\ d = 0 \/ \A j \in DOMAIN o.ptr[n] : Alike(o, o.ptr[n][j], p, p.ptr[m][j], d - 1)

\* The same when unfolded: sharing does not show.
SameUnfolded(o, p) ==
    Alike(o, o.root, p, p.root, Cardinality(Reachable(o)) + Cardinality(Reachable(p)))

\* The same graph: one node for one node.
SameGraph(o, p) ==
    IF o.root = None \/ p.root = None THEN o.root = p.root
    ELSE \E f \in Bijection(Reachable(o), Reachable(p)) :
           /\ f[o.root] = p.root
           /\ \A n \in Reachable(o) :
                /\ o.val[n] = p.val[f[n]]
                /\ [j \in DOMAIN o.ptr[n] |-> IF o.ptr[n][j] = None THEN None ELSE f[o.ptr[n][j]]]
                     = p.ptr[f[n]]

SameStructure(type, o, p) ==
    IF type \in {"ListNode", "TreeNode"} THEN SameUnfolded(o, p) ELSE SameGraph(o, p)

\* What an encoding cannot show: a random pointer that leaves the list, a node of one's own in
\* place of one of the input's, two nodes of a graph with one value, a value that is no number, or
\* which node of a graph was returned (the expected one is the node valued 1).
Tidy(type, o) ==
    CASE type = "RandomListNode" ->
            LET order == WalkNext(o, o.root, <<>>)
            IN  order # Raised => \A n \in Range(order) : o.ptr[n][2] \in Range(order) \cup {None}
      [] type = "CyclicListNode" -> o.root = None \/ o.idx[o.root] # None
      [] type = "GraphNode" ->
            /\ \A n \in Reachable(o) : o.val[n].k = "num" /\ o.val[n].n > 0
            /\ \A n, m \in Reachable(o) : o.val[n] = o.val[m] => n = m
            /\ o.root # None => o.val[o.root] = Num(1)
      [] OTHER -> TRUE
=============================================================================
