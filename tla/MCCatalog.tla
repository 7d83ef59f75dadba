------------------------------ MODULE MCCatalog ------------------------------
(***************************************************************************)
(* Catalog and PythonJudge for TLC: the files the seed commands may be       *)
(* pointed at, and what a submission may return.  Either one seed loads a    *)
(* file of every kind into an empty database, or two seeds contend for       *)
(* problems p and q, which are there or not.                                 *)
(***************************************************************************)
EXTENDS PythonJudge

MCSeeds == {"one", "two"}
MCSlugs == <<"p", "q", "r">>
MCRustMethodName ==
    [getState |-> "get_state", get_state |-> "get_state", push |-> "push", new |-> NoMethod]

List(s) == Arr([i \in DOMAIN s |-> Num(s[i])])
Comparison(mode) == [mode |-> mode, epsilon |-> 1, validators |-> <<>>]
Script == [fn |-> "def", binds |-> TRUE, plain |-> TRUE]
Validated(scripts) == [mode |-> "custom_validator", epsilon |-> 1, validators |-> scripts]
Function(lang, params, returns) ==
    [language |-> lang, names |-> {"function_name"}, params |-> params, returns |-> returns]
Case(ordinal, sample, input, expected) ==
    [ordinal |-> ordinal, sample |-> sample, input |-> input, expected |-> expected,
     ops |-> <<>>, probes |-> <<>>]

Draft ==
    [slug |-> "p", kind |-> "function", limit |-> 2, memory |-> 256, published |-> TRUE,
     comparison |-> Comparison("exact"), form |-> "languages",
     langs |-> <<Function("python", <<"">>, "")>>,
     cases |-> <<Case(1, TRUE, <<Num(1)>>, Num(1))>>,
     solutions |-> <<>>, wrong |-> <<>>]

\* A function of one argument of the type; its one case expects the wire.
Node(type, input, expected) ==
    [Draft EXCEPT !.langs = <<Function("python", <<type>>, type)>>,
                  !.cases = <<Case(1, TRUE, <<input>>, expected)>>]
Value(mode, expected) ==
    [Draft EXCEPT !.comparison = Comparison(mode), !.cases = <<Case(1, TRUE, <<Num(1)>>, expected)>>]

Compared(mode, f) == [f EXCEPT !.comparison = Comparison(mode)]

Row(a, b) == Arr(<<a, b>>)
Nodes ==
    {Node("ListNode", Null, List(s)) : s \in {<<>>, <<1>>, <<1, 2>>}}
    \cup {Node("ListNode", Null, Null)}
    \cup {Node("TreeNode", List(<<1>>), w) : w \in
            {List(<<1>>), List(<<1, 1, 1>>), Arr(<<Num(1), Null, Num(1)>>), Arr(<<Num(1), Null>>)}}
    \cup {Node("CyclicListNode", Row(List(<<1, 1>>), Num(at)), w) : at \in {-1, 1, 2},
            w \in {Num(0), Num(1), Null}}
    \cup {Node("RandomListNode", Null, w) : w \in
            {Arr(<<Row(Num(1), i), Row(Num(1), j)>>) : i \in {Null, Num(1)}, j \in {Num(0), Num(2)}}}
    \cup {Node("GraphNode", Null, w) : w \in
            {Arr(<<>>), Arr(<<List(<<2>>), List(<<1>>)>>), Arr(<<List(<<1, 2>>), List(<<>>)>>),
             Arr(<<List(<<>>), List(<<1>>)>>), Arr(<<List(<<3>>), List(<<>>)>>)}}
    \cup {Node("List[ListNode]", Null, Arr(<<List(<<1>>), List(<<>>)>>))}
    \cup {Compared("any_of", Node("ListNode", Null, Arr(<<List(<<1>>), List(<<2>>)>>))),
          Compared("any_of", Node("List[ListNode]", Null,
                                  Arr(<<Arr(<<List(<<1>>), List(<<>>)>>), Arr(<<>>)>>)))}
    \cup {Compared(mode, f) : mode \in {"unordered", "float_tolerance"}, f \in
            {Node("ListNode", Null, List(<<1, 2>>)), Node("TreeNode", List(<<1>>), List(<<1>>)),
             Node("CyclicListNode", Row(List(<<1, 1>>), Num(1)), Num(1)),
             Node("RandomListNode", Null, Arr(<<Row(Num(1), Null), Row(Num(2), Num(0))>>)),
             Node("GraphNode", Null, Arr(<<List(<<2>>), List(<<1>>)>>)),
             Node("List[ListNode]", Null, Arr(<<List(<<1, 1>>), List(<<>>)>>))}}

Values ==
    {Value(mode, w) : mode \in {"exact", "unordered", "float_tolerance", "any_of"},
        w \in {Num(1), NaN, Huge, Arr(<<Num(1), Bool(TRUE), Num(2)>>), Map([x |-> Num(1)]),
               Arr(<<Map([x |-> Num(1)]), Num(1)>>), Arr(<<Num(1), Huge>>),
               Arr(<<NaN, Num(1)>>), Map([x |-> NaN])}}

Both(f) ==
    [f EXCEPT !.langs = <<Function("python", <<"">>, ""), Function("rust", <<"">>, "")>>]
Operations ==
    [Draft EXCEPT !.kind = "operations",
        !.comparison = Validated([python |-> Script, rust |-> Script]),
        !.langs = [i \in 1..2 |-> [Function(<<"python", "rust">>[i], <<"ListNode">>, "")
                                     EXCEPT !.names = {"class_name"}]],
        !.cases = <<[Case(1, TRUE, <<List(<<1>>)>>, Null) EXCEPT
                       !.ops = <<"Stack", "push", "getState">>,
                       !.probes = <<[op |-> "push", args |-> 1, refs |-> (0 :> 2), repeat |-> 1]>>]>>]

\* Files that are right or wrong in one respect each.
Others ==
    LET probe(p)  == [Operations EXCEPT !.cases[1].probes = <<p>>]
        script(s) == [Draft EXCEPT !.comparison = Validated([bare |-> s])]
        call      == [op |-> "push", args |-> 1, refs |-> <<>>, repeat |-> 1]
        written(s) == [Both(Draft) EXCEPT !.solutions = <<s>>]
    IN  { Operations, probe([call EXCEPT !.refs = (0 :> 3)]), probe([call EXCEPT !.refs = (1 :> 1)]),
          probe([call EXCEPT !.repeat = 3]), probe([call EXCEPT !.op = "new"]),
          probe([call EXCEPT !.refs = (0 :> 1), !.repeat = 2]),
          [Operations EXCEPT !.cases[1].ops = <<"Stack", "getState", "get_state">>],
          script(Script), script([Script EXCEPT !.fn = "async"]),
          script([Script EXCEPT !.binds = FALSE]),
          script([Script EXCEPT !.binds = FALSE, !.plain = FALSE]),
          [Both(Draft) EXCEPT !.comparison = Validated([python |-> Script])],
          [Both(Draft) EXCEPT !.comparison =
             Validated([python |-> Script, rust |-> [Script EXCEPT !.fn = "async"]])],
          Both(Draft), [Both(Draft) EXCEPT !.memory = 64],
          written([ordinal |-> 1, bare |-> TRUE, code |-> {}]),
          written([ordinal |-> 1, bare |-> FALSE, code |-> {"python"}]),
          written([ordinal |-> 1, bare |-> FALSE, code |-> {"python", "rust"}]),
          [Draft EXCEPT !.form = "both"], [Draft EXCEPT !.limit = 280],
          [Draft EXCEPT !.kind = "sql"],
          [Draft EXCEPT !.kind = "sql", !.langs = <<[Function("mysql", <<>>, "") EXCEPT !.names = {}]>>],
          [Draft EXCEPT !.langs = <<Function("js", <<"ListNode">>, "")>>],
          [Draft EXCEPT !.langs = @ \o @], [Draft EXCEPT !.cases = <<>>],
          [Draft EXCEPT !.cases = @ \o @], [Draft EXCEPT !.cases[1].sample = FALSE],
          [Draft EXCEPT !.cases = <<Case(1, TRUE, <<Num(1)>>, Num(1)), Case(2, FALSE, <<Num(2)>>, Num(2))>>],
          [Node("ListNode", List(<<9>>), List(<<1>>)) EXCEPT !.langs[1].language = "rust"] }

\* What contends for problem p: other cases only, another limit, another memory and language.
NewCases  == [Draft EXCEPT !.cases = <<Case(1, TRUE, <<Num(2)>>, Num(2))>>]
NewLimit  == [NewCases EXCEPT !.limit = 3]
NewMemory == [Both(NewCases) EXCEPT !.memory = 512]
Other(p, f) == [f EXCEPT !.slug = p]

Bases == { <<>>, <<<<Draft, Other("q", Draft)>>>>, <<<<[Draft EXCEPT !.published = FALSE]>>>> }
Alone == {<<f>> : f \in Nodes \cup Values \cup Others} \cup {<<Draft, Draft>>}
MCSetups ==
    {[base |-> <<>>, dir |-> [one |-> d, two |-> <<>>]] : d \in Alone}
    \cup {[base |-> b, dir |-> [one |-> d, two |-> e]] : b \in Bases,
            d \in {<<Draft>>, <<NewLimit, Other("q", NewCases), Other("r", Draft)>>},
            e \in {<<NewMemory, Other("q", NewMemory)>>, <<Other("q", NewCases), NewCases>>}}

\* Object graphs of at most two nodes.
Two(vals, pointers) ==
    {[root |-> 1, val |-> v, ptr |-> p, idx |-> <<None, None>>]
        : v \in [1..2 -> vals], p \in [1..2 -> pointers]}
Nil == [root |-> None, val |-> <<>>, ptr |-> <<>>, idx |-> <<>>]
Numbers(ns) == {Num(n) : n \in ns}
Lists == {Nil} \cup Two(Numbers({1, 2}), {<<n>> : n \in 0..2})

MCObjects ==
    LET pairs == (0..2) \X (0..2)
    IN  [t \in {"ListNode"} |-> Lists]
        @@ [t \in {"TreeNode"} |-> {Nil} \cup Two(Numbers({1}), pairs)]
        @@ [t \in {"CyclicListNode"} |-> Two(Numbers({1}), {<<0>>})]
        @@ [t \in {"RandomListNode"} |-> {Nil} \cup Two(Numbers({1}), pairs)]
        @@ [t \in {"GraphNode"} |->
              {Nil} \cup Two(Numbers({1, 2}), {<<>>, <<1>>, <<2>>, <<1, 2>>})]
        @@ [t \in {"List[ListNode]"} |-> {<<>>} \cup {<<a, b>> : a, b \in {Nil} \cup
                                           Two(Numbers({1}), {<<n>> : n \in 0..2})}]
        @@ [t \in {""} |-> {Num(0), Num(1), Bool(TRUE), NaN, Inf(1), Huge, Null} \cup
              {Map([x |-> v]) : v \in {Num(1), Num(2), NaN}} \cup
              {Arr(s) : s \in {<<Num(1), Bool(TRUE), Num(2)>>, <<Num(2), Bool(TRUE), Num(1)>>,
                               <<Num(1), Num(1), Num(2)>>, <<Num(1), Bool(TRUE)>>,
                               <<Num(1), Map([x |-> Num(1)])>>, <<Num(1), Map([x |-> Num(2)])>>,
                               <<Map([x |-> Num(2)]), Num(1)>>, <<Num(1), Num(1)>>,
                               <<Num(2), Huge>>, <<Num(9), Huge>>, <<Num(1), NaN>>}}]
=============================================================================
