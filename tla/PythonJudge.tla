---------------------------- MODULE PythonJudge ----------------------------
(***************************************************************************)
(* One case of a problem judged by judge/harness.py: the arguments decoded,  *)
(* the submission called, its answer encoded and compared.  It is what       *)
(* Catalog leaves open as Harness.                                         *)
(***************************************************************************)
EXTENDS Catalog, Codecs

CONSTANT Objects    \* what a submission may return for each return type

\* What a submission called with args may return: a value of its own, an argument of that type
\* it was given, or for a cyclic list any node of it.
Returned(variant, args) ==
    LET type == variant.returns
        given == {args[i] : i \in {j \in DOMAIN args \cap DOMAIN variant.params :
                                      variant.params[j] = type}}
    IN  Objects[type] \cup IF type = "CyclicListNode"
                              THEN UNION {{[o EXCEPT !.root = n] : n \in 0..Len(o.val)} : o \in given}
                              ELSE given

\* The value is what the wire stands for, however the one is built and the other computed.
Denotes(type, value, args, w) ==
    LET one(t, o, x) == Build(t, x) # Raised /\ SameStructure(t, o, Build(t, x))
    IN  CASE type = "CyclicListNode" ->
                IF w = Null THEN value.root = None
                ELSE value.root # None /\ w = Num(value.root - 1) /\ value.idx = args[1].idx
          [] type \in NodeTypes -> one(type, value, w)
          [] type \in DOMAIN EachType ->
                /\ Len(value) = Len(Items(w))
                /\ \A i \in DOMAIN value : one(EachType[type], value[i], w.v[i])
          [] OTHER -> value = w

RightAnswer(type, value, args, expected, comparison) ==
    \E w \in Acceptable(expected, comparison) : Denotes(type, value, args, w)

\* An expected answer that a submission can give at all: each wire that would do is the encoding
\* of what it stands for.
Attainable(type, expected, comparison) ==
    CASE type = "CyclicListNode" -> TRUE
      [] type \in AllNodeTypes ->
            \A w \in Acceptable(expected, comparison) :
               LET object == DecodeArg(type, w)
               IN  object # Raised /\ EncodeResult(object, type) = w
      [] OTHER -> HasNaN(expected) => NaNMatches(expected, comparison)

\* A tolerance meets an integer that no float can hold.
TooLarge(encoded, expected, comparison) ==
    comparison.mode = "float_tolerance" /\ (HasHuge(encoded) \/ HasHuge(expected))

\* One case in judge/harness.py: decode, call, encode, compare.  A custom validator says what it
\* likes, may raise and may overrun; a comparison that overflows costs the run its report.
CaseStatus(variant, comparison, value, expected) ==
    LET encoded == EncodeResult(value, variant.returns)
        verdict == ("equal" :> "passed") @@ ("unequal" :> "wrong_answer")
                     @@ ("overflow" :> "judge_error")
    IN  CASE encoded = Raised -> {"runtime_error"}
          [] Validates(comparison) ->
                {"passed", "wrong_answer", "judge_error", "time_limit_exceeded"}
          [] OTHER -> {verdict[outcome] : outcome \in Equal(encoded, expected, comparison)}

\* The outcomes the Python harness may report for a problem that was read; another language's
\* harness is not modelled.
PythonAnswers(l) ==
    LET variant == Variant(l.langs.langs, l.lang)
        comparison == l.row.comparison
        answers(c, args) ==
            UNION {{[status |-> status,
                     right  |-> RightAnswer(variant.returns, value, args, c.expected, comparison),
                     fair   |-> /\ ~Validates(comparison)
                                /\ Attainable(variant.returns, c.expected, comparison)
                                /\ Tidy(variant.returns, value)
                                /\ status = "judge_error" =>
                                     ~TooLarge(EncodeResult(value, variant.returns), c.expected,
                                               comparison)]
                    : status \in CaseStatus(variant, comparison, value, c.expected)}
                   : value \in Returned(variant, args)}
        OnCase(c) == LET args == DecodeArgs(c.input, variant.params)
                     IN  IF args = Raised THEN {Outcome("runtime_error")} ELSE answers(c, args)
    IN  IF l.lang # "python" THEN {Outcome("other harness")}
        ELSE UNION {OnCase(c) : c \in CasesToJudge(l)}

-----------------------------------------------------------------------------
(* Properties *)

\* An answer that is one of those the comparison accepts passes, however it is built: shared
\* subtrees, a list reached by another node, the input itself.  One that is not never does: a list
\* that loops is not the list it begins with.  Only where a tolerance meets an integer that no
\* float can hold may there be no verdict on the answer: the comparison raises and the report is
\* lost.
PassesIffRight ==
    judged # Absent /\ judged.fair => (judged.right <=> judged.status = "passed")
=============================================================================
