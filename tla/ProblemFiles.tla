---------------------------- MODULE ProblemFiles ----------------------------
(***************************************************************************)
(* The rules a problem file is held to before anything of it is stored      *)
(* (ProblemIn and ProblemFile of app/schemas/problem.py, with the language   *)
(* profiles of app/sandbox.py).                                            *)
(*                                                                         *)
(* A file is a record: slug, kind, limit (seconds per case), memory,        *)
(* published, comparison, form (how its languages are written), langs,      *)
(* cases, solutions and wrong solutions.  The input of a function's case is  *)
(* its arguments; that of an operations case is the constructor's, with the *)
(* names of the calls in ops.                                              *)
(***************************************************************************)
EXTENDS JudgeBudget, JsonValues

CONSTANTS
    MAX_PROBE_CALLS,    \* the most calls the probes of one case make
    NodeMax,            \* the largest value a Rust node holds; the smallest is -NodeMax - 1
    RustMethodName      \* what each op name is in Rust, or NoMethod (rust_method_name)

NoMethod == "none"

ASSUME FileAssumption ==
    /\ MAX_PROBE_CALLS \in Nat
    /\ NodeMax \in Nat

Profile ==
    LET plain == [functionModeOnly |-> FALSE, validator |-> FALSE, nodes |-> {},
                  minMemory |-> 1, startup |-> 0, i32 |-> FALSE]
    IN  [python |-> [plain EXCEPT !.validator = TRUE, !.nodes = AllNodeTypes],
         js     |-> [plain EXCEPT !.functionModeOnly = TRUE],
         rust   |-> [plain EXCEPT !.validator = TRUE, !.nodes = AllNodeTypes,
                                  !.minMemory = 128, !.startup = 12, !.i32 = TRUE],
         mysql  |-> [plain EXCEPT !.startup = 2]]

Offered(f) == {v.language : v \in Range(f.langs)}
Variant(langs, lang) == CHOOSE v \in Range(langs) : v.language = lang

-----------------------------------------------------------------------------
(* Custom validators *)

\* validator_codes: a bare string is Python's.
ValidatorCodes(comparison) ==
    IF DOMAIN comparison.validators = {"bare"}
      THEN [python |-> comparison.validators["bare"]] ELSE comparison.validators

Validates(comparison) == comparison.mode = "custom_validator"

\* A script that compiles defines validate as a plain function, an async one or a generator, whose parameters the
\* harness's call fits or not; plain says whether the source makes clear which validate it is.
\* What the harness finds when it runs it:
Loads(script) == script.fn = "def" /\ script.binds

\* Mutant of CallProblem: the parameters are not looked at.
NoPlainFunction(script) == script.plain /\ script.fn # "def"

\* What the seed command can see of it without running it:
CallProblem(script) == script.plain /\ (script.fn # "def" \/ ~script.binds)

-----------------------------------------------------------------------------
(* The rules of ProblemIn *)

LanguagesWrittenOnce(f) == f.form # "both"

LanguagesAreUnique(f) ==
    f.langs # <<>> /\ Cardinality(Offered(f)) = Len(f.langs)

ExactlyOneNameForKind(f) ==
    \A v \in Range(f.langs) :
        v.names = CASE f.kind = "function"   -> {"function_name"}
                    [] f.kind = "operations" -> {"class_name"}
                    [] f.kind = "sql"        -> {}

LanguageSupportsKindAndCodecs(f) ==
    \A v \in Range(f.langs) :
        /\ Profile[v.language].functionModeOnly => f.kind = "function"
        /\ ({v.returns} \cup Range(v.params)) \cap AllNodeTypes \subseteq Profile[v.language].nodes

SameParamsInEveryLanguage(f) ==
    \A v, w \in Range(f.langs) : Len(v.params) = Len(w.params)

MemoryFitsTheSandbox(f) ==
    \A lang \in Offered(f) : f.memory >= Profile[lang].minMemory

CustomValidatorForEveryLanguage(f) ==
    Validates(f.comparison) =>
        LET code == ValidatorCodes(f.comparison)
        IN  /\ DOMAIN code = Offered(f)
            /\ \A lang \in Offered(f) : Profile[lang].validator
            /\ "python" \in DOMAIN code => ~CallProblem(code.python)

SqlKindAndLanguageArePaired(f) ==
    \A v \in Range(f.langs) :
        /\ (f.kind = "sql") = (v.language = "mysql")
        /\ f.kind = "sql" => v.params = <<>> /\ v.returns = ""

-----------------------------------------------------------------------------
(* The rules of ProblemFile *)

UniqueOrdinals(f) ==
    /\ \A i, j \in DOMAIN f.cases : f.cases[i].ordinal = f.cases[j].ordinal => i = j
    /\ \A i, j \in DOMAIN f.solutions : f.solutions[i].ordinal = f.solutions[j].ordinal => i = j

IsIndex(x, size) == x.k = "num" /\ x.n \in 0..size - 1

\* The indices inside an encoding point at its own nodes.
WellFormed(type, wire) ==
    CASE type = "CyclicListNode" ->
            \/ wire \in {Null, Arr(<<>>)}
            \/ /\ IsList(wire) /\ Len(wire.v) = 2 /\ IsList(wire.v[1])
               /\ wire.v[2] = Num(-1) \/ IsIndex(wire.v[2], Len(wire.v[1].v))
      [] type = "RandomListNode" ->
            \A i \in DOMAIN Items(wire) :
                LET pair == wire.v[i]
                IN  /\ IsList(pair) /\ Len(pair.v) = 2
                    /\ pair.v[2] = Null \/ IsIndex(pair.v[2], Len(wire.v))
      [] type = "GraphNode" ->
            \A i \in DOMAIN Items(wire) :
                LET row == wire.v[i]
                IN  \A x \in IF IsList(row) THEN Range(row.v) ELSE {row} :
                        x.k = "num" /\ x.n - 1 \in 0..Len(wire.v) - 1
      [] OTHER -> TRUE

\* Every encoding of a case's input with the variant and type that declare it.
InputWires(f, c) ==
    UNION {{<<v, v.params[i], c.input[i]>> : i \in DOMAIN v.params \cap DOMAIN c.input}
             : v \in Range(f.langs)}

\* And of what it expects; a list of options gives each option, and the expected index of a
\* CyclicListNode is no encoding.
NodeWires(f, c) ==
    LET expected(v) ==
            IF f.kind # "function" \/ v.returns \in {"", "CyclicListNode"} THEN {}
            ELSE IF f.comparison.mode = "any_of" /\ IsList(c.expected) THEN Range(c.expected.v)
            ELSE {c.expected}
    IN  InputWires(f, c)
          \cup UNION {{<<v, v.returns, w>> : w \in expected(v)} : v \in Range(f.langs)}

\* A list of nodes holds encodings of its own.
Elements(type, wire) ==
    IF type \in DOMAIN EachType THEN {<<EachType[type], w>> : w \in Range(Items(wire))}
    ELSE {<<type, wire>>}

NodeWiresAreWellFormed(f) ==
    \A c \in Range(f.cases) : \A w \in NodeWires(f, c) : \A e \in Elements(w[2], w[3]) :
        WellFormed(e[1], e[2])

NodeValues(type, wire) ==
    CASE type \in {"ListNode", "TreeNode"} -> Range(Items(wire)) \ {Null}
      [] type = "CyclicListNode" -> IF Items(wire) = <<>> THEN {} ELSE Range(Items(wire.v[1]))
      [] type = "RandomListNode" -> {pair.v[1] : pair \in Range(Items(wire))}
      [] OTHER -> {}

NodeValuesFitEachLanguage(f) ==
    \A c \in Range(f.cases) : \A w \in NodeWires(f, c) :
        Profile[w[1].language].i32 =>
            \A e \in Elements(w[2], w[3]) : \A x \in NodeValues(e[1], e[2]) :
                x.k = "num" /\ x.n \in -NodeMax - 1..NodeMax

\* A ref fills an argument the probe has, with the result of one of the case's own ops; a probe
\* with refs is called once.
ProbesFeedAProbeValidator(f) ==
    \A c \in Range(f.cases) : c.probes # <<>> =>
        /\ f.kind = "operations"
        /\ Validates(f.comparison)
        /\ \A p \in Range(c.probes) :
             /\ DOMAIN p.refs \subseteq 0..p.args - 1
             /\ \A i \in DOMAIN p.refs : p.refs[i] \in 1..Len(c.ops) - 1
             /\ DOMAIN p.refs # {} => p.repeat = 1
        /\ FoldSeq(LAMBDA p, n : p.repeat + n, 0, c.probes) <= MAX_PROBE_CALLS

OpsAreRustMethods(f) ==
    f.kind = "operations" /\ "rust" \in Offered(f) =>
        LET called(c) == Range(Tail(c.ops)) \cup {p.op : p \in Range(c.probes)}
            ops == UNION {called(c) : c \in Range(f.cases)}
        IN  /\ \A op \in ops : RustMethodName[op] # NoMethod
            /\ \A op, other \in ops : RustMethodName[op] = RustMethodName[other] => op = other

HasASampleCase(f) == \E c \in Range(f.cases) : c.sample

\* Code without a language is the one language's.
SolutionCodePerLanguage(f) ==
    LET named(s) == IF s.bare THEN Offered(f) ELSE s.code
    IN  /\ \A s \in Range(f.solutions \o f.wrong) :
             /\ s.bare => Len(f.langs) = 1
             /\ named(s) # {} /\ named(s) \subseteq Offered(f)
        /\ f.solutions # <<>> => UNION {named(s) : s \in Range(f.solutions)} = Offered(f)

FitsTheJudgeBudget(f) ==
    \A lang \in Offered(f) : FitsJobTimeout(Len(f.cases), f.limit, Profile[lang].startup)

Valid(f) ==
    /\ LanguagesWrittenOnce(f)
    /\ LanguagesAreUnique(f)
    /\ ExactlyOneNameForKind(f)
    /\ LanguageSupportsKindAndCodecs(f)
    /\ SameParamsInEveryLanguage(f)
    /\ MemoryFitsTheSandbox(f)
    /\ CustomValidatorForEveryLanguage(f)
    /\ SqlKindAndLanguageArePaired(f)
    /\ f.cases # <<>>
    /\ UniqueOrdinals(f)
    /\ NodeWiresAreWellFormed(f)
    /\ NodeValuesFitEachLanguage(f)
    /\ ProbesFeedAProbeValidator(f)
    /\ OpsAreRustMethods(f)
    /\ HasASampleCase(f)
    /\ SolutionCodePerLanguage(f)
    /\ FitsTheJudgeBudget(f)
=============================================================================
