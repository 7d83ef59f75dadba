------------------------------ MODULE Compare ------------------------------
(***************************************************************************)
(* Comparing a returned value with the expected one (compare of             *)
(* judge/harness.py, and the language's share of a comparison,              *)
(* app/comparison.py).                                                     *)
(*                                                                         *)
(* true and 1 are different values here, and it is for JsonEqual to keep     *)
(* them apart.  A comparison is equal or unequal, or it raises               *)
(* OverflowError.                                                          *)
(***************************************************************************)
EXTENDS JsonValues

\* Two lists of one length, or two maps with the same keys, related member by member.
MemberByMember(related(_, _), a, b) ==
    LET f == Members(a)
        g == Members(b)
    IN  DOMAIN f = DOMAIN g /\ \A i \in DOMAIN f : related(f[i], g[i])

\* Does p hold of x or of a value inside x?
RECURSIVE Somewhere(_, _)
Somewhere(p(_), x) ==
    \/ p(x)
    \/ Holds(x) /\ \E i \in DOMAIN Members(x) : Somewhere(p, Members(x)[i])

HasNaN(x)   == LET nan(y) == y.k = "nan" IN Somewhere(nan, x)
HasHuge(x)  == LET huge(y) == y = Huge IN Somewhere(huge, x)
Hashable(x) == LET map(y) == y.k = "map" IN ~Somewhere(map, x)

-----------------------------------------------------------------------------
(* The harness *)

\* == with JSON's types: containers member by member, and NaN equals nothing.
RECURSIVE JsonEqual(_, _)
JsonEqual(a, b) ==
    /\ a.k = b.k
    /\ a.k # "nan"
    /\ IF Holds(a) THEN MemberByMember(JsonEqual, a, b) ELSE a = b

Outcomes(yes) == {IF yes THEN "equal" ELSE "unequal"}

\* Two numbers: infinities equal themselves, NaN equals NaN.  math.isnan and a float minus an int
\* overflow on an integer no float can hold; an integer minus it does not, and a Num is either.
NumbersEqual(a, b, eps) ==
    CASE a = Huge -> {"overflow"}
      [] b = Huge -> {"overflow"} \cup IF a.k = "num" THEN {"unequal"} ELSE {}
      [] OTHER    -> Outcomes(a = b \/ (a.k = "num" /\ b.k = "num" /\ a.n - b.n \in -eps..eps))

\* The outcomes of a comparison within eps: lists member by member up to the first that is not
\* equal, whatever else exactly, a map and the numbers in it too.
RECURSIVE FloatEqual(_, _, _)
FloatEqual(a, b, eps) ==
    IF IsNumber(a) /\ IsNumber(b) THEN NumbersEqual(a, b, eps)
    ELSE IF IsList(a) /\ IsList(b) /\ Len(a.v) = Len(b.v)
      THEN LET of(i) == FloatEqual(a.v[i], b.v[i], eps)
               alike == {i \in DOMAIN a.v : "equal" \in of(i)}
               reached == {i \in DOMAIN a.v : 1..i - 1 \subseteq alike}
           IN  UNION {of(i) \ {"equal"} : i \in reached}
               \cup IF alike = DOMAIN a.v THEN {"equal"} ELSE {}
    ELSE Outcomes(JsonEqual(a, b))

\* Counter: how often each member occurs.  json.loads gives every NaN as one object, so as keys
\* they are the same.
Counter(s) == [x \in Range(s) |-> Cardinality({i \in DOMAIN s : s[i] = x})]

\* The fallback for members that cannot be hashed: take each item of a out of b.
RECURSIVE TakesOut(_, _)
TakesOut(a, b) ==
    \/ a = <<>>
    \/ \E i \in DOMAIN b :
         /\ JsonEqual(b[i], Head(a))
         /\ \A j \in 1..i - 1 : ~JsonEqual(b[j], Head(a))
         /\ TakesOut(Tail(a), RemoveAt(b, i))

MultisetEqual(a, b) ==
    IF ~IsList(a) \/ ~IsList(b) THEN JsonEqual(a, b)
    ELSE /\ Len(a.v) = Len(b.v)
         /\ IF Hashable(a) /\ Hashable(b)
              THEN Counter(a.v) = Counter(b.v)
              ELSE TakesOut(a.v, b.v)

\* A comparison is [mode, epsilon, ...]; a mode nobody knows is "exact".
Equal(actual, expected, comparison) ==
    CASE comparison.mode = "unordered"       -> Outcomes(MultisetEqual(actual, expected))
      [] comparison.mode = "float_tolerance" -> FloatEqual(actual, expected, comparison.epsilon)
      [] comparison.mode = "any_of"          ->
            Outcomes(\E option \in IF IsList(expected) THEN Range(expected.v) ELSE {expected} :
                        JsonEqual(actual, option))
      [] OTHER                               -> Outcomes(JsonEqual(actual, expected))

-----------------------------------------------------------------------------
(* What it promises, said without its ways of computing it: the values that are right *)

\* A number may be off by eps, on its own or in lists; what a map holds may not.
RECURSIVE Nearby(_, _)
Nearby(x, eps) ==
    CASE x.k = "num" -> {Num(x.n + d) : d \in -eps..eps}
      [] IsList(x)   ->
            LET near == [i \in DOMAIN x.v |-> Nearby(x.v[i], eps)]
            IN  {Arr(s) : s \in {t \in [DOMAIN x.v -> UNION Range(near)] :
                                   \A i \in DOMAIN t : t[i] \in near[i]}}
      [] OTHER       -> {x}

Acceptable(expected, comparison) ==
    CASE comparison.mode = "float_tolerance"              -> Nearby(expected, comparison.epsilon)
      [] comparison.mode = "unordered" /\ IsList(expected) ->
            {Arr([i \in DOMAIN expected.v |-> expected.v[p[i]]])
               : p \in Bijection(DOMAIN expected.v, DOMAIN expected.v)}
      [] comparison.mode = "any_of" /\ IsList(expected)    -> Range(expected.v)
      [] OTHER                                            -> {expected}

\* No comparison matches NaN but within a tolerance or among members counted by hash.
NaNMatches(expected, comparison) ==
    LET lost(x) == x.k = "map" /\ HasNaN(x)
    IN  CASE comparison.mode = "float_tolerance" -> ~Somewhere(lost, expected)
          [] comparison.mode = "unordered"       -> IsList(expected) /\ Hashable(expected)
          [] OTHER                               -> FALSE
=============================================================================
