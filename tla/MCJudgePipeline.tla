-------------------------- MODULE MCJudgePipeline --------------------------
(* Small instances of JudgePipeline: all submissions share one in-flight key. *)
EXTENDS JudgePipeline, TLC

CONSTANT k1

MCKeyOf == [s \in Subs |-> k1]

\* Job slots are alike, and so are Submits to one key (a Run is not).
Interchangeable == Permutations(Workers) \cup Permutations(Subs \ Runs)
=============================================================================
