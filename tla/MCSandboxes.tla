---------------------------- MODULE MCSandboxes ----------------------------
(* Small instances of Sandboxes; worker processes are alike. *)
EXTENDS Sandboxes, TLC

AlikeWorkers == Permutations(Workers)
=============================================================================
