---------------------------- MODULE SessionRules ----------------------------
(***************************************************************************)
(* What the refresh tokens of one account promise, without transactions:   *)
(* a session is opened by a login; a live token is exchanged for one new   *)
(* token; the token just exchanged may be exchanged once more (two tabs,   *)
(* or a lost answer); and sessions can be ended.  A token never comes back.*)
(***************************************************************************)
EXTENDS Naturals

CONSTANT MaxTokens

VARIABLES
    issued,   \* tokens 1..issued have been handed out
    live,     \* those that can be exchanged
    grace     \* those that were exchanged and may be exchanged once more

vars == <<issued, live, grace>>

Init ==
    /\ issued \in 0..MaxTokens
    /\ live \subseteq 1..issued
    /\ grace \subseteq 1..issued \ live

New == issued + 1

Open ==
    /\ issued' = New
    /\ live' = live \cup {New}
    /\ UNCHANGED grace

Rotate(t) ==
    /\ t \in live
    /\ issued' = New
    /\ live' = (live \ {t}) \cup {New}
    /\ grace' = grace \cup {t}

Again(t) ==
    /\ t \in grace
    /\ issued' = New
    /\ live' = live \cup {New}
    /\ grace' = grace \ {t}

\* Sessions are ended: none becomes live, and no second exchange is won back.
End ==
    /\ live' \subseteq live
    /\ grace' \subseteq grace
    /\ UNCHANGED issued

Next == Open \/ End \/ \E t \in 1..issued : Rotate(t) \/ Again(t)

Spec == Init /\ [][Next]_vars
=============================================================================
