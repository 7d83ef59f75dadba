----------------------------- MODULE TwoFactor -----------------------------
(***************************************************************************)
(* Two-factor enrollment of one account (services/totp_service.py over     *)
(* app/totp.py): the secret, the last time step accepted and the recovery  *)
(* codes, one SQL statement a step at READ COMMITTED.  A code is the       *)
(* secret and the step it shows; no two of them show the same six digits.  *)
(* A sheet of recovery codes is its one code.                              *)
(*                                                                         *)
(* A request works on the row it loaded when it began.  enable holds the   *)
(* user's row from its first UPDATE to its commit, and a transaction that  *)
(* replaces the sheets holds the rows it deletes.  A DELETE that waits for *)
(* such a row goes on with the rows it had found, and sees no later ones.  *)
(***************************************************************************)
EXTENDS LoginLockout, FiniteSets

CONSTANTS
    Requests,
    MaxSecrets,    \* bound: secrets ever minted
    MaxSheets,     \* bound: sheets of recovery codes ever issued
    MaxPasswords   \* bound: password changes

ASSUME TwoFactorAssumption ==
    /\ IsFiniteSet(Requests)
    /\ MaxSecrets \in Nat \ {0} /\ MaxSheets \in Nat \ {0} /\ MaxPasswords \in Nat

WINDOW == 1

VARIABLES
    row,       \* of users: secret (0: none), enabled, last step (0: none), version of the password
    sheets,    \* recovery codes with a row and used_at null
    secrets,   \* secrets minted so far: 1..secrets
    printed,   \* sheets issued so far: 1..printed
    pc,        \* where each request stands
    me,        \* what it is and knows: see Nobody
    gone,      \* rows of recovery_codes it has deleted and not committed
    accepted, replayed, proved, torn, astray   \* history: see the properties

enrollment == <<row, sheets, secrets, printed>>
proof == <<accepted, replayed, proved, torn, astray>>

Blank == [secret |-> 0, enabled |-> FALSE, last |-> 0, pw |-> 0]

\* The row a request loaded, the time step its code matched, the version of the password it has
\* proved, the sheets a DELETE that waits had found; and, for the properties, what the row was when
\* it came.
Nobody == [kind |-> "login", usr |-> Blank, step |-> 0, pv |-> 0, snap |-> {}, at |-> <<0, FALSE>>]

Codes == (1..MaxSecrets) \X (1..LastStep)

\* The request goes on, with what it has learnt; or is answered and forgotten.
GoWith(r, l, m) == pc' = [pc EXCEPT ![r] = l] /\ me' = [me EXCEPT ![r] = m]
Goto(r, l) == GoWith(r, l, IF l = "idle" THEN Nobody ELSE me[r])

\* Row locks of other transactions.
UserHeld(r) == \E q \in Requests \ {r} : pc[q] \in {"enabling", "enabled"}
SheetsHeld(r) == UNION {gone[q] : q \in Requests \ {r}}

\* A write that was decided on an enrollment which has changed since it was loaded.
Stale(r) == me[r].usr.enabled # row.enabled \/ me[r].usr.secret # row.secret

Accept(c) ==
    /\ accepted' = accepted \cup {c}
    /\ replayed' = (replayed \/ c \in accepted)

-----------------------------------------------------------------------------
(* totp.verify *)

\* The step a code matches, within the window and after the last one accepted.
Matches(secret, last, c) ==
    {k \in (now - WINDOW)..(now + WINDOW) : c = <<secret, k>> /\ k > last}

-----------------------------------------------------------------------------
(* begin_setup and enable *)

\* Mutant of BeginSetup: also for an account that has it on.
SetupAnyway(r) ==
    /\ pc[r] = "setup"
    /\ ~UserHeld(r) /\ secrets < MaxSecrets
    /\ secrets' = secrets + 1
    /\ row' = [row EXCEPT !.secret = secrets + 1]
    /\ torn' = (torn \/ Stale(r))
    /\ Goto(r, "idle")
    /\ UNCHANGED <<lockout, sheets, printed, gone, accepted, replayed, proved, astray>>

BeginSetup(r) ==
    /\ pc[r] = "setup"
    /\ \/ me[r].usr.enabled /\ UNCHANGED <<enrollment, torn>>
       \/ /\ ~me[r].usr.enabled /\ ~UserHeld(r) /\ secrets < MaxSecrets
          /\ secrets' = secrets + 1
          /\ row' = [row EXCEPT !.secret = secrets + 1]
          /\ torn' = (torn \/ Stale(r))
          /\ UNCHANGED <<sheets, printed>>
    /\ Goto(r, "idle")
    /\ UNCHANGED <<lockout, gone, accepted, replayed, proved, astray>>

\* A code of the pending secret; a wrong one is not counted.
CheckFirstCode(r) ==
    /\ pc[r] = "enable"
    /\ \/ Goto(r, "idle")
       \/ /\ ~me[r].usr.enabled /\ me[r].usr.secret # 0
          /\ \E c \in Codes : \E k \in Matches(me[r].usr.secret, 0, c) :
                GoWith(r, "activate", [me[r] EXCEPT !.step = k])
    /\ UNCHANGED <<lockout, enrollment, gone, proof>>

\* The UPDATE of the row, flushed by the DELETE of the sheets.
Activate(r) ==
    /\ pc[r] = "activate" /\ ~UserHeld(r)
    /\ Goto(r, "enabling")
    /\ UNCHANGED <<lockout, enrollment, gone, proof>>

\* The sheets a DELETE finds: of those in its snapshot, the ones that are left.
Found(r) == IF me[r].snap = {} THEN sheets ELSE sheets \cap me[r].snap

\* A DELETE of the sheets meets one that another transaction has deleted, and waits.
AwaitSheets(r) ==
    /\ pc[r] \in {"enabling", "replace", "clear"} /\ me[r].snap = {}
    /\ sheets \cap SheetsHeld(r) # {}
    /\ GoWith(r, pc[r], [me[r] EXCEPT !.snap = sheets])
    /\ UNCHANGED <<lockout, enrollment, gone, proof>>

\* _replace_recovery_codes, and clear: DELETE of the sheets there are.
DeleteSheets(r) ==
    /\ pc[r] \in {"enabling", "replace", "clear"}
    /\ Found(r) \cap SheetsHeld(r) = {}
    /\ gone' = [gone EXCEPT ![r] = Found(r)]
    /\ GoWith(r, CASE pc[r] = "enabling" -> "enabled" [] pc[r] = "replace" -> "replaced" [] OTHER -> "cleared",
              [me[r] EXCEPT !.snap = {}])
    /\ UNCHANGED <<lockout, enrollment, proof>>

\* A new sheet is out of the sight of a clear whose DELETE has begun, or replaces those of an
\* enrollment that is off.
OutOfSight(r) ==
    \/ pc[r] = "replaced" /\ ~row.enabled
    \/ \E q \in Requests : pc[q] = "cleared" \/ (pc[q] = "clear" /\ me[q].snap # {})

\* ...INSERT of a new one, and the commit: of enable, or of regenerate_recovery_codes.
CommitSheet(r) ==
    /\ pc[r] \in {"enabled", "replaced"}
    /\ printed < MaxSheets
    /\ printed' = printed + 1
    /\ sheets' = (sheets \ gone[r]) \cup {printed + 1}
    /\ gone' = [gone EXCEPT ![r] = {}]
    /\ IF pc[r] = "enabled"
       THEN /\ row' = [row EXCEPT !.enabled = TRUE, !.last = me[r].step]
            /\ Accept(<<me[r].usr.secret, me[r].step>>)
            /\ proved' = proved \cup {me[r].usr.secret}
            /\ torn' = (torn \/ Stale(r))
       ELSE UNCHANGED <<row, accepted, replayed, proved, torn>>
    /\ astray' = IF OutOfSight(r) THEN astray \cup {printed + 1} ELSE astray
    /\ Goto(r, "idle")
    /\ UNCHANGED <<lockout, secrets>>

-----------------------------------------------------------------------------
(* verify_second_factor *)

\* A code that matches the row as loaded is claimed next; any other is refused.
CheckCode(r) ==
    /\ pc[r] = "verify"
    /\ \/ \E c \in Codes : \E k \in Matches(me[r].usr.secret, me[r].usr.last, c) :
             GoWith(r, "spend", [me[r] EXCEPT !.step = k])
       \/ Goto(r, "burn")
       \/ Goto(r, "wrong")
    /\ UNCHANGED <<lockout, enrollment, gone, proof>>

\* Mutant of SpendStep: the claim trusts the read.
SpendUnchecked(r) ==
    /\ pc[r] = "spend" /\ ~UserHeld(r)
    /\ row' = [row EXCEPT !.last = me[r].step]
    /\ Accept(<<me[r].usr.secret, me[r].step>>)
    /\ torn' = (torn \/ Stale(r))
    /\ Goto(r, "right")
    /\ UNCHANGED <<lockout, sheets, secrets, printed, gone, proved, astray>>

\* UPDATE ... SET totp_last_step WHERE it is null or older.
SpendStep(r) ==
    /\ pc[r] = "spend" /\ ~UserHeld(r)
    /\ IF row.last < me[r].step
       THEN /\ row' = [row EXCEPT !.last = me[r].step]
            /\ Accept(<<me[r].usr.secret, me[r].step>>)
            /\ torn' = (torn \/ Stale(r))
            /\ Goto(r, "right")
       ELSE Goto(r, "wrong") /\ UNCHANGED <<row, accepted, replayed, torn>>
    /\ UNCHANGED <<lockout, sheets, secrets, printed, gone, proved, astray>>

\* UPDATE ... SET used_at WHERE it is null.
BurnCode(r) ==
    /\ pc[r] = "burn"
    /\ \E b \in 1..printed \ SheetsHeld(r) :
          IF b \in sheets
          THEN sheets' = sheets \ {b} /\ Accept(<<0, b>>) /\ Goto(r, "right")
          ELSE Goto(r, "wrong") /\ UNCHANGED <<sheets, accepted, replayed>>
    /\ UNCHANGED <<lockout, row, secrets, printed, gone, proved, torn, astray>>

-----------------------------------------------------------------------------
(* clear, for disable and the operator's command *)

\* Mutant of Clear: the sheets stay.
ClearRowOnly(r) ==
    /\ pc[r] = "cleared" /\ ~UserHeld(r)
    /\ row' = [row EXCEPT !.secret = 0, !.enabled = FALSE, !.last = 0]
    /\ gone' = [gone EXCEPT ![r] = {}]
    /\ torn' = (torn \/ Stale(r))
    /\ Goto(r, "idle")
    /\ UNCHANGED <<lockout, sheets, secrets, printed, accepted, replayed, proved, astray>>

Clear(r) ==
    /\ pc[r] = "cleared" /\ ~UserHeld(r)
    /\ row' = [row EXCEPT !.secret = 0, !.enabled = FALSE, !.last = 0]
    /\ sheets' = sheets \ gone[r]
    /\ gone' = [gone EXCEPT ![r] = {}]
    /\ torn' = (torn \/ Stale(r))
    /\ Goto(r, "idle")
    /\ UNCHANGED <<lockout, secrets, printed, accepted, replayed, proved, astray>>
=============================================================================
