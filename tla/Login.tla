------------------------------- MODULE Login -------------------------------
(***************************************************************************)
(* Signing in to one account and managing its second factor: the handlers  *)
(* of routers/auth.py over the lockout and the enrollment.  Anybody may    *)
(* send any request, with the right password and code or not.              *)
(***************************************************************************)
EXTENDS TwoFactor

VARIABLES
    verified,    \* users.email_verified
    challenges,  \* password fingerprints of the MFA challenges handed out
    guesses      \* history: wrong answers since the counters were last reset

login == <<verified, challenges, guesses>>
vars == <<lockout, enrollment, pc, me, gone, proof, login>>

Kinds == {"login", "mfa", "setup", "enable", "disable", "regenerate", "change", "confirm", "operator"}

Rows == [secret : 0..MaxSecrets, enabled : BOOLEAN, last : 0..LastStep, pw : 0..MaxPasswords]

\* Where a request may stand, and what it may know.
Stands == {"idle", "load", "password", "count", "lock", "release", "issue", "challenge", "guard",
           "setup", "enable", "activate", "enabling", "enabled", "verify", "spend", "burn", "right",
           "wrong", "replace", "replaced", "clear", "cleared", "change", "confirm"}

Minds == [kind : Kinds, usr : Rows, step : 0..LastStep, pv : 0..MaxPasswords, snap : SUBSET (1..printed),
          at : (0..MaxPasswords) \X BOOLEAN]

TypeOK ==
    /\ now \in 0..LastStep /\ hits \in 0..Limit /\ fails \in Nat /\ lock \in BOOLEAN
    /\ row \in Rows
    /\ secrets \in 0..MaxSecrets /\ printed \in 0..MaxSheets
    /\ row.secret <= secrets
    /\ sheets \subseteq 1..printed
    /\ pc \in [Requests -> Stands] /\ me \in [Requests -> Minds]
    /\ gone \in [Requests -> SUBSET (1..printed)]
    /\ \A r \in Requests : gone[r] # {} => pc[r] \in {"enabled", "replaced", "cleared"}
    /\ \A r \in Requests : me[r].snap # {} => pc[r] \in {"enabling", "replace", "clear"}
    /\ verified \in BOOLEAN
    /\ challenges \subseteq 0..row.pw
    /\ guesses \in Nat
    /\ {replayed, torn} \subseteq BOOLEAN /\ proved \subseteq 1..secrets /\ astray \subseteq 1..printed

\* A new account, or one that has just turned two-factor on.
Init ==
    /\ now = 1 /\ hits = 0 /\ fails = 0 /\ lock = FALSE
    /\ \/ /\ verified \in BOOLEAN /\ row = Blank
          /\ secrets = 0 /\ printed = 0 /\ sheets = {} /\ proved = {} /\ accepted = {}
       \/ /\ verified = TRUE
          /\ row = [Blank EXCEPT !.secret = 1, !.enabled = TRUE, !.last = 1]
          /\ secrets = 1 /\ printed = 1 /\ sheets = {1} /\ proved = {1} /\ accepted = {<<1, 1>>}
    /\ challenges = {} /\ guesses = 0 /\ replayed = FALSE /\ torn = FALSE /\ astray = {}
    /\ pc = [r \in Requests |-> "idle"]
    /\ me = [r \in Requests |-> Nobody]
    /\ gone = [r \in Requests |-> {}]

-----------------------------------------------------------------------------
(* Arrival *)

Doing(ks) == {q \in Requests : pc[q] # "idle" /\ me[q].kind \in ks}

\* Bounds, at the door so that nothing that came in is stuck on them.
WithinBounds(k) ==
    /\ k = "setup" => secrets + Cardinality(Doing({"setup"})) < MaxSecrets
    /\ k \in {"enable", "regenerate"} => printed + Cardinality(Doing({"enable", "regenerate"})) < MaxSheets
    /\ k = "change" => row.pw + Cardinality(Doing({"change"})) < MaxPasswords

\* rate_limit_auth; the link of the verification mail and the command line are not limited.
Arrive(r, k) ==
    /\ pc[r] = "idle" /\ WithinBounds(k)
    /\ IF k \in {"confirm", "operator"}
       THEN (k = "confirm" => ~verified) /\ (k = "operator" => row.enabled) /\ UNCHANGED hits
       ELSE WithinRateLimit(hits + 1) /\ hits' = hits + 1
    /\ k \in {"setup", "enable", "disable", "regenerate", "change"} => verified
    /\ GoWith(r, CASE k = "login" -> "guard" [] k = "mfa" -> "challenge" [] k = "confirm" -> "confirm" [] OTHER -> "load",
              [Nobody EXCEPT !.kind = k, !.at = <<row.pw, row.enabled>>])
    /\ UNCHANGED <<now, fails, lock, enrollment, gone, proof, verified, challenges, guesses>>

\* The row as current_user, or the operator's command, reads it.
LoadUser(r) ==
    /\ pc[r] = "load"
    /\ GoWith(r, CASE me[r].kind \in {"disable", "regenerate"} -> "guard"
                   [] me[r].kind = "operator" -> "clear" [] OTHER -> me[r].kind,
              [me[r] EXCEPT !.usr = row])
    /\ UNCHANGED <<lockout, enrollment, gone, proof, login>>

\* 429 while the account is locked; then login checks the password, login_2fa the code.
CheckLock(r) ==
    /\ pc[r] = "guard"
    /\ Goto(r, IF lock THEN "idle"
               ELSE CASE me[r].kind = "mfa" -> "verify" [] me[r].kind = "regenerate" /\ me[r].usr.enabled -> "verify"
                      [] me[r].kind \in {"login", "disable"} -> "password" [] OTHER -> "idle")
    /\ UNCHANGED <<lockout, enrollment, gone, proof, login>>

-----------------------------------------------------------------------------
(* The MFA challenge: a signed token that carries a fingerprint of the password *)

Handed == challenges \cup {row.pw}

\* Mutant of Redeemable: the fingerprint is not compared.
RedeemableAnyway(v) == v \in challenges /\ row.enabled

\* Whether a challenge is still worth a code.
Redeemable(v) == v \in challenges /\ row.enabled /\ v = row.pw

-----------------------------------------------------------------------------
(* login, login_2fa and _guard_guessing *)

Guess == guesses' = guesses + 1 /\ UNCHANGED <<verified, challenges>>

\* A wrong password, or an account that is not verified, is a failure; the right one of an account
\* with two-factor on is worth a challenge, and leaves the counters alone.
Authenticate(r) ==
    /\ pc[r] = "password" /\ me[r].kind = "login"
    /\ \/ Goto(r, "count") /\ Guess
       \/ /\ verified
          /\ challenges' = IF row.enabled THEN Handed ELSE challenges
          /\ IF row.enabled THEN Goto(r, "idle")
             ELSE GoWith(r, "release", [me[r] EXCEPT !.usr = row, !.pv = row.pw])
          /\ UNCHANGED <<verified, guesses>>
    /\ UNCHANGED <<lockout, enrollment, gone, proof>>

\* A challenge is forged or expired, or its password is no longer the one, or two-factor is off: 401.
RedeemChallenge(r) ==
    /\ pc[r] = "challenge"
    /\ \/ Goto(r, "idle")
       \/ \E v \in 0..MaxPasswords :
             /\ Redeemable(v)
             /\ GoWith(r, "guard", [me[r] EXCEPT !.usr = row, !.pv = v])
    /\ UNCHANGED <<lockout, enrollment, gone, proof, login>>

\* The password that disable asks for besides the code.
DisablePassword(r) ==
    /\ pc[r] = "password" /\ me[r].kind = "disable"
    /\ \/ ~me[r].usr.enabled /\ Goto(r, "idle") /\ UNCHANGED guesses
       \/ me[r].usr.enabled /\ Goto(r, "verify") /\ UNCHANGED guesses
       \/ me[r].usr.enabled /\ Goto(r, "count") /\ guesses' = guesses + 1
    /\ UNCHANGED <<lockout, enrollment, gone, proof, verified, challenges>>

CodeRight(r) ==
    /\ pc[r] = "right"
    /\ Goto(r, CASE me[r].kind = "mfa" -> "release" [] me[r].kind = "disable" -> "clear" [] OTHER -> "replace")
    /\ UNCHANGED <<lockout, enrollment, gone, proof, login>>

CodeWrong(r) ==
    /\ pc[r] = "wrong" /\ Goto(r, "count") /\ Guess
    /\ UNCHANGED <<lockout, enrollment, gone, proof>>

\* Mutant of CountFailure: one failure too many before the lock.
CountFailureLate(r) ==
    /\ pc[r] = "count"
    /\ IncrLoginFailures
    /\ Goto(r, IF fails' > MaxFailures THEN "lock" ELSE "idle")
    /\ UNCHANGED <<enrollment, gone, proof, login>>

\* The failure is counted, and the account locked once there are enough.
CountFailure(r) ==
    /\ pc[r] = "count"
    /\ IncrLoginFailures
    /\ Goto(r, IF fails' >= MaxFailures THEN "lock" ELSE "idle")
    /\ UNCHANGED <<enrollment, gone, proof, login>>

LockAccount(r) ==
    /\ pc[r] = "lock" /\ SetLoginLock /\ Goto(r, "idle")
    /\ UNCHANGED <<enrollment, gone, proof, login>>

\* Both factors are there: the counters are cleared, then the session is opened.
Release(r) ==
    /\ pc[r] = "release" /\ ClearLoginFailures /\ guesses' = 0
    /\ Goto(r, IF me[r].kind = "confirm" THEN "idle" ELSE "issue")
    /\ UNCHANGED <<enrollment, gone, proof, verified, challenges>>

IssueSession(r) ==
    /\ pc[r] = "issue" /\ Goto(r, "idle")
    /\ UNCHANGED <<lockout, enrollment, gone, proof, login>>

-----------------------------------------------------------------------------
(* The password and the address *)

\* change_password and reset_password, whose sessions are another module's.
ChangePassword(r) ==
    /\ pc[r] = "change" /\ ~UserHeld(r)
    /\ row' = [row EXCEPT !.pw = row.pw + 1]
    /\ Goto(r, "idle")
    /\ UNCHANGED <<lockout, sheets, secrets, printed, gone, proof, login>>

\* verify_email, which then clears the failures of the address.
Confirm(r) ==
    /\ pc[r] = "confirm" /\ ~UserHeld(r)
    /\ verified' = TRUE
    /\ Goto(r, "release")
    /\ UNCHANGED <<lockout, enrollment, gone, proof, challenges, guesses>>

-----------------------------------------------------------------------------
(* What else happens *)

\* The handler dies or a call fails: open work is rolled back.  A failure that is never counted is
\* not held against the bound on guesses.
Fail(r) ==
    /\ pc[r] # "idle" /\ Goto(r, "idle")
    /\ gone' = [gone EXCEPT ![r] = {}]
    /\ guesses' = IF pc[r] \in {"count", "lock"} /\ guesses > 0 THEN guesses - 1 ELSE guesses
    /\ UNCHANGED <<lockout, enrollment, proof, verified, challenges>>

\* clear holds sheets and wants the user's row, enable the other way round.
Deadlocked(q, r) == pc[q] = "cleared" /\ pc[r] = "enabling" /\ me[r].snap # {} /\ gone[q] \cap Found(r) # {}

\* Postgres notices, and aborts one of them.
Abort(r) ==
    /\ \E q \in Requests : Deadlocked(q, r)
    /\ Goto(r, "idle")
    /\ UNCHANGED <<lockout, enrollment, gone, proof, login>>

Elapse ==
    \/ (Tick /\ UNCHANGED guesses)
    \/ ((FailuresAgeOut \/ LockAgesOut) /\ guesses' = 0)

Clock == Elapse /\ UNCHANGED <<enrollment, pc, me, gone, proof, verified, challenges>>

TotpService(r) ==
    \/ BeginSetup(r) \/ CheckFirstCode(r) \/ Activate(r) \/ AwaitSheets(r) \/ DeleteSheets(r) \/ CommitSheet(r)
    \/ CheckCode(r) \/ SpendStep(r) \/ BurnCode(r) \/ Clear(r)

Router(r) ==
    \/ LoadUser(r) \/ CheckLock(r) \/ Authenticate(r) \/ RedeemChallenge(r) \/ DisablePassword(r)
    \/ CodeRight(r) \/ CodeWrong(r) \/ CountFailure(r) \/ LockAccount(r) \/ Release(r) \/ IssueSession(r)
    \/ ChangePassword(r) \/ Confirm(r)

Step(r) == (TotpService(r) /\ UNCHANGED login) \/ Router(r) \/ Abort(r)

Next ==
    \/ \E r \in Requests : Step(r) \/ Fail(r) \/ \E k \in Kinds : Arrive(r, k)
    \/ Clock

Spec == Init /\ [][Next]_vars

-----------------------------------------------------------------------------
(* Properties *)

\* The check of the lock, the check of the answer and its count are three calls, so that guesses
\* under way together pass the check together.  No more than that: between two resets there are
\* fewer wrong answers than failures allowed and requests at once.
GuessesBounded == guesses < MaxFailures + Cardinality(Requests)

\* "Returns True at most once per code": no time step and no recovery code is accepted twice, in
\* whatever order the reads and the conditional UPDATEs of concurrent requests come, unless one
\* of them worked on an enrollment that was turned on or off since it read it.
CodeOnce == replayed => torn

\* "A botched setup can't lock anyone out": what two-factor asks codes of is a secret that the
\* user's authenticator has proved, unless two enrollments overlapped.
EnabledIsProved == row.enabled => row.secret \in proved \/ torn

\* A session is opened with the password the account had when the request came or a later one,
\* and not by the password alone if two-factor was on all the while.
BothFactors ==
    [][\A r \in Requests : pc[r] = "issue" /\ IssueSession(r) =>
          /\ me[r].pv >= me[r].at[1]
          /\ me[r].at[2] /\ me[r].usr.enabled => me[r].kind = "mfa"]_vars

\* An account with two-factor off has no recovery codes, so that a clear and an enable find none to
\* wait for each other at: they do only if the enrollment was turned on or off since enable looked, or
\* over a sheet that was issued while a clear was under way or after it.
NoDeadlock == \A q, r \in Requests : Deadlocked(q, r) => Stale(r) \/ gone[q] \cap astray # {}
=============================================================================
