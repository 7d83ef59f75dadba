----------------------------- MODULE LoginProofs -----------------------------
(***************************************************************************)
(* What holds of Login for every number of concurrent requests, of         *)
(* failures allowed, of secrets, of sheets and of password changes.        *)
(***************************************************************************)
EXTENDS Login, FiniteSetTheorems, TLAPS

\* Where a request may stand, and more: LoadUser sends it to the place named as its kind.
Places == Kinds \cup
    {"idle", "load", "password", "count", "lock", "release", "issue", "challenge", "guard",
     "setup", "enable", "activate", "enabling", "enabled", "verify", "spend", "burn", "right",
     "wrong", "replace", "replaced", "clear", "cleared", "change", "confirm"}

\* Types without the bounds, which are kept at the door and need the requests to be counted.
LooseRows == [secret : Nat, enabled : BOOLEAN, last : Nat, pw : Nat]
Records == [kind : Kinds, usr : LooseRows, step : Nat, pv : Nat, snap : SUBSET Nat, at : Nat \X BOOLEAN]

LooseOK ==
    /\ now \in Nat /\ fails \in Nat /\ guesses \in Nat /\ lock \in BOOLEAN
    /\ row \in LooseRows
    /\ secrets \in Nat /\ printed \in Nat /\ sheets \subseteq Nat
    /\ pc \in [Requests -> Places]
    /\ me \in [Requests -> Records]
    /\ gone \in [Requests -> SUBSET Nat]
    /\ replayed \in BOOLEAN /\ torn \in BOOLEAN

LEMMA NobodyIsRecord == Nobody \in Records /\ Blank \in LooseRows
  BY DEF Nobody, Blank, Records, LooseRows, Kinds

LEMMA InitLoose == Init => LooseOK
  <1>1. [Blank EXCEPT !.secret = 1, !.enabled = TRUE, !.last = 1] \in LooseRows
    BY NobodyIsRecord DEF LooseRows
  <1> SUFFICES ASSUME Init PROVE LooseOK
    OBVIOUS
  <1>2. now \in Nat /\ fails \in Nat /\ guesses \in Nat /\ lock \in BOOLEAN /\ replayed \in BOOLEAN /\ torn \in BOOLEAN
    BY DEF Init
  <1>3. row \in LooseRows /\ secrets \in Nat /\ printed \in Nat /\ sheets \subseteq Nat
    BY <1>1, NobodyIsRecord DEF Init
  <1>4. pc \in [Requests -> Places] /\ me \in [Requests -> Records] /\ gone \in [Requests -> SUBSET Nat]
    BY NobodyIsRecord DEF Init, Places
  <1> QED
    BY <1>2, <1>3, <1>4 DEF LooseOK

LEMMA GotoType ==
    ASSUME LooseOK, NEW r \in Requests, NEW l \in Places, Goto(r, l)
    PROVE  pc' \in [Requests -> Places] /\ me' \in [Requests -> Records]
  BY NobodyIsRecord DEF Goto, GoWith, LooseOK

LEMMA GoWithType ==
    ASSUME LooseOK, NEW r \in Requests, NEW l \in Places, NEW m \in Records, GoWith(r, l, m)
    PROVE  pc' \in [Requests -> Places] /\ me' \in [Requests -> Records]
  BY DEF GoWith, LooseOK

\* Where a step of r takes it.
Went(r) == pc' \in [Requests -> Places] /\ me' \in [Requests -> Records]

LEMMA TotpWent ==
    ASSUME LooseOK, NEW r \in Requests, TotpService(r)
    PROVE  Went(r)
  <1>1. {"idle", "enabling", "enabled", "replaced", "cleared", "burn", "wrong", "right", "activate", "spend",
         "guard", "clear", "verify", "password", "count", "release", "replace", "lock", "issue"} \subseteq Places
    BY DEF Places
  <1>2. ASSUME NEW k \in Nat PROVE [me[r] EXCEPT !.step = k] \in Records
    BY DEF LooseOK, Records
  <1>3. ASSUME NEW secret, NEW last, NEW c \in Codes, NEW k \in Matches(secret, last, c) PROVE k \in Nat
    BY LockoutAssumption DEF Codes, Matches
  <1>4. CASE BeginSetup(r) \/ Activate(r) \/ CommitSheet(r) \/ SpendStep(r) \/ BurnCode(r) \/ Clear(r)
    BY <1>1, <1>4, GotoType DEF Went, BeginSetup, Activate, CommitSheet, SpendStep, BurnCode, Clear
  <1>7. CASE AwaitSheets(r) \/ DeleteSheets(r)
    <2>1. ASSUME NEW s \in SUBSET Nat PROVE [me[r] EXCEPT !.snap = s] \in Records
      BY DEF LooseOK, Records
    <2>2. sheets \in SUBSET Nat /\ {} \in SUBSET Nat /\ pc[r] \in Places
      BY DEF LooseOK
    <2>3. CASE AwaitSheets(r)
      BY <2>1, <2>2, <2>3, GoWithType DEF Went, AwaitSheets
    <2>4. CASE DeleteSheets(r)
      <3>1. PICK l \in Places : GoWith(r, l, [me[r] EXCEPT !.snap = {}])
        BY <1>1, <2>4 DEF DeleteSheets
      <3> QED
        BY <2>1, <2>2, <3>1, GoWithType DEF Went
    <2> QED
      BY <1>7, <2>3, <2>4
  <1>5. CASE CheckFirstCode(r)
    BY <1>1, <1>2, <1>3, <1>5, GotoType, GoWithType DEF Went, CheckFirstCode
  <1>6. CASE CheckCode(r)
    BY <1>1, <1>2, <1>3, <1>6, GotoType, GoWithType DEF Went, CheckCode
  <1> QED
    BY <1>4, <1>5, <1>6, <1>7 DEF TotpService

LEMMA RouterWent ==
    ASSUME LooseOK, NEW r \in Requests, Router(r)
    PROVE  Went(r)
  <1>1. {"idle", "enabling", "enabled", "replaced", "cleared", "burn", "wrong", "right", "activate", "spend",
         "guard", "clear", "verify", "password", "count", "release", "replace", "lock", "issue"} \subseteq Places
    BY DEF Places
  <1>2. me[r] \in Records /\ row \in LooseRows
    BY DEF LooseOK
  <1>3. [me[r] EXCEPT !.usr = row] \in Records
    BY <1>2 DEF Records
  <1>4. ASSUME NEW v \in Nat PROVE [me[r] EXCEPT !.usr = row, !.pv = v] \in Records
    BY <1>2 DEF Records
  <1>5. CASE CheckLock(r) \/ DisablePassword(r) \/ CodeRight(r) \/ CodeWrong(r) \/ CountFailure(r)
    BY <1>1, <1>5, GotoType DEF Went, CheckLock, DisablePassword, CodeRight, CodeWrong, CountFailure
  <1>6. CASE LockAccount(r) \/ Release(r) \/ IssueSession(r) \/ ChangePassword(r) \/ Confirm(r)
    BY <1>1, <1>6, GotoType DEF Went, LockAccount, Release, IssueSession, ChangePassword, Confirm
  <1>7. CASE LoadUser(r)
    <2>1. me[r].kind \in Places
      BY <1>2 DEF Records, Places
    <2>2. PICK l \in Places : GoWith(r, l, [me[r] EXCEPT !.usr = row])
      BY <1>1, <1>7, <2>1 DEF LoadUser
    <2> QED
      BY <1>3, <2>2, GoWithType DEF Went
  <1>8. CASE Authenticate(r)
    <2>1. row.pw \in Nat
      BY <1>2 DEF LooseRows
    <2> QED
      BY <1>1, <1>4, <1>8, <2>1, GotoType, GoWithType DEF Went, Authenticate
  <1>9. CASE RedeemChallenge(r)
    <2>1. CASE Goto(r, "idle")
      BY <1>1, <2>1, GotoType DEF Went
    <2>2. ASSUME NEW v \in 0..MaxPasswords, GoWith(r, "guard", [me[r] EXCEPT !.usr = row, !.pv = v])
          PROVE  Went(r)
      <3>1. v \in Nat
        BY TwoFactorAssumption
      <3> QED
        BY <1>1, <1>4, <2>2, <3>1, GoWithType DEF Went
    <2> QED
      BY <1>9, <2>1, <2>2 DEF RedeemChallenge
  <1> QED
    BY <1>5, <1>6, <1>7, <1>8, <1>9 DEF Router

\* Every step of a request is one of these, and leaves the other requests alone.
LEMMA RequestWent ==
    ASSUME LooseOK, NEW r \in Requests, Step(r) \/ Fail(r) \/ \E k \in Kinds : Arrive(r, k)
    PROVE  /\ Went(r)
           /\ \A q \in Requests \ {r} : pc'[q] = pc[q] /\ me'[q] = me[q]
  <1>1. {"idle", "challenge", "guard", "confirm", "load"} \subseteq Places
    BY DEF Places
  <1>2. ASSUME Abort(r) \/ Fail(r) PROVE Went(r)
    BY <1>1, <1>2, GotoType DEF Abort, Fail, Went
  <1>3. ASSUME NEW k \in Kinds, Arrive(r, k) PROVE Went(r)
    <2>1. [Nobody EXCEPT !.kind = k, !.at = <<row.pw, row.enabled>>] \in Records
      BY NobodyIsRecord DEF LooseOK, LooseRows, Records
    <2>2. PICK l \in Places : GoWith(r, l, [Nobody EXCEPT !.kind = k, !.at = <<row.pw, row.enabled>>])
      BY <1>1, <1>3 DEF Arrive
    <2> QED
      BY <2>1, <2>2, GoWithType DEF Went
  <1>4. Went(r)
    BY <1>2, <1>3, TotpWent, RouterWent DEF Step
  <1>5. \E l, m : GoWith(r, l, m)
    <2>1. CASE TotpService(r)
      BY <2>1 DEF TotpService, BeginSetup, CheckFirstCode, Activate, AwaitSheets, DeleteSheets, CommitSheet, CheckCode,
                  SpendStep, BurnCode, Clear, Goto
    <2>2. CASE Router(r)
      BY <2>2 DEF Router, LoadUser, CheckLock, Authenticate, RedeemChallenge, DisablePassword, CodeRight,
                  CodeWrong, CountFailure, LockAccount, Release, IssueSession, ChangePassword, Confirm, Goto
    <2>3. CASE Abort(r) \/ Fail(r) \/ \E k \in Kinds : Arrive(r, k)
      BY <2>3 DEF Abort, Fail, Arrive, Goto
    <2> QED
      BY <2>1, <2>2, <2>3 DEF Step
  <1> QED
    BY <1>4, <1>5 DEF LooseOK, GoWith

LEMMA StepLoose ==
    ASSUME LooseOK, NEW r \in Requests, Step(r) \/ Fail(r) \/ \E k \in Kinds : Arrive(r, k)
    PROVE  LooseOK'
  <1>1. pc' \in [Requests -> Places] /\ me' \in [Requests -> Records]
    BY RequestWent DEF Went
  <1>2. me[r].step \in Nat /\ me[r] \in Records
    BY DEF LooseOK, Records
  <1>3. /\ row' \in LooseRows /\ secrets' \in Nat /\ printed' \in Nat /\ sheets' \subseteq Nat
        /\ gone' \in [Requests -> SUBSET Nat] /\ replayed' \in BOOLEAN /\ torn' \in BOOLEAN
    <2> DEFINE RowOK == row' \in LooseRows
               RestOK == secrets' \in Nat /\ printed' \in Nat /\ sheets' \subseteq Nat
                         /\ gone' \in [Requests -> SUBSET Nat]
               HistoryOK == replayed' \in BOOLEAN /\ torn' \in BOOLEAN
    <2>8. row \in LooseRows /\ row.pw \in Nat /\ (row.pw + 1) \in Nat
      BY DEF LooseOK, LooseRows
    <2>9. ASSUME NEW n \in Nat
          PROVE  /\ [row EXCEPT !.secret = n] \in LooseRows
                 /\ [row EXCEPT !.last = n] \in LooseRows
                 /\ [row EXCEPT !.pw = n] \in LooseRows
                 /\ [row EXCEPT !.enabled = TRUE, !.last = n] \in LooseRows
                 /\ [row EXCEPT !.secret = 0, !.enabled = FALSE, !.last = 0] \in LooseRows
      BY <2>8 DEF LooseRows
    <2>1. CASE BeginSetup(r)
      <3>1. CASE UNCHANGED <<enrollment, torn>>
        BY <2>1, <3>1 DEF LooseOK, BeginSetup, enrollment
      <3>2. CASE row' = [row EXCEPT !.secret = secrets + 1]
        <4>1. CASE UNCHANGED enrollment
          BY <2>1, <4>1 DEF LooseOK, BeginSetup, Stale, enrollment
        <4>2. CASE UNCHANGED <<sheets, printed>> /\ secrets' = secrets + 1
          <5>4. secrets \in Nat /\ (secrets + 1) \in Nat
            BY DEF LooseOK
          <5>5. RowOK
            BY <2>9, <3>2, <5>4
          <5>6. RestOK
            BY <2>1, <4>2, <5>4 DEF LooseOK, BeginSetup
          <5>1. RowOK /\ RestOK
            BY <5>5, <5>6
          <5>2. UNCHANGED replayed /\ (torn' = torn \/ torn' = (torn \/ Stale(r)))
            BY <2>1 DEF BeginSetup
          <5>3. HistoryOK
            BY <5>2 DEF LooseOK, Stale
          <5> QED
            BY <5>1, <5>3
        <4> QED
          BY <2>1, <4>1, <4>2 DEF BeginSetup
      <3> QED
        BY <2>1, <3>1, <3>2 DEF BeginSetup
    <2>2. CASE CheckFirstCode(r) \/ Activate(r) \/ AwaitSheets(r) \/ CheckCode(r)
      BY <2>2 DEF LooseOK, CheckFirstCode, Activate, AwaitSheets, CheckCode, enrollment, proof
    <2>3. CASE DeleteSheets(r)
      BY <2>3 DEF LooseOK, DeleteSheets, Found, enrollment, proof
    <2>4. CASE CommitSheet(r)
      <3>1. RowOK
        BY <1>2, <2>4, <2>8, <2>9 DEF CommitSheet
      <3>2. RestOK
        BY <2>4 DEF LooseOK, CommitSheet
      <3>3. HistoryOK
        BY <2>4 DEF LooseOK, CommitSheet, Accept, Stale, proof
      <3> QED
        BY <3>1, <3>2, <3>3
    <2>5. CASE SpendStep(r) \/ BurnCode(r) \/ Clear(r)
      <3>1. RowOK
        BY <1>2, <2>5, <2>8, <2>9 DEF SpendStep, BurnCode, Clear
      <3>2. RestOK
        BY <2>5 DEF LooseOK, SpendStep, BurnCode, Clear
      <3>3. HistoryOK
        BY <2>5 DEF LooseOK, SpendStep, BurnCode, Clear, Accept, Stale
      <3> QED
        BY <3>1, <3>2, <3>3
    <2>6. CASE Router(r)
      <3>1. RowOK
        BY <2>6, <2>8, <2>9 DEF Router, LoadUser, CheckLock, Authenticate, RedeemChallenge, DisablePassword,
                  CodeRight, CodeWrong, CountFailure, LockAccount, Release, IssueSession, ChangePassword,
                  Confirm, enrollment
      <3>2. RestOK /\ HistoryOK
        BY <2>6 DEF LooseOK, Router, LoadUser, CheckLock, Authenticate, RedeemChallenge, DisablePassword,
                  CodeRight, CodeWrong, CountFailure, LockAccount, Release, IssueSession, ChangePassword,
                  Confirm, enrollment, proof
      <3> QED
        BY <3>1, <3>2
    <2>7. CASE Abort(r) \/ Fail(r) \/ \E k \in Kinds : Arrive(r, k)
      BY <2>7 DEF LooseOK, Abort, Fail, Arrive, enrollment, proof
    <2> QED
      BY <2>1, <2>2, <2>3, <2>4, <2>5, <2>6, <2>7 DEF Step, TotpService
  <1>4. now' \in Nat /\ fails' \in Nat /\ guesses' \in Nat /\ lock' \in BOOLEAN
    <2>1. CASE TotpService(r) /\ UNCHANGED login
      BY <2>1 DEF LooseOK, TotpService, BeginSetup, CheckFirstCode, Activate, AwaitSheets, DeleteSheets, CommitSheet,
                  CheckCode, SpendStep, BurnCode, Clear, lockout, login
    <2>2. CASE Router(r)
      <3>1. CASE CountFailure(r)
        BY <3>1 DEF LooseOK, CountFailure, login, IncrLoginFailures
      <3>4. CASE LockAccount(r)
        BY <3>4 DEF LooseOK, LockAccount, login, SetLoginLock
      <3>5. CASE Release(r)
        BY <3>5 DEF LooseOK, Release, ClearLoginFailures
      <3>2. CASE LoadUser(r) \/ CheckLock(r) \/ RedeemChallenge(r)
        BY <3>2 DEF LooseOK, LoadUser, CheckLock, RedeemChallenge, lockout, login
      <3>6. CASE Authenticate(r)
        <4>1. UNCHANGED <<now, fails, lock>> /\ (guesses' = guesses + 1 \/ guesses' = guesses)
          BY <3>6 DEF Authenticate, lockout, Guess
        <4> QED
          BY <4>1 DEF LooseOK
      <3>7. CASE DisablePassword(r)
        <4>1. UNCHANGED <<now, fails, lock>> /\ (guesses' = guesses + 1 \/ guesses' = guesses)
          BY <3>7 DEF DisablePassword, lockout
        <4> QED
          BY <4>1 DEF LooseOK
      <3>3. CASE CodeRight(r) \/ CodeWrong(r) \/ IssueSession(r) \/ ChangePassword(r) \/ Confirm(r)
        BY <3>3 DEF LooseOK, CodeRight, CodeWrong, IssueSession, ChangePassword, Confirm, lockout, login, Guess
      <3> QED
        BY <2>2, <3>1, <3>2, <3>3, <3>4, <3>5, <3>6, <3>7 DEF Router
    <2>3. CASE Abort(r) \/ Fail(r) \/ \E k \in Kinds : Arrive(r, k)
      <3>1. CASE Abort(r)
        BY <3>1 DEF LooseOK, Abort, lockout, login
      <3>2. CASE Fail(r)
        BY <3>2 DEF LooseOK, Fail, lockout
      <3>3. CASE \E k \in Kinds : Arrive(r, k)
        BY <3>3 DEF LooseOK, Arrive
      <3> QED
        BY <2>3, <3>1, <3>2, <3>3
    <2> QED
      BY <2>1, <2>2, <2>3 DEF Step
  <1> QED
    BY <1>1, <1>3, <1>4 DEF LooseOK

LEMMA ClockLoose ==
    ASSUME LooseOK, Clock
    PROVE  LooseOK'
  <1>1. UNCHANGED <<row, sheets, secrets, printed, pc, me, gone, replayed, torn>>
    BY DEF Clock, enrollment, proof
  <1>2. CASE Tick /\ UNCHANGED guesses
    BY <1>1, <1>2 DEF LooseOK, Tick
  <1>3. CASE FailuresAgeOut /\ guesses' = 0
    BY <1>1, <1>3 DEF LooseOK, FailuresAgeOut
  <1>4. CASE LockAgesOut /\ guesses' = 0
    BY <1>1, <1>4 DEF LooseOK, LockAgesOut
  <1> QED
    BY <1>2, <1>3, <1>4 DEF Clock, Elapse

LEMMA NextLoose == LooseOK /\ [Next]_vars => LooseOK'
  <1> SUFFICES ASSUME LooseOK, [Next]_vars PROVE LooseOK'
    OBVIOUS
  <1>1. CASE UNCHANGED vars
    BY <1>1 DEF LooseOK, vars, lockout, enrollment, proof, login
  <1> QED
    BY <1>1, StepLoose, ClockLoose DEF Next

LEMMA AlwaysLoose == Spec => []LooseOK
  BY InitLoose, NextLoose, PTL DEF Spec

(***************************************************************************)
(* The bound on wrong answers.  A wrong answer under way is counted by the *)
(* request that gave it, until its failure is; and while the account is    *)
(* locked only those that had passed the lock before can still be wrong.   *)
(***************************************************************************)
At(P) == {q \in Requests : pc[q] \in P}

Failing == {"count", "lock"}
Asked == {"password", "verify", "spend", "burn", "wrong"}

CountInv ==
    /\ guesses <= fails + Cardinality(At({"count"}))
    /\ ~lock => guesses < MaxFailures + Cardinality(At(Failing))
    /\ lock => guesses + Cardinality(At(Asked)) < MaxFailures + Cardinality(Requests)

LEMMA AtFinite ==
    ASSUME NEW P
    PROVE  /\ IsFiniteSet(At(P)) /\ Cardinality(At(P)) \in Nat /\ Cardinality(Requests) \in Nat
           /\ Cardinality(At(P)) <= Cardinality(Requests)
  BY TwoFactorAssumption, FS_Subset, FS_CardinalityType DEF At

LEMMA AtFiniteNext ==
    ASSUME NEW P
    PROVE  (/\ IsFiniteSet(At(P)) /\ Cardinality(At(P)) \in Nat
            /\ Cardinality(At(P)) <= Cardinality(Requests))'
  BY TwoFactorAssumption, FS_Subset, FS_CardinalityType DEF At

LEMMA AtDisjoint == Cardinality(At(Failing)) + Cardinality(At(Asked)) <= Cardinality(Requests)
  <1>1. At(Failing) \cap At(Asked) = {}
    BY DEF At, Failing, Asked
  <1>2. Cardinality(At(Failing) \cup At(Asked)) = Cardinality(At(Failing)) + Cardinality(At(Asked))
    BY <1>1, AtFinite, FS_Union, FS_EmptySet
  <1>3. At(Failing) \cup At(Asked) \subseteq Requests
    BY DEF At
  <1>4. Cardinality(At(Failing) \cup At(Asked)) <= Cardinality(Requests)
    BY <1>3, TwoFactorAssumption, FS_Subset
  <1> QED
    BY <1>2, <1>4

\* What the move of one request does to a count.
LEMMA AtMoves ==
    ASSUME LooseOK, NEW r \in Requests, NEW l, pc' = [pc EXCEPT ![r] = l], NEW P
    PROVE  Cardinality(At(P))' = IF pc[r] \in P /\ l \notin P THEN Cardinality(At(P)) - 1
                                 ELSE IF pc[r] \notin P /\ l \in P THEN Cardinality(At(P)) + 1
                                 ELSE Cardinality(At(P))
  <1>1. At(P)' = IF l \in P THEN At(P) \cup {r} ELSE At(P) \ {r}
    BY DEF At, LooseOK
  <1>2. IsFiniteSet(At(P)) /\ (r \in At(P) <=> pc[r] \in P)
    BY AtFinite DEF At
  <1>3. CASE l \in P
    BY <1>1, <1>2, <1>3, FS_AddElement
  <1>4. CASE l \notin P
    BY <1>1, <1>2, <1>4, FS_RemoveElement
  <1> QED
    BY <1>3, <1>4

LEMMA InitCount == Init => CountInv
  <1> SUFFICES ASSUME Init PROVE CountInv
    OBVIOUS
  <1>1. guesses = 0 /\ fails = 0 /\ ~lock /\ MaxFailures \in Nat /\ MaxFailures > 0
    BY LockoutAssumption DEF Init
  <1>2. Cardinality(At({"count"})) \in Nat /\ Cardinality(At(Failing)) \in Nat
    BY AtFinite
  <1> QED
    BY <1>1, <1>2 DEF CountInv

\* A step that counts nothing and passes the lock only while it is open.
LEMMA QuietCount ==
    ASSUME LooseOK, CountInv, NEW r \in Requests, NEW l, pc' = [pc EXCEPT ![r] = l],
           UNCHANGED <<fails, lock, guesses>>, pc[r] \notin Failing, l \notin Failing,
           lock /\ l \in Asked => pc[r] \in Asked
    PROVE  CountInv'
  <1>1. Cardinality(At({"count"}))' = Cardinality(At({"count"})) /\ Cardinality(At(Failing))' = Cardinality(At(Failing))
    BY AtMoves DEF Failing
  <1>2. lock => \/ Cardinality(At(Asked))' = Cardinality(At(Asked))
                \/ Cardinality(At(Asked))' = Cardinality(At(Asked)) - 1
    BY AtMoves
  <1>3. fails \in Nat /\ guesses \in Nat /\ MaxFailures \in Nat
    BY LockoutAssumption DEF LooseOK
  <1>4. Cardinality(At(Asked)) \in Nat /\ Cardinality(Requests) \in Nat
    BY AtFinite
  <1> QED
    BY <1>1, <1>2, <1>3, <1>4 DEF CountInv

\* A wrong answer.
LEMMA GuessCount ==
    ASSUME LooseOK, CountInv, NEW r \in Requests, pc' = [pc EXCEPT ![r] = "count"],
           pc[r] \in Asked, guesses' = guesses + 1, UNCHANGED <<fails, lock>>
    PROVE  CountInv'
  <1>1. /\ Cardinality(At({"count"}))' = Cardinality(At({"count"})) + 1
        /\ Cardinality(At(Failing))' = Cardinality(At(Failing)) + 1
        /\ Cardinality(At(Asked))' = Cardinality(At(Asked)) - 1
    <2>1. Cardinality(At({"count"}))' = Cardinality(At({"count"})) + 1
      BY AtMoves DEF Asked
    <2>2. Cardinality(At(Failing))' = Cardinality(At(Failing)) + 1
      BY AtMoves DEF Failing, Asked
    <2>3. "count" \notin Asked
      BY DEF Asked
    <2>4. Cardinality(At(Asked))' = Cardinality(At(Asked)) - 1
      BY <2>3, AtMoves
    <2> QED
      BY <2>1, <2>2, <2>4
  <1>2. /\ Cardinality(At({"count"})) \in Nat /\ Cardinality(At(Failing)) \in Nat
        /\ Cardinality(At(Asked)) \in Nat /\ Cardinality(Requests) \in Nat
    BY AtFinite
  <1>3. fails \in Nat /\ guesses \in Nat /\ MaxFailures \in Nat
    BY LockoutAssumption DEF LooseOK
  <1> QED
    BY <1>1, <1>2, <1>3 DEF CountInv

\* The counters are cleared, or have run out.
LEMMA ResetCount ==
    ASSUME LooseOK', guesses' = 0
    PROVE  CountInv'
  <1>1. /\ Cardinality(At({"count"}))' \in Nat /\ Cardinality(At(Failing))' \in Nat
        /\ Cardinality(At(Asked))' \in Nat /\ Cardinality(Requests) \in Nat
        /\ Cardinality(At(Asked))' <= Cardinality(Requests)
    BY AtFinite, AtFiniteNext
  <1>2. fails' \in Nat /\ MaxFailures \in Nat /\ MaxFailures > 0
    BY LockoutAssumption DEF LooseOK
  <1> QED
    BY <1>1, <1>2 DEF CountInv

LEMMA FailureCount ==
    ASSUME LooseOK, CountInv, NEW r \in Requests, CountFailure(r)
    PROVE  CountInv'
  <1>1. /\ pc[r] = "count" /\ fails' = fails + 1 /\ UNCHANGED <<lock, guesses>>
        /\ pc' = [pc EXCEPT ![r] = IF fails' >= MaxFailures THEN "lock" ELSE "idle"]
    BY DEF CountFailure, IncrLoginFailures, Goto, GoWith, login
  <1>2. /\ Cardinality(At({"count"}))' = Cardinality(At({"count"})) - 1
        /\ Cardinality(At(Asked))' = Cardinality(At(Asked))
        /\ Cardinality(At(Failing))' = IF fails' >= MaxFailures THEN Cardinality(At(Failing))
                                       ELSE Cardinality(At(Failing)) - 1
    <2>1. PICK l : pc' = [pc EXCEPT ![r] = l] /\ l = IF fails' >= MaxFailures THEN "lock" ELSE "idle"
      BY <1>1
    <2>2. l \notin Asked /\ pc[r] \notin Asked /\ l \notin {"count"} /\ (l \in Failing <=> fails' >= MaxFailures)
      BY <1>1, <2>1 DEF Asked, Failing
    <2>3. pc[r] \in {"count"} /\ pc[r] \in Failing
      BY <1>1 DEF Failing
    <2> QED
      BY <2>1, <2>2, <2>3, AtMoves
  <1>3. /\ Cardinality(At({"count"})) \in Nat /\ Cardinality(At(Failing)) \in Nat
        /\ Cardinality(At(Asked)) \in Nat /\ Cardinality(Requests) \in Nat
    BY AtFinite
  <1>4. Cardinality(At({"count"}))' <= Cardinality(At(Failing))'
    <2>1. At({"count"})' \subseteq At(Failing)' /\ IsFiniteSet(At(Failing)')
      BY AtFiniteNext DEF At, Failing
    <2> QED
      BY <2>1, FS_Subset
  <1>5. fails \in Nat /\ guesses \in Nat /\ MaxFailures \in Nat
    BY LockoutAssumption DEF LooseOK
  <1> QED
    BY <1>1, <1>2, <1>3, <1>4, <1>5 DEF CountInv

LEMMA LockCount ==
    ASSUME LooseOK, CountInv, NEW r \in Requests, LockAccount(r)
    PROVE  CountInv'
  <1>1. pc[r] = "lock" /\ lock' = TRUE /\ UNCHANGED <<fails, guesses>> /\ pc' = [pc EXCEPT ![r] = "idle"]
    BY DEF LockAccount, SetLoginLock, Goto, GoWith, login
  <1>2. Cardinality(At({"count"}))' = Cardinality(At({"count"})) /\ Cardinality(At(Asked))' = Cardinality(At(Asked))
    <2>1. "idle" \notin Asked /\ pc[r] \notin Asked /\ "idle" \notin {"count"} /\ pc[r] \notin {"count"}
      BY <1>1 DEF Asked
    <2> QED
      BY <1>1, <2>1, AtMoves
  <1>3. /\ Cardinality(At({"count"})) \in Nat /\ Cardinality(At(Failing)) \in Nat
        /\ Cardinality(At(Asked)) \in Nat /\ Cardinality(Requests) \in Nat
    BY AtFinite
  <1>4. fails \in Nat /\ guesses \in Nat /\ MaxFailures \in Nat
    BY LockoutAssumption DEF LooseOK
  <1> QED
    BY <1>1, <1>2, <1>3, <1>4, AtDisjoint DEF CountInv

\* A failure that is never counted is taken back.
LEMMA FailCount ==
    ASSUME LooseOK, CountInv, NEW r \in Requests, Fail(r)
    PROVE  CountInv'
  <1>1. /\ UNCHANGED <<fails, lock>> /\ pc' = [pc EXCEPT ![r] = "idle"]
        /\ guesses' = IF pc[r] \in Failing /\ guesses > 0 THEN guesses - 1 ELSE guesses
    BY DEF Fail, Goto, GoWith, Failing, lockout
  <1>2. CASE pc[r] \notin Failing
    BY <1>1, <1>2, QuietCount DEF Failing, Asked
  <1>3. CASE pc[r] \in Failing
    <2>1. /\ Cardinality(At({"count"}))' = IF pc[r] = "count" THEN Cardinality(At({"count"})) - 1
                                           ELSE Cardinality(At({"count"}))
          /\ Cardinality(At(Failing))' = Cardinality(At(Failing)) - 1
          /\ Cardinality(At(Asked))' = Cardinality(At(Asked))
      <3>1. /\ "idle" \notin Asked /\ pc[r] \notin Asked /\ "idle" \notin {"count"} /\ "idle" \notin Failing
            /\ (pc[r] \in {"count"} <=> pc[r] = "count")
        BY <1>3 DEF Asked, Failing
      <3> QED
        BY <1>1, <1>3, <3>1, AtMoves
    <2>2. /\ Cardinality(At({"count"})) \in Nat /\ Cardinality(At(Failing)) \in Nat
          /\ Cardinality(At(Asked)) \in Nat /\ Cardinality(Requests) \in Nat
          /\ Cardinality(At({"count"}))' \in Nat /\ Cardinality(At(Failing))' \in Nat
      BY AtFinite, AtFiniteNext
    <2>3. fails \in Nat /\ guesses \in Nat /\ MaxFailures \in Nat /\ MaxFailures > 0
      BY LockoutAssumption DEF LooseOK
    <2> QED
      BY <1>1, <1>3, <2>1, <2>2, <2>3 DEF CountInv
  <1> QED
    BY <1>2, <1>3

LEMMA StepCount ==
    ASSUME LooseOK, CountInv, NEW r \in Requests, Step(r) \/ Fail(r) \/ \E k \in Kinds : Arrive(r, k)
    PROVE  CountInv'
  <1> DEFINE Quiet(l) == /\ pc' = [pc EXCEPT ![r] = l] /\ UNCHANGED <<fails, lock, guesses>>
                         /\ pc[r] \notin Failing /\ l \notin Failing
                         /\ lock /\ l \in Asked => pc[r] \in Asked
  <1>1. ASSUME \E l : Quiet(l) PROVE CountInv'
    BY <1>1, QuietCount
  <1>2. CASE TotpService(r) /\ UNCHANGED login
    <2>1. UNCHANGED <<fails, lock, guesses>>
      BY <1>2 DEF TotpService, BeginSetup, CheckFirstCode, Activate, AwaitSheets, DeleteSheets, CommitSheet, CheckCode,
                  SpendStep, BurnCode, Clear, lockout, login
    <2>2. CASE CheckFirstCode(r) \/ CheckCode(r)
      BY <1>1, <2>1, <2>2 DEF CheckFirstCode, CheckCode, Goto, GoWith, Failing, Asked
    <2>3. CASE SpendStep(r)
      BY <1>1, <2>1, <2>3 DEF SpendStep, Goto, GoWith, Failing, Asked
    <2>7. CASE BurnCode(r)
      BY <1>1, <2>1, <2>7 DEF BurnCode, Goto, GoWith, Failing, Asked
    <2>6. CASE AwaitSheets(r)
      BY <1>1, <2>1, <2>6 DEF AwaitSheets, GoWith, Failing, Asked
    <2>4. CASE DeleteSheets(r)
      <3>1. PICK l \in {"enabled", "replaced", "cleared"} : pc' = [pc EXCEPT ![r] = l]
        BY <2>4 DEF DeleteSheets, GoWith
      <3>2. pc[r] \notin Failing
        BY <2>4 DEF DeleteSheets, Failing
      <3> QED
        BY <1>1, <2>1, <3>1, <3>2 DEF Failing, Asked
    <2>5. CASE BeginSetup(r) \/ Activate(r) \/ CommitSheet(r) \/ Clear(r)
      BY <1>1, <2>1, <2>5 DEF BeginSetup, Activate, CommitSheet, Clear, Goto, GoWith, Failing, Asked
    <2> QED
      BY <1>2, <2>2, <2>3, <2>4, <2>5, <2>6, <2>7 DEF TotpService
  <1>3. CASE LoadUser(r)
    <2>1. me[r].kind \in Kinds
      BY DEF LooseOK, Records
    <2>2. PICK l \in {"guard", "clear"} \cup Kinds : pc' = [pc EXCEPT ![r] = l]
      BY <1>3, <2>1 DEF LoadUser, GoWith
    <2>3. l \notin Failing /\ l \notin Asked
      BY <2>2 DEF Kinds, Failing, Asked
    <2> QED
      BY <1>1, <1>3, <2>2, <2>3 DEF LoadUser, Failing, lockout, login
  <1>4. CASE CheckLock(r)
    <2>1. PICK l \in {"idle", "verify", "password"} : pc' = [pc EXCEPT ![r] = l] /\ (lock => l = "idle")
      BY <1>4 DEF CheckLock, Goto, GoWith
    <2>2. UNCHANGED <<fails, lock, guesses>> /\ pc[r] \notin Failing
      BY <1>4 DEF CheckLock, Failing, lockout, login
    <2> QED
      BY <1>1, <2>1, <2>2 DEF Failing, Asked
  <1>5. CASE Authenticate(r)
    <2>1. CASE Goto(r, "count") /\ Guess
      BY <1>5, <2>1, GuessCount DEF Authenticate, Goto, GoWith, Guess, Asked, lockout
    <2>2. CASE UNCHANGED guesses
      BY <1>1, <1>5, <2>1, <2>2 DEF Authenticate, Goto, GoWith, Failing, Asked, lockout
    <2> QED
      BY <1>5, <2>1, <2>2 DEF Authenticate
  <1>6. CASE DisablePassword(r)
    <2>1. CASE Goto(r, "count") /\ guesses' = guesses + 1
      BY <1>6, <2>1, GuessCount DEF DisablePassword, Goto, GoWith, Asked, lockout
    <2>2. CASE (Goto(r, "idle") \/ Goto(r, "verify")) /\ UNCHANGED guesses
      BY <1>1, <1>6, <2>2 DEF DisablePassword, Goto, GoWith, Failing, Asked, lockout
    <2> QED
      BY <1>6, <2>1, <2>2 DEF DisablePassword
  <1>7. CASE RedeemChallenge(r) \/ CodeRight(r) \/ IssueSession(r)
    BY <1>1, <1>7 DEF RedeemChallenge, CodeRight, IssueSession, Goto, GoWith, Failing, Asked, lockout, login
  <1>8. CASE ChangePassword(r) \/ Confirm(r)
    BY <1>1, <1>8 DEF ChangePassword, Confirm, Goto, GoWith, Failing, Asked, lockout, login
  <1>9. CASE CodeWrong(r)
    BY <1>9, GuessCount DEF CodeWrong, Goto, GoWith, Guess, Asked, lockout
  <1>10. CASE Release(r)
    BY <1>10, StepLoose, ResetCount DEF Release, Step, Router
  <1>11. CASE Abort(r)
    <2>1. pc[r] = "enabling" /\ pc' = [pc EXCEPT ![r] = "idle"] /\ UNCHANGED <<fails, lock, guesses>>
      BY <1>11 DEF Abort, Deadlocked, Goto, GoWith, lockout, login
    <2> QED
      BY <2>1, QuietCount DEF Failing, Asked
  <1>12. ASSUME NEW k \in Kinds, Arrive(r, k) PROVE CountInv'
    BY <1>1, <1>12 DEF Arrive, GoWith, Failing, Asked
  <1> QED
    BY <1>2, <1>3, <1>4, <1>5, <1>6, <1>7, <1>8, <1>9, <1>10, <1>11, <1>12, FailureCount, LockCount, FailCount
       DEF Step, Router

LEMMA ClockCount ==
    ASSUME LooseOK, CountInv, Clock
    PROVE  CountInv'
  <1>1. CASE UNCHANGED guesses /\ Tick
    BY <1>1 DEF Clock, Tick, CountInv, At
  <1>2. CASE guesses' = 0
    BY <1>2, ClockLoose, ResetCount
  <1> QED
    BY <1>1, <1>2 DEF Clock, Elapse

LEMMA NextCount == LooseOK /\ CountInv /\ [Next]_vars => CountInv'
  <1> SUFFICES ASSUME LooseOK, CountInv, [Next]_vars PROVE CountInv'
    OBVIOUS
  <1>1. CASE UNCHANGED vars
    BY <1>1 DEF CountInv, At, vars, lockout, login
  <1> QED
    BY <1>1, StepCount, ClockCount DEF Next

\* However many requests guess at once, between two resets of the counters there are fewer wrong
\* answers than login_max_failures and requests together (_guard_guessing, _record_failure).
THEOREM GuessingIsBounded == Spec => []GuessesBounded
  <1>1. LooseOK /\ CountInv => GuessesBounded
    <2> SUFFICES ASSUME LooseOK, CountInv PROVE guesses < MaxFailures + Cardinality(Requests)
      BY DEF GuessesBounded
    <2>1. /\ Cardinality(At(Failing)) \in Nat /\ Cardinality(At(Asked)) \in Nat
          /\ Cardinality(Requests) \in Nat /\ Cardinality(At(Failing)) <= Cardinality(Requests)
      BY AtFinite
    <2>2. guesses \in Nat /\ MaxFailures \in Nat
      BY LockoutAssumption DEF LooseOK
    <2> QED
      BY <2>1, <2>2 DEF CountInv
  <1> QED
    BY <1>1, InitLoose, NextLoose, InitCount, NextCount, PTL DEF Spec

(***************************************************************************)
(* What a request knows: the row it loaded is one there was, and the places *)
(* of a code or a session are reached with the row and the password that    *)
(* belong there.                                                            *)
(***************************************************************************)
Known(r) ==
    /\ me[r].usr.secret <= secrets
    /\ me[r].at[1] <= row.pw
    /\ pc[r] \in {"spend", "activate", "enabling", "enabled"} => me[r].usr.secret # 0
    /\ pc[r] \in {"verify", "spend"} => me[r].usr.enabled
    /\ pc[r] \in {"activate", "enabling", "enabled"} => ~me[r].usr.enabled
    /\ pc[r] = "guard" /\ me[r].kind = "mfa" => me[r].usr.enabled
    /\ pc[r] = "confirm" => me[r].kind = "confirm"
    /\ pc[r] = "release" => me[r].kind \in {"login", "mfa", "confirm"}
    /\ pc[r] = "issue" => me[r].kind \in {"login", "mfa"}
    /\ me[r].kind = "mfa" /\ pc[r] \in {"guard", "verify", "spend", "burn", "right", "release", "issue"} =>
          me[r].pv >= me[r].at[1]
    /\ me[r].kind = "login" /\ pc[r] \in {"release", "issue"} =>
          me[r].pv >= me[r].at[1] /\ ~me[r].usr.enabled

KnownInv == row.secret <= secrets /\ \A r \in Requests : Known(r)

LEMMA InitKnown == Init => KnownInv
  <1> SUFFICES ASSUME Init PROVE KnownInv
    OBVIOUS
  <1>1. row.secret <= secrets /\ row.pw = 0 /\ secrets \in Nat
    <2>1. CASE row = Blank /\ secrets = 0
      BY <2>1 DEF Blank
    <2>2. CASE row = [Blank EXCEPT !.secret = 1, !.enabled = TRUE, !.last = 1] /\ secrets = 1
      BY <2>2 DEF Blank
    <2> QED
      BY <2>1, <2>2 DEF Init
  <1>2. ASSUME NEW r \in Requests PROVE me[r] = Nobody /\ pc[r] = "idle"
    BY DEF Init
  <1>3. Nobody.usr.secret = 0 /\ Nobody.at[1] = 0
    BY DEF Nobody, Blank
  <1> QED
    BY <1>1, <1>2, <1>3 DEF KnownInv, Known

LEMMA NobodyKnown ==
    ASSUME LooseOK, LooseOK', NEW r \in Requests, me'[r] = Nobody, pc'[r] = "idle"
    PROVE  Known(r)'
  <1>1. secrets' \in Nat /\ row'.pw \in Nat
    BY DEF LooseOK, LooseRows
  <1>2. Nobody.usr.secret = 0 /\ Nobody.at[1] = 0
    BY DEF Nobody, Blank
  <1> QED
    BY <1>1, <1>2 DEF Known

LEMMA RowGrows ==
    ASSUME LooseOK, KnownInv, NEW r \in Requests, Step(r) \/ Fail(r) \/ \E k \in Kinds : Arrive(r, k)
    PROVE  row.pw <= row'.pw /\ secrets <= secrets' /\ row'.secret <= secrets'
  <1>1. row \in LooseRows /\ row.pw \in Nat /\ secrets \in Nat /\ row.secret \in Nat /\ row.secret <= secrets
    BY DEF LooseOK, LooseRows, KnownInv
  <1>2. CASE UNCHANGED <<row, secrets>>
    BY <1>1, <1>2
  <1>3. CASE BeginSetup(r)
    <2>1. CASE row' = [row EXCEPT !.secret = secrets + 1] /\ secrets' = secrets + 1
      BY <1>1, <2>1 DEF LooseRows
    <2> QED
      BY <1>2, <1>3, <2>1 DEF BeginSetup, enrollment
  <1>4. CASE CommitSheet(r)
    <2>1. CASE row' = [row EXCEPT !.enabled = TRUE, !.last = me[r].step] /\ UNCHANGED secrets
      BY <1>1, <2>1 DEF LooseRows
    <2> QED
      BY <1>2, <1>4, <2>1 DEF CommitSheet
  <1>5. CASE SpendStep(r)
    <2>1. CASE row' = [row EXCEPT !.last = me[r].step] /\ UNCHANGED secrets
      BY <1>1, <2>1 DEF LooseRows
    <2> QED
      BY <1>2, <1>5, <2>1 DEF SpendStep
  <1>6. CASE Clear(r)
    <2>1. row' = [row EXCEPT !.secret = 0, !.enabled = FALSE, !.last = 0] /\ UNCHANGED secrets
      BY <1>6 DEF Clear
    <2> QED
      BY <1>1, <2>1 DEF LooseRows
  <1>7. CASE ChangePassword(r)
    <2>1. row' = [row EXCEPT !.pw = row.pw + 1] /\ UNCHANGED secrets
      BY <1>7 DEF ChangePassword
    <2> QED
      BY <1>1, <2>1 DEF LooseRows
  <1>8. CASE CheckFirstCode(r) \/ Activate(r) \/ AwaitSheets(r) \/ DeleteSheets(r) \/ CheckCode(r) \/ BurnCode(r)
    BY <1>2, <1>8 DEF CheckFirstCode, Activate, AwaitSheets, DeleteSheets, CheckCode, BurnCode, enrollment
  <1>9. CASE Router(r) /\ ~ChangePassword(r)
    BY <1>2, <1>9 DEF Router, LoadUser, CheckLock, Authenticate, RedeemChallenge, DisablePassword, CodeRight,
                      CodeWrong, CountFailure, LockAccount, Release, IssueSession, Confirm, enrollment
  <1>10. CASE Abort(r) \/ Fail(r) \/ \E k \in Kinds : Arrive(r, k)
    BY <1>2, <1>10 DEF Abort, Fail, Arrive, enrollment
  <1> QED
    BY <1>3, <1>4, <1>5, <1>6, <1>7, <1>8, <1>9, <1>10 DEF Step, TotpService

\* A step that leaves r's record as it is, apart from the step of a code.
LEMMA StillKnown ==
    ASSUME LooseOK, LooseOK', KnownInv, NEW r \in Requests, NEW l, pc' = [pc EXCEPT ![r] = l],
           row.pw <= row'.pw, secrets <= secrets',
           /\ me'[r].kind = me[r].kind /\ me'[r].usr = me[r].usr
           /\ me'[r].pv = me[r].pv /\ me'[r].at = me[r].at,
           l \in {"spend", "activate"} => me[r].usr.secret # 0,
           l \in {"enabling", "enabled"} => pc[r] \in {"activate", "enabling"},
           l \in {"verify", "spend"} => me[r].usr.enabled,
           l = "activate" => ~me[r].usr.enabled,
           l # "confirm",
           l = "release" => (pc[r] = "right" /\ me[r].kind = "mfa") \/ me[r].kind = "confirm",
           l = "issue" => pc[r] = "release" /\ me[r].kind # "confirm",
           l = "guard" => me[r].kind # "mfa",
           l \in {"verify", "spend", "burn", "right"} =>
             pc[r] \in {"guard", "verify", "spend", "burn"} \/ me[r].kind # "mfa"
    PROVE  Known(r)'
  <1>1. pc'[r] = l /\ Known(r)
    BY DEF LooseOK, KnownInv
  <1>2. /\ me[r] \in Records /\ row.pw \in Nat /\ row'.pw \in Nat /\ secrets \in Nat /\ secrets' \in Nat
        /\ me[r].usr.secret \in Nat /\ me[r].at[1] \in Nat
    BY DEF LooseOK, LooseRows, Records
  <1>3. me'[r].usr.secret <= secrets' /\ me'[r].at[1] <= row'.pw
    BY <1>1, <1>2 DEF Known
  <1>4. /\ l \in {"spend", "activate", "enabling", "enabled"} => me[r].usr.secret # 0
        /\ l \in {"activate", "enabling", "enabled"} => ~me[r].usr.enabled
    BY <1>1 DEF Known
  <1>5. /\ l = "release" => me[r].kind \in {"mfa", "confirm"}
        /\ l = "issue" => me[r].kind \in {"login", "mfa"} /\ pc[r] = "release"
    BY <1>1 DEF Known
  <1>6. me[r].kind = "mfa" /\ l \in {"guard", "verify", "spend", "burn", "right", "release", "issue"} =>
          me[r].pv >= me[r].at[1]
    BY <1>1, <1>5 DEF Known
  <1>7. me[r].kind = "login" /\ l \in {"release", "issue"} => me[r].pv >= me[r].at[1] /\ ~me[r].usr.enabled
    BY <1>1, <1>5 DEF Known
  <1> QED
    BY <1>1, <1>3, <1>4, <1>5, <1>6, <1>7 DEF Known

LEMMA TotpKnown ==
    ASSUME LooseOK, LooseOK', KnownInv, NEW r \in Requests, TotpService(r),
           row.pw <= row'.pw, secrets <= secrets'
    PROVE  Known(r)'
  <1>1. Known(r) /\ me[r] \in Records
    BY DEF KnownInv, LooseOK
  <1>2. ASSUME Goto(r, "idle") PROVE Known(r)'
    <2>1. me'[r] = Nobody /\ pc'[r] = "idle"
      BY <1>2 DEF Goto, GoWith, LooseOK
    <2> QED
      BY <2>1, NobodyKnown
  <1>3. ASSUME NEW l, Goto(r, l), l # "idle" PROVE pc' = [pc EXCEPT ![r] = l] /\ me'[r] = me[r]
    BY <1>3 DEF Goto, GoWith, LooseOK
  <1>4. ASSUME NEW l, NEW k, GoWith(r, l, [me[r] EXCEPT !.step = k])
        PROVE  /\ pc' = [pc EXCEPT ![r] = l] /\ me'[r].kind = me[r].kind /\ me'[r].usr = me[r].usr
               /\ me'[r].pv = me[r].pv /\ me'[r].at = me[r].at
    <2>1. me'[r] = [me[r] EXCEPT !.step = k]
      BY <1>4 DEF GoWith, LooseOK
    <2> QED
      BY <1>1, <1>4, <2>1 DEF GoWith, Records
  <1>5. CASE BeginSetup(r) \/ CommitSheet(r) \/ Clear(r)
    BY <1>2, <1>5 DEF BeginSetup, CommitSheet, Clear
  <1>6. CASE CheckFirstCode(r)
    <2>1. CASE \E k : GoWith(r, "activate", [me[r] EXCEPT !.step = k]) /\ ~me[r].usr.enabled /\ me[r].usr.secret # 0
      <3>1. PICK k : GoWith(r, "activate", [me[r] EXCEPT !.step = k])
        BY <2>1
      <3>2. /\ pc' = [pc EXCEPT ![r] = "activate"] /\ me'[r].kind = me[r].kind /\ me'[r].usr = me[r].usr
            /\ me'[r].pv = me[r].pv /\ me'[r].at = me[r].at
        BY <1>4, <3>1
      <3> QED
        BY <2>1, <3>2, StillKnown
    <2> QED
      BY <1>2, <1>6, <2>1 DEF CheckFirstCode
  <1>7. CASE Activate(r)
    BY <1>3, <1>7, StillKnown DEF Activate
  <1>11. ASSUME NEW l, NEW s, GoWith(r, l, [me[r] EXCEPT !.snap = s])
         PROVE  /\ pc' = [pc EXCEPT ![r] = l] /\ me'[r].kind = me[r].kind /\ me'[r].usr = me[r].usr
                /\ me'[r].pv = me[r].pv /\ me'[r].at = me[r].at
    <2>1. me'[r] = [me[r] EXCEPT !.snap = s]
      BY <1>11 DEF GoWith, LooseOK
    <2> QED
      BY <1>1, <1>11, <2>1 DEF GoWith, Records
  <1>8. CASE DeleteSheets(r)
    <2>1. PICK l \in {"enabled", "replaced", "cleared"} :
            GoWith(r, l, [me[r] EXCEPT !.snap = {}]) /\ (l = "enabled" => pc[r] = "enabling")
      BY <1>8 DEF DeleteSheets
    <2> QED
      BY <1>11, <2>1, StillKnown
  <1>12. CASE AwaitSheets(r)
    BY <1>11, <1>12, StillKnown DEF AwaitSheets
  <1>9. CASE CheckCode(r)
    <2>1. ASSUME NEW c \in Codes, NEW k \in Matches(me[r].usr.secret, me[r].usr.last, c),
                 GoWith(r, "spend", [me[r] EXCEPT !.step = k])
          PROVE  Known(r)'
      <3>1. me[r].usr.secret # 0
        BY TwoFactorAssumption DEF Codes, Matches
      <3>2. me[r].usr.enabled /\ pc[r] = "verify"
        BY <1>1, <1>9 DEF CheckCode, Known
      <3> QED
        BY <1>4, <2>1, <3>1, <3>2, StillKnown
    <2>2. CASE Goto(r, "burn") \/ Goto(r, "wrong")
      BY <1>3, <1>9, <2>2, StillKnown DEF CheckCode
    <2> QED
      BY <1>9, <2>1, <2>2 DEF CheckCode
  <1>10. CASE SpendStep(r) \/ BurnCode(r)
    <2>1. PICK l \in {"right", "wrong"} : Goto(r, l)
      BY <1>10 DEF SpendStep, BurnCode
    <2>2. pc[r] \in {"spend", "burn"}
      BY <1>10 DEF SpendStep, BurnCode
    <2> QED
      BY <1>3, <2>1, <2>2, StillKnown
  <1> QED
    BY <1>5, <1>6, <1>7, <1>8, <1>9, <1>10, <1>12 DEF TotpService

LEMMA RouterKnown ==
    ASSUME LooseOK, LooseOK', KnownInv, NEW r \in Requests, Router(r),
           row.pw <= row'.pw, secrets <= secrets'
    PROVE  Known(r)'
  <1>1. /\ Known(r) /\ me[r] \in Records /\ row \in LooseRows /\ row.secret <= secrets
        /\ row.pw \in Nat /\ row'.pw \in Nat /\ secrets \in Nat /\ secrets' \in Nat /\ row.secret \in Nat
        /\ me[r].at[1] \in Nat
    BY DEF KnownInv, LooseOK, LooseRows, Records
  <1>2. ASSUME Goto(r, "idle") PROVE Known(r)'
    <2>1. me'[r] = Nobody /\ pc'[r] = "idle"
      BY <1>2 DEF Goto, GoWith, LooseOK
    <2> QED
      BY <2>1, NobodyKnown
  <1>3. ASSUME NEW l, Goto(r, l), l # "idle" PROVE pc' = [pc EXCEPT ![r] = l] /\ me'[r] = me[r]
    BY <1>3 DEF Goto, GoWith, LooseOK
  <1>4. ASSUME NEW l, NEW v \in Nat, GoWith(r, l, [me[r] EXCEPT !.usr = row, !.pv = v])
        PROVE  /\ pc'[r] = l /\ me'[r].kind = me[r].kind /\ me'[r].usr = row
               /\ me'[r].pv = v /\ me'[r].at = me[r].at
    <2>1. me'[r] = [me[r] EXCEPT !.usr = row, !.pv = v]
      BY <1>4 DEF GoWith, LooseOK
    <2> QED
      BY <1>1, <1>4, <2>1 DEF GoWith, Records, LooseOK
  <1>5. CASE LoadUser(r)
    <2>1. me'[r] = [me[r] EXCEPT !.usr = row]
      BY <1>5 DEF LoadUser, GoWith, LooseOK
    <2>2. me'[r].kind = me[r].kind /\ me'[r].usr = row /\ me'[r].pv = me[r].pv /\ me'[r].at = me[r].at
      BY <1>1, <2>1 DEF Records
    <2>3. /\ pc'[r] \in {"guard", "clear"} \cup Kinds
          /\ pc'[r] = "guard" => me[r].kind # "mfa"
          /\ pc'[r] = "confirm" => me[r].kind = "confirm"
      BY <1>1, <1>5 DEF LoadUser, GoWith, LooseOK, Records
    <2> QED
      BY <1>1, <2>2, <2>3 DEF Known, Kinds
  <1>6. CASE CheckLock(r)
    <2>1. CASE Goto(r, "idle")
      BY <1>2, <2>1
    <2>2. CASE Goto(r, "verify") /\ pc[r] = "guard" /\ (me[r].kind = "mfa" \/ me[r].usr.enabled)
      <3>1. me[r].usr.enabled
        BY <1>1, <2>2 DEF Known
      <3> QED
        BY <1>3, <2>2, <3>1, StillKnown
    <2>3. CASE Goto(r, "password")
      BY <1>3, <2>3, StillKnown
    <2> QED
      BY <1>6, <2>1, <2>2, <2>3 DEF CheckLock
  <1>7. CASE Authenticate(r)
    <2>1. CASE Goto(r, "count") \/ Goto(r, "idle")
      BY <1>2, <1>3, <2>1, StillKnown
    <2>2. CASE GoWith(r, "release", [me[r] EXCEPT !.usr = row, !.pv = row.pw]) /\ ~row.enabled
      <3>1. /\ pc'[r] = "release" /\ me'[r].kind = me[r].kind /\ me'[r].usr = row
            /\ me'[r].pv = row.pw /\ me'[r].at = me[r].at
        BY <1>1, <1>4, <2>2
      <3>2. me[r].kind = "login"
        BY <1>7 DEF Authenticate
      <3> QED
        BY <1>1, <2>2, <3>1, <3>2 DEF Known
    <2> QED
      BY <1>7, <2>1, <2>2 DEF Authenticate
  <1>8. CASE RedeemChallenge(r)
    <2>1. ASSUME NEW v \in 0..MaxPasswords, Redeemable(v), GoWith(r, "guard", [me[r] EXCEPT !.usr = row, !.pv = v])
          PROVE  Known(r)'
      <3>1. v = row.pw /\ row.enabled
        BY <2>1 DEF Redeemable
      <3>2. /\ pc'[r] = "guard" /\ me'[r].kind = me[r].kind /\ me'[r].usr = row
            /\ me'[r].pv = row.pw /\ me'[r].at = me[r].at
        BY <1>1, <1>4, <2>1, <3>1
      <3> QED
        BY <1>1, <3>1, <3>2 DEF Known
    <2> QED
      BY <1>2, <1>8, <2>1 DEF RedeemChallenge
  <1>9. CASE DisablePassword(r)
    <2>1. CASE Goto(r, "verify") /\ me[r].usr.enabled
      BY <1>3, <1>9, <2>1, StillKnown DEF DisablePassword
    <2>2. CASE Goto(r, "count") \/ Goto(r, "idle")
      BY <1>2, <1>3, <2>2, StillKnown
    <2> QED
      BY <1>9, <2>1, <2>2 DEF DisablePassword
  <1>10. CASE CodeRight(r)
    <2>1. CASE Goto(r, "release") /\ me[r].kind = "mfa" /\ pc[r] = "right"
      BY <1>3, <2>1, StillKnown
    <2>2. CASE Goto(r, "clear") \/ Goto(r, "replace")
      BY <1>3, <2>2, StillKnown
    <2> QED
      BY <1>10, <2>1, <2>2 DEF CodeRight
  <1>11. CASE CodeWrong(r) \/ LockAccount(r) \/ IssueSession(r) \/ ChangePassword(r)
    BY <1>2, <1>3, <1>11, StillKnown DEF CodeWrong, LockAccount, IssueSession, ChangePassword
  <1>12. CASE CountFailure(r)
    <2>1. CASE Goto(r, "lock") \/ Goto(r, "idle")
      BY <1>2, <1>3, <2>1, StillKnown
    <2> QED
      BY <1>12, <2>1 DEF CountFailure
  <1>13. CASE Release(r)
    <2>1. CASE Goto(r, "issue") /\ pc[r] = "release" /\ me[r].kind # "confirm"
      BY <1>3, <2>1, StillKnown
    <2> QED
      BY <1>2, <1>13, <2>1 DEF Release
  <1>14. CASE Confirm(r)
    <2>1. me[r].kind = "confirm" /\ Goto(r, "release")
      BY <1>1, <1>14 DEF Confirm, Known
    <2> QED
      BY <1>3, <2>1, StillKnown
  <1> QED
    BY <1>5, <1>6, <1>7, <1>8, <1>9, <1>10, <1>11, <1>12, <1>13, <1>14 DEF Router

LEMMA StepKnown ==
    ASSUME LooseOK, KnownInv, NEW r \in Requests, Step(r) \/ Fail(r) \/ \E k \in Kinds : Arrive(r, k)
    PROVE  KnownInv'
  <1>1. /\ LooseOK' /\ row.pw <= row'.pw /\ secrets <= secrets' /\ row'.secret <= secrets'
        /\ \A q \in Requests \ {r} : pc'[q] = pc[q] /\ me'[q] = me[q]
    BY StepLoose, RowGrows, RequestWent
  <1>2. ASSUME NEW q \in Requests \ {r} PROVE Known(q)'
    <2>1. Known(q) /\ me[q] \in Records
      BY DEF KnownInv, LooseOK
    <2>2. /\ row.pw \in Nat /\ row'.pw \in Nat /\ secrets \in Nat /\ secrets' \in Nat
          /\ me[q].usr.secret \in Nat /\ me[q].at[1] \in Nat
      BY <1>1, <2>1 DEF LooseOK, LooseRows, Records
    <2>3. me[q].usr.secret <= secrets' /\ me[q].at[1] <= row'.pw
      BY <1>1, <2>1, <2>2 DEF Known
    <2> QED
      BY <1>1, <2>1, <2>3 DEF Known
  <1>3. Known(r)'
    <2>1. CASE Abort(r) \/ Fail(r)
      <3>1. me'[r] = Nobody /\ pc'[r] = "idle"
        BY <2>1 DEF Abort, Fail, Goto, GoWith, LooseOK
      <3> QED
        BY <1>1, <3>1, NobodyKnown
    <2>2. ASSUME NEW k \in Kinds, Arrive(r, k) PROVE Known(r)'
      <3>1. me'[r] = [Nobody EXCEPT !.kind = k, !.at = <<row.pw, row.enabled>>] /\ UNCHANGED <<row, secrets>>
        BY <2>2 DEF Arrive, GoWith, LooseOK, enrollment
      <3>2. pc'[r] \in {"guard", "challenge", "confirm", "load"} /\ (pc'[r] = "guard" => k = "login")
            /\ (pc'[r] = "confirm" => k = "confirm")
        BY <2>2 DEF Arrive, GoWith, LooseOK
      <3>3. me'[r].usr.secret = 0 /\ me'[r].kind = k /\ me'[r].at[1] = row.pw
        BY <3>1 DEF Nobody, Blank
      <3>4. secrets \in Nat /\ row.pw \in Nat
        BY DEF LooseOK, LooseRows
      <3> QED
        BY <3>1, <3>2, <3>3, <3>4 DEF Known
    <2> QED
      BY <1>1, <2>1, <2>2, TotpKnown, RouterKnown DEF Step
  <1> QED
    BY <1>1, <1>2, <1>3 DEF KnownInv

LEMMA NextKnown == LooseOK /\ KnownInv /\ [Next]_vars => KnownInv'
  <1> SUFFICES ASSUME LooseOK, KnownInv, [Next]_vars PROVE KnownInv'
    OBVIOUS
  <1>1. CASE UNCHANGED <<row, secrets, pc, me>>
    BY <1>1 DEF KnownInv, Known
  <1> QED
    BY <1>1, StepKnown DEF Next, Clock, vars, enrollment

\* Nobody is let in by a password that was changed while the answer was on its way, and nobody by
\* the password alone where two-factor is on (login, login_2fa, decode_mfa_token).
THEOREM BothFactorsAsked == Spec => BothFactors
  <1>1. LooseOK /\ KnownInv /\ [Next]_vars =>
          [\A r \in Requests : pc[r] = "issue" /\ IssueSession(r) =>
              /\ me[r].pv >= me[r].at[1]
              /\ me[r].at[2] /\ me[r].usr.enabled => me[r].kind = "mfa"]_vars
    BY DEF KnownInv, Known
  <1> QED
    BY <1>1, InitLoose, NextLoose, InitKnown, NextKnown, PTL DEF Spec, BothFactors

(***************************************************************************)
(* One use of each code.  Every accepted code of the secret in the row is  *)
(* behind the last step of the row, and a recovery code that was accepted  *)
(* has no unused row; both unless a write was decided on an enrollment     *)
(* that had changed since.                                                 *)
(***************************************************************************)
CodesInv ==
    /\ accepted \subseteq Nat \X Nat
    /\ sheets \subseteq 1..printed
    /\ \A c \in accepted : c[1] <= secrets /\ (c[1] = 0 => c[2] <= printed /\ c[2] \notin sheets)
    /\ torn \/ \A c \in accepted : c[1] # 0 /\ c[1] = row.secret => row.enabled /\ c[2] <= row.last
    /\ replayed => torn
    /\ row.enabled => row.secret \in proved \/ torn

LEMMA InitCodes == Init => CodesInv
  <1> SUFFICES ASSUME Init PROVE CodesInv
    OBVIOUS
  <1>1. CASE row = Blank /\ accepted = {} /\ sheets = {}
    BY <1>1 DEF Init, Blank, CodesInv
  <1>2. CASE /\ row = [Blank EXCEPT !.secret = 1, !.enabled = TRUE, !.last = 1]
             /\ secrets = 1 /\ printed = 1 /\ sheets = {1} /\ proved = {1} /\ accepted = {<<1, 1>>}
    BY <1>2 DEF Init, Blank, CodesInv
  <1> QED
    BY <1>1, <1>2 DEF Init

LEMMA SameCodes ==
    ASSUME CodesInv, UNCHANGED <<row, sheets, secrets, printed, accepted, replayed, torn, proved>>
    PROVE  CodesInv'
  BY DEF CodesInv

LEMMA BeginSetupCodes ==
    ASSUME LooseOK, KnownInv, CodesInv, NEW r \in Requests, BeginSetup(r)
    PROVE  CodesInv'
  <1>1. CASE UNCHANGED <<enrollment, torn>>
    BY <1>1, SameCodes DEF BeginSetup, enrollment
  <1>2. CASE /\ ~me[r].usr.enabled /\ secrets' = secrets + 1 /\ row' = [row EXCEPT !.secret = secrets + 1]
             /\ torn' = (torn \/ Stale(r)) /\ UNCHANGED <<sheets, printed>>
    <2>1. secrets \in Nat /\ row \in LooseRows
      BY DEF LooseOK
    <2>2. row'.secret = secrets + 1 /\ row'.enabled = row.enabled
      BY <1>2, <2>1 DEF LooseRows
    <2>3. row.enabled => torn'
      BY <1>2 DEF Stale
    <2>4. UNCHANGED <<accepted, replayed, proved>>
      BY DEF BeginSetup
    <2>5. \A c \in accepted : c[1] \in Nat /\ c[1] <= secrets' /\ c[1] # row'.secret
      BY <1>2, <2>1, <2>2 DEF CodesInv
    <2> QED
      BY <1>2, <2>2, <2>3, <2>4, <2>5 DEF CodesInv
  <1> QED
    BY <1>1, <1>2 DEF BeginSetup

\* A code of the secret in the row whose step is later than the last one is new.
LEMMA NewCode ==
    ASSUME CodesInv, NEW s \in Nat \ {0}, NEW k \in Nat, ~torn, s = row.secret,
           row.enabled => row.last < k, row.last \in Nat
    PROVE  <<s, k>> \notin accepted
  <1> SUFFICES ASSUME <<s, k>> \in accepted PROVE FALSE
    OBVIOUS
  <1>1. row.enabled /\ k <= row.last
    BY DEF CodesInv
  <1> QED
    BY <1>1

LEMMA CommitSheetCodes ==
    ASSUME LooseOK, KnownInv, CodesInv, NEW r \in Requests, CommitSheet(r)
    PROVE  CodesInv'
  <1>1. printed \in Nat /\ printed' = printed + 1 /\ sheets' = (sheets \ gone[r]) \cup {printed + 1} /\ secrets' = secrets
    BY DEF LooseOK, CommitSheet
  <1>2. sheets' \subseteq 1..printed'
    <2>1. sheets \subseteq 1..printed
      BY DEF CodesInv
    <2>2. 1..printed \subseteq 1..printed + 1 /\ printed + 1 \in 1..printed + 1
      BY <1>1
    <2> QED
      BY <1>1, <2>1, <2>2
  <1>3. \A c \in accepted : c[1] \in Nat /\ c[1] <= secrets' /\ (c[1] = 0 => c[2] <= printed' /\ c[2] \notin sheets')
    BY <1>1 DEF CodesInv
  <1>4. CASE UNCHANGED <<row, accepted, replayed, proved, torn>>
    BY <1>2, <1>3, <1>4 DEF CodesInv
  <1>5. CASE /\ pc[r] = "enabled" /\ row' = [row EXCEPT !.enabled = TRUE, !.last = me[r].step]
             /\ Accept(<<me[r].usr.secret, me[r].step>>)
             /\ proved' = proved \cup {me[r].usr.secret} /\ torn' = (torn \/ Stale(r))
    <2> DEFINE s == me[r].usr.secret
               k == me[r].step
    <2>1. /\ s \in Nat \ {0} /\ k \in Nat /\ s <= secrets /\ ~me[r].usr.enabled
          /\ row \in LooseRows /\ row.last \in Nat
      BY <1>5 DEF LooseOK, Records, LooseRows, KnownInv, Known
    <2>2. row'.enabled /\ row'.last = k /\ row'.secret = row.secret
      BY <1>5, <2>1 DEF LooseRows
    <2>3. ~torn' => ~torn /\ s = row.secret /\ ~row.enabled
      BY <1>5, <2>1 DEF Stale
    <2>4. accepted' = accepted \cup {<<s, k>>} /\ (replayed' => replayed \/ <<s, k>> \in accepted)
      BY <1>5 DEF Accept
    <2>5. replayed' => torn'
      <3> SUFFICES ASSUME replayed', ~torn' PROVE FALSE
        OBVIOUS
      <3>1. <<s, k>> \in accepted
        BY <2>3, <2>4 DEF CodesInv
      <3> QED
        BY <2>1, <2>3, <3>1, NewCode
    <2>6. accepted' \subseteq Nat \X Nat
      BY <2>1, <2>4 DEF CodesInv
    <2>7. \A c \in accepted' : c[1] <= secrets' /\ (c[1] = 0 => c[2] <= printed' /\ c[2] \notin sheets')
      BY <1>1, <1>3, <2>1, <2>4
    <2>8. ~torn' => \A c \in accepted' : c[1] # 0 /\ c[1] = row'.secret => row'.enabled /\ c[2] <= row'.last
      <3> SUFFICES ASSUME ~torn', NEW c \in accepted', c[1] # 0, c[1] = row'.secret
                   PROVE  row'.enabled /\ c[2] <= row'.last
        OBVIOUS
      <3>1. c \notin accepted
        BY <2>2, <2>3 DEF CodesInv
      <3> QED
        BY <2>1, <2>2, <2>4, <3>1
    <2>9. row'.enabled => row'.secret \in proved' \/ torn'
      BY <1>5, <2>2, <2>3
    <2> QED
      BY <1>2, <2>5, <2>6, <2>7, <2>8, <2>9 DEF CodesInv
  <1> QED
    BY <1>4, <1>5 DEF CommitSheet

LEMMA SpendStepCodes ==
    ASSUME LooseOK, KnownInv, CodesInv, NEW r \in Requests, SpendStep(r)
    PROVE  CodesInv'
  <1>1. CASE UNCHANGED <<row, accepted, replayed, torn>>
    BY <1>1, SameCodes DEF SpendStep
  <1>2. CASE /\ row.last < me[r].step /\ row' = [row EXCEPT !.last = me[r].step]
             /\ Accept(<<me[r].usr.secret, me[r].step>>) /\ torn' = (torn \/ Stale(r))
    <2> DEFINE s == me[r].usr.secret
               k == me[r].step
    <2>1. /\ s \in Nat \ {0} /\ k \in Nat /\ s <= secrets /\ me[r].usr.enabled
          /\ row \in LooseRows /\ row.last \in Nat
      BY DEF SpendStep, LooseOK, Records, LooseRows, KnownInv, Known
    <2>2. row'.enabled = row.enabled /\ row'.last = k /\ row'.secret = row.secret
      BY <1>2, <2>1 DEF LooseRows
    <2>3. ~torn' => ~torn /\ s = row.secret /\ row.enabled
      BY <1>2, <2>1 DEF Stale
    <2>4. accepted' = accepted \cup {<<s, k>>} /\ (replayed' => replayed \/ <<s, k>> \in accepted)
      BY <1>2 DEF Accept
    <2>5. UNCHANGED <<sheets, secrets, printed, proved>>
      BY DEF SpendStep
    <2>6. replayed' => torn'
      <3> SUFFICES ASSUME replayed', ~torn' PROVE FALSE
        OBVIOUS
      <3>1. <<s, k>> \in accepted
        BY <2>3, <2>4 DEF CodesInv
      <3> QED
        BY <1>2, <2>1, <2>3, <3>1, NewCode
    <2>7. accepted' \subseteq Nat \X Nat
      BY <2>1, <2>4 DEF CodesInv
    <2>8. \A c \in accepted' : c[1] <= secrets' /\ (c[1] = 0 => c[2] <= printed' /\ c[2] \notin sheets')
      BY <2>1, <2>4, <2>5 DEF CodesInv
    <2>9. ~torn' => \A c \in accepted' : c[1] # 0 /\ c[1] = row'.secret => row'.enabled /\ c[2] <= row'.last
      <3> SUFFICES ASSUME ~torn', NEW c \in accepted', c[1] # 0, c[1] = row'.secret
                   PROVE  row'.enabled /\ c[2] <= row'.last
        OBVIOUS
      <3>1. CASE c \in accepted
        <4>1. c[2] \in Nat /\ c[2] <= row.last
          BY <2>2, <2>3, <3>1 DEF CodesInv
        <4> QED
          BY <1>2, <2>1, <2>2, <2>3, <4>1
      <3>2. CASE c = <<s, k>>
        BY <2>1, <2>2, <2>3, <3>2
      <3> QED
        BY <2>4, <3>1, <3>2
    <2>10. row'.enabled => row'.secret \in proved' \/ torn'
      <3>1. row.enabled => row.secret \in proved \/ torn
        BY DEF CodesInv
      <3>2. torn => torn'
        BY <1>2
      <3> QED
        BY <2>2, <2>5, <3>1, <3>2
    <2>11. sheets' \subseteq 1..printed'
      BY <2>5 DEF CodesInv
    <2> QED
      BY <2>6, <2>7, <2>8, <2>9, <2>10, <2>11 DEF CodesInv
  <1> QED
    BY <1>1, <1>2 DEF SpendStep

LEMMA BurnCodeCodes ==
    ASSUME LooseOK, CodesInv, NEW r \in Requests, BurnCode(r)
    PROVE  CodesInv'
  <1>1. UNCHANGED <<row, secrets, printed, proved, torn>> /\ printed \in Nat /\ secrets \in Nat
    BY DEF BurnCode, LooseOK
  <1>2. CASE UNCHANGED <<sheets, accepted, replayed>>
    BY <1>1, <1>2, SameCodes
  <1>3. ASSUME NEW b \in sheets, sheets' = sheets \ {b}, Accept(<<0, b>>)
        PROVE  CodesInv'
    <2>1. b \in 1..printed /\ b \in Nat /\ b <= printed
      BY <1>1 DEF CodesInv
    <2>2. <<0, b>> \notin accepted
      BY DEF CodesInv
    <2>3. accepted' = accepted \cup {<<0, b>>} /\ (replayed' => replayed)
      BY <1>3, <2>2 DEF Accept
    <2>4. accepted' \subseteq Nat \X Nat
      BY <2>1, <2>3 DEF CodesInv
    <2>5. \A c \in accepted' : c[1] <= secrets' /\ (c[1] = 0 => c[2] <= printed' /\ c[2] \notin sheets')
      BY <1>1, <1>3, <2>1, <2>3 DEF CodesInv
    <2>6. torn' \/ \A c \in accepted' : c[1] # 0 /\ c[1] = row'.secret => row'.enabled /\ c[2] <= row'.last
      BY <1>1, <2>3 DEF CodesInv
    <2> QED
      BY <1>1, <1>3, <2>3, <2>4, <2>5, <2>6 DEF CodesInv
  <1> QED
    BY <1>2, <1>3 DEF BurnCode

LEMMA ClearCodes ==
    ASSUME LooseOK, CodesInv, NEW r \in Requests, Clear(r)
    PROVE  CodesInv'
  <1>1. row \in LooseRows /\ row' = [row EXCEPT !.secret = 0, !.enabled = FALSE, !.last = 0]
    BY DEF LooseOK, Clear
  <1>2. row'.secret = 0 /\ ~row'.enabled
    BY <1>1 DEF LooseRows
  <1>3. sheets' \subseteq sheets /\ UNCHANGED <<secrets, printed, accepted, replayed, proved>> /\ (torn => torn')
    BY DEF Clear
  <1> QED
    BY <1>2, <1>3 DEF CodesInv

LEMMA StepCodes ==
    ASSUME LooseOK, KnownInv, CodesInv, NEW r \in Requests, Step(r) \/ Fail(r) \/ \E k \in Kinds : Arrive(r, k)
    PROVE  CodesInv'
  <1>1. CASE ChangePassword(r)
    <2>1. row \in LooseRows /\ row' = [row EXCEPT !.pw = row.pw + 1]
      BY <1>1 DEF LooseOK, ChangePassword
    <2>2. row'.secret = row.secret /\ row'.enabled = row.enabled /\ row'.last = row.last
      BY <2>1 DEF LooseRows
    <2>3. UNCHANGED <<sheets, secrets, printed, accepted, replayed, torn, proved>>
      BY <1>1 DEF ChangePassword, proof
    <2> QED
      BY <2>2, <2>3 DEF CodesInv
  <1>2. CASE CheckFirstCode(r) \/ Activate(r) \/ AwaitSheets(r) \/ DeleteSheets(r) \/ CheckCode(r)
    BY <1>2, SameCodes DEF CheckFirstCode, Activate, AwaitSheets, DeleteSheets, CheckCode, enrollment, proof
  <1>3. CASE Router(r) /\ ~ChangePassword(r)
    BY <1>3, SameCodes DEF Router, LoadUser, CheckLock, Authenticate, RedeemChallenge, DisablePassword, CodeRight,
                           CodeWrong, CountFailure, LockAccount, Release, IssueSession, Confirm, enrollment, proof
  <1>4. CASE Abort(r) \/ Fail(r) \/ \E k \in Kinds : Arrive(r, k)
    BY <1>4, SameCodes DEF Abort, Fail, Arrive, enrollment, proof
  <1> QED
    BY <1>1, <1>2, <1>3, <1>4, BeginSetupCodes, CommitSheetCodes, SpendStepCodes, BurnCodeCodes, ClearCodes
       DEF Step, TotpService

LEMMA NextCodes == LooseOK /\ KnownInv /\ CodesInv /\ [Next]_vars => CodesInv'
  <1> SUFFICES ASSUME LooseOK, KnownInv, CodesInv, [Next]_vars PROVE CodesInv'
    OBVIOUS
  <1>1. CASE UNCHANGED <<enrollment, proof>>
    BY <1>1, SameCodes DEF enrollment, proof
  <1> QED
    BY <1>1, StepCodes DEF Next, Clock, vars

LEMMA AlwaysCodes == Spec => []CodesInv
  BY InitLoose, NextLoose, InitKnown, NextKnown, InitCodes, NextCodes, PTL DEF Spec

\* A code is accepted once, however many requests present it and however their reads and their
\* conditional UPDATEs fall, unless an enrollment changed under one of them
\* (totp_service.verify_second_factor, enable).
THEOREM CodesAreSpentOnce == Spec => []CodeOnce
  <1>1. CodesInv => CodeOnce
    BY DEF CodesInv, CodeOnce
  <1> QED
    BY <1>1, AlwaysCodes, PTL

\* Two-factor asks for codes of a secret the user has shown to hold, unless two enrollments
\* overlapped (totp_service.begin_setup, enable).
THEOREM OnlyProvedSecrets == Spec => []EnabledIsProved
  <1>1. CodesInv => EnabledIsProved
    BY DEF CodesInv, EnabledIsProved
  <1> QED
    BY <1>1, AlwaysCodes, PTL
(***************************************************************************)
(* Types with the bounds.  Secrets and sheets are counted where they are   *)
(* made; passwords only at the door, so that those on their way in count.  *)
(***************************************************************************)
Waits == {"enabling", "replace", "clear"}
Changing == Doing({"change"})

DoorInv ==
    /\ row.pw + Cardinality(Changing) <= MaxPasswords
    /\ \A r \in Requests : /\ pc[r] = "load" => me[r].kind \notin {"login", "mfa", "confirm"}
                           /\ pc[r] = "change" => me[r].kind = "change"

\* A step of r that is not its arrival.
Moved(r) ==
    \E l \in Stands \ {"load"}, m \in Minds :
        /\ GoWith(r, l, m)
        /\ l # "idle" => m.kind = me[r].kind
        /\ l = "change" => m.kind = "change"
        /\ m.snap # {} => l \in Waits
        /\ m.snap # {} \/ l = "cleared" => pc[r] \in Waits

LEMMA NobodyIsMind == Nobody \in Minds /\ Nobody.snap = {} /\ Blank \in Rows
  <1>1. Blank \in Rows
    BY LockoutAssumption, TwoFactorAssumption DEF Blank, Rows
  <1>2. 0 \in 0..LastStep /\ 0 \in 0..MaxPasswords /\ "login" \in Kinds
    BY LockoutAssumption, TwoFactorAssumption DEF Kinds
  <1> QED
    BY <1>1, <1>2 DEF Nobody, Minds

LEMMA GotoMoved ==
    ASSUME TypeOK, NEW r \in Requests, NEW l \in Stands, Goto(r, l),
           l = "idle" \/ (l \notin {"load", "change", "cleared"} /\ pc[r] \notin Waits)
    PROVE  Moved(r)
  <1>1. CASE l = "idle"
    <2>1. GoWith(r, "idle", Nobody)
      BY <1>1 DEF Goto
    <2>2. "idle" \in Stands \ {"load"}
      BY DEF Stands
    <2> QED
      BY <2>1, <2>2, NobodyIsMind DEF Moved
  <1>2. CASE l # "idle"
    <2>1. GoWith(r, l, me[r]) /\ me[r] \in Minds
      BY <1>2 DEF Goto, TypeOK
    <2>2. me[r].snap = {}
      BY <1>2 DEF TypeOK, Waits
    <2> QED
      BY <1>2, <2>1, <2>2 DEF Moved
  <1> QED
    BY <1>1, <1>2

LEMMA TotpMoved ==
    ASSUME TypeOK, NEW r \in Requests, TotpService(r)
    PROVE  Moved(r)
  <1>1. {"idle", "enabling", "enabled", "replaced", "cleared", "burn", "wrong", "right", "activate", "spend"} \subseteq Stands
    BY DEF Stands
  <1>2. me[r] \in Minds /\ pc[r] \in Stands /\ (pc[r] \notin Waits => me[r].snap = {})
    BY DEF TypeOK, Waits
  <1>3. ASSUME NEW secret, NEW last, NEW c \in Codes, NEW k \in Matches(secret, last, c) PROVE k \in 0..LastStep
    BY LockoutAssumption DEF Codes, Matches
  <1>4. ASSUME NEW k \in 0..LastStep, NEW l \in {"activate", "spend"},
               GoWith(r, l, [me[r] EXCEPT !.step = k]), pc[r] \notin Waits
        PROVE  Moved(r)
    <2> DEFINE m == [me[r] EXCEPT !.step = k]
    <2>1. m \in Minds /\ m.kind = me[r].kind /\ m.snap = {}
      BY <1>2, <1>4 DEF Minds
    <2>2. l \in Stands \ {"load"} /\ l \notin {"change", "cleared"}
      BY <1>1, <1>4
    <2> HIDE DEF m
    <2>3. GoWith(r, l, m)
      BY <1>4 DEF m
    <2> QED
      BY <2>1, <2>2, <2>3 DEF Moved
  <1>5. ASSUME NEW l \in Stands \ {"load", "change"}, NEW s \in SUBSET (1..printed),
               GoWith(r, l, [me[r] EXCEPT !.snap = s]), pc[r] \in Waits, s # {} => l \in Waits
        PROVE  Moved(r)
    <2> DEFINE m == [me[r] EXCEPT !.snap = s]
    <2>1. m \in Minds /\ m.kind = me[r].kind /\ m.snap = s
      BY <1>2, <1>5 DEF Minds
    <2> HIDE DEF m
    <2>3. GoWith(r, l, m)
      BY <1>5 DEF m
    <2> QED
      BY <1>5, <2>1, <2>3 DEF Moved
  <1>6. CASE BeginSetup(r)
    BY <1>1, <1>6, GotoMoved DEF BeginSetup
  <1>7. CASE CheckFirstCode(r)
    BY <1>1, <1>3, <1>4, <1>7, GotoMoved DEF CheckFirstCode, Waits
  <1>8. CASE Activate(r)
    BY <1>1, <1>8, GotoMoved DEF Activate, Waits
  <1>9. CASE AwaitSheets(r)
    <2>1. sheets \in SUBSET (1..printed)
      BY DEF TypeOK
    <2>2. pc[r] \in Stands \ {"load", "change"} /\ pc[r] \in Waits
      BY <1>2, <1>9 DEF AwaitSheets, Waits
    <2> QED
      BY <1>5, <1>9, <2>1, <2>2 DEF AwaitSheets
  <1>10. CASE DeleteSheets(r)
    <2>1. PICK l \in {"enabled", "replaced", "cleared"} : GoWith(r, l, [me[r] EXCEPT !.snap = {}])
      BY <1>10 DEF DeleteSheets
    <2>2. l \in Stands \ {"load", "change"} /\ {} \in SUBSET (1..printed) /\ pc[r] \in Waits
      BY <1>1, <1>10 DEF DeleteSheets, Waits
    <2> QED
      BY <1>5, <2>1, <2>2
  <1>11. CASE CommitSheet(r) \/ Clear(r)
    BY <1>1, <1>11, GotoMoved DEF CommitSheet, Clear
  <1>12. CASE CheckCode(r)
    BY <1>1, <1>3, <1>4, <1>12, GotoMoved DEF CheckCode, Waits
  <1>13. CASE SpendStep(r) \/ BurnCode(r)
    BY <1>1, <1>13, GotoMoved DEF SpendStep, BurnCode, Waits
  <1> QED
    BY <1>6, <1>7, <1>8, <1>9, <1>10, <1>11, <1>12, <1>13 DEF TotpService

LEMMA RouterMoved ==
    ASSUME TypeOK, DoorInv, NEW r \in Requests, Router(r)
    PROVE  Moved(r)
  <1>1. {"idle", "verify", "password", "count", "lock", "release", "issue", "guard", "clear", "replace",
         "setup", "enable", "change"} \subseteq Stands
    BY DEF Stands
  <1>2. /\ me[r] \in Minds /\ pc[r] \in Stands /\ (pc[r] \notin Waits => me[r].snap = {})
        /\ row \in Rows
    BY DEF TypeOK, Waits
  <1>3. ASSUME NEW v \in 0..MaxPasswords, NEW l \in {"guard", "release"}, pc[r] \notin Waits,
               GoWith(r, l, [me[r] EXCEPT !.usr = row, !.pv = v])
        PROVE  Moved(r)
    <2> DEFINE m == [me[r] EXCEPT !.usr = row, !.pv = v]
    <2>1. m \in Minds /\ m.kind = me[r].kind /\ m.snap = {}
      BY <1>2, <1>3 DEF Minds
    <2>2. l \in Stands \ {"load"} /\ l \notin {"change", "cleared"}
      BY <1>1, <1>3
    <2> HIDE DEF m
    <2>3. GoWith(r, l, m)
      BY <1>3 DEF m
    <2> QED
      BY <2>1, <2>2, <2>3 DEF Moved
  <1>4. CASE LoadUser(r)
    <2> DEFINE m == [me[r] EXCEPT !.usr = row]
    <2>1. m \in Minds /\ m.kind = me[r].kind /\ m.snap = {}
      BY <1>2, <1>4 DEF Minds, LoadUser, Waits
    <2>2. me[r].kind \in {"setup", "enable", "disable", "regenerate", "change", "operator"}
      BY <1>2, <1>4 DEF DoorInv, LoadUser, Minds, Kinds
    <2> HIDE DEF m
    <2>3. PICK l \in {"guard", "clear", "setup", "enable", "change"} :
            GoWith(r, l, m) /\ (l = "change" => me[r].kind = "change")
      BY <1>4, <2>2 DEF LoadUser, m
    <2>4. l \in Stands \ {"load"}
      BY <1>1
    <2> QED
      BY <2>1, <2>3, <2>4 DEF Moved
  <1>5. CASE CheckLock(r) \/ DisablePassword(r) \/ CodeRight(r) \/ CodeWrong(r) \/ CountFailure(r)
    BY <1>1, <1>5, GotoMoved DEF CheckLock, DisablePassword, CodeRight, CodeWrong, CountFailure, Waits
  <1>6. CASE LockAccount(r) \/ Release(r) \/ IssueSession(r) \/ ChangePassword(r) \/ Confirm(r)
    BY <1>1, <1>6, GotoMoved DEF LockAccount, Release, IssueSession, ChangePassword, Confirm, Waits
  <1>7. CASE Authenticate(r)
    <2>1. row.pw \in 0..MaxPasswords
      BY <1>2 DEF Rows
    <2> QED
      BY <1>1, <1>3, <1>7, <2>1, GotoMoved DEF Authenticate, Waits
  <1>8. CASE RedeemChallenge(r)
    BY <1>1, <1>3, <1>8, GotoMoved DEF RedeemChallenge, Waits
  <1> QED
    BY <1>4, <1>5, <1>6, <1>7, <1>8 DEF Router

LEMMA StepMoved ==
    ASSUME TypeOK, DoorInv, NEW r \in Requests, Step(r) \/ Fail(r)
    PROVE  Moved(r)
  <1>1. "idle" \in Stands
    BY DEF Stands
  <1>2. CASE Abort(r) \/ Fail(r)
    BY <1>1, <1>2, GotoMoved DEF Abort, Fail
  <1> QED
    BY <1>2, TotpMoved, RouterMoved DEF Step

LEMMA InitTyped == Init => TypeOK /\ DoorInv
  <1> SUFFICES ASSUME Init PROVE TypeOK /\ DoorInv
    OBVIOUS
  <1>1. 0 \in 0..LastStep /\ 1 \in 0..LastStep /\ 0 \in 0..Limit /\ 0 \in 0..MaxPasswords
        /\ 0 \in 0..MaxSecrets /\ 1 \in 0..MaxSecrets /\ 0 \in 0..MaxSheets /\ 1 \in 0..MaxSheets
    BY LockoutAssumption, TwoFactorAssumption
  <1>2. row \in Rows /\ row.secret <= secrets /\ row.pw = 0
    <2>1. Blank \in Rows /\ Blank.secret = 0 /\ Blank.pw = 0
      BY NobodyIsMind DEF Blank
    <2>2. [Blank EXCEPT !.secret = 1, !.enabled = TRUE, !.last = 1] \in Rows
      BY <1>1, <2>1 DEF Rows
    <2>3. [Blank EXCEPT !.secret = 1, !.enabled = TRUE, !.last = 1].secret = 1
          /\ [Blank EXCEPT !.secret = 1, !.enabled = TRUE, !.last = 1].pw = 0
      BY DEF Blank
    <2>4. CASE row = Blank /\ secrets = 0
      BY <2>1, <2>4
    <2>5. CASE row = [Blank EXCEPT !.secret = 1, !.enabled = TRUE, !.last = 1] /\ secrets = 1
      BY <2>2, <2>3, <2>5
    <2> QED
      BY <2>4, <2>5 DEF Init
  <1>3. /\ secrets \in 0..MaxSecrets /\ printed \in 0..MaxSheets /\ sheets \subseteq 1..printed
        /\ proved \subseteq 1..secrets /\ verified \in BOOLEAN
    <2>1. CASE verified \in BOOLEAN /\ secrets = 0 /\ printed = 0 /\ sheets = {} /\ proved = {}
      BY <1>1, <2>1
    <2>2. CASE verified = TRUE /\ secrets = 1 /\ printed = 1 /\ sheets = {1} /\ proved = {1}
      BY <1>1, <2>2
    <2> QED
      BY <2>1, <2>2 DEF Init
  <1>4. /\ pc = [r \in Requests |-> "idle"] /\ me = [r \in Requests |-> Nobody] /\ "idle" \in Stands
        /\ gone = [r \in Requests |-> {}] /\ now = 1 /\ hits = 0 /\ fails = 0 /\ lock = FALSE
        /\ challenges = {} /\ guesses = 0 /\ replayed = FALSE /\ torn = FALSE /\ astray = {}
    BY DEF Init, Stands
  <1>5. pc \in [Requests -> Stands] /\ me \in [Requests -> Minds] /\ gone \in [Requests -> SUBSET (1..printed)]
    BY <1>4, NobodyIsMind
  <1>6. \A r \in Requests : gone[r] = {} /\ me[r].snap = {} /\ pc[r] = "idle"
    BY <1>4, NobodyIsMind
  <1>7. TypeOK
    BY <1>1, <1>2, <1>3, <1>4, <1>5, <1>6 DEF TypeOK
  <1>8. Changing = {}
    BY <1>6 DEF Changing, Doing
  <1> QED
    BY <1>1, <1>2, <1>6, <1>7, <1>8, FS_EmptySet DEF DoorInv

LEMMA ChangingFinite ==
    /\ IsFiniteSet(Changing) /\ Cardinality(Changing) \in Nat
    /\ IsFiniteSet(Changing') /\ Cardinality(Changing') \in Nat
  <1>1. Changing \subseteq Requests /\ Changing' \subseteq Requests
    BY DEF Changing, Doing
  <1> QED
    BY <1>1, TwoFactorAssumption, FS_Subset, FS_CardinalityType

\* A request under way is under way, and its kind stays.
LEMMA StepFromStand ==
    ASSUME NEW r \in Requests, Step(r) \/ Fail(r)
    PROVE  pc[r] # "idle"
  <1>1. CASE TotpService(r)
    BY <1>1 DEF TotpService, BeginSetup, CheckFirstCode, Activate, AwaitSheets, DeleteSheets, CommitSheet,
                CheckCode, SpendStep, BurnCode, Clear
  <1>2. CASE Router(r)
    BY <1>2 DEF Router, LoadUser, CheckLock, Authenticate, RedeemChallenge, DisablePassword, CodeRight,
                CodeWrong, CountFailure, LockAccount, Release, IssueSession, ChangePassword, Confirm
  <1> QED
    BY <1>1, <1>2 DEF Step, Abort, Deadlocked, Fail

\* Nobody else writes the password.
LEMMA SamePassword ==
    ASSUME TypeOK, NEW r \in Requests, Step(r) \/ Fail(r), ~ChangePassword(r)
    PROVE  row'.pw = row.pw
  <1>1. row \in Rows
    BY DEF TypeOK
  <1>2. CASE BeginSetup(r)
    <2>1. CASE row' = [row EXCEPT !.secret = secrets + 1]
      BY <1>1, <2>1 DEF Rows
    <2> QED
      BY <1>2, <2>1 DEF BeginSetup, enrollment
  <1>3. CASE CommitSheet(r)
    <2>1. CASE row' = [row EXCEPT !.enabled = TRUE, !.last = me[r].step]
      BY <1>1, <2>1 DEF Rows
    <2> QED
      BY <1>3, <2>1 DEF CommitSheet
  <1>4. CASE SpendStep(r)
    <2>1. CASE row' = [row EXCEPT !.last = me[r].step]
      BY <1>1, <2>1 DEF Rows
    <2> QED
      BY <1>4, <2>1 DEF SpendStep
  <1>5. CASE Clear(r)
    BY <1>1, <1>5 DEF Clear, Rows
  <1>6. CASE CheckFirstCode(r) \/ Activate(r) \/ AwaitSheets(r) \/ DeleteSheets(r) \/ CheckCode(r) \/ BurnCode(r)
    BY <1>6 DEF CheckFirstCode, Activate, AwaitSheets, DeleteSheets, CheckCode, BurnCode, enrollment
  <1>7. CASE Router(r)
    BY <1>7 DEF Router, LoadUser, CheckLock, Authenticate, RedeemChallenge, DisablePassword, CodeRight,
                CodeWrong, CountFailure, LockAccount, Release, IssueSession, Confirm, enrollment
  <1>8. CASE Abort(r) \/ Fail(r)
    BY <1>8 DEF Abort, Fail, enrollment
  <1> QED
    BY <1>2, <1>3, <1>4, <1>5, <1>6, <1>7, <1>8 DEF Step, TotpService

\* A change of the password that is under way was counted at the door.
LEMMA StepDoor ==
    ASSUME TypeOK, DoorInv, NEW r \in Requests, Step(r) \/ Fail(r)
    PROVE  DoorInv'
  <1>1. PICK l \in Stands \ {"load"}, m \in Minds :
          GoWith(r, l, m) /\ (l # "idle" => m.kind = me[r].kind) /\ (l = "change" => m.kind = "change")
    BY StepMoved DEF Moved
  <1>2. /\ pc'[r] = l /\ me'[r] = m
        /\ \A q \in Requests \ {r} : pc'[q] = pc[q] /\ me'[q] = me[q]
    BY <1>1 DEF GoWith, TypeOK
  <1>3. Changing' \subseteq Changing
    BY <1>1, <1>2, StepFromStand DEF Changing, Doing
  <1>4. Cardinality(Changing') <= Cardinality(Changing)
    BY <1>3, ChangingFinite, FS_Subset
  <1>5. row.pw \in Nat /\ MaxPasswords \in Nat
    BY TwoFactorAssumption DEF TypeOK, Rows
  <1>6. row'.pw + Cardinality(Changing') <= MaxPasswords
    <2>1. CASE ChangePassword(r)
      <3>1. r \in Changing /\ r \notin Changing'
        BY <1>2, <2>1 DEF ChangePassword, DoorInv, Changing, Doing, Goto, GoWith, TypeOK
      <3>2. Changing' \subseteq Changing \ {r} /\ IsFiniteSet(Changing \ {r})
            /\ Cardinality(Changing \ {r}) = Cardinality(Changing) - 1
        BY <1>3, <3>1, ChangingFinite, FS_RemoveElement
      <3>3. Cardinality(Changing') <= Cardinality(Changing) - 1
        BY <3>2, FS_Subset
      <3>4. row'.pw = row.pw + 1
        BY <2>1 DEF ChangePassword, TypeOK, Rows
      <3> QED
        BY <1>5, <3>3, <3>4, ChangingFinite DEF DoorInv
    <2>2. CASE ~ChangePassword(r)
      <3>1. row'.pw = row.pw
        BY <2>2, SamePassword
      <3> QED
        BY <1>4, <1>5, <3>1, ChangingFinite DEF DoorInv
    <2> QED
      BY <2>1, <2>2
  <1>7. ASSUME NEW q \in Requests
        PROVE  /\ pc'[q] = "load" => me'[q].kind \notin {"login", "mfa", "confirm"}
               /\ pc'[q] = "change" => me'[q].kind = "change"
    BY <1>1, <1>2 DEF DoorInv
  <1> QED
    BY <1>6, <1>7 DEF DoorInv

LEMMA ArriveDoor ==
    ASSUME TypeOK, DoorInv, NEW r \in Requests, NEW k \in Kinds, Arrive(r, k)
    PROVE  DoorInv'
  <1> DEFINE m == [Nobody EXCEPT !.kind = k, !.at = <<row.pw, row.enabled>>]
  <1>1. m.kind = k
    BY DEF Nobody
  <1> HIDE DEF m
  <1>2. PICK l \in {"guard", "challenge", "confirm", "load"} :
          GoWith(r, l, m) /\ (l = "load" => k \notin {"login", "mfa", "confirm"})
    BY DEF Arrive, m
  <1>3. /\ pc'[r] = l /\ me'[r] = m /\ pc[r] = "idle" /\ row' = row
        /\ \A q \in Requests \ {r} : pc'[q] = pc[q] /\ me'[q] = me[q]
    BY <1>2 DEF GoWith, TypeOK, Arrive, enrollment
  <1>4. row.pw \in Nat /\ MaxPasswords \in Nat
    BY TwoFactorAssumption DEF TypeOK, Rows
  <1>5. row'.pw + Cardinality(Changing') <= MaxPasswords
    <2>1. CASE k = "change"
      <3>1. Changing' = Changing \cup {r} /\ r \notin Changing
        BY <1>1, <1>2, <1>3, <2>1 DEF Changing, Doing
      <3>2. Cardinality(Changing') = Cardinality(Changing) + 1
        BY <3>1, ChangingFinite, FS_AddElement
      <3>3. row.pw + Cardinality(Changing) < MaxPasswords
        BY <2>1 DEF Arrive, WithinBounds, Changing
      <3> QED
        BY <1>3, <1>4, <3>2, <3>3, ChangingFinite
    <2>2. CASE k # "change"
      <3>1. Changing' = Changing
        BY <1>1, <1>2, <1>3, <2>2 DEF Changing, Doing
      <3> QED
        BY <1>3, <3>1 DEF DoorInv
    <2> QED
      BY <2>1, <2>2
  <1>6. ASSUME NEW q \in Requests
        PROVE  /\ pc'[q] = "load" => me'[q].kind \notin {"login", "mfa", "confirm"}
               /\ pc'[q] = "change" => me'[q].kind = "change"
    BY <1>1, <1>2, <1>3 DEF DoorInv
  <1> QED
    BY <1>5, <1>6 DEF DoorInv

\* The sheets a transaction has deleted, and what its wait leaves.
LEMMA StepGone ==
    ASSUME TypeOK, NEW r \in Requests, Step(r) \/ Fail(r)
    PROVE  /\ gone' \in [Requests -> SUBSET (1..printed)]
           /\ \A q \in Requests : gone'[q] # {} => pc'[q] \in {"enabled", "replaced", "cleared"}
  <1> DEFINE Holds == {"enabled", "replaced", "cleared"}
  <1>1. /\ gone \in [Requests -> SUBSET (1..printed)] /\ sheets \subseteq 1..printed
        /\ \A q \in Requests : gone[q] # {} => pc[q] \in Holds
    BY DEF TypeOK
  <1>2. \E l, m : GoWith(r, l, m)
    <2>1. CASE TotpService(r)
      BY <2>1 DEF TotpService, BeginSetup, CheckFirstCode, Activate, AwaitSheets, DeleteSheets, CommitSheet, CheckCode,
                  SpendStep, BurnCode, Clear, Goto
    <2>2. CASE Router(r)
      BY <2>2 DEF Router, LoadUser, CheckLock, Authenticate, RedeemChallenge, DisablePassword, CodeRight,
                  CodeWrong, CountFailure, LockAccount, Release, IssueSession, ChangePassword, Confirm, Goto
    <2> QED
      BY <2>1, <2>2 DEF Step, Abort, Fail, Goto
  <1>3. \A q \in Requests \ {r} : pc'[q] = pc[q]
    BY <1>2 DEF GoWith, TypeOK
  <1>4. ASSUME gone' = gone, pc[r] \notin Holds
        PROVE  /\ gone' \in [Requests -> SUBSET (1..printed)]
               /\ \A q \in Requests : gone'[q] # {} => pc'[q] \in Holds
    BY <1>1, <1>3, <1>4
  <1>5. ASSUME gone' = [gone EXCEPT ![r] = {}]
        PROVE  /\ gone' \in [Requests -> SUBSET (1..printed)]
               /\ \A q \in Requests : gone'[q] # {} => pc'[q] \in Holds
    BY <1>1, <1>3, <1>5
  <1>6. CASE DeleteSheets(r)
    <2>1. gone' = [gone EXCEPT ![r] = Found(r)] /\ Found(r) \subseteq 1..printed
      BY <1>1, <1>6 DEF DeleteSheets, Found
    <2>2. pc'[r] \in Holds
      BY <1>6 DEF DeleteSheets, GoWith, TypeOK
    <2> QED
      BY <1>1, <1>3, <2>1, <2>2
  <1>7. CASE CommitSheet(r) \/ Clear(r) \/ Fail(r)
    BY <1>5, <1>7 DEF CommitSheet, Clear, Fail
  <1>8. CASE BeginSetup(r) \/ CheckFirstCode(r) \/ Activate(r) \/ AwaitSheets(r) \/ CheckCode(r)
             \/ SpendStep(r) \/ BurnCode(r)
    BY <1>4, <1>8 DEF BeginSetup, CheckFirstCode, Activate, AwaitSheets, CheckCode, SpendStep, BurnCode
  <1>9. CASE Router(r)
    BY <1>4, <1>9 DEF Router, LoadUser, CheckLock, Authenticate, RedeemChallenge, DisablePassword, CodeRight,
                CodeWrong, CountFailure, LockAccount, Release, IssueSession, ChangePassword, Confirm
  <1>10. CASE Abort(r)
    BY <1>4, <1>10 DEF Abort, Deadlocked
  <1> QED
    BY <1>6, <1>7, <1>8, <1>9, <1>10 DEF Step, TotpService

\* The tables: no number beyond its bound, and no sheet or secret that was not issued.
TablesOK ==
    /\ row \in Rows /\ row.secret <= secrets
    /\ secrets \in 0..MaxSecrets /\ printed \in 0..MaxSheets
    /\ sheets \subseteq 1..printed /\ proved \subseteq 1..secrets /\ astray \subseteq 1..printed

LEMMA StepTables ==
    ASSUME TypeOK, DoorInv, KnownInv, NEW r \in Requests, Step(r) \/ Fail(r)
    PROVE  TablesOK' /\ printed <= printed' /\ row.pw <= row'.pw
  <1>1. /\ row \in Rows /\ row.secret \in Nat /\ row.pw \in 0..MaxPasswords /\ row.secret <= secrets
        /\ secrets \in 0..MaxSecrets /\ printed \in 0..MaxSheets /\ secrets \in Nat /\ printed \in Nat
        /\ sheets \subseteq 1..printed /\ proved \subseteq 1..secrets /\ astray \subseteq 1..printed
    BY DEF TypeOK, Rows
  <1>2. MaxSecrets \in Nat /\ MaxSheets \in Nat /\ MaxPasswords \in Nat /\ LastStep \in Nat
    BY LockoutAssumption, TwoFactorAssumption
  <1>3. /\ me[r].step \in 0..LastStep /\ me[r].usr.secret \in Nat /\ me[r].usr.secret <= secrets
        /\ pc[r] = "enabled" => me[r].usr.secret # 0
    BY DEF TypeOK, Minds, Rows, KnownInv, Known
  <1>4. ASSUME UNCHANGED <<row, sheets, secrets, printed, proved, astray>>
        PROVE  TablesOK' /\ printed <= printed' /\ row.pw <= row'.pw
    BY <1>1, <1>4 DEF TablesOK
  <1>5. ASSUME NEW k \in 0..LastStep
        PROVE  LET R == [row EXCEPT !.last = k]
                   E == [row EXCEPT !.enabled = TRUE, !.last = k]
               IN  R \in Rows /\ R.secret = row.secret /\ R.pw = row.pw
                   /\ E \in Rows /\ E.secret = row.secret /\ E.pw = row.pw
    BY <1>1 DEF Rows
  <1>6. CASE BeginSetup(r)
    <2>1. CASE UNCHANGED enrollment
      BY <1>4, <1>6, <2>1 DEF BeginSetup, enrollment
    <2>2. CASE secrets < MaxSecrets /\ secrets' = secrets + 1 /\ row' = [row EXCEPT !.secret = secrets + 1]
               /\ UNCHANGED <<sheets, printed>>
      <3>1. secrets' \in 0..MaxSecrets /\ 1..secrets \subseteq 1..secrets'
        BY <1>1, <1>2, <2>2
      <3>2. row' \in Rows /\ row'.secret = secrets + 1 /\ row'.pw = row.pw
        BY <1>1, <2>2, <3>1 DEF Rows
      <3>3. row'.secret <= secrets' /\ row.pw <= row'.pw
        BY <1>1, <2>2, <3>2
      <3> QED
        BY <1>1, <1>6, <2>2, <3>1, <3>2, <3>3 DEF TablesOK, BeginSetup
    <2> QED
      BY <1>6, <2>1, <2>2 DEF BeginSetup
  <1>7. CASE CommitSheet(r)
    <2>1. printed' = printed + 1 /\ printed' \in 0..MaxSheets /\ 1..printed \subseteq 1..printed'
          /\ printed + 1 \in 1..printed' /\ UNCHANGED secrets
      BY <1>1, <1>2, <1>7 DEF CommitSheet
    <2>2. sheets' \subseteq 1..printed' /\ astray' \subseteq 1..printed'
      BY <1>1, <1>7, <2>1 DEF CommitSheet
    <2>3. CASE UNCHANGED <<row, accepted, replayed, proved, torn>>
      BY <1>1, <2>1, <2>2, <2>3 DEF TablesOK
    <2>4. CASE /\ pc[r] = "enabled" /\ row' = [row EXCEPT !.enabled = TRUE, !.last = me[r].step]
               /\ proved' = proved \cup {me[r].usr.secret}
      <3>1. row' \in Rows /\ row'.secret = row.secret /\ row'.pw = row.pw
        BY <1>3, <1>5, <2>4
      <3>2. me[r].usr.secret \in 1..secrets
        BY <1>1, <1>3, <2>4
      <3> QED
        BY <1>1, <2>1, <2>2, <2>4, <3>1, <3>2 DEF TablesOK
    <2> QED
      BY <1>7, <2>3, <2>4 DEF CommitSheet
  <1>8. CASE SpendStep(r)
    <2>1. UNCHANGED <<sheets, secrets, printed, proved, astray>>
      BY <1>8 DEF SpendStep
    <2>2. CASE row' = [row EXCEPT !.last = me[r].step]
      <3>1. row' \in Rows /\ row'.secret = row.secret /\ row'.pw = row.pw
        BY <1>3, <1>5, <2>2
      <3> QED
        BY <1>1, <2>1, <3>1 DEF TablesOK
    <2> QED
      BY <1>4, <1>8, <2>1, <2>2 DEF SpendStep
  <1>9. CASE BurnCode(r)
    <2>1. UNCHANGED <<row, secrets, printed, proved, astray>> /\ sheets' \subseteq sheets
      BY <1>9 DEF BurnCode
    <2> QED
      BY <1>1, <2>1 DEF TablesOK
  <1>10. CASE Clear(r)
    <2>1. UNCHANGED <<secrets, printed, proved, astray>> /\ sheets' \subseteq sheets
          /\ row' = [row EXCEPT !.secret = 0, !.enabled = FALSE, !.last = 0]
      BY <1>10 DEF Clear
    <2>2. 0 \in 0..MaxSecrets /\ 0 \in 0..LastStep
      BY <1>2
    <2>3. row' \in Rows /\ row'.secret = 0 /\ row'.pw = row.pw
      BY <1>1, <2>1, <2>2 DEF Rows
    <2> QED
      BY <1>1, <2>1, <2>3 DEF TablesOK
  <1>11. CASE ChangePassword(r)
    <2>1. row' = [row EXCEPT !.pw = row.pw + 1] /\ UNCHANGED <<sheets, secrets, printed, proved, astray>>
      BY <1>11 DEF ChangePassword, proof
    <2>2. row' \in Rows /\ row'.secret = row.secret /\ row'.pw = row.pw + 1
      <3>1. r \in Changing
        BY <1>11 DEF ChangePassword, DoorInv, Changing, Doing
      <3>2. Cardinality(Changing) # 0
        BY <3>1, ChangingFinite, FS_EmptySet
      <3>3. row.pw + 1 \in 0..MaxPasswords
        BY <1>1, <1>2, <3>2, ChangingFinite DEF DoorInv
      <3> QED
        BY <1>1, <2>1, <3>3 DEF Rows
    <2> QED
      BY <1>1, <2>1, <2>2 DEF TablesOK
  <1>12. CASE CheckFirstCode(r) \/ Activate(r) \/ AwaitSheets(r) \/ DeleteSheets(r) \/ CheckCode(r)
    BY <1>4, <1>12 DEF CheckFirstCode, Activate, AwaitSheets, DeleteSheets, CheckCode, enrollment, proof
  <1>13. CASE Router(r) /\ ~ChangePassword(r)
    BY <1>4, <1>13 DEF Router, LoadUser, CheckLock, Authenticate, RedeemChallenge, DisablePassword, CodeRight,
                       CodeWrong, CountFailure, LockAccount, Release, IssueSession, Confirm, enrollment, proof
  <1>14. CASE Abort(r) \/ Fail(r)
    BY <1>4, <1>14 DEF Abort, Fail, enrollment, proof
  <1> QED
    BY <1>6, <1>7, <1>8, <1>9, <1>10, <1>11, <1>12, <1>13, <1>14 DEF Step, TotpService

\* What is neither in a table nor a request's own.
RestOK ==
    /\ now \in 0..LastStep /\ hits \in 0..Limit /\ verified \in BOOLEAN
    /\ challenges \subseteq 0..row.pw

LEMMA StepRest ==
    ASSUME TypeOK, NEW r \in Requests, Step(r) \/ Fail(r), row.pw <= row'.pw, row' \in Rows
    PROVE  RestOK'
  <1>1. /\ now \in 0..LastStep /\ hits \in 0..Limit /\ verified \in BOOLEAN /\ challenges \subseteq 0..row.pw
        /\ row.pw \in Nat /\ row'.pw \in Nat
    BY DEF TypeOK, Rows
  <1>2. 0..row.pw \subseteq 0..row'.pw /\ row.pw \in 0..row'.pw
    BY <1>1
  <1>3. CASE Authenticate(r)
    <2>1. UNCHANGED <<now, hits, verified>>
      BY <1>3 DEF Authenticate, lockout, Guess
    <2>2. challenges' \subseteq challenges \cup {row.pw}
      BY <1>3 DEF Authenticate, Guess, Handed
    <2> QED
      BY <1>1, <1>2, <2>1, <2>2 DEF RestOK
  <1>4. CASE Confirm(r)
    BY <1>1, <1>2, <1>4 DEF Confirm, RestOK, lockout
  <1>5. CASE Router(r) /\ ~Authenticate(r) /\ ~Confirm(r)
    <2>1. UNCHANGED <<now, hits, verified, challenges>>
      BY <1>5 DEF Router, LoadUser, CheckLock, RedeemChallenge, DisablePassword, CodeRight, CodeWrong,
                  CountFailure, LockAccount, Release, IssueSession, ChangePassword, lockout, login, Guess,
                  IncrLoginFailures, SetLoginLock, ClearLoginFailures
    <2> QED
      BY <1>1, <1>2, <2>1 DEF RestOK
  <1>6. CASE (TotpService(r) /\ UNCHANGED login) \/ Abort(r) \/ Fail(r)
    <2>1. UNCHANGED <<now, hits, verified, challenges>>
      BY <1>6 DEF TotpService, BeginSetup, CheckFirstCode, Activate, AwaitSheets, DeleteSheets, CommitSheet,
                  CheckCode, SpendStep, BurnCode, Clear, Abort, Fail, lockout, login
    <2> QED
      BY <1>1, <1>2, <2>1 DEF RestOK
  <1> QED
    BY <1>3, <1>4, <1>5, <1>6 DEF Step

\* A state with well-typed parts is well typed.
LEMMA TypedFromParts ==
    ASSUME LooseOK', TablesOK', RestOK', pc' \in [Requests -> Stands], me' \in [Requests -> Minds'],
           gone' \in [Requests -> SUBSET (1..printed')],
           \A r \in Requests : gone'[r] # {} => pc'[r] \in {"enabled", "replaced", "cleared"},
           \A r \in Requests : me'[r].snap # {} => pc'[r] \in {"enabling", "replace", "clear"}
    PROVE  TypeOK'
  BY DEF LooseOK, TablesOK, RestOK, TypeOK

LEMMA StepTyped ==
    ASSUME LooseOK, TypeOK, DoorInv, KnownInv, NEW r \in Requests, Step(r) \/ Fail(r)
    PROVE  TypeOK'
  <1>1. LooseOK' /\ TablesOK' /\ RestOK' /\ printed <= printed' /\ printed \in Nat /\ printed' \in Nat
    BY StepLoose, StepTables, StepRest DEF TablesOK, LooseOK
  <1>2. 1..printed \subseteq 1..printed'
    BY <1>1
  <1>3. Minds \subseteq Minds'
    BY <1>2 DEF Minds
  <1>4. PICK l \in Stands, m \in Minds : GoWith(r, l, m) /\ (m.snap # {} => l \in Waits)
    BY StepMoved DEF Moved
  <1>5. pc' \in [Requests -> Stands] /\ me' \in [Requests -> Minds']
    <2>1. pc \in [Requests -> Stands] /\ me \in [Requests -> Minds]
      BY DEF TypeOK
    <2>2. me' \in [Requests -> Minds]
      BY <1>4, <2>1 DEF GoWith
    <2> QED
      BY <1>3, <1>4, <2>1, <2>2 DEF GoWith
  <1>6. gone' \in [Requests -> SUBSET (1..printed')]
    BY <1>2, StepGone
  <1>7. \A q \in Requests : me'[q].snap # {} => pc'[q] \in {"enabling", "replace", "clear"}
    BY <1>4 DEF GoWith, TypeOK, Waits
  <1>8. \A q \in Requests : gone'[q] # {} => pc'[q] \in {"enabled", "replaced", "cleared"}
    BY StepGone
  <1> QED
    BY <1>1, <1>5, <1>6, <1>7, <1>8, TypedFromParts

LEMMA ArriveTyped ==
    ASSUME LooseOK, TypeOK, NEW r \in Requests, NEW k \in Kinds, Arrive(r, k)
    PROVE  TypeOK'
  <1>1. LooseOK'
    BY StepLoose
  <1>2. UNCHANGED <<now, row, secrets, printed, sheets, proved, astray, gone, verified, challenges>>
    BY DEF Arrive, enrollment, proof
  <1>3. hits' \in 0..Limit
    <2>1. hits \in 0..Limit /\ Limit \in Nat
      BY LockoutAssumption DEF TypeOK
    <2> QED
      BY <2>1 DEF Arrive, WithinRateLimit
  <1>4. TablesOK' /\ RestOK'
    BY <1>2, <1>3 DEF TypeOK, TablesOK, RestOK
  <1> DEFINE m == [Nobody EXCEPT !.kind = k, !.at = <<row.pw, row.enabled>>]
  <1>5. m \in Minds /\ m.snap = {}
    <2>1. row.pw \in 0..MaxPasswords /\ row.enabled \in BOOLEAN
      BY DEF TypeOK, Rows
    <2> QED
      BY <2>1, NobodyIsMind DEF Minds
  <1> HIDE DEF m
  <1>6. PICK l \in {"guard", "challenge", "confirm", "load"} : GoWith(r, l, m) /\ pc[r] = "idle"
    BY DEF Arrive, m
  <1>7. l \in Stands
    BY DEF Stands
  <1>8. pc' \in [Requests -> Stands] /\ me' \in [Requests -> Minds] /\ Minds' = Minds
    BY <1>2, <1>5, <1>6, <1>7 DEF GoWith, TypeOK, Minds
  <1>9. gone' \in [Requests -> SUBSET (1..printed')]
    BY <1>2 DEF TypeOK
  <1>10. \A q \in Requests : gone'[q] # {} => pc'[q] \in {"enabled", "replaced", "cleared"}
    BY <1>2, <1>6 DEF GoWith, TypeOK
  <1>11. \A q \in Requests : me'[q].snap # {} => pc'[q] \in {"enabling", "replace", "clear"}
    BY <1>5, <1>6 DEF GoWith, TypeOK
  <1> QED
    BY <1>1, <1>4, <1>8, <1>9, <1>10, <1>11, TypedFromParts

LEMMA NextTyped == LooseOK /\ KnownInv /\ TypeOK /\ DoorInv /\ [Next]_vars => TypeOK' /\ DoorInv'
  <1> SUFFICES ASSUME LooseOK, KnownInv, TypeOK, DoorInv, [Next]_vars PROVE TypeOK' /\ DoorInv'
    OBVIOUS
  <1>1. ASSUME UNCHANGED <<row, secrets, printed, sheets, pc, me, gone, verified, challenges, proved, astray>>,
               now' \in 0..LastStep, hits' \in 0..Limit
        PROVE  TypeOK' /\ DoorInv'
    <2>1. LooseOK'
      BY NextLoose
    <2>2. TablesOK' /\ RestOK' /\ Minds' = Minds
      BY <1>1 DEF TypeOK, TablesOK, RestOK, Minds
    <2>3. TypeOK'
      BY <1>1, <2>1, <2>2, TypedFromParts DEF TypeOK
    <2>4. DoorInv'
      BY <1>1 DEF DoorInv, Changing, Doing
    <2> QED
      BY <2>3, <2>4
  <1>2. CASE UNCHANGED vars
    BY <1>1, <1>2 DEF TypeOK, vars, lockout, enrollment, proof, login
  <1>3. CASE Clock
    <2>1. UNCHANGED <<row, secrets, printed, sheets, pc, me, gone, verified, challenges, proved, astray>>
      BY <1>3 DEF Clock, enrollment, proof
    <2>2. now \in 0..LastStep /\ hits \in 0..Limit /\ LastStep \in Nat /\ Limit \in Nat
      BY LockoutAssumption DEF TypeOK
    <2>3. now' \in 0..LastStep /\ hits' \in 0..Limit
      BY <1>3, <2>2 DEF Clock, Elapse, Tick, FailuresAgeOut, LockAgesOut
    <2> QED
      BY <1>1, <2>1, <2>3
  <1>4. CASE \E r \in Requests : Step(r) \/ Fail(r)
    BY <1>4, StepTyped, StepDoor
  <1>5. CASE \E r \in Requests : \E k \in Kinds : Arrive(r, k)
    BY <1>5, ArriveTyped, ArriveDoor
  <1> QED
    BY <1>2, <1>3, <1>4, <1>5 DEF Next

LEMMA AlwaysTyped == Spec => []TypeOK
  BY InitLoose, NextLoose, InitKnown, NextKnown, InitTyped, NextTyped, PTL DEF Spec

\* Every reachable state is well typed, with its numbers within their bounds: what a request holds, found
\* or waits for are sheets that were issued, and only while it is where it may (totp_service.py, auth.py).
THEOREM LoginTyped == Spec => []TypeOK
  BY AlwaysTyped

(***************************************************************************)
(* Recovery codes of an enrollment that is off, and the deadlock they make *)
(* possible.  A clear that has begun its DELETE accounts for every sheet   *)
(* but those issued since, out of its sight.                               *)
(***************************************************************************)
Left(q) == CASE pc[q] = "cleared" -> sheets \ gone[q]
             [] pc[q] = "clear" /\ me[q].snap # {} -> sheets \ me[q].snap
             [] OTHER -> {}

StrayInv ==
    /\ ~row.enabled => sheets \subseteq astray
    /\ \A q \in Requests : Left(q) \subseteq astray

LEMMA InitStray == Init => StrayInv
  <1> SUFFICES ASSUME Init PROVE StrayInv
    OBVIOUS
  <1>1. \A q \in Requests : Left(q) = {}
    BY DEF Init, Left
  <1>2. ~row.enabled => sheets = {}
    BY DEF Init, Blank
  <1> QED
    BY <1>1, <1>2 DEF StrayInv

\* A step of r by which no sheet comes into sight, and which leaves r no sheet to account for.
LEMMA SameStray ==
    ASSUME TypeOK, StrayInv, NEW r \in Requests, sheets' \subseteq sheets, astray \subseteq astray',
           ~row'.enabled => ~row.enabled,
           \A q \in Requests \ {r} : pc'[q] = pc[q] /\ me'[q] = me[q] /\ gone'[q] = gone[q],
           Left(r)' \subseteq astray'
    PROVE  StrayInv'
  <1>1. \A q \in Requests \ {r} : Left(q)' \subseteq Left(q)
    BY DEF Left
  <1> QED
    BY <1>1 DEF StrayInv

LEMMA StepStray ==
    ASSUME TypeOK, DoorInv, StrayInv, NEW r \in Requests, Step(r) \/ Fail(r)
    PROVE  StrayInv'
  <1>1. PICK l \in Stands \ {"load"}, m \in Minds :
          GoWith(r, l, m) /\ (m.snap # {} \/ l = "cleared" => pc[r] \in Waits)
    BY StepMoved DEF Moved
  <1>2. /\ pc'[r] = l /\ me'[r] = m
        /\ \A q \in Requests \ {r} : pc'[q] = pc[q] /\ me'[q] = me[q]
    BY <1>1 DEF GoWith, TypeOK
  <1>3. pc[r] \notin Waits => Left(r)' = {}
    BY <1>1, <1>2 DEF Left
  <1>4. row \in Rows /\ gone \in [Requests -> SUBSET (1..printed)]
    BY DEF TypeOK
  <1>5. CASE BeginSetup(r)
    <2>1. row'.enabled = row.enabled
      <3>1. CASE row' = [row EXCEPT !.secret = secrets + 1]
        BY <1>4, <3>1 DEF Rows
      <3> QED
        BY <1>5, <3>1 DEF BeginSetup, enrollment
    <2>2. UNCHANGED <<sheets, astray, gone>> /\ pc[r] \notin Waits
      BY <1>5 DEF BeginSetup, enrollment, Waits
    <2> QED
      BY <1>2, <1>3, <2>1, <2>2, SameStray
  <1>6. CASE SpendStep(r)
    <2>1. row'.enabled = row.enabled
      <3>1. CASE row' = [row EXCEPT !.last = me[r].step]
        BY <1>4, <3>1 DEF Rows
      <3> QED
        BY <1>6, <3>1 DEF SpendStep
    <2>2. UNCHANGED <<sheets, astray, gone>> /\ pc[r] \notin Waits
      BY <1>6 DEF SpendStep, Waits
    <2> QED
      BY <1>2, <1>3, <2>1, <2>2, SameStray
  <1>7. CASE BurnCode(r)
    <2>1. sheets' \subseteq sheets /\ UNCHANGED <<row, astray, gone>> /\ pc[r] \notin Waits
      BY <1>7 DEF BurnCode, Waits
    <2> QED
      BY <1>2, <1>3, <2>1, SameStray
  <1>8. CASE AwaitSheets(r)
    <2>1. UNCHANGED <<row, sheets, astray, gone>> /\ pc'[r] # "cleared" /\ me'[r] = [me[r] EXCEPT !.snap = sheets]
      BY <1>8 DEF AwaitSheets, GoWith, TypeOK, enrollment, proof
    <2>2. me'[r].snap = sheets
      BY <2>1 DEF TypeOK, Minds
    <2>3. Left(r)' = {}
      BY <2>1, <2>2 DEF Left
    <2> QED
      BY <1>2, <2>1, <2>3, SameStray
  <1>9. CASE DeleteSheets(r)
    <2>1. /\ UNCHANGED <<row, sheets, astray>> /\ gone' = [gone EXCEPT ![r] = Found(r)]
          /\ me'[r] = [me[r] EXCEPT !.snap = {}] /\ (pc'[r] = "cleared" => pc[r] = "clear")
      BY <1>9 DEF DeleteSheets, GoWith, TypeOK, enrollment, proof
    <2>2. gone'[r] = Found(r) /\ \A q \in Requests \ {r} : gone'[q] = gone[q]
      BY <1>4, <2>1
    <2>3. me'[r].snap = {}
      BY <2>1 DEF TypeOK, Minds
    <2>4. Left(r)' \subseteq astray
      <3>1. CASE pc'[r] = "cleared"
        <4>1. Left(r)' = sheets \ Found(r) /\ pc[r] = "clear"
          BY <2>1, <2>2, <3>1 DEF Left
        <4>2. CASE me[r].snap = {}
          BY <4>1, <4>2 DEF Found
        <4>3. CASE me[r].snap # {}
          BY <4>1, <4>3 DEF Found, StrayInv, Left
        <4> QED
          BY <4>2, <4>3
      <3>2. CASE pc'[r] # "cleared"
        BY <2>3, <3>2 DEF Left
      <3> QED
        BY <3>1, <3>2
    <2> QED
      BY <1>2, <2>1, <2>2, <2>4, SameStray
  <1>10. CASE Clear(r)
    <2>1. /\ sheets' = sheets \ gone[r] /\ astray' = astray /\ gone' = [gone EXCEPT ![r] = {}]
          /\ pc[r] = "cleared" /\ pc'[r] = "idle"
      BY <1>10 DEF Clear, Goto, GoWith, TypeOK
    <2>2. sheets' \subseteq astray
      BY <2>1 DEF StrayInv, Left
    <2>3. \A q \in Requests : Left(q)' \subseteq sheets'
      BY DEF Left
    <2> QED
      BY <2>1, <2>2, <2>3 DEF StrayInv
  <1>11. CASE CommitSheet(r)
    <2>1. /\ sheets' = (sheets \ gone[r]) \cup {printed + 1} /\ gone' = [gone EXCEPT ![r] = {}]
          /\ pc'[r] = "idle" /\ astray \subseteq astray'
          /\ astray' = IF OutOfSight(r) THEN astray \cup {printed + 1} ELSE astray
      BY <1>11 DEF CommitSheet, Goto, GoWith, TypeOK
    <2>2. row'.enabled <=> row.enabled \/ pc[r] = "enabled"
      <3>1. CASE pc[r] = "enabled" /\ row' = [row EXCEPT !.enabled = TRUE, !.last = me[r].step]
        BY <1>4, <3>1 DEF Rows
      <3> QED
        BY <1>11, <3>1 DEF CommitSheet
    <2>3. \A q \in Requests \ {r} : gone'[q] = gone[q]
      BY <1>4, <2>1
    <2>4. Left(r)' = {}
      BY <2>1 DEF Left
    <2>5. CASE OutOfSight(r)
      <3>1. \A q \in Requests \ {r} : Left(q)' \subseteq Left(q) \cup {printed + 1}
        BY <1>2, <2>1, <2>3 DEF Left
      <3> QED
        BY <2>1, <2>2, <2>4, <2>5, <3>1 DEF StrayInv
    <2>6. CASE ~OutOfSight(r)
      <3>1. \A q \in Requests \ {r} : Left(q)' = {}
        BY <1>2, <2>6 DEF OutOfSight, Left
      <3>2. row'.enabled
        BY <1>11, <2>2, <2>6 DEF CommitSheet, OutOfSight
      <3> QED
        BY <2>4, <3>1, <3>2 DEF StrayInv
    <2> QED
      BY <2>5, <2>6
  <1>12. CASE CheckFirstCode(r) \/ Activate(r) \/ CheckCode(r)
    <2>1. UNCHANGED <<row, sheets, astray, gone>> /\ pc[r] \notin Waits
      BY <1>12 DEF CheckFirstCode, Activate, CheckCode, enrollment, proof, Waits
    <2> QED
      BY <1>2, <1>3, <2>1, SameStray
  <1>13. CASE Router(r)
    <2>1. row'.enabled = row.enabled
      <3>1. CASE ChangePassword(r)
        BY <1>4, <3>1 DEF ChangePassword, Rows
      <3>2. CASE ~ChangePassword(r)
        BY <1>13, <3>2 DEF Router, LoadUser, CheckLock, Authenticate, RedeemChallenge, DisablePassword, CodeRight,
                  CodeWrong, CountFailure, LockAccount, Release, IssueSession, Confirm, enrollment
      <3> QED
        BY <3>1, <3>2
    <2>2. UNCHANGED <<sheets, astray, gone>> /\ pc[r] \notin Waits
      BY <1>13 DEF Router, LoadUser, CheckLock, Authenticate, RedeemChallenge, DisablePassword, CodeRight,
                CodeWrong, CountFailure, LockAccount, Release, IssueSession, ChangePassword, Confirm, enrollment,
                proof, Waits
    <2> QED
      BY <1>2, <1>3, <2>1, <2>2, SameStray
  <1>14. CASE Abort(r) \/ Fail(r)
    <2>1. UNCHANGED <<row, sheets, astray>> /\ pc'[r] = "idle"
      BY <1>14 DEF Abort, Fail, Goto, GoWith, TypeOK, enrollment, proof
    <2>2. me'[r] = Nobody
      BY <1>14 DEF Abort, Fail, Goto, GoWith, TypeOK
    <2>3. Left(r)' = {} /\ \A q \in Requests \ {r} : gone'[q] = gone[q]
      BY <1>4, <1>14, <2>1 DEF Left, Abort, Fail
    <2> QED
      BY <1>2, <2>1, <2>3, SameStray
  <1> QED
    BY <1>5, <1>6, <1>7, <1>8, <1>9, <1>10, <1>11, <1>12, <1>13, <1>14 DEF Step, TotpService

LEMMA NextStray == TypeOK /\ DoorInv /\ StrayInv /\ [Next]_vars => StrayInv'
  <1> SUFFICES ASSUME TypeOK, DoorInv, StrayInv, [Next]_vars PROVE StrayInv'
    OBVIOUS
  <1>1. CASE UNCHANGED <<row, sheets, astray, pc, me, gone>>
    BY <1>1 DEF StrayInv, Left
  <1>2. CASE \E r \in Requests : Step(r) \/ Fail(r)
    BY <1>2, StepStray
  <1>3. ASSUME NEW r \in Requests, NEW k \in Kinds, Arrive(r, k) PROVE StrayInv'
    <2>1. /\ UNCHANGED <<row, sheets, astray, gone>> /\ pc'[r] \in {"guard", "challenge", "confirm", "load"}
          /\ \A q \in Requests \ {r} : pc'[q] = pc[q] /\ me'[q] = me[q]
      BY <1>3 DEF Arrive, GoWith, TypeOK, enrollment, proof
    <2>2. Left(r)' = {}
      BY <2>1 DEF Left
    <2> QED
      BY <2>1, <2>2, SameStray
  <1> QED
    BY <1>1, <1>2, <1>3 DEF Next, Clock, vars, enrollment, proof

\* enable and clear take the rows of users and recovery_codes in opposite orders, and still wait for
\* each other only if the enrollment was turned on or off since enable looked, or over a sheet
\* issued out of the sight of a clear (totp_service.enable, clear, regenerate_recovery_codes).
THEOREM DeadlocksAreOfStale == Spec => []NoDeadlock
  <1>1. TypeOK /\ KnownInv /\ StrayInv => NoDeadlock
    <2> SUFFICES ASSUME TypeOK, KnownInv, StrayInv, NEW q \in Requests, NEW r \in Requests,
                        Deadlocked(q, r), ~Stale(r)
                 PROVE  gone[q] \cap astray # {}
      BY DEF NoDeadlock
    <2>1. ~row.enabled
      BY DEF Deadlocked, KnownInv, Known, Stale
    <2>2. sheets \subseteq astray
      BY <2>1 DEF StrayInv
    <2>3. PICK s : s \in gone[q] /\ s \in sheets
      BY DEF Deadlocked, Found
    <2> QED
      BY <2>2, <2>3
  <1> QED
    BY <1>1, InitLoose, NextLoose, InitKnown, NextKnown, InitTyped, NextTyped, InitStray, NextStray, PTL DEF Spec
=============================================================================
