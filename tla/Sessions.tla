------------------------------ MODULE Sessions ------------------------------
(***************************************************************************)
(* The sessions of one account: refresh tokens and everything that opens,  *)
(* rotates or ends them (services/auth_service.py, and change_password and *)
(* reset_password of services/account_service.py), with the cookie of one  *)
(* browser (routers/auth.py).                                              *)
(*                                                                         *)
(* Every request runs in a Postgres transaction at READ COMMITTED, one     *)
(* statement a step.  A statement sees what was committed when it started; *)
(* an UPDATE waits for the rows that another open transaction has updated, *)
(* and then looks at its WHERE again.  Rows inserted meanwhile are not     *)
(* seen.  An UPDATE of many rows takes them in the order of its scan, here  *)
(* that of issue; Postgres aborts a transaction that waits in a circle.     *)
(*                                                                         *)
(* The tabs of the browser share one cookie jar and run one refresh each   *)
(* at a time (refreshPromise of api/client.ts).  The other requests come   *)
(* from other devices, and may present any token that was ever issued.     *)
(***************************************************************************)
EXTENDS Naturals, FiniteSets

CONSTANTS
    Tabs,          \* requests of the browser
    Others,        \* requests of other devices, with their own cookies
    MaxTokens,     \* bound: refresh tokens ever issued
    MaxPasswords,  \* bound: password changes
    MaxRequests    \* bound: requests

ASSUME SessionsAssumption ==
    /\ MaxTokens \in Nat \ {0, 1} /\ MaxPasswords \in Nat /\ MaxRequests \in Nat
    /\ Tabs \cap Others = {}

Requests == Tabs \cup Others
Tokens == 1..MaxTokens

VARIABLES
    issued,      \* rows 1..issued of refresh_tokens are committed
    revoked,     \* those with revoked_at
    rotated,     \* rotated_at: null, within REFRESH_GRACE_SECONDS, or longer ago
    password,    \* version of users.password_hash
    link,        \* the emailed reset link: used_at is null, or set
    jar,         \* the refresh cookie of the browser (0: none)
    pc, kind, tok,           \* where a request stands, what it is, the token it presented
    upto, revoking,          \* its UPDATE of revoked_at: rows of its snapshot, rows it holds
    graced, clearing,        \* its UPDATE of rotated_at: rows yet to scan, rows it holds
    seen,                    \* the password version a login verified against
    got,                     \* the new token in its reply
    arrived,                 \* requests so far
    era, spared, ended, consumed, calm   \* history: see the properties

db == <<issued, revoked, rotated, password, link>>
txn == <<kind, tok, upto, revoking, graced, clearing, seen>>
history == <<era, spared, ended, consumed, calm>>
vars == <<db, jar, pc, txn, got, arrived, history>>

Kinds == {"login", "refresh", "logout", "change", "reset"}
Issued == 1..issued
Live == Issued \ revoked

TypeOK ==
    /\ issued \in 0..MaxTokens
    /\ revoked \subseteq Issued
    /\ rotated \in [Tokens -> {"null", "recent", "old"}]
    /\ password \in 0..MaxPasswords
    /\ link \in {"fresh", "used"}
    /\ jar \in 0..issued
    /\ pc \in [Requests -> {"idle", "read", "claim", "spend", "claimed", "spent", "issue", "close",
                            "link", "setpw", "revoke", "revoking", "ungrace", "ungracing", "reply"}]
    /\ kind \in [Requests -> Kinds]
    /\ tok \in [Requests -> 0..issued]
    /\ upto \in [Requests -> 0..issued]
    /\ revoking \in [Requests -> SUBSET Issued]
    /\ graced \in [Requests -> SUBSET Issued]
    /\ clearing \in [Requests -> SUBSET Issued]
    /\ seen \in [Requests -> 0..MaxPasswords]
    /\ got \in [Requests -> 0..issued]
    /\ era \in [Tokens -> 0..MaxPasswords]
    /\ spared \subseteq Issued /\ ended \subseteq Issued /\ consumed \subseteq Issued
    /\ calm \in BOOLEAN
    /\ arrived \in 0..MaxRequests

\* The browser is signed in with token 2; token 1 is another device's, live or, a moment ago,
\* rotated into token 2.
Init ==
    /\ issued = 2
    /\ revoked \in {{}, {1}}
    /\ rotated = [t \in Tokens |-> IF t \in revoked THEN "recent" ELSE "null"]
    /\ jar = 2
    /\ password = 0 /\ link = "fresh"
    /\ pc = [r \in Requests |-> "idle"]
    /\ kind = [r \in Requests |-> "refresh"]
    /\ tok = [r \in Requests |-> 0]
    /\ upto = [r \in Requests |-> 0]
    /\ revoking = [r \in Requests |-> {}]
    /\ graced = [r \in Requests |-> {}]
    /\ clearing = [r \in Requests |-> {}]
    /\ seen = [r \in Requests |-> 0]
    /\ got = [r \in Requests |-> 0]
    /\ era = [t \in Tokens |-> 0]
    /\ spared = {} /\ ended = {} /\ consumed = revoked
    /\ calm = TRUE
    /\ arrived = 0

Goto(r, l) == pc' = [pc EXCEPT ![r] = l]

\* The request is over: its transaction is closed and its record is that of an idle one.
Finish(r, l) ==
    /\ Goto(r, l)
    /\ kind' = [kind EXCEPT ![r] = "refresh"]
    /\ tok' = [tok EXCEPT ![r] = 0]
    /\ upto' = [upto EXCEPT ![r] = 0]
    /\ revoking' = [revoking EXCEPT ![r] = {}]
    /\ graced' = [graced EXCEPT ![r] = {}]
    /\ clearing' = [clearing EXCEPT ![r] = {}]
    /\ seen' = [seen EXCEPT ![r] = 0]

\* Whether the open transaction of q has updated the row of token t.
Holds(q, t) == t \in revoking[q] \cup clearing[q] \/ (pc[q] \in {"claimed", "spent"} /\ tok[q] = t)

\* Mutant of Held: a transaction waits for its own rows, as if each statement had a connection of
\* its own.
HeldByAny(t, r) == \E q \in Requests : Holds(q, t)

\* Whether a transaction other than r's has.
Held(t, r) == \E q \in Requests \ {r} : Holds(q, t)

\* change_password and reset_password hold the user's row from their first UPDATE.
HoldsUser(q) == kind[q] \in {"change", "reset"} /\ pc[q] \in {"revoke", "revoking", "ungrace", "ungracing"}
HoldsLink(q) == kind[q] = "reset" /\ (pc[q] = "setpw" \/ HoldsUser(q))

-----------------------------------------------------------------------------
(* Requests arrive *)

\* Requests that may yet issue a token.
Issuing == {q \in Requests : kind[q] \in {"login", "refresh"} /\ pc[q] \notin {"idle", "reply"}}

\* A tab sends the cookie of the jar, another device any token; a refresh without a cookie is
\* answered NO_REFRESH at once, and a logout without one only clears the cookies.
Arrive(r, k, t) ==
    /\ pc[r] = "idle"
    /\ arrived < MaxRequests
    /\ arrived' = arrived + 1
    /\ r \in Tabs => t = jar /\ k \in {"login", "refresh", "logout", "change"}
    /\ k \in {"login", "reset"} => t = 0
    /\ k \in {"refresh", "logout"} => t # 0
    /\ k \in {"login", "refresh"} => issued + Cardinality(Issuing) < MaxTokens
    /\ kind' = [kind EXCEPT ![r] = k]
    /\ tok' = [tok EXCEPT ![r] = t]
    /\ Goto(r, "read")
    /\ calm' = (calm /\ r \in Tabs /\ k = "refresh")
    /\ UNCHANGED <<db, jar, upto, revoking, graced, clearing, seen, got, era, spared, ended, consumed>>

-----------------------------------------------------------------------------
(* rotate_refresh_token *)

\* Inside the window a consumed token is a concurrent request, otherwise it is reuse.
InGrace(t) == rotated[t] = "recent"

\* SELECT of the row.  A token may have expired: a live one is then refused, but one that was
\* exchanged is taken for reuse even inside its window.  A row the sweep has pruned is refused.
ReadToken(r) ==
    /\ pc[r] = "read" /\ kind[r] = "refresh"
    /\ \/ Finish(r, "idle") /\ calm' = FALSE
       \/ tok[r] \in Live /\ Goto(r, "claim") /\ UNCHANGED <<txn, calm>>
       \/ tok[r] \in revoked /\ InGrace(tok[r]) /\ Goto(r, "spend") /\ UNCHANGED <<txn, calm>>
       \/ tok[r] \in revoked /\ Goto(r, "revoke") /\ calm' = (calm /\ ~InGrace(tok[r])) /\ UNCHANGED txn
    /\ UNCHANGED <<db, jar, got, era, spared, ended, consumed, arrived>>

\* Mutant of Claim: the check and the write are two steps, so that both of two callers pass.
ClaimUnchecked(r) ==
    /\ pc[r] = "claim"
    /\ Goto(r, "claimed")
    /\ UNCHANGED <<db, jar, txn, got, history, arrived>>

\* Mutant of Claim: who changes no row goes by what it read, without reading the row again.
ClaimOnce(r) ==
    /\ pc[r] = "claim"
    /\ ~Held(tok[r], r)
    /\ Goto(r, IF tok[r] \notin revoked THEN "claimed" ELSE "revoke")
    /\ UNCHANGED <<db, jar, txn, got, history, arrived>>

\* UPDATE ... WHERE revoked_at IS NULL.  Who changes no row reads the row again: whatever
\* consumed it since the first read is recent.
Claim(r) ==
    /\ pc[r] = "claim"
    /\ ~Held(tok[r], r)
    /\ Goto(r, CASE tok[r] \notin revoked          -> "claimed"
                 [] rotated[tok[r]] # "null"       -> "spend"
                 [] OTHER                          -> "revoke")
    /\ UNCHANGED <<db, jar, txn, got, history, arrived>>

\* UPDATE ... SET rotated_at = NULL WHERE rotated_at is what was read: grace is spent once.
Spend(r) ==
    /\ pc[r] = "spend"
    /\ ~Held(tok[r], r)
    /\ Goto(r, IF rotated[tok[r]] # "null" THEN "spent" ELSE "revoke")
    /\ UNCHANGED <<db, jar, txn, got, history, arrived>>

\* Some change or reset has taken the snapshot of the rows it revokes, and has not committed.
Revoking == \E q \in Requests : kind[q] \in {"change", "reset"} /\ pc[q] \in {"revoking", "ungrace", "ungracing"}

\* _issue_successor: the successor is inserted and the transaction commits.
IssueSuccessor(r) ==
    /\ pc[r] \in {"claimed", "spent"}
    /\ issued < MaxTokens
    /\ LET t == tok[r]
           n == issued + 1
       IN  /\ issued' = n
           /\ revoked' = IF pc[r] = "claimed" THEN revoked \cup {t} ELSE revoked
           /\ rotated' = [rotated EXCEPT ![t] = IF pc[r] = "claimed" THEN "recent" ELSE "null"]
           /\ got' = [got EXCEPT ![r] = n]
           /\ era' = [era EXCEPT ![n] = era[t]]
           /\ spared' = IF t \in spared \/ Revoking THEN spared \cup {n} ELSE spared
           /\ consumed' = consumed \cup {t}
    /\ Finish(r, "reply")
    /\ UNCHANGED <<password, link, jar, ended, calm, arrived>>

-----------------------------------------------------------------------------
(* Login, logout, change of password, reset *)

\* authenticate: the password is checked against the row as it is now.
Authenticate(r) ==
    /\ pc[r] = "read" /\ kind[r] = "login"
    /\ \/ Finish(r, "idle")
       \/ Goto(r, "issue") /\ seen' = [seen EXCEPT ![r] = password]
          /\ UNCHANGED <<kind, tok, upto, revoking, graced, clearing>>
    /\ UNCHANGED <<db, jar, got, history, arrived>>

\* issue_refresh_token.
IssueRefreshToken(r) ==
    /\ pc[r] = "issue"
    /\ issued < MaxTokens
    /\ issued' = issued + 1
    /\ got' = [got EXCEPT ![r] = issued + 1]
    /\ era' = [era EXCEPT ![issued + 1] = seen[r]]
    /\ spared' = IF Revoking \/ seen[r] # password THEN spared \cup {issued + 1} ELSE spared
    /\ Finish(r, "reply")
    /\ UNCHANGED <<revoked, rotated, password, link, jar, ended, consumed, calm, arrived>>

\* revoke_refresh_token: nothing to do for an unknown or an already revoked token.
ReadLogout(r) ==
    /\ pc[r] = "read" /\ kind[r] = "logout"
    /\ \/ tok[r] \in Live /\ Goto(r, "close") /\ UNCHANGED txn
       \/ tok[r] \notin Live /\ Finish(r, "reply")
    /\ UNCHANGED <<db, jar, got, history, arrived>>

\* The UPDATE of the row that was read, whatever has become of it, flushed by the next statement.
CloseSession(r) ==
    /\ pc[r] = "close"
    /\ ~Held(tok[r], r)
    /\ revoking' = [revoking EXCEPT ![r] = {tok[r]}]
    /\ Goto(r, "ungrace")
    /\ UNCHANGED <<db, jar, kind, tok, upto, graced, clearing, seen, got, history, arrived>>

\* change_password: the current password is checked against the user as loaded, then the new one
\* against the policy; both may be refused.
CheckPassword(r) ==
    /\ pc[r] = "read" /\ kind[r] = "change"
    /\ \/ Finish(r, "idle")
       \/ Goto(r, "setpw") /\ UNCHANGED txn
    /\ UNCHANGED <<db, jar, got, history, arrived>>

\* _consume_token reads the link in one statement...
ReadLink(r) ==
    /\ pc[r] = "read" /\ kind[r] = "reset"
    /\ \/ link = "fresh" /\ Goto(r, "link") /\ UNCHANGED txn
       \/ link = "used" /\ Finish(r, "idle")
    /\ UNCHANGED <<db, jar, got, history, arrived>>

\* ...and its UPDATE, flushed by the load of the user, waits for the row but asks nothing.
UseLink(r) ==
    /\ pc[r] = "link"
    /\ \A q \in Requests \ {r} : ~HoldsLink(q)
    /\ Goto(r, "setpw")
    /\ UNCHANGED <<db, jar, txn, got, history, arrived>>

\* The new hash is flushed by the revoking UPDATE that follows; a weak password raises instead,
\* and the whole transaction is rolled back.
SetPassword(r) ==
    /\ pc[r] = "setpw"
    /\ \A q \in Requests \ {r} : ~HoldsUser(q)
    /\ \/ Finish(r, "idle")
       \/ password < MaxPasswords /\ Goto(r, "revoke") /\ UNCHANGED txn
    /\ UNCHANGED <<db, jar, got, history, arrived>>

-----------------------------------------------------------------------------
(* The rows that end: _revoke_all and its like in change_password and reset_password *)

\* The session of the caller is kept by a change of password only.
Keep(r) == IF kind[r] = "change" THEN {tok[r]} ELSE {}

\* The UPDATE starts: the rows of its snapshot.
BeginRevoke(r) ==
    /\ pc[r] = "revoke"
    /\ upto' = [upto EXCEPT ![r] = issued]
    /\ Goto(r, "revoking")
    /\ UNCHANGED <<db, jar, kind, tok, revoking, graced, clearing, seen, got, history, arrived>>

\* Mutant of Covered: the caller's own session is the only one revoked.
CoveredKept(r) == (1..upto[r] \ revoked) \cap Keep(r)

\* The rows that still match when they are locked.
Covered(r) == (1..upto[r] \ revoked) \ Keep(r)

RevokeRows(r) ==
    /\ pc[r] = "revoking"
    /\ \A t \in Covered(r) : ~Held(t, r)
    /\ revoking' = [revoking EXCEPT ![r] = Covered(r)]
    /\ Goto(r, "ungrace")
    /\ UNCHANGED <<db, jar, kind, tok, upto, graced, clearing, seen, got, history, arrived>>

\* Mutant of InGraceRows: the UPDATE has no WHERE.
AnyRows == Tokens

\* end_rotation_grace: every row of the user with a rotated_at.
InGraceRows == {t \in Issued : rotated[t] # "null"}

\* Mutant of EndRotationGrace: logout leaves the grace of the predecessor alone.
EndGraceUnlessLogout(r) ==
    /\ pc[r] = "ungrace"
    /\ graced' = [graced EXCEPT ![r] = IF kind[r] = "logout" THEN {} ELSE InGraceRows]
    /\ Goto(r, "ungracing")
    /\ UNCHANGED <<db, jar, kind, tok, upto, revoking, clearing, seen, got, history, arrived>>

EndRotationGrace(r) ==
    /\ pc[r] = "ungrace"
    /\ graced' = [graced EXCEPT ![r] = InGraceRows]
    /\ Goto(r, "ungracing")
    /\ UNCHANGED <<db, jar, kind, tok, upto, revoking, clearing, seen, got, history, arrived>>

\* Mutant of NextRow: each UPDATE scans in an order of its own.
AnyRow(r) == graced[r]

\* The row the scan has come to.
NextRow(r) == {t \in graced[r] : \A u \in graced[r] : t <= u}

\* It is updated if its grace is still there once nobody else holds it.
ClearRow(r) ==
    /\ pc[r] = "ungracing"
    /\ \E t \in NextRow(r) :
         /\ ~Held(t, r)
         /\ graced' = [graced EXCEPT ![r] = @ \ {t}]
         /\ clearing' = IF rotated[t] # "null" THEN [clearing EXCEPT ![r] = @ \cup {t}] ELSE clearing
    /\ UNCHANGED <<db, jar, pc, kind, tok, upto, revoking, seen, got, history, arrived>>

Commit(r) ==
    /\ pc[r] = "ungracing" /\ graced[r] = {}
    /\ revoked' = revoked \cup revoking[r]
    /\ rotated' = [t \in Tokens |-> IF t \in clearing[r] THEN "null" ELSE rotated[t]]
    /\ password' = IF HoldsUser(r) THEN password + 1 ELSE password
    /\ link' = IF kind[r] = "reset" THEN "used" ELSE link
    /\ ended' = ended \cup (IF kind[r] = "logout" THEN {tok[r]} ELSE 1..upto[r] \ Keep(r))
    /\ spared' = IF kind[r] = "change" THEN spared \cup (Keep(r) \cap Issued) ELSE spared
    /\ consumed' = IF kind[r] = "logout" THEN consumed \cup {tok[r]} ELSE consumed
    /\ Finish(r, IF kind[r] = "logout" THEN "reply" ELSE "idle")
    /\ UNCHANGED <<issued, jar, got, era, calm, arrived>>

-----------------------------------------------------------------------------
(* Replies and failures *)

\* A reply of login or refresh sets the cookie, that of logout deletes it; other devices keep
\* their own cookies.
Deliver(r) ==
    /\ pc[r] = "reply"
    /\ jar' = IF r \in Tabs THEN got[r] ELSE jar
    /\ got' = [got EXCEPT ![r] = 0]
    /\ Goto(r, "idle")
    /\ UNCHANGED <<db, txn, history, arrived>>

\* The answer is lost on the way, or the commit was applied and raised.
LoseReply(r) ==
    /\ pc[r] = "reply"
    /\ got' = [got EXCEPT ![r] = 0]
    /\ Goto(r, "idle")
    /\ calm' = FALSE
    /\ UNCHANGED <<db, jar, kind, tok, txn, era, spared, ended, consumed, arrived>>

\* The request dies before it commits: the transaction is rolled back.
Fail(r) ==
    /\ pc[r] \notin {"idle", "reply"}
    /\ Finish(r, "idle")
    /\ calm' = FALSE
    /\ UNCHANGED <<db, jar, got, era, spared, ended, consumed, arrived>>

\* The statement of r cannot go on while the transaction of q is open.
Waits(r, q) ==
    /\ q # r
    /\ \/ pc[r] \in {"claim", "spend", "close"} /\ Holds(q, tok[r])
       \/ pc[r] = "link" /\ HoldsLink(q)
       \/ pc[r] = "setpw" /\ HoldsUser(q)
       \/ pc[r] = "revoking" /\ \E t \in Covered(r) : Holds(q, t)
       \/ pc[r] = "ungracing" /\ \E t \in NextRow(r) : Holds(q, t)

\* In S each waits for one of S, and one of S waits for each.
Circle(S) == \A r \in S : (\E q \in S : Waits(r, q)) /\ (\E q \in S : Waits(q, r))

\* Postgres aborts one that waits in a circle: the transaction is rolled back, and the request
\* answered with an error.
Abort(r) ==
    /\ \E S \in SUBSET Requests : r \in S /\ Circle(S)
    /\ Finish(r, "idle")
    /\ calm' = FALSE
    /\ UNCHANGED <<db, jar, got, era, spared, ended, consumed, arrived>>

\* REFRESH_GRACE_SECONDS pass after the rotation of t.
GraceElapses(t) ==
    /\ rotated[t] = "recent"
    /\ rotated' = [rotated EXCEPT ![t] = "old"]
    /\ calm' = FALSE
    /\ UNCHANGED <<issued, revoked, password, link, jar, pc, txn, got, era, spared, ended, consumed, arrived>>

\* The handlers, a disjunct for each statement.
Refresh(r) == ReadToken(r) \/ Claim(r) \/ Spend(r) \/ IssueSuccessor(r)
Login(r) == Authenticate(r) \/ IssueRefreshToken(r)
Logout(r) == ReadLogout(r) \/ CloseSession(r)
ChangePassword(r) == CheckPassword(r) \/ SetPassword(r)
ResetPassword(r) == ReadLink(r) \/ UseLink(r) \/ SetPassword(r)
RevokeAll(r) == BeginRevoke(r) \/ RevokeRows(r) \/ EndRotationGrace(r) \/ ClearRow(r) \/ Commit(r)

Step(r) ==
    \/ Refresh(r) \/ Login(r) \/ Logout(r) \/ ChangePassword(r) \/ ResetPassword(r)
    \/ RevokeAll(r) \/ Deliver(r) \/ Abort(r)

Next ==
    \/ \E r \in Requests : Step(r) \/ LoseReply(r) \/ Fail(r)
    \/ \E r \in Requests, k \in Kinds, t \in 0..issued : Arrive(r, k, t)
    \/ \E t \in Tokens : GraceElapses(t)

Spec == Init /\ [][Next]_vars
FairSpec == Spec /\ \A r \in Requests : WF_vars(Step(r))

-----------------------------------------------------------------------------
(* Properties *)

\* Tokens that can be exchanged once more, unless their window closes first.
Grace == {t \in Issued : rotated[t] # "null"}

Rules == INSTANCE SessionRules WITH live <- Live, grace <- Grace

\* Whatever the transactions do to each other, a token is exchanged once, and once more at the
\* most if nothing has ended its grace; a revoked token never comes back.
KeepsRules == Rules!Spec

\* A session ended by a logout, a change of password, a reset or by reuse detection stays ended:
\* no exchange under way brings a successor of it afterwards, not even by the grace window.
EndedStaysEnded ==
    [][\A r \in Requests : pc[r] \in {"claimed", "spent"} /\ pc'[r] = "reply" => tok[r] \notin ended]_vars

\* "revoke every existing session so a leaked password can't linger": a live session opened with
\* an older password descends from the one that was kept, or from an exchange or a login that
\* was under way while the sessions were being revoked.
OldPasswordsAreOut == \A t \in Live : era[t] = password \/ t \in spared

Alarmed(r) == kind[r] = "refresh" /\ pc[r] \in {"revoke", "revoking", "ungrace", "ungracing"}

\* Two tabs of one browser that do nothing but refresh are never taken for a thief, in whatever
\* order the answers set the cookie, as long as none is lost or later than the grace window and
\* no token they present has expired: at the expiry the second tab may raise the alarm.
HonestTabsStay == calm => \A r \in Tabs : ~Alarmed(r)

\* "Reuse of an already-consumed token -> treat as theft": the alarm, which ends every session
\* of the user, is raised only for a token that was exchanged or logged out before.
AlarmIsReuse == \A r \in Requests : Alarmed(r) => tok[r] \in consumed

\* A logout whose token was exchanged after it was read: its UPDATE asks nothing, and holds a row
\* of the grace window.
LateLogout(r) == kind[r] = "logout" /\ pc[r] = "ungracing" /\ tok[r] \in revoked

\* The endpoints take the rows they share in one order: the link, the user, the live tokens, those
\* in grace.  None of them wait for each other in a circle but round a logout that came late.
NoDeadlock == \A S \in SUBSET Requests : S # {} /\ Circle(S) => \E r \in S : LateLogout(r)

\* No request waits for ever for the rows of another: all that arrive are answered.
RequestsEnd == <>[](\A r \in Requests : pc[r] = "idle")
=============================================================================
