-------------------------- MODULE SessionsProofs --------------------------
(***************************************************************************)
(* What holds of Sessions for every set of requests and every number of    *)
(* tokens, password changes and requests.                                  *)
(***************************************************************************)
EXTENDS Sessions, FiniteSetTheorems, WellFoundedInduction, TLAPS

Places == {"idle", "read", "claim", "spend", "claimed", "spent", "issue", "close", "link", "setpw",
           "revoke", "revoking", "ungrace", "ungracing", "reply"}

\* The part of TypeOK about the requests.
RequestsOK ==
    /\ pc \in [Requests -> Places]
    /\ kind \in [Requests -> Kinds]
    /\ tok \in [Requests -> 0..issued]
    /\ upto \in [Requests -> 0..issued]
    /\ revoking \in [Requests -> SUBSET Issued]
    /\ graced \in [Requests -> SUBSET Issued]
    /\ clearing \in [Requests -> SUBSET Issued]
    /\ seen \in [Requests -> 0..MaxPasswords]
    /\ got \in [Requests -> 0..issued]

\* The part about the rows and the history.
RowsOK ==
    /\ issued \in 0..MaxTokens
    /\ revoked \subseteq Issued
    /\ rotated \in [Tokens -> {"null", "recent", "old"}]
    /\ password \in 0..MaxPasswords
    /\ link \in {"fresh", "used"}
    /\ jar \in 0..issued
    /\ era \in [Tokens -> 0..MaxPasswords]
    /\ spared \subseteq Issued /\ ended \subseteq Issued /\ consumed \subseteq Issued
    /\ calm \in BOOLEAN
    /\ arrived \in 0..MaxRequests

LEMMA TypeParts == (RowsOK /\ RequestsOK)' => TypeOK'
  BY DEF TypeOK, RowsOK, RequestsOK, Places

(***************************************************************************)
(* The inductive invariant: who holds which rows, what a request knows of   *)
(* its token where it stands, what an UPDATE under way will have ended, and *)
(* what the history says of the rows.                                      *)
(***************************************************************************)
Closing == {"ungrace", "ungracing"}
Exchanging == {"claimed", "spent"}

\* The rows that q's open transaction has updated.
Holding(q) == revoking[q] \cup clearing[q] \cup (IF pc[q] \in Exchanging THEN {tok[q]} ELSE {})

\* What q is about to end, and does end when it commits.
Ending(q) == IF kind[q] = "logout" THEN {tok[q]} ELSE 1..upto[q] \ Keep(q)

\* A request's record fits its place.
Placed(r) ==
    /\ pc[r] \in {"claim", "spend"} \cup Exchanging => kind[r] = "refresh" /\ tok[r] \in Issued
    /\ revoking[r] # {} => pc[r] \in Closing
    /\ graced[r] # {} \/ clearing[r] # {} => pc[r] = "ungracing"
    /\ pc[r] = "close" => kind[r] = "logout"
    /\ kind[r] = "logout" => tok[r] # 0
    /\ kind[r] = "logout" => pc[r] \notin {"revoke", "revoking"}
    /\ pc[r] = "link" => kind[r] = "reset"
    /\ pc[r] = "setpw" => kind[r] \in {"change", "reset"}
    /\ pc[r] = "issue" => kind[r] = "login"

\* Whoever exchanges a token holds one that can be exchanged until it commits.
Exchangeable(r) ==
    /\ pc[r] = "claimed" => tok[r] \notin revoked
    /\ pc[r] = "spent" => rotated[tok[r]] # "null"

\* All that r ends is revoked already or among the rows it holds, and loses its grace.
EndsAll(r) ==
    /\ pc[r] \in Closing => Ending(r) \subseteq revoked \cup revoking[r]
    /\ pc[r] = "ungracing" => \A t \in Ending(r) : rotated[t] # "null" => t \in graced[r] \cup clearing[r]

\* The scan goes up, over rows that were revoked; what an UPDATE of revoked_at holds is revoked
\* by no one else, unless a logout came late.
Scanning(r) ==
    /\ graced[r] \subseteq revoked
    /\ pc[r] = "ungracing" => \A t \in clearing[r], u \in graced[r] : t < u
    /\ IF kind[r] = "logout" THEN revoking[r] \subseteq {tok[r]} ELSE revoking[r] \cap revoked = {}

\* A password is changed once by each holder of the user's row.
MayChange(r) == HoldsUser(r) => password < MaxPasswords

\* What is issued after the snapshot of a change or a reset is spared.
SparesLate(r) ==
    kind[r] \in {"change", "reset"} /\ pc[r] \in {"revoking"} \cup Closing =>
        \A t \in Issued : t > upto[r] => t \in spared

RequestInv(r) ==
    Placed(r) /\ Exchangeable(r) /\ EndsAll(r) /\ Scanning(r) /\ MayChange(r) /\ SparesLate(r)

\* No row and no user is held by two.
Apart(q, r) == Holding(q) \cap Holding(r) = {} /\ ~(HoldsUser(q) /\ HoldsUser(r))

\* Only revoked rows are rotated; what is ended is revoked, and without grace.
RowsInv ==
    /\ \A t \in Tokens : rotated[t] # "null" => t \in revoked
    /\ ended \subseteq revoked
    /\ \A t \in ended : rotated[t] = "null"

\* As OldPasswordsAreOut, also for what can be exchanged by its grace.
OldGraceIsOut == \A t \in Live \cup Grace : era[t] = password \/ t \in spared

SessionsInv ==
    /\ \A r \in Requests : RequestInv(r)
    /\ \A q, r \in Requests : q # r => Apart(q, r)
    /\ RowsInv
    /\ OldGraceIsOut

LEMMA HeldIsHolding ==
    ASSUME NEW t, NEW r \in Requests
    PROVE  Held(t, r) <=> \E q \in Requests \ {r} : t \in Holding(q)
  BY DEF Held, Holds, Holding, Exchanging

(***************************************************************************)
(* Type correctness.                                                       *)
(***************************************************************************)
LEMMA InitTypeOK == Init => TypeOK
  BY SessionsAssumption DEF Init, TypeOK, Tokens, Issued, Kinds

LEMMA FinishType ==
    ASSUME TypeOK, NEW r \in Requests, NEW l \in Places, Finish(r, l), UNCHANGED <<issued, got>>
    PROVE  RequestsOK'
  BY SessionsAssumption DEF TypeOK, RequestsOK, Finish, Goto, Places, Kinds, Issued

\* A step of r that leaves the rows alone.
LEMMA MoveType ==
    ASSUME TypeOK, NEW r \in Requests, NEW l \in Places, Goto(r, l), UNCHANGED <<issued, txn, got>>
    PROVE  RequestsOK'
  BY DEF TypeOK, RequestsOK, Goto, Places, Issued, txn

LEMMA RowsFrame ==
    ASSUME TypeOK, UNCHANGED <<db, jar, era, spared, ended, consumed, arrived>>, calm' \in BOOLEAN
    PROVE  RowsOK'
  BY DEF TypeOK, RowsOK, db, Issued

LEMMA ArriveType ==
    ASSUME TypeOK, NEW r \in Requests, NEW k \in Kinds, NEW t \in 0..issued, Arrive(r, k, t)
    PROVE  TypeOK'
  <1>1. RequestsOK'
    BY DEF TypeOK, RequestsOK, Arrive, Goto, Places, Issued, db
  <1>3. calm' \in BOOLEAN
    BY DEF TypeOK, Arrive
  <1>2. RowsOK'
    BY <1>3, SessionsAssumption DEF TypeOK, RowsOK, Arrive, Issued, db
  <1> QED
    BY <1>1, <1>2, TypeParts

\* The steps that move a request on, or end it, and change no row.
Moves(r) ==
    \/ ReadToken(r) \/ Claim(r) \/ Spend(r) \/ Authenticate(r) \/ ReadLogout(r) \/ CloseSession(r)
    \/ CheckPassword(r) \/ ReadLink(r) \/ UseLink(r) \/ SetPassword(r) \/ BeginRevoke(r)
    \/ RevokeRows(r) \/ EndRotationGrace(r) \/ ClearRow(r) \/ Fail(r) \/ Abort(r)

LEMMA MovesRows ==
    ASSUME TypeOK, NEW r \in Requests, Moves(r)
    PROVE  UNCHANGED <<db, jar, got, era, spared, ended, consumed, arrived>> /\ calm' \in BOOLEAN
  <1>1. calm \in BOOLEAN
    BY DEF TypeOK
  <1>2. CASE ReadToken(r) \/ Fail(r) \/ Abort(r)
    BY <1>1, <1>2 DEF ReadToken, Fail, Abort
  <1>3. CASE Claim(r) \/ Spend(r) \/ Authenticate(r) \/ ReadLogout(r) \/ CloseSession(r)
    BY <1>1, <1>3 DEF Claim, Spend, Authenticate, ReadLogout, CloseSession, history
  <1>4. CASE CheckPassword(r) \/ ReadLink(r) \/ UseLink(r) \/ SetPassword(r)
    BY <1>1, <1>4 DEF CheckPassword, ReadLink, UseLink, SetPassword, history
  <1>5. CASE BeginRevoke(r) \/ RevokeRows(r) \/ EndRotationGrace(r) \/ ClearRow(r)
    BY <1>1, <1>5 DEF BeginRevoke, RevokeRows, EndRotationGrace, ClearRow, history
  <1> QED
    BY <1>2, <1>3, <1>4, <1>5 DEF Moves

LEMMA MovesType ==
    ASSUME TypeOK, NEW r \in Requests, Placed(r), Moves(r)
    PROVE  TypeOK'
  <1>1. UNCHANGED <<db, jar, got, era, spared, ended, consumed, arrived>> /\ calm' \in BOOLEAN
    BY MovesRows
  <1>2. UNCHANGED issued /\ UNCHANGED got
    BY <1>1 DEF db
  <1>3. RowsOK'
    BY <1>1, RowsFrame
  <1>4. RequestsOK'
    <2>1. ASSUME NEW l \in Places, Finish(r, l) PROVE RequestsOK'
      BY <1>2, <2>1, FinishType
    <2>2. ASSUME NEW l \in Places, Goto(r, l), UNCHANGED txn PROVE RequestsOK'
      BY <1>2, <2>2, MoveType
    <2>3. {"idle", "claim", "spend", "claimed", "spent", "close", "link", "setpw", "revoke", "reply"}
            \subseteq Places
      BY DEF Places
    <2>4. CASE ReadToken(r) \/ Fail(r) \/ Abort(r)
      BY <2>1, <2>2, <2>3, <2>4 DEF ReadToken, Fail, Abort
    <2>5. CASE Claim(r) \/ Spend(r)
      BY <2>2, <2>3, <2>5 DEF Claim, Spend
    <2>6. CASE ReadLogout(r) \/ CheckPassword(r) \/ ReadLink(r) \/ UseLink(r) \/ SetPassword(r)
      BY <2>1, <2>2, <2>3, <2>6 DEF ReadLogout, CheckPassword, ReadLink, UseLink, SetPassword
    <2>7. CASE Authenticate(r)
      <3>1. CASE Finish(r, "idle")
        BY <2>1, <2>3, <3>1
      <3>2. CASE Goto(r, "issue") /\ seen' = [seen EXCEPT ![r] = password]
                  /\ UNCHANGED <<kind, tok, upto, revoking, graced, clearing>>
        BY <1>2, <3>2 DEF TypeOK, RequestsOK, Goto, Places, Issued
      <3> QED
        BY <2>7, <3>1, <3>2 DEF Authenticate
    <2>8. CASE CloseSession(r)
      <3>1. tok[r] \in Issued
        BY <2>8 DEF CloseSession, TypeOK, Issued, Placed
      <3> QED
        BY <1>2, <2>8, <3>1 DEF CloseSession, TypeOK, RequestsOK, Goto, Places, Issued
    <2>9. CASE BeginRevoke(r)
      BY <1>2, <2>9 DEF BeginRevoke, TypeOK, RequestsOK, Goto, Places, Issued
    <2>10. CASE RevokeRows(r)
      BY <1>2, <2>10 DEF RevokeRows, Covered, TypeOK, RequestsOK, Goto, Places, Issued
    <2>11. CASE EndRotationGrace(r)
      BY <1>2, <2>11 DEF EndRotationGrace, InGraceRows, TypeOK, RequestsOK, Goto, Places, Issued
    <2>12. CASE ClearRow(r)
      <3>1. NextRow(r) \subseteq Issued
        BY DEF NextRow, TypeOK
      <3> QED
        BY <1>2, <2>12, <3>1 DEF ClearRow, TypeOK, RequestsOK, Places, Issued
    <2> QED
      BY <2>4, <2>5, <2>6, <2>7, <2>8, <2>9, <2>10, <2>11, <2>12 DEF Moves
  <1> QED
    BY <1>3, <1>4, TypeParts

LEMMA OneMore ==
    ASSUME NEW n \in Nat, NEW m \in Nat, n < m
    PROVE  /\ n + 1 \in 0..m /\ n + 1 \in 1..m /\ 1..n + 1 = (1..n) \cup {n + 1}
           /\ 0..n \subseteq 0..n + 1 /\ n + 1 \in 0..n + 1 /\ 0 \in 0..n + 1
  OBVIOUS

\* The token that a refresh or a login of r is given.
LEMMA IssueIsNext ==
    ASSUME TypeOK, NEW r \in Requests, IssueSuccessor(r) \/ IssueRefreshToken(r)
    PROVE  /\ issued \in Nat /\ issued' = issued + 1 /\ issued' \in 0..MaxTokens
           /\ issued' \in Tokens /\ Issued' = Issued \cup {issued'} /\ issued' \notin Issued
           /\ Issued \subseteq Tokens
  <1>1. issued \in Nat /\ MaxTokens \in Nat /\ Issued = 1..issued /\ Tokens = 1..MaxTokens
    BY SessionsAssumption DEF TypeOK, Issued, Tokens
  <1>2. issued < MaxTokens /\ issued' = issued + 1
    BY DEF IssueSuccessor, IssueRefreshToken
  <1>3. Issued' = 1..issued'
    BY DEF Issued
  <1> QED
    BY <1>1, <1>2, <1>3, OneMore

LEMMA IssueType ==
    ASSUME TypeOK, NEW r \in Requests, Placed(r), IssueSuccessor(r) \/ IssueRefreshToken(r)
    PROVE  TypeOK'
  <1>1. /\ issued \in Nat /\ issued' = issued + 1 /\ issued' \in 0..MaxTokens
        /\ issued' \in Tokens /\ Issued' = Issued \cup {issued'} /\ Issued \subseteq Tokens
    BY IssueIsNext
  <1>2. got' = [got EXCEPT ![r] = issued']
    BY <1>1 DEF IssueSuccessor, IssueRefreshToken
  <1>6. 0..issued \subseteq 0..issued'
    BY <1>1
  <1>3. RequestsOK'
    <2>1. Finish(r, "reply")
      BY DEF IssueSuccessor, IssueRefreshToken
    <2>2. 0..issued \subseteq 0..issued' /\ issued' \in 0..issued' /\ 0 \in 0..issued'
      BY <1>1
    <2> QED
      BY <1>1, <1>2, <2>1, <2>2, SessionsAssumption DEF TypeOK, RequestsOK, Finish, Goto, Places, Kinds
  <1>4. CASE IssueSuccessor(r)
    <2>1. tok[r] \in Issued
      BY <1>4 DEF Placed, IssueSuccessor, Exchanging
    <2>2. era' \in [Tokens -> 0..MaxPasswords] /\ spared' \subseteq Issued' /\ consumed' \subseteq Issued'
      BY <1>1, <1>4, <2>1 DEF TypeOK, IssueSuccessor
    <2>3. revoked' \subseteq Issued' /\ rotated' \in [Tokens -> {"null", "recent", "old"}]
      BY <1>1, <1>4, <2>1 DEF TypeOK, IssueSuccessor
    <2>4. UNCHANGED <<password, link, jar, ended, calm, arrived>>
      BY <1>4 DEF IssueSuccessor
    <2>5. jar' \in 0..issued' /\ ended' \subseteq Issued'
      BY <1>1, <1>6, <2>4 DEF TypeOK
    <2>6. password' \in 0..MaxPasswords /\ link' \in {"fresh", "used"} /\ calm' \in BOOLEAN /\ arrived' \in 0..MaxRequests
      BY <2>4 DEF TypeOK
    <2> QED
      BY <1>1, <1>3, <2>2, <2>3, <2>5, <2>6, TypeParts DEF RowsOK
  <1>5. CASE IssueRefreshToken(r)
    <2>1. era' \in [Tokens -> 0..MaxPasswords] /\ spared' \subseteq Issued'
      BY <1>1, <1>5 DEF TypeOK, IssueRefreshToken
    <2>2. UNCHANGED <<revoked, rotated, password, link, jar, ended, consumed, calm, arrived>>
      BY <1>5 DEF IssueRefreshToken
    <2>3. jar' \in 0..issued' /\ ended' \subseteq Issued' /\ consumed' \subseteq Issued' /\ revoked' \subseteq Issued'
      BY <1>1, <1>6, <2>2 DEF TypeOK
    <2>4. /\ password' \in 0..MaxPasswords /\ link' \in {"fresh", "used"} /\ calm' \in BOOLEAN
          /\ arrived' \in 0..MaxRequests /\ rotated' \in [Tokens -> {"null", "recent", "old"}]
      BY <2>2 DEF TypeOK
    <2> QED
      BY <1>1, <1>3, <2>1, <2>3, <2>4, TypeParts DEF RowsOK
  <1> QED
    BY <1>4, <1>5

LEMMA CommitType ==
    ASSUME TypeOK, NEW r \in Requests, Placed(r), MayChange(r), Commit(r)
    PROVE  TypeOK'
  <1>1. RequestsOK'
    BY FinishType DEF Commit, Places
  <1>2. Keep(r) \cap Issued \subseteq Issued /\ (kind[r] = "logout" => tok[r] \in Issued)
    BY DEF TypeOK, Placed, Issued
  <1>3. 1..upto[r] \ Keep(r) \subseteq Issued
    BY DEF TypeOK, Issued
  <1>4. password' \in 0..MaxPasswords
    BY SessionsAssumption DEF TypeOK, Commit, MayChange
  <1>5. revoked' \subseteq Issued /\ rotated' \in [Tokens -> {"null", "recent", "old"}]
    BY DEF TypeOK, Commit
  <1>6. spared' \subseteq Issued /\ ended' \subseteq Issued /\ consumed' \subseteq Issued
    BY <1>2, <1>3 DEF TypeOK, Commit
  <1>7. RowsOK'
    BY <1>4, <1>5, <1>6 DEF TypeOK, RowsOK, Commit, Issued
  <1> QED
    BY <1>1, <1>7, TypeParts

LEMMA ReplyType ==
    ASSUME TypeOK, NEW r \in Requests, Deliver(r) \/ LoseReply(r)
    PROVE  TypeOK'
  <1>1. got' \in [Requests -> 0..issued] /\ jar' \in 0..issued /\ calm' \in BOOLEAN
    <2>1. /\ issued \in Nat /\ got \in [Requests -> 0..issued] /\ 0 \in 0..issued
          /\ jar \in 0..issued /\ calm \in BOOLEAN
      BY DEF TypeOK
    <2>2. CASE Deliver(r)
      BY <2>1, <2>2 DEF Deliver, history, db
    <2>3. CASE LoseReply(r)
      BY <2>1, <2>3 DEF LoseReply, db
    <2> QED
      BY <2>2, <2>3
  <1>2. UNCHANGED <<db, kind, tok, upto, revoking, graced, clearing, seen, era, spared, ended, consumed, arrived>>
    BY DEF Deliver, LoseReply, txn, history
  <1>3. RequestsOK'
    BY <1>1, <1>2 DEF TypeOK, RequestsOK, Deliver, LoseReply, Goto, Places, Issued, db
  <1>4. RowsOK'
    BY <1>1, <1>2 DEF TypeOK, RowsOK, Issued, db
  <1> QED
    BY <1>3, <1>4, TypeParts

LEMMA ElapseType ==
    ASSUME TypeOK, NEW t \in Tokens, GraceElapses(t)
    PROVE  TypeOK'
  BY DEF TypeOK, GraceElapses, Issued, txn

LEMMA StepIs ==
    ASSUME NEW r \in Requests, Step(r) \/ LoseReply(r) \/ Fail(r)
    PROVE  \/ Moves(r) \/ IssueSuccessor(r) \/ IssueRefreshToken(r) \/ Commit(r)
           \/ Deliver(r) \/ LoseReply(r)
  BY DEF Step, Refresh, Login, Logout, ChangePassword, ResetPassword, RevokeAll, Moves

LEMMA NextTypeOK == TypeOK /\ SessionsInv /\ [Next]_vars => TypeOK'
  <1> SUFFICES ASSUME TypeOK, SessionsInv, [Next]_vars PROVE TypeOK'
    OBVIOUS
  <1>1. ASSUME NEW r \in Requests, Step(r) \/ LoseReply(r) \/ Fail(r) PROVE TypeOK'
    <2>1. Placed(r) /\ MayChange(r)
      BY DEF SessionsInv, RequestInv
    <2> QED
      BY <1>1, <2>1, StepIs, MovesType, IssueType, CommitType, ReplyType
  <1>2. ASSUME NEW r \in Requests, NEW k \in Kinds, NEW t \in 0..issued, Arrive(r, k, t) PROVE TypeOK'
    BY <1>2, ArriveType
  <1>3. ASSUME NEW t \in Tokens, GraceElapses(t) PROVE TypeOK'
    BY <1>3, ElapseType
  <1>4. CASE UNCHANGED vars
    BY <1>4 DEF TypeOK, vars, db, txn, history, Issued
  <1> QED
    BY <1>1, <1>2, <1>3, <1>4 DEF Next

(***************************************************************************)
(* The invariant.  First the steps of a request that change no row.        *)
(***************************************************************************)
OthersSame(r) ==
    \A q \in Requests \ {r} :
        /\ pc'[q] = pc[q] /\ kind'[q] = kind[q] /\ tok'[q] = tok[q] /\ upto'[q] = upto[q]
        /\ revoking'[q] = revoking[q] /\ graced'[q] = graced[q] /\ clearing'[q] = clearing[q]

Alone(r) == \A q \in Requests \ {r} : Apart(q, r)

LEMMA OthersKeep ==
    ASSUME NEW r \in Requests, OthersSame(r), NEW q \in Requests \ {r}
    PROVE  /\ Holding(q)' = Holding(q) /\ HoldsUser(q)' = HoldsUser(q)
           /\ Ending(q)' = Ending(q)
  BY DEF OthersSame, Holding, HoldsUser, Ending, Keep

LEMMA QuietStep ==
    ASSUME SessionsInv, NEW r \in Requests, OthersSame(r), UNCHANGED <<db, era, spared, ended>>,
           RequestInv(r)', Alone(r)'
    PROVE  SessionsInv'
  <1>1. UNCHANGED <<issued, revoked, rotated, password, Issued>>
    BY DEF db, Issued
  <1>2. \A q \in Requests \ {r} : Holding(q)' = Holding(q) /\ HoldsUser(q)' = HoldsUser(q) /\ Ending(q)' = Ending(q)
    BY OthersKeep
  <1>3. ASSUME NEW q \in Requests \ {r} PROVE RequestInv(q)'
    <2>1. RequestInv(q)
      BY DEF SessionsInv
    <2>2. Placed(q)' /\ Exchangeable(q)'
      BY <1>1, <2>1 DEF RequestInv, OthersSame, Placed, Exchangeable
    <2>3. EndsAll(q)' /\ Scanning(q)'
      BY <1>1, <1>2, <2>1 DEF RequestInv, OthersSame, EndsAll, Scanning
    <2>4. MayChange(q)' /\ SparesLate(q)'
      BY <1>1, <1>2, <2>1 DEF RequestInv, OthersSame, MayChange, SparesLate
    <2> QED
      BY <2>2, <2>3, <2>4 DEF RequestInv
  <1>4. ASSUME NEW p \in Requests, NEW q \in Requests, p # q PROVE Apart(p, q)'
    <2>1. Apart(p, q) /\ Apart(q, p)
      BY <1>4 DEF SessionsInv
    <2>2. CASE p # r /\ q # r
      BY <1>2, <2>1, <2>2 DEF Apart
    <2>3. CASE p = r \/ q = r
      BY <1>4, <2>3 DEF Alone, Apart
    <2> QED
      BY <2>2, <2>3
  <1>5. RowsInv' /\ OldGraceIsOut'
    BY <1>1 DEF SessionsInv, RowsInv, OldGraceIsOut, Live, Grace
  <1> QED
    BY <1>3, <1>4, <1>5 DEF SessionsInv

LEMMA FinishQuiet ==
    ASSUME TypeOK, SessionsInv, NEW r \in Requests, NEW l \in {"idle", "reply"}, Finish(r, l)
    PROVE  OthersSame(r) /\ RequestInv(r)' /\ Holding(r)' = {} /\ ~HoldsUser(r)'
  <1>1. /\ pc'[r] = l /\ kind'[r] = "refresh" /\ tok'[r] = 0 /\ upto'[r] = 0
        /\ revoking'[r] = {} /\ graced'[r] = {} /\ clearing'[r] = {}
    BY DEF TypeOK, Finish, Goto
  <1>2. OthersSame(r)
    BY DEF TypeOK, Finish, Goto, OthersSame
  <1>3. RequestInv(r)' /\ Holding(r)' = {} /\ ~HoldsUser(r)'
    BY <1>1 DEF RequestInv, Placed, Exchangeable, EndsAll, Scanning, MayChange, SparesLate, Holding, HoldsUser,
                Exchanging, Closing
  <1> QED
    BY <1>2, <1>3

LEMMA FinishInv ==
    ASSUME TypeOK, SessionsInv, NEW r \in Requests, NEW l \in {"idle", "reply"}, Finish(r, l),
           UNCHANGED <<db, era, spared, ended>>
    PROVE  SessionsInv'
  BY FinishQuiet, QuietStep DEF Alone, Apart

LEMMA MoveInv ==
    ASSUME TypeOK, SessionsInv, NEW r \in Requests, NEW l \in Places, Goto(r, l),
           UNCHANGED <<txn, db, era, spared, ended>>,
           RequestInv(r)', Alone(r)'
    PROVE  SessionsInv'
  <1>1. OthersSame(r)
    BY DEF TypeOK, Goto, OthersSame, txn
  <1> QED
    BY <1>1, QuietStep

\* A request that holds no row yet and is not at a place where rows are held.
LEMMA StartInv ==
    ASSUME TypeOK, SessionsInv, NEW r \in Requests, NEW l \in Places, Goto(r, l),
           UNCHANGED <<txn, db, era, spared, ended>>,
           pc[r] \in {"read", "link"},
           l \in {"claim", "spend", "issue", "close", "link", "setpw"} \/ (l = "revoke" /\ kind[r] = "refresh"),
           Placed(r)'
    PROVE  SessionsInv'
  <1>1. /\ pc'[r] = l /\ kind'[r] = kind[r] /\ tok'[r] = tok[r] /\ revoking'[r] = revoking[r]
        /\ graced'[r] = graced[r] /\ clearing'[r] = clearing[r]
    BY DEF TypeOK, Goto, txn
  <1>2. revoking[r] = {} /\ graced[r] = {} /\ clearing[r] = {}
    BY DEF SessionsInv, RequestInv, Placed, Closing
  <1>3. Holding(r)' = {} /\ ~HoldsUser(r)'
    BY <1>1, <1>2 DEF Holding, HoldsUser, Exchanging
  <1>4. RequestInv(r)'
    BY <1>1, <1>2, <1>3 DEF RequestInv, Exchangeable, EndsAll, Scanning, MayChange, SparesLate, Exchanging, Closing
  <1> QED
    BY <1>3, <1>4, MoveInv DEF Alone, Apart

LEMMA ReadsInv ==
    ASSUME TypeOK, SessionsInv, NEW r \in Requests, 
           ReadToken(r) \/ ReadLogout(r) \/ CheckPassword(r) \/ ReadLink(r) \/ UseLink(r)
    PROVE  SessionsInv'
  <1>1. UNCHANGED <<db, era, spared, ended>>
    BY DEF ReadToken, ReadLogout, CheckPassword, ReadLink, UseLink, history
  <1>2. Placed(r)
    BY DEF SessionsInv, RequestInv
  <1>3. CASE Finish(r, "idle") \/ Finish(r, "reply")
    BY <1>1, <1>3, FinishInv
  <1>4. ASSUME NEW l \in Places, Goto(r, l), UNCHANGED txn
        PROVE  /\ pc'[r] = l /\ kind'[r] = kind[r] /\ tok'[r] = tok[r] /\ revoking'[r] = revoking[r]
               /\ graced'[r] = graced[r] /\ clearing'[r] = clearing[r] /\ Issued' = Issued
    BY <1>1, <1>4 DEF TypeOK, Goto, txn, db, Issued
  <1>5. CASE ReadToken(r) /\ Goto(r, "claim") /\ UNCHANGED txn /\ tok[r] \in Live
    <2>1. "claim" \in Places
      BY DEF Places
    <2>2. Placed(r)'
      BY <1>2, <1>4, <1>5, <2>1 DEF Placed, ReadToken, Exchanging, Closing, Live
    <2> QED
      BY <1>1, <1>5, <2>1, <2>2, StartInv DEF ReadToken
  <1>6. CASE ReadToken(r) /\ (Goto(r, "spend") \/ Goto(r, "revoke")) /\ UNCHANGED txn /\ tok[r] \in revoked
    <2>1. "spend" \in Places /\ "revoke" \in Places
      BY DEF Places
    <2>2. tok[r] \in Issued
      BY <1>6 DEF TypeOK
    <2>3. Placed(r)'
      BY <1>2, <1>4, <1>6, <2>1, <2>2 DEF Placed, ReadToken, Exchanging, Closing
    <2> QED
      BY <1>1, <1>6, <2>1, <2>3, StartInv DEF ReadToken
  <1>7. CASE ReadLogout(r) /\ Goto(r, "close") /\ UNCHANGED txn
    <2>1. "close" \in Places
      BY DEF Places
    <2>2. Placed(r)'
      BY <1>2, <1>4, <1>7, <2>1 DEF Placed, ReadLogout, Exchanging, Closing
    <2> QED
      BY <1>1, <1>7, <2>1, <2>2, StartInv DEF ReadLogout
  <1>8. CASE CheckPassword(r) /\ Goto(r, "setpw") /\ UNCHANGED txn
    <2>1. "setpw" \in Places
      BY DEF Places
    <2>2. Placed(r)'
      BY <1>2, <1>4, <1>8, <2>1 DEF Placed, CheckPassword, Exchanging, Closing
    <2> QED
      BY <1>1, <1>8, <2>1, <2>2, StartInv DEF CheckPassword
  <1>9. CASE ReadLink(r) /\ Goto(r, "link") /\ UNCHANGED txn
    <2>1. "link" \in Places
      BY DEF Places
    <2>2. Placed(r)' /\ kind[r] = "reset"
      BY <1>2, <1>4, <1>9, <2>1 DEF Placed, ReadLink, Exchanging, Closing
    <2> QED
      BY <1>1, <1>9, <2>1, <2>2, StartInv DEF ReadLink
  <1>10. CASE UseLink(r) /\ Goto(r, "setpw") /\ UNCHANGED txn
    <2>1. "setpw" \in Places
      BY DEF Places
    <2>2. Placed(r)'
      BY <1>2, <1>4, <1>10, <2>1 DEF Placed, UseLink, Exchanging, Closing
    <2> QED
      BY <1>1, <1>10, <2>1, <2>2, StartInv DEF UseLink
  <1> QED
    BY <1>3, <1>5, <1>6, <1>7, <1>8, <1>9, <1>10
       DEF ReadToken, ReadLogout, CheckPassword, ReadLink, UseLink, InGrace

LEMMA AuthenticateInv ==
    ASSUME TypeOK, SessionsInv, NEW r \in Requests, Authenticate(r)
    PROVE  SessionsInv'
  <1>1. UNCHANGED <<db, era, spared, ended>>
    BY DEF Authenticate, history
  <1>2. CASE Finish(r, "idle")
    BY <1>1, <1>2, FinishInv
  <1>3. CASE Goto(r, "issue") /\ UNCHANGED <<kind, tok, upto, revoking, graced, clearing>>
    <2>1. OthersSame(r)
      BY <1>3 DEF TypeOK, Goto, OthersSame
    <2>2. /\ pc'[r] = "issue" /\ kind'[r] = "login" /\ revoking'[r] = {}
          /\ graced'[r] = {} /\ clearing'[r] = {}
      BY <1>3 DEF TypeOK, Goto, Authenticate, SessionsInv, RequestInv, Placed, Closing
    <2>3. RequestInv(r)' /\ Holding(r)' = {} /\ ~HoldsUser(r)'
      BY <2>2 DEF RequestInv, Placed, Exchangeable, EndsAll, Scanning, MayChange, SparesLate, Holding, HoldsUser,
                  Exchanging, Closing
    <2> QED
      BY <1>1, <2>1, <2>3, QuietStep DEF Alone, Apart
  <1> QED
    BY <1>2, <1>3 DEF Authenticate

\* Claim and Spend take the row of the token; whoever finds it consumed goes for the alarm.
LEMMA ExchangeInv ==
    ASSUME TypeOK, SessionsInv, NEW r \in Requests, Claim(r) \/ Spend(r)
    PROVE  SessionsInv'
  <1>1. UNCHANGED <<db, era, spared, ended, txn>> /\ Issued' = Issued
    BY DEF Claim, Spend, history, db, Issued
  <1>2. PICK l \in {"claimed", "spent", "spend", "revoke"} :
          /\ Goto(r, l)
          /\ l = "claimed" => tok[r] \notin revoked
          /\ l = "spent" => rotated[tok[r]] # "null"
    BY DEF Claim, Spend
  <1>3. /\ pc'[r] = l /\ kind'[r] = kind[r] /\ tok'[r] = tok[r] /\ revoking'[r] = revoking[r]
        /\ graced'[r] = graced[r] /\ clearing'[r] = clearing[r]
    BY <1>1, <1>2 DEF TypeOK, Goto, txn
  <1>4. /\ Placed(r) /\ kind[r] = "refresh" /\ tok[r] \in Issued /\ revoking[r] = {}
        /\ graced[r] = {} /\ clearing[r] = {}
    BY DEF SessionsInv, RequestInv, Placed, Claim, Spend, Exchanging, Closing
  <1>5. RequestInv(r)'
    <2>1. Placed(r)'
      BY <1>1, <1>3, <1>4 DEF Placed, Exchanging, Closing
    <2>2. Exchangeable(r)'
      BY <1>1, <1>2, <1>3 DEF Exchangeable, db
    <2> QED
      BY <1>3, <1>4, <2>1, <2>2
         DEF RequestInv, EndsAll, Scanning, MayChange, SparesLate, HoldsUser, Exchanging, Closing
  <1>6. Alone(r)'
    <2>1. ~Held(tok[r], r)
      BY DEF Claim, Spend
    <2>2. \A q \in Requests \ {r} : tok[r] \notin Holding(q)
      BY <2>1, HeldIsHolding
    <2>3. OthersSame(r)
      BY <1>1, <1>2 DEF TypeOK, Goto, OthersSame, txn
    <2>4. \A q \in Requests \ {r} : Holding(q)' = Holding(q)
      BY <2>3, OthersKeep
    <2>5. Holding(r)' \subseteq {tok[r]} /\ ~HoldsUser(r)'
      BY <1>3, <1>4 DEF Holding, HoldsUser
    <2> QED
      BY <2>2, <2>4, <2>5 DEF Alone, Apart
  <1> QED
    BY <1>1, <1>2, <1>5, <1>6, MoveInv DEF Places

LEMMA CloseSessionInv ==
    ASSUME TypeOK, SessionsInv, NEW r \in Requests, CloseSession(r)
    PROVE  SessionsInv'
  <1>1. UNCHANGED <<db, era, spared, ended>>
    BY DEF CloseSession, history
  <1>2. OthersSame(r)
    BY DEF TypeOK, CloseSession, Goto, OthersSame
  <1>3. /\ pc'[r] = "ungrace" /\ kind'[r] = "logout" /\ tok'[r] = tok[r] /\ tok[r] # 0
        /\ revoking'[r] = {tok[r]} /\ graced'[r] = {} /\ clearing'[r] = {}
    BY DEF TypeOK, CloseSession, Goto, SessionsInv, RequestInv, Placed, Closing
  <1>4. RequestInv(r)' /\ Holding(r)' = {tok[r]} /\ ~HoldsUser(r)'
    BY <1>3 DEF RequestInv, Placed, Exchangeable, EndsAll, Ending, Scanning, MayChange, SparesLate, Holding, HoldsUser,
                Exchanging, Closing
  <1>5. \A q \in Requests \ {r} : tok[r] \notin Holding(q)
    BY HeldIsHolding DEF CloseSession
  <1>6. \A q \in Requests \ {r} : Holding(q)' = Holding(q)
    BY <1>2, OthersKeep
  <1> QED
    BY <1>1, <1>2, <1>4, <1>5, <1>6, QuietStep DEF Alone, Apart

LEMMA SetPasswordInv ==
    ASSUME TypeOK, SessionsInv, NEW r \in Requests, SetPassword(r)
    PROVE  SessionsInv'
  <1>1. UNCHANGED <<db, era, spared, ended>>
    BY DEF SetPassword, history
  <1>2. CASE Finish(r, "idle")
    BY <1>1, <1>2, FinishInv
  <1>3. CASE password < MaxPasswords /\ Goto(r, "revoke") /\ UNCHANGED txn
    <2>1. /\ pc'[r] = "revoke" /\ kind'[r] = kind[r] /\ tok'[r] = tok[r] /\ revoking'[r] = revoking[r]
          /\ graced'[r] = graced[r] /\ clearing'[r] = clearing[r]
      BY <1>3 DEF TypeOK, Goto, txn
    <2>2. kind[r] \in {"change", "reset"} /\ revoking[r] = {} /\ graced[r] = {} /\ clearing[r] = {}
      BY DEF SetPassword, SessionsInv, RequestInv, Placed, Closing
    <2>3. RequestInv(r)' /\ Holding(r)' = {}
      BY <1>1, <1>3, <2>1, <2>2
         DEF RequestInv, Placed, Exchangeable, EndsAll, Scanning, MayChange, SparesLate, Holding, Exchanging, Closing, db
    <2>4. OthersSame(r)
      BY <1>3 DEF TypeOK, Goto, OthersSame, txn
    <2>5. \A q \in Requests \ {r} : ~HoldsUser(q)'
      BY <2>4, OthersKeep DEF SetPassword
    <2> QED
      BY <1>1, <2>3, <2>4, <2>5, QuietStep DEF Alone, Apart
  <1> QED
    BY <1>2, <1>3 DEF SetPassword

LEMMA BeginRevokeInv ==
    ASSUME TypeOK, SessionsInv, NEW r \in Requests, BeginRevoke(r)
    PROVE  SessionsInv'
  <1>1. UNCHANGED <<db, era, spared, ended>> /\ Issued' = Issued /\ password' = password
    BY DEF BeginRevoke, history, db, Issued
  <1>2. OthersSame(r)
    BY DEF TypeOK, BeginRevoke, Goto, OthersSame
  <1>3. /\ pc'[r] = "revoking" /\ kind'[r] = kind[r] /\ tok'[r] = tok[r] /\ upto'[r] = issued
        /\ revoking'[r] = revoking[r] /\ graced'[r] = graced[r] /\ clearing'[r] = clearing[r]
    BY DEF TypeOK, BeginRevoke, Goto
  <1>4. RequestInv(r) /\ revoking[r] = {} /\ graced[r] = {} /\ clearing[r] = {} /\ kind[r] # "logout"
    BY DEF BeginRevoke, SessionsInv, RequestInv, Placed, Closing
  <1>5. \A t \in Issued : ~(t > issued)
    BY DEF TypeOK, Issued
  <1>6. HoldsUser(r)' = HoldsUser(r) /\ Holding(r)' = Holding(r)
    BY <1>3 DEF BeginRevoke, HoldsUser, Holding, Exchanging
  <1>7. RequestInv(r)'
    BY <1>1, <1>3, <1>4, <1>5, <1>6
       DEF RequestInv, Placed, Exchangeable, EndsAll, Scanning, MayChange, SparesLate, Exchanging, Closing
  <1>8. Alone(r)'
    BY <1>2, <1>6, OthersKeep DEF SessionsInv, Alone, Apart
  <1> QED
    BY <1>1, <1>2, <1>7, <1>8, QuietStep

LEMMA RevokeRowsInv ==
    ASSUME TypeOK, SessionsInv, NEW r \in Requests, RevokeRows(r)
    PROVE  SessionsInv'
  <1>1. UNCHANGED <<db, era, spared, ended>> /\ UNCHANGED <<Issued, revoked, password>>
    BY DEF RevokeRows, history, db, Issued
  <1>2. OthersSame(r)
    BY DEF TypeOK, RevokeRows, Goto, OthersSame
  <1>3. /\ pc'[r] = "ungrace" /\ kind'[r] = kind[r] /\ tok'[r] = tok[r] /\ upto'[r] = upto[r]
        /\ revoking'[r] = Covered(r) /\ graced'[r] = {} /\ clearing'[r] = {}
    BY DEF TypeOK, RevokeRows, Goto, SessionsInv, RequestInv, Placed
  <1>4. RequestInv(r) /\ kind[r] # "logout"
    BY DEF RevokeRows, SessionsInv, RequestInv, Placed
  <1>5. HoldsUser(r)' = HoldsUser(r) /\ Holding(r)' = Covered(r)
    BY <1>3 DEF RevokeRows, HoldsUser, Holding, Exchanging
  <1>6. EndsAll(r)'
    BY <1>1, <1>3, <1>4 DEF EndsAll, Ending, Keep, Covered
  <1>10. Scanning(r)'
    BY <1>1, <1>3, <1>4 DEF Scanning, Covered
  <1>7. RequestInv(r)'
    BY <1>1, <1>3, <1>4, <1>5, <1>6, <1>10
       DEF RequestInv, Placed, Exchangeable, MayChange, SparesLate, Exchanging, Closing, RevokeRows
  <1>8. \A q \in Requests \ {r} : Holding(q) \cap Covered(r) = {}
    BY HeldIsHolding DEF RevokeRows
  <1>9. Alone(r)'
    BY <1>2, <1>5, <1>8, OthersKeep DEF SessionsInv, Alone, Apart
  <1> QED
    BY <1>1, <1>2, <1>7, <1>9, QuietStep

LEMMA EndRotationGraceInv ==
    ASSUME TypeOK, SessionsInv, NEW r \in Requests, EndRotationGrace(r)
    PROVE  SessionsInv'
  <1>1. UNCHANGED <<db, era, spared, ended>> /\ UNCHANGED <<Issued, revoked, rotated, password>>
    BY DEF EndRotationGrace, history, db, Issued
  <1>2. OthersSame(r)
    BY DEF TypeOK, EndRotationGrace, Goto, OthersSame
  <1>3. /\ pc'[r] = "ungracing" /\ kind'[r] = kind[r] /\ tok'[r] = tok[r] /\ upto'[r] = upto[r]
        /\ revoking'[r] = revoking[r] /\ graced'[r] = InGraceRows /\ clearing'[r] = {} /\ clearing[r] = {}
    BY DEF TypeOK, EndRotationGrace, Goto, SessionsInv, RequestInv, Placed
  <1>4. RequestInv(r)
    BY DEF SessionsInv
  <1>5. HoldsUser(r)' = HoldsUser(r) /\ Holding(r)' = Holding(r)
    BY <1>3 DEF EndRotationGrace, HoldsUser, Holding, Exchanging
  <1>6. EndsAll(r)'
    <2>1. Ending(r)' = Ending(r) /\ Ending(r) \subseteq revoked \cup revoking[r]
      BY <1>3, <1>4 DEF EndRotationGrace, RequestInv, EndsAll, Ending, Keep, Closing
    <2>2. Ending(r) \subseteq Issued
      BY <2>1 DEF TypeOK
    <2> QED
      BY <1>1, <1>3, <2>1, <2>2 DEF EndsAll, InGraceRows
  <1>10. Scanning(r)'
    <2>1. InGraceRows \subseteq revoked
      BY SessionsAssumption DEF InGraceRows, SessionsInv, RowsInv, TypeOK, Issued, Tokens
    <2> QED
      BY <1>1, <1>3, <1>4, <2>1 DEF Scanning, RequestInv
  <1>7. RequestInv(r)'
    BY <1>1, <1>3, <1>4, <1>5, <1>6, <1>10
       DEF RequestInv, Placed, Exchangeable, MayChange, SparesLate, Exchanging, Closing, EndRotationGrace
  <1>8. Alone(r)'
    BY <1>2, <1>5, OthersKeep DEF SessionsInv, Alone, Apart
  <1> QED
    BY <1>1, <1>2, <1>7, <1>8, QuietStep

\* The scan takes the least row, after all it holds.
LEMMA ClearRowInv ==
    ASSUME TypeOK, SessionsInv, NEW r \in Requests, ClearRow(r)
    PROVE  SessionsInv'
  <1>1. UNCHANGED <<db, era, spared, ended>> /\ UNCHANGED <<Issued, revoked, rotated, password>>
    BY DEF ClearRow, history, db, Issued
  <1>2. OthersSame(r)
    BY DEF TypeOK, ClearRow, OthersSame
  <1>3. PICK t \in NextRow(r) :
          /\ ~Held(t, r)
          /\ graced' = [graced EXCEPT ![r] = @ \ {t}]
          /\ clearing' = IF rotated[t] # "null" THEN [clearing EXCEPT ![r] = @ \cup {t}] ELSE clearing
    BY DEF ClearRow
  <1>4. /\ pc[r] = "ungracing" /\ pc' = pc /\ kind' = kind /\ tok' = tok /\ upto' = upto
        /\ revoking' = revoking /\ graced'[r] = graced[r] \ {t}
        /\ clearing'[r] = IF rotated[t] # "null" THEN clearing[r] \cup {t} ELSE clearing[r]
    BY <1>3 DEF TypeOK, ClearRow
  <1>5. RequestInv(r) /\ t \in graced[r] /\ \A u \in graced[r] : t <= u
    BY DEF SessionsInv, NextRow
  <1>6. HoldsUser(r)' = HoldsUser(r) /\ Ending(r)' = Ending(r)
    BY <1>4 DEF HoldsUser, Ending, Keep
  <1>7. Placed(r)' /\ Exchangeable(r)' /\ MayChange(r)' /\ SparesLate(r)'
    BY <1>1, <1>4, <1>5, <1>6
       DEF RequestInv, Placed, Exchangeable, MayChange, SparesLate, Closing, Exchanging
  <1>8. EndsAll(r)'
    BY <1>1, <1>4, <1>5, <1>6 DEF RequestInv, EndsAll
  <1>9. Scanning(r)'
    <2>1. graced[r] \subseteq Nat
      BY DEF TypeOK, Issued
    <2>2. \A u \in graced'[r] : t < u
      BY <1>4, <1>5, <2>1
    <2>3. \A v \in clearing'[r], u \in graced'[r] : v < u
      BY <1>4, <1>5, <2>2 DEF RequestInv, Scanning
    <2> QED
      BY <1>1, <1>4, <1>5, <2>3 DEF RequestInv, Scanning
  <1>10. Alone(r)'
    <2>1. \A q \in Requests \ {r} : t \notin Holding(q)
      BY <1>3, HeldIsHolding
    <2>2. Holding(r)' \subseteq Holding(r) \cup {t}
      BY <1>4 DEF Holding
    <2> QED
      BY <1>2, <1>6, <2>1, <2>2, OthersKeep DEF SessionsInv, Alone, Apart
  <1> QED
    BY <1>1, <1>2, <1>7, <1>8, <1>9, <1>10, QuietStep DEF RequestInv

LEMMA MovesInv ==
    ASSUME TypeOK, SessionsInv, NEW r \in Requests, Moves(r)
    PROVE  SessionsInv'
  <1>1. CASE Fail(r) \/ Abort(r)
    BY <1>1, FinishInv DEF Fail, Abort
  <1> QED
    BY <1>1, ReadsInv, AuthenticateInv, ExchangeInv, CloseSessionInv, SetPasswordInv, BeginRevokeInv,
       RevokeRowsInv, EndRotationGraceInv, ClearRowInv DEF Moves

LEMMA ArriveInv ==
    ASSUME TypeOK, SessionsInv, NEW r \in Requests, NEW k \in Kinds, NEW t \in 0..issued, Arrive(r, k, t)
    PROVE  SessionsInv'
  <1>1. UNCHANGED <<db, era, spared, ended>>
    BY DEF Arrive
  <1>2. OthersSame(r)
    BY DEF TypeOK, Arrive, Goto, OthersSame
  <1>3. /\ pc'[r] = "read" /\ kind'[r] = k /\ tok'[r] = t /\ revoking'[r] = {}
        /\ graced'[r] = {} /\ clearing'[r] = {}
        /\ k = "logout" => t # 0
    BY DEF TypeOK, Arrive, Goto, SessionsInv, RequestInv, Placed, Closing
  <1>4. RequestInv(r)' /\ Holding(r)' = {} /\ ~HoldsUser(r)'
    BY <1>3 DEF RequestInv, Placed, Exchangeable, EndsAll, Scanning, MayChange, SparesLate, Holding, HoldsUser,
                Exchanging, Closing
  <1> QED
    BY <1>1, <1>2, <1>4, QuietStep DEF Alone, Apart

LEMMA ReplyInv ==
    ASSUME TypeOK, SessionsInv, NEW r \in Requests, Deliver(r) \/ LoseReply(r)
    PROVE  SessionsInv'
  <1>1. UNCHANGED <<db, txn, era, spared, ended>> /\ Goto(r, "idle") /\ pc[r] = "reply"
    BY DEF Deliver, LoseReply, history
  <1>2. /\ pc'[r] = "idle" /\ kind'[r] = kind[r] /\ tok'[r] = tok[r] /\ revoking'[r] = {}
        /\ graced'[r] = {} /\ clearing'[r] = {}
        /\ kind[r] = "logout" => tok[r] # 0
    BY <1>1 DEF TypeOK, Goto, txn, SessionsInv, RequestInv, Placed, Closing
  <1>3. RequestInv(r)' /\ Holding(r)' = {} /\ ~HoldsUser(r)'
    BY <1>2 DEF RequestInv, Placed, Exchangeable, EndsAll, Scanning, MayChange, SparesLate, Holding, HoldsUser,
                Exchanging, Closing
  <1> QED
    BY <1>1, <1>3, MoveInv DEF Alone, Apart, Places

(***************************************************************************)
(* The steps that change rows.                                             *)
(***************************************************************************)
\* The window of a rotation closes: what was rotated still is.
LEMMA ElapseInv ==
    ASSUME TypeOK, SessionsInv, NEW t \in Tokens, GraceElapses(t)
    PROVE  SessionsInv'
  <1>1. /\ rotated \in [Tokens -> {"null", "recent", "old"}] /\ rotated[t] = "recent"
        /\ rotated' = [rotated EXCEPT ![t] = "old"]
        /\ UNCHANGED <<issued, revoked, password, pc, txn, era, spared, ended>>
    BY DEF TypeOK, GraceElapses
  <1>2. \A u \in Tokens : rotated'[u] = "null" <=> rotated[u] = "null"
    BY <1>1
  <1>3. Issued \subseteq Tokens /\ Issued' = Issued /\ ended \subseteq Tokens
    BY <1>1, SessionsAssumption DEF TypeOK, Issued, Tokens
  <1>4. ASSUME NEW q \in Requests
        PROVE  /\ Holding(q)' = Holding(q) /\ HoldsUser(q)' = HoldsUser(q) /\ Ending(q)' = Ending(q)
               /\ Placed(q)' = Placed(q) /\ MayChange(q)' = MayChange(q) /\ SparesLate(q)' = SparesLate(q)
               /\ Scanning(q)' = Scanning(q)
    BY <1>1, <1>3 DEF txn, Holding, HoldsUser, Ending, Keep, Placed, MayChange, SparesLate, Scanning
  <1>5. ASSUME NEW q \in Requests PROVE Exchangeable(q)' /\ EndsAll(q)'
    <2>1. RequestInv(q) /\ (pc[q] = "spent" => tok[q] \in Tokens)
      BY <1>3 DEF SessionsInv, RequestInv, Placed, Exchanging
    <2>2. Exchangeable(q)'
      BY <1>1, <1>2, <2>1 DEF RequestInv, Exchangeable, txn
    <2>3. pc[q] \in Closing => Ending(q) \subseteq Tokens
      BY <1>3, <2>1 DEF RequestInv, EndsAll, TypeOK
    <2>4. EndsAll(q)'
      BY <1>1, <1>2, <1>4, <2>1, <2>3 DEF RequestInv, EndsAll, Closing, txn
    <2> QED
      BY <2>2, <2>4
  <1>6. RowsInv'
    BY <1>1, <1>2, <1>3 DEF SessionsInv, RowsInv
  <1>7. OldGraceIsOut'
    BY <1>1, <1>2, <1>3 DEF SessionsInv, OldGraceIsOut, Live, Grace
  <1> QED
    BY <1>4, <1>5, <1>6, <1>7 DEF SessionsInv, RequestInv, Apart

\* Whoever lets go of everything is in nobody's way.
LEMMA StillApart ==
    ASSUME SessionsInv, NEW r \in Requests, OthersSame(r), Holding(r)' = {}, ~HoldsUser(r)'
    PROVE  \A p, q \in Requests : p # q => Apart(p, q)'
  <1>1. \A q \in Requests \ {r} : Holding(q)' = Holding(q) /\ HoldsUser(q)' = HoldsUser(q)
    BY OthersKeep
  <1>2. SUFFICES ASSUME NEW p \in Requests, NEW q \in Requests, p # q PROVE Apart(p, q)'
    OBVIOUS
  <1>3. CASE p # r /\ q # r
    BY <1>1, <1>2, <1>3 DEF SessionsInv, Apart
  <1>4. CASE p = r \/ q = r
    BY <1>2, <1>4 DEF Apart
  <1> QED
    BY <1>3, <1>4

\* A new token belongs to no one else's row, and is spared by the changes and resets under way.
LEMMA IssueOthers ==
    ASSUME TypeOK, SessionsInv, NEW r \in Requests, IssueSuccessor(r) \/ IssueRefreshToken(r),
           NEW q \in Requests \ {r}
    PROVE  Placed(q)' /\ MayChange(q)' /\ SparesLate(q)'
  <1>1. OthersSame(r)
    BY FinishQuiet DEF IssueSuccessor, IssueRefreshToken
  <1>2. Issued' = Issued \cup {issued'} /\ Issued \subseteq Issued'
    BY IssueIsNext
  <1>3. password' = password /\ HoldsUser(q)' = HoldsUser(q) /\ RequestInv(q)
    BY <1>1, OthersKeep DEF IssueSuccessor, IssueRefreshToken, SessionsInv
  <1>4. Placed(q)'
    BY <1>1, <1>2, <1>3 DEF OthersSame, RequestInv, Placed
  <1>5. MayChange(q)'
    BY <1>3 DEF RequestInv, MayChange
  <1>6. SparesLate(q)'
    <2>1. issued' = issued + 1
      BY IssueIsNext
    <2>2. spared \subseteq spared' /\ (Revoking => issued' \in spared')
      BY <2>1 DEF IssueSuccessor, IssueRefreshToken
    <2>3. kind[q] \in {"change", "reset"} /\ pc[q] \in {"revoking"} \cup Closing => Revoking
      BY DEF Revoking, Closing
    <2> QED
      BY <1>1, <1>2, <1>3, <2>2, <2>3 DEF OthersSame, RequestInv, SparesLate, Closing
  <1> QED
    BY <1>4, <1>5, <1>6

LEMMA IssueRefreshTokenInv ==
    ASSUME TypeOK, SessionsInv, NEW r \in Requests, IssueRefreshToken(r)
    PROVE  SessionsInv'
  <1>1. OthersSame(r) /\ RequestInv(r)' /\ Holding(r)' = {} /\ ~HoldsUser(r)'
    BY FinishQuiet DEF IssueRefreshToken
  <1>2. /\ issued' = issued + 1 /\ issued' \in Tokens /\ Issued' = Issued \cup {issued'}
        /\ issued' \notin Issued /\ Issued \subseteq Tokens
    BY IssueIsNext
  <1>3. UNCHANGED <<revoked, rotated, password, ended>>
    BY DEF IssueRefreshToken
  <1>4. ASSUME NEW q \in Requests \ {r} PROVE RequestInv(q)'
    <2>1. Ending(q)' = Ending(q) /\ RequestInv(q)
      BY <1>1, OthersKeep DEF SessionsInv
    <2>2. Exchangeable(q)' /\ EndsAll(q)' /\ Scanning(q)'
      BY <1>1, <1>3, <2>1 DEF OthersSame, RequestInv, Exchangeable, EndsAll, Scanning
    <2> QED
      BY <2>2, IssueOthers DEF RequestInv
  <1>5. RowsInv'
    BY <1>3 DEF SessionsInv, RowsInv
  <1>6. OldGraceIsOut'
    <2>1. \A t \in Issued : rotated[t] # "null" => t \in revoked
      BY <1>2 DEF SessionsInv, RowsInv
    <2>2. \A t \in Issued : t # issued' /\ era'[t] = era[t]
      BY <1>2 DEF TypeOK, IssueRefreshToken
    <2>3. era'[issued'] = password \/ issued' \in spared'
      BY <1>2 DEF TypeOK, IssueRefreshToken
    <2>4. spared \subseteq spared'
      BY DEF IssueRefreshToken
    <2> QED
      BY <1>2, <1>3, <2>2, <2>3, <2>4 DEF SessionsInv, OldGraceIsOut, Live, Grace
  <1> QED
    BY <1>1, <1>4, <1>5, <1>6, StillApart DEF SessionsInv

LEMMA IssueSuccessorInv ==
    ASSUME TypeOK, SessionsInv, NEW r \in Requests, IssueSuccessor(r)
    PROVE  SessionsInv'
  <1> DEFINE t == tok[r]
  <1>1. OthersSame(r) /\ RequestInv(r)' /\ Holding(r)' = {} /\ ~HoldsUser(r)'
    BY FinishQuiet DEF IssueSuccessor
  <1>2. /\ issued' = issued + 1 /\ issued' \in Tokens /\ Issued' = Issued \cup {issued'}
        /\ issued' \notin Issued /\ Issued \subseteq Tokens
    BY IssueIsNext
  <1>3. UNCHANGED <<password, ended>>
    BY DEF IssueSuccessor
  <1>4. /\ t \in Issued /\ t \in Tokens
        /\ pc[r] = "claimed" => t \notin revoked
        /\ pc[r] = "spent" => rotated[t] # "null" /\ t \in revoked
        /\ pc[r] \in Exchanging /\ t \in Holding(r)
    BY <1>2 DEF IssueSuccessor, SessionsInv, RequestInv, Placed, Exchangeable, Exchanging, RowsInv, Holding
  <1>5. /\ \A u \in Tokens \ {t} : rotated'[u] = rotated[u]
        /\ rotated'[t] = IF pc[r] = "claimed" THEN "recent" ELSE "null"
        /\ revoked' = revoked \cup {t}
    BY <1>4 DEF TypeOK, IssueSuccessor, Exchanging
  <1>6. ASSUME NEW q \in Requests \ {r} PROVE RequestInv(q)'
    <2>1. Ending(q)' = Ending(q) /\ RequestInv(q) /\ t \notin Holding(q)
      BY <1>1, <1>4, OthersKeep DEF SessionsInv, Apart
    <2>2. Exchangeable(q)'
      <3>1. pc[q] \in Exchanging => tok[q] # t /\ tok[q] \in Tokens
        BY <1>2, <2>1 DEF Holding, RequestInv, Placed
      <3> QED
        BY <1>1, <1>5, <2>1, <3>1 DEF OthersSame, RequestInv, Exchangeable, Exchanging
    <2>3. EndsAll(q)'
      <3>1. pc[q] \in Closing => Ending(q) \subseteq revoked \cup revoking[q] /\ Ending(q) \subseteq Tokens
        BY <1>2, <2>1 DEF RequestInv, EndsAll, TypeOK
      <3>2. pc[q] \in Closing /\ pc[r] = "claimed" => t \notin Ending(q)
        BY <1>4, <2>1, <3>1 DEF Holding
      <3>3. pc[q] = "ungracing" => \A u \in Ending(q) : rotated'[u] # "null" => u \in graced[q] \cup clearing[q]
        BY <1>5, <2>1, <3>1, <3>2 DEF RequestInv, EndsAll, Closing
      <3> QED
        BY <1>1, <1>5, <2>1, <3>1, <3>3 DEF OthersSame, EndsAll
    <2>4. Scanning(q)'
      <3>1. t \notin revoking[q]
        BY <2>1 DEF Holding
      <3> QED
        BY <1>1, <1>5, <2>1, <3>1 DEF OthersSame, RequestInv, Scanning
    <2> QED
      BY <2>1, <2>2, <2>3, <2>4, IssueOthers DEF RequestInv
  <1>7. RowsInv'
    <2>1. ended \subseteq Tokens /\ ended \subseteq revoked
      BY <1>2 DEF TypeOK, SessionsInv, RowsInv
    <2>2. \A u \in Tokens : rotated'[u] # "null" => u \in revoked'
      BY <1>5 DEF SessionsInv, RowsInv
    <2>3. \A u \in ended : rotated'[u] = "null"
      BY <1>4, <1>5, <2>1 DEF SessionsInv, RowsInv, Exchanging
    <2> QED
      BY <1>3, <1>5, <2>1, <2>2, <2>3 DEF RowsInv
  <1>8. OldGraceIsOut'
    <2>1. \A u \in Issued : u # issued' /\ era'[u] = era[u]
      BY <1>2 DEF TypeOK, IssueSuccessor
    <2>2. spared \subseteq spared' /\ era'[issued'] = era[t] /\ (t \in spared => issued' \in spared')
      BY <1>2 DEF TypeOK, IssueSuccessor
    <2>3. era[t] = password \/ t \in spared
      BY <1>4 DEF SessionsInv, OldGraceIsOut, Live, Grace, Exchanging
    <2>4. ASSUME NEW u \in Issued, u \notin revoked' \/ rotated'[u] # "null"
          PROVE  u \notin revoked \/ rotated[u] # "null"
      BY <1>2, <1>4, <1>5, <2>4 DEF Exchanging
    <2>5. \A u \in Live' \cup Grace' : u \in Live \cup Grace \/ u = issued'
      BY <1>2, <2>4 DEF Live, Grace
    <2> QED
      BY <1>3, <2>1, <2>2, <2>3, <2>5 DEF SessionsInv, OldGraceIsOut, Live, Grace
  <1> QED
    BY <1>1, <1>6, <1>7, <1>8, StillApart DEF SessionsInv

LEMMA CommitInv ==
    ASSUME TypeOK, SessionsInv, NEW r \in Requests, Commit(r)
    PROVE  SessionsInv'
  <1>1. OthersSame(r) /\ RequestInv(r)' /\ Holding(r)' = {} /\ ~HoldsUser(r)'
    BY FinishQuiet DEF Commit
  <1>2. /\ UNCHANGED <<issued, era>> /\ Issued' = Issued /\ Issued \subseteq Tokens
        /\ revoked' = revoked \cup revoking[r]
        /\ \A t \in Tokens : rotated'[t] = IF t \in clearing[r] THEN "null" ELSE rotated[t]
    BY SessionsAssumption DEF Commit, Issued, TypeOK, Tokens
  <1>3. /\ Ending(r) \subseteq revoked'
        /\ \A t \in Ending(r) : rotated[t] # "null" => t \in clearing[r]
        /\ Ending(r) \subseteq Tokens
        /\ pc[r] \in Closing /\ revoking[r] \subseteq Holding(r) /\ clearing[r] \subseteq Holding(r)
    BY <1>2 DEF Commit, SessionsInv, RequestInv, EndsAll, Closing, TypeOK, Holding
  <1>4. ended' = ended \cup Ending(r)
    BY DEF Commit, Ending
  <1>5. ASSUME NEW q \in Requests \ {r} PROVE RequestInv(q)'
    <2>1. /\ RequestInv(q) /\ Apart(q, r) /\ Ending(q)' = Ending(q) /\ HoldsUser(q)' = HoldsUser(q)
      BY <1>1, OthersKeep DEF SessionsInv
    <2>2. Placed(q)'
      BY <1>1, <1>2, <2>1 DEF OthersSame, RequestInv, Placed
    <2>3. Exchangeable(q)'
      <3>1. CASE pc[q] = "claimed"
        BY <1>1, <1>2, <1>3, <2>1, <3>1
           DEF OthersSame, RequestInv, Exchangeable, Apart, Holding, Exchanging
      <3>2. CASE pc[q] = "spent"
        <4>1. tok[q] \in Tokens /\ rotated[tok[q]] # "null"
          BY <1>2, <2>1, <3>2 DEF RequestInv, Placed, Exchangeable, Exchanging
        <4>2. tok[q] \notin clearing[r]
          BY <1>3, <2>1, <3>2 DEF Apart, Holding, Exchanging
        <4> QED
          BY <1>1, <1>2, <3>2, <4>1, <4>2 DEF OthersSame, Exchangeable
      <3> QED
        BY <1>1, <3>1, <3>2 DEF OthersSame, Exchangeable
    <2>4. EndsAll(q)'
      <3>1. pc[q] \in Closing => Ending(q) \subseteq revoked \cup revoking[q] /\ Ending(q) \subseteq Tokens
        BY <1>2, <2>1 DEF RequestInv, EndsAll, TypeOK
      <3>2. pc[q] = "ungracing" => \A u \in Ending(q) : rotated'[u] # "null" => u \in graced[q] \cup clearing[q]
        BY <1>2, <2>1, <3>1 DEF RequestInv, EndsAll, Closing
      <3> QED
        BY <1>1, <1>2, <2>1, <3>1, <3>2 DEF OthersSame, EndsAll
    <2>5. MayChange(q)'
      <3>1. HoldsUser(q) => password' = password
        BY <2>1 DEF Apart, Commit
      <3> QED
        BY <2>1, <3>1 DEF RequestInv, MayChange
    <2>6. SparesLate(q)'
      <3>1. spared \subseteq spared'
        BY DEF Commit
      <3> QED
        BY <1>1, <1>2, <2>1, <3>1 DEF OthersSame, RequestInv, SparesLate
    <2>7. Scanning(q)'
      <3>1. revoking[r] \cap revoking[q] = {}
        BY <1>3, <2>1 DEF Apart, Holding
      <3> QED
        BY <1>1, <1>2, <2>1, <3>1 DEF OthersSame, RequestInv, Scanning
    <2> QED
      BY <2>2, <2>3, <2>4, <2>5, <2>6, <2>7 DEF RequestInv
  <1>6. RowsInv'
    <2>1. ended \subseteq Tokens
      BY <1>2 DEF TypeOK
    <2>2. \A t \in Tokens : rotated'[t] # "null" => t \in revoked'
      BY <1>2 DEF SessionsInv, RowsInv
    <2>3. \A t \in ended' : rotated'[t] = "null"
      BY <1>2, <1>3, <1>4, <2>1 DEF SessionsInv, RowsInv
    <2> QED
      BY <1>2, <1>3, <1>4, <2>2, <2>3 DEF SessionsInv, RowsInv
  <1>7. OldGraceIsOut'
    <2>1. \A t \in Issued : t \in Live' \cup Grace' => t \in Live \cup Grace
      BY <1>2 DEF Live, Grace
    <2>2. spared \subseteq spared'
      BY DEF Commit
    <2>3. CASE ~HoldsUser(r)
      <3>1. password' = password
        BY <2>3 DEF Commit
      <3> QED
        BY <1>2, <2>1, <2>2, <3>1 DEF SessionsInv, OldGraceIsOut, Live, Grace
    <2>4. CASE HoldsUser(r)
      <3>1. kind[r] \in {"change", "reset"} /\ Ending(r) = 1..upto[r] \ Keep(r)
        BY <2>4 DEF HoldsUser, Ending
      <3>2. \A t \in Ending(r) : t \notin Live' \cup Grace'
        BY <1>2, <1>3 DEF Live, Grace
      <3>3. \A t \in Keep(r) \cap Issued : t \in spared'
        BY DEF Commit, Keep
      <3>4. \A t \in Issued : t > upto[r] => t \in spared
        BY <1>3, <3>1 DEF SessionsInv, RequestInv, SparesLate
      <3>5. \A t \in Issued : t \in 1..upto[r] \/ t > upto[r]
        BY SessionsAssumption DEF TypeOK, Issued
      <3>6. ASSUME NEW t \in Issued, t \in Live' \cup Grace' PROVE t \in spared'
        BY <2>2, <3>1, <3>2, <3>3, <3>4, <3>5, <3>6
      <3> QED
        BY <1>2, <3>6 DEF OldGraceIsOut, Live, Grace
    <2> QED
      BY <2>3, <2>4
  <1> QED
    BY <1>1, <1>5, <1>6, <1>7, StillApart DEF SessionsInv

LEMMA InitInv == Init => SessionsInv
  <1> SUFFICES ASSUME Init PROVE SessionsInv
    OBVIOUS
  <1>1. \A r \in Requests : RequestInv(r) /\ Holding(r) = {} /\ ~HoldsUser(r)
    BY DEF Init, RequestInv, Placed, Exchangeable, EndsAll, Scanning, MayChange, SparesLate, Holding, HoldsUser,
           Exchanging, Closing
  <1>2. RowsInv
    BY DEF Init, RowsInv
  <1>3. OldGraceIsOut
    BY SessionsAssumption DEF Init, OldGraceIsOut, Live, Grace, Issued, Tokens
  <1> QED
    BY <1>1, <1>2, <1>3 DEF SessionsInv, Apart

LEMMA NextInv == TypeOK /\ SessionsInv /\ [Next]_vars => SessionsInv'
  <1> SUFFICES ASSUME TypeOK, SessionsInv, [Next]_vars PROVE SessionsInv'
    OBVIOUS
  <1>1. ASSUME NEW r \in Requests, Step(r) \/ LoseReply(r) \/ Fail(r) PROVE SessionsInv'
    BY <1>1, StepIs, MovesInv, IssueSuccessorInv, IssueRefreshTokenInv, CommitInv, ReplyInv
  <1>2. ASSUME NEW r \in Requests, NEW k \in Kinds, NEW t \in 0..issued, Arrive(r, k, t) PROVE SessionsInv'
    BY <1>2, ArriveInv
  <1>3. ASSUME NEW t \in Tokens, GraceElapses(t) PROVE SessionsInv'
    BY <1>3, ElapseInv
  <1>4. CASE UNCHANGED vars
    BY <1>4 DEF vars, db, txn, history, SessionsInv, RequestInv, Placed, Exchangeable, EndsAll, Ending, Keep,
                Scanning, MayChange, SparesLate, Apart, Holding, HoldsUser, RowsInv, OldGraceIsOut, Live, Grace, Issued
  <1> QED
    BY <1>1, <1>2, <1>3, <1>4 DEF Next

(***************************************************************************)
(* The theorems.                                                           *)
(***************************************************************************)
LEMMA SessionsInvariant == Spec => [](TypeOK /\ SessionsInv)
  <1>1. Init => TypeOK /\ SessionsInv
    BY InitTypeOK, InitInv
  <1>2. TypeOK /\ SessionsInv /\ [Next]_vars => (TypeOK /\ SessionsInv)'
    BY NextTypeOK, NextInv
  <1> QED
    BY <1>1, <1>2, PTL DEF Spec

\* The records of all requests, rows and history have their types, whatever the requests do.
THEOREM TypeCorrect == Spec => []TypeOK
  BY SessionsInvariant, PTL

\* A live session opened with an older password is one that was kept, or was being opened or
\* exchanged while the change or the reset revoked the others (auth_service.revoke_all_sessions,
\* account_service.change_password).
THEOREM NoOldSessionLives == Spec => []OldPasswordsAreOut
  <1>1. SessionsInv => OldPasswordsAreOut
    BY DEF SessionsInv, OldGraceIsOut, OldPasswordsAreOut
  <1> QED
    BY <1>1, SessionsInvariant, PTL

(***************************************************************************)
(* Who waits for whom.  The rows in grace are taken in one order, so that  *)
(* of the scans that wait for each other the furthest has nobody to wait   *)
(* for; the live tokens are taken before them, the user before the live    *)
(* tokens, and the link before the user.                                   *)
(***************************************************************************)
LEMMA Furthest ==
    ASSUME NEW m \in Nat, NEW T \in SUBSET (1..m), T # {}
    PROVE  \E x \in T : \A y \in T : y <= x
  <1> DEFINE Below == {ss \in Nat \X Nat : ss[1] < ss[2]}
             Left == {m - x : x \in T}
  <1>1. Left \in SUBSET Nat /\ Left # {}
    <2>1. \A x \in T : m - x \in Nat
      OBVIOUS
    <2>2. Left \subseteq Nat
      BY <2>1
    <2>3. PICK x : x \in T
      OBVIOUS
    <2>4. m - x \in Left
      BY <2>3
    <2> QED
      BY <2>2, <2>4
  <1>2. IsWellFoundedOn(Below, Nat)
    BY NatLessThanWellFounded DEF OpToRel
  <1>3. PICK d \in Left : \A e \in Left : ~(<<e, d>> \in Below)
    <2> HIDE DEF Below, Left
    <2> QED
      BY <1>1, <1>2, WFMin
  <1>4. PICK x \in T : d = m - x
    OBVIOUS
  <1>5. ASSUME NEW y \in T PROVE y <= x
    <2>1. m - y \in Nat /\ m - x \in Nat /\ ~(<<m - y, m - x>> \in Below)
      BY <1>3, <1>4
    <2>2. <<m - y, m - x>> \in Nat \X Nat /\ <<m - y, m - x>>[1] = m - y /\ <<m - y, m - x>>[2] = m - x
      BY <2>1
    <2>3. ~(m - y < m - x)
      BY <2>1, <2>2
    <2> QED
      BY <2>3
  <1> QED
    BY <1>5

\* The places whose next statement may wait.
Waiting == {"claim", "spend", "close", "link", "setpw", "revoking", "ungracing"}

\* Who waits and has a row is at its scan, for an exchange does not wait once it has its own.
LEMMA HolderScans ==
    ASSUME SessionsInv, NEW q \in Requests, NEW t, Holds(q, t), pc[q] \in Waiting
    PROVE  pc[q] = "ungracing" /\ t \in revoking[q] \cup clearing[q]
  BY DEF SessionsInv, RequestInv, Placed, Closing, Holds, Waiting

\* A scan waits for one that is further, or for a late logout.
LEMMA ScanWaits ==
    ASSUME TypeOK, SessionsInv, NEW r \in Requests, NEW q \in Requests, pc[r] = "ungracing",
           Waits(r, q), pc[q] \in Waiting, ~LateLogout(q)
    PROVE  pc[q] = "ungracing" /\ \E t \in NextRow(r) : \A u \in graced[q] : t < u
  <1>1. PICK t \in NextRow(r) : Holds(q, t)
    BY DEF Waits
  <1>2. pc[q] = "ungracing" /\ t \in revoking[q] \cup clearing[q]
    BY <1>1, HolderScans
  <1>3. t \in revoked
    BY DEF NextRow, SessionsInv, RequestInv, Scanning
  <1>4. t \notin revoking[q]
    <2>1. IF kind[q] = "logout" THEN revoking[q] \subseteq {tok[q]} ELSE revoking[q] \cap revoked = {}
      BY DEF SessionsInv, RequestInv, Scanning
    <2> QED
      BY <1>2, <1>3, <2>1 DEF LateLogout
  <1>5. \A u \in graced[q] : t < u
    BY <1>2, <1>4 DEF SessionsInv, RequestInv, Scanning
  <1> QED
    BY <1>2, <1>5

\* A set of requests that wait for each other has a late logout.
LEMMA NoCircle ==
    ASSUME TypeOK, SessionsInv, NEW S \in SUBSET Requests, S # {}, \A r \in S : \E q \in S : Waits(r, q),
           \A r \in S : ~LateLogout(r)
    PROVE  FALSE
  <1>1. \A r \in S : pc[r] \in Waiting
    BY DEF Waits, Waiting
  <1>2. ASSUME NEW r \in S, pc[r] = "ungracing" PROVE FALSE
    <2> DEFINE Comes == {t \in 1..MaxTokens : \E q \in S : pc[q] = "ungracing" /\ t \in NextRow(q)}
    <2>1. ASSUME NEW q \in S, pc[q] = "ungracing"
          PROVE  \E p \in S : \E t \in NextRow(q) : \E u \in NextRow(p) : pc[p] = "ungracing" /\ t < u
      <3>1. PICK p \in S : Waits(q, p)
        OBVIOUS
      <3>2. pc[p] = "ungracing" /\ \E t \in NextRow(q) : \A u \in graced[p] : t < u
        BY <1>1, <2>1, <3>1, ScanWaits
      <3>3. \E u : u \in NextRow(p)
        BY <3>2 DEF Waits
      <3> QED
        BY <3>2, <3>3 DEF NextRow
    <2>2. \A q \in S : NextRow(q) \subseteq 1..MaxTokens
      BY SessionsAssumption DEF NextRow, TypeOK, Issued
    <2>3. Comes # {} /\ Comes \in SUBSET (1..MaxTokens)
      BY <1>2, <2>1, <2>2
    <2>4. PICK x \in Comes : \A y \in Comes : y <= x
      <3> HIDE DEF Comes
      <3> QED
        BY <2>3, Furthest, SessionsAssumption
    <2>5. PICK q \in S : pc[q] = "ungracing" /\ x \in NextRow(q)
      OBVIOUS
    <2>6. PICK p \in S : \E t \in NextRow(q) : \E u \in NextRow(p) : pc[p] = "ungracing" /\ t < u
      BY <2>1, <2>5
    <2>9. PICK t \in NextRow(q), u \in NextRow(p) : pc[p] = "ungracing" /\ t < u
      BY <2>6
    <2>7. u \in Comes /\ u \in 1..MaxTokens /\ x \in 1..MaxTokens /\ t \in 1..MaxTokens
      BY <2>2, <2>9
    <2>8. t = x
      BY <2>2, <2>5, <2>7 DEF NextRow
    <2> QED
      BY <2>4, <2>7, <2>8, <2>9
  <1>3. ASSUME NEW r \in S, NEW q \in S, NEW t PROVE ~Holds(q, t)
    BY <1>1, <1>2, HolderScans
  <1>4. \A r \in S : pc[r] \in {"setpw", "link"}
    BY <1>1, <1>2, <1>3 DEF Waits, Waiting
  <1>5. \A q \in S : ~HoldsUser(q)
    BY <1>4 DEF HoldsUser
  <1>6. \A r \in S : pc[r] = "link"
    BY <1>4, <1>5 DEF Waits
  <1>7. \A q \in S : ~HoldsLink(q)
    BY <1>5, <1>6 DEF HoldsLink
  <1> QED
    BY <1>6, <1>7 DEF Waits

\* Whatever the requests of one account are, the endpoints of auth_service and account_service
\* deadlock only round a revoke_refresh_token whose token was exchanged after its SELECT.
THEOREM DeadlocksAreOfLateLogouts == Spec => []NoDeadlock
  <1>1. TypeOK /\ SessionsInv => NoDeadlock
    BY NoCircle DEF NoDeadlock, Circle
  <1> QED
    BY <1>1, SessionsInvariant, PTL

\* While no logout came late, one of the requests under way waits for nobody: the rows that the
\* endpoints lock are never in each other's hands.
THEOREM SomebodyGoesOn ==
    Spec => []( (\E r \in Requests : pc[r] # "idle") =>
                  \/ \E r \in Requests : pc[r] # "idle" /\ \A q \in Requests : ~Waits(r, q)
                  \/ \E r \in Requests : LateLogout(r) )
  <1>1. ASSUME TypeOK, SessionsInv, NEW p \in Requests, pc[p] # "idle",
               \A r \in Requests : pc[r] # "idle" => \E q \in Requests : Waits(r, q)
        PROVE  \E r \in Requests : LateLogout(r)
    <2> DEFINE Busy == {r \in Requests : pc[r] # "idle"}
    <2>1. ASSUME NEW r \in Requests, NEW q \in Requests, Waits(r, q) PROVE pc[q] # "idle"
      <3>1. Placed(q)
        BY <1>1 DEF SessionsInv, RequestInv
      <3>2. ASSUME NEW t, Holds(q, t) PROVE pc[q] # "idle"
        BY <3>1, <3>2 DEF Holds, Placed, Closing
      <3>3. HoldsUser(q) \/ HoldsLink(q) => pc[q] # "idle"
        BY DEF HoldsUser, HoldsLink
      <3> QED
        BY <2>1, <3>2, <3>3 DEF Waits
    <2>2. \A r \in Busy : \E q \in Busy : Waits(r, q)
      BY <1>1, <2>1
    <2>3. Busy # {} /\ Busy \in SUBSET Requests
      BY <1>1
    <2> HIDE DEF Busy
    <2>4. \E r \in Busy : LateLogout(r)
      BY <1>1, <2>2, <2>3, NoCircle
    <2> QED
      BY <2>3, <2>4
  <1>2. TypeOK /\ SessionsInv =>
          ( (\E r \in Requests : pc[r] # "idle") =>
              \/ \E r \in Requests : pc[r] # "idle" /\ \A q \in Requests : ~Waits(r, q)
              \/ \E r \in Requests : LateLogout(r) )
    BY <1>1
  <1> QED
    BY <1>2, SessionsInvariant, PTL

(***************************************************************************)
(* A request only goes forward: who cannot claim its token goes on to its  *)
(* grace, or to the alarm, and never back.                                 *)
(***************************************************************************)
Ahead(l) ==
    [read |-> 9, claim |-> 8, link |-> 8, spend |-> 7, setpw |-> 7, claimed |-> 6, spent |-> 6,
     issue |-> 6, revoke |-> 5, revoking |-> 4, close |-> 4, ungrace |-> 3, ungracing |-> 2,
     reply |-> 1, idle |-> 0][l]

\* A step of r takes it to a later place, or over a row of its scan.
GoesOn(r) ==
    \/ Ahead(pc'[r]) < Ahead(pc[r])
    \/ pc'[r] = pc[r] /\ Cardinality(graced'[r]) < Cardinality(graced[r])

\* No step of another, nor the clock, sets it back.
StaysPut(r) == pc'[r] = pc[r] /\ graced'[r] = graced[r]

LEMMA PlaceAhead ==
    ASSUME NEW l \in Places
    PROVE  Ahead(l) \in 0..9 /\ (l \notin {"idle", "reply"} => Ahead(l) > 1) /\ (l # "idle" => Ahead(l) > 0)
  BY DEF Ahead, Places

LEMMA GracedFinite ==
    ASSUME TypeOK, NEW r \in Requests
    PROVE  IsFiniteSet(graced[r])
  <1>1. graced[r] \in SUBSET (1..issued) /\ issued \in Nat
    BY DEF TypeOK, Issued
  <1>2. IsFiniteSet(1..issued)
    BY <1>1, FS_Interval
  <1> QED
    BY <1>1, <1>2, FS_Subset

LEMMA FinishGoes ==
    ASSUME TypeOK, NEW r \in Requests, NEW l \in {"idle", "reply"}, Finish(r, l), pc[r] \notin {"idle", "reply"}
    PROVE  GoesOn(r)
  <1>1. pc'[r] = l /\ pc[r] \in Places
    BY DEF TypeOK, Finish, Goto, Places
  <1>2. Ahead(l) \in 0..1
    BY DEF Ahead
  <1> QED
    BY <1>1, <1>2, PlaceAhead DEF GoesOn

LEMMA GotoGoes ==
    ASSUME TypeOK, NEW r \in Requests, NEW l, Goto(r, l), Ahead(l) < Ahead(pc[r])
    PROVE  GoesOn(r)
  BY DEF TypeOK, Goto, GoesOn

LEMMA QueryGoes ==
    ASSUME TypeOK, SessionsInv, NEW r \in Requests, Step(r) \/ LoseReply(r) \/ Fail(r)
    PROVE  GoesOn(r)
  <1>1. CASE Fail(r)
    BY <1>1, FinishGoes DEF Fail
  <1>2. CASE Abort(r)
    <2>1. pc[r] \in Waiting
      BY <1>2 DEF Abort, Circle, Waits, Waiting
    <2> QED
      BY <1>2, <2>1, FinishGoes DEF Abort, Waiting
  <1>3. CASE Deliver(r) \/ LoseReply(r)
    BY <1>3, GotoGoes DEF Deliver, LoseReply, Ahead
  <1>4. CASE IssueSuccessor(r) \/ IssueRefreshToken(r) \/ Commit(r)
    <2>1. pc[r] \notin {"idle", "reply"} /\ (Finish(r, "idle") \/ Finish(r, "reply"))
      BY <1>4 DEF IssueSuccessor, IssueRefreshToken, Commit
    <2> QED
      BY <2>1, FinishGoes
  <1>5. CASE ReadToken(r) \/ Authenticate(r) \/ ReadLogout(r) \/ CheckPassword(r) \/ ReadLink(r)
    <2>1. pc[r] = "read"
      BY <1>5 DEF ReadToken, Authenticate, ReadLogout, CheckPassword, ReadLink
    <2>2. CASE Finish(r, "idle") \/ Finish(r, "reply")
      BY <2>1, <2>2, FinishGoes
    <2>3. CASE \E l \in {"claim", "spend", "revoke", "issue", "close", "setpw", "link"} : Goto(r, l)
      BY <2>1, <2>3, GotoGoes DEF Ahead
    <2> QED
      BY <1>5, <2>2, <2>3 DEF ReadToken, Authenticate, ReadLogout, CheckPassword, ReadLink
  <1>6. CASE Claim(r)
    <2>1. pc[r] = "claim" /\ \E l \in {"claimed", "spend", "revoke"} : Goto(r, l)
      BY <1>6 DEF Claim
    <2> QED
      BY <2>1, GotoGoes DEF Ahead
  <1>7. CASE Spend(r)
    <2>1. pc[r] = "spend" /\ \E l \in {"spent", "revoke"} : Goto(r, l)
      BY <1>7 DEF Spend
    <2> QED
      BY <2>1, GotoGoes DEF Ahead
  <1>8. CASE CloseSession(r) \/ UseLink(r) \/ BeginRevoke(r) \/ RevokeRows(r) \/ EndRotationGrace(r)
    BY <1>8, GotoGoes DEF CloseSession, UseLink, BeginRevoke, RevokeRows, EndRotationGrace, Ahead
  <1>9. CASE SetPassword(r)
    BY <1>9, FinishGoes, GotoGoes DEF SetPassword, Ahead
  <1>10. CASE ClearRow(r)
    <2>1. PICK t \in NextRow(r) : graced' = [graced EXCEPT ![r] = @ \ {t}]
      BY <1>10 DEF ClearRow
    <2>2. graced'[r] = graced[r] \ {t} /\ t \in graced[r] /\ pc'[r] = pc[r]
      BY <1>10, <2>1 DEF TypeOK, NextRow, ClearRow
    <2>3. Cardinality(graced[r] \ {t}) < Cardinality(graced[r])
      <3>1. Cardinality(graced[r] \ {t}) = Cardinality(graced[r]) - 1 /\ Cardinality(graced[r]) \in Nat
        BY <2>2, GracedFinite, FS_RemoveElement, FS_CardinalityType
      <3> QED
        BY <3>1
    <2> QED
      BY <2>2, <2>3 DEF GoesOn
  <1> QED
    BY <1>1, <1>2, <1>3, <1>4, <1>5, <1>6, <1>7, <1>8, <1>9, <1>10
       DEF Step, Refresh, Login, Logout, ChangePassword, ResetPassword, RevokeAll

LEMMA OthersStay ==
    ASSUME TypeOK, NEW r \in Requests, Step(r) \/ LoseReply(r) \/ Fail(r), NEW q \in Requests \ {r}
    PROVE  StaysPut(q)
  <1>1. ASSUME NEW l, Finish(r, l) PROVE StaysPut(q)
    BY <1>1 DEF TypeOK, Finish, Goto, StaysPut
  <1>2. ASSUME NEW l, Goto(r, l), UNCHANGED graced PROVE StaysPut(q)
    BY <1>2 DEF TypeOK, Goto, StaysPut
  <1>3. CASE IssueSuccessor(r) \/ IssueRefreshToken(r) \/ Commit(r) \/ Fail(r) \/ Abort(r)
    BY <1>1, <1>3 DEF IssueSuccessor, IssueRefreshToken, Commit, Fail, Abort
  <1>4. CASE ReadToken(r) \/ Authenticate(r) \/ ReadLogout(r) \/ CheckPassword(r) \/ ReadLink(r) \/ SetPassword(r)
    BY <1>1, <1>2, <1>4 DEF ReadToken, Authenticate, ReadLogout, CheckPassword, ReadLink, SetPassword, txn
  <1>5. CASE Claim(r) \/ Spend(r) \/ CloseSession(r) \/ UseLink(r) \/ BeginRevoke(r) \/ RevokeRows(r)
    BY <1>2, <1>5 DEF Claim, Spend, CloseSession, UseLink, BeginRevoke, RevokeRows, txn
  <1>6. CASE Deliver(r) \/ LoseReply(r)
    BY <1>2, <1>6 DEF Deliver, LoseReply, txn
  <1>7. CASE EndRotationGrace(r) \/ ClearRow(r)
    BY <1>7 DEF EndRotationGrace, ClearRow, Goto, TypeOK, StaysPut
  <1> QED
    BY <1>3, <1>4, <1>5, <1>6, <1>7
       DEF Step, Refresh, Login, Logout, ChangePassword, ResetPassword, RevokeAll

\* Every statement of a request brings it nearer to its end, and nothing that other requests or
\* the clock do sets it back: the losers of a claim do not claim again (rotate_refresh_token), and
\* a scan goes over each row of the grace window once (end_rotation_grace).
THEOREM RequestsGoForward ==
    Spec => [][\A r \in Requests : /\ Step(r) => GoesOn(r)
                                   /\ pc[r] # "idle" => GoesOn(r) \/ StaysPut(r)]_vars
  <1>1. TypeOK /\ SessionsInv /\ [Next]_vars =>
          [\A r \in Requests : /\ Step(r) => GoesOn(r)
                               /\ pc[r] # "idle" => GoesOn(r) \/ StaysPut(r)]_vars
    <2> SUFFICES ASSUME TypeOK, SessionsInv, Next, NEW r \in Requests, pc[r] # "idle"
                 PROVE  GoesOn(r) \/ StaysPut(r)
      BY QueryGoes
    <2>1. ASSUME NEW q \in Requests, Step(q) \/ LoseReply(q) \/ Fail(q) PROVE GoesOn(r) \/ StaysPut(r)
      <3>1. CASE q = r
        BY <2>1, <3>1, QueryGoes
      <3>2. CASE q # r
        BY <2>1, <3>2, OthersStay
      <3> QED
        BY <3>1, <3>2
    <2>2. ASSUME NEW q \in Requests, NEW k \in Kinds, NEW t \in 0..issued, Arrive(q, k, t) PROVE StaysPut(r)
      BY <2>2 DEF Arrive, Goto, TypeOK, StaysPut
    <2>3. ASSUME NEW t \in Tokens, GraceElapses(t) PROVE StaysPut(r)
      BY <2>3 DEF GraceElapses, txn, StaysPut
    <2> QED
      BY <2>1, <2>2, <2>3 DEF Next
  <1> QED
    BY <1>1, SessionsInvariant, PTL DEF Spec

(***************************************************************************)
(* The implementation of SessionRules.                                     *)
(***************************************************************************)
LEMMA InitRules == Init => Rules!Init
  BY SessionsAssumption DEF Init, Rules!Init, Live, Grace, Issued, Tokens

\* A token exchanged is a Rotate of a live one, or the Again of one in grace.
LEMMA ExchangeRules ==
    ASSUME TypeOK, SessionsInv, NEW r \in Requests, IssueSuccessor(r)
    PROVE  Rules!Next
  <1> DEFINE t == tok[r]
  <1>1. /\ issued' = issued + 1 /\ Issued' = Issued \cup {issued'}
        /\ issued' \notin Issued /\ Issued \subseteq Tokens
    BY IssueIsNext
  <1>2. /\ t \in Issued /\ pc[r] \in Exchanging
        /\ pc[r] = "claimed" => t \notin revoked
        /\ pc[r] = "spent" => rotated[t] # "null" /\ t \in revoked
    BY <1>1 DEF IssueSuccessor, SessionsInv, RequestInv, Placed, Exchangeable, Exchanging, RowsInv
  <1>3. /\ \A u \in Tokens \ {t} : rotated'[u] = rotated[u]
        /\ rotated'[t] = IF pc[r] = "claimed" THEN "recent" ELSE "null"
        /\ revoked' = revoked \cup {t}
    BY <1>1, <1>2 DEF TypeOK, IssueSuccessor, Exchanging
  <1>4. /\ issued' \in Tokens /\ issued' # t /\ revoked \subseteq Issued /\ issued' \notin revoked
        /\ rotated'[issued'] = "null"
    BY <1>1, <1>2, <1>3, IssueIsNext DEF TypeOK, SessionsInv, RowsInv
  <1>5. Live' = (Live \ {t}) \cup {issued'}
    BY <1>1, <1>3, <1>4 DEF Live
  <1>6. CASE pc[r] = "claimed"
    <2>1. Grace' = Grace \cup {t}
      BY <1>1, <1>2, <1>3, <1>4, <1>6 DEF Grace
    <2>2. Rules!Rotate(t)
      BY <1>1, <1>2, <1>5, <1>6, <2>1 DEF Rules!Rotate, Rules!New, Live
    <2> QED
      BY <1>2, <2>2 DEF Rules!Next, Issued
  <1>7. CASE pc[r] = "spent"
    <2>1. Grace' = Grace \ {t}
      BY <1>1, <1>2, <1>3, <1>4, <1>7 DEF Grace
    <2>2. Live' = Live \cup {issued'} /\ t \in Grace
      BY <1>2, <1>5, <1>7 DEF Live, Grace
    <2>3. Rules!Again(t)
      BY <1>1, <2>1, <2>2 DEF Rules!Again, Rules!New
    <2> QED
      BY <1>2, <2>3 DEF Rules!Next, Issued
  <1> QED
    BY <1>2, <1>6, <1>7 DEF Exchanging

LEMMA LoginRules ==
    ASSUME TypeOK, SessionsInv, NEW r \in Requests, IssueRefreshToken(r)
    PROVE  Rules!Open
  <1>1. /\ issued' = issued + 1 /\ issued' \in Tokens /\ Issued' = Issued \cup {issued'}
        /\ issued' \notin Issued
    BY IssueIsNext
  <1>2. UNCHANGED <<revoked, rotated>> /\ issued' \notin revoked /\ rotated[issued'] = "null"
    BY <1>1 DEF IssueRefreshToken, TypeOK, SessionsInv, RowsInv
  <1>3. Live' = Live \cup {issued'} /\ Grace' = Grace
    BY <1>1, <1>2 DEF Live, Grace
  <1> QED
    BY <1>1, <1>3 DEF Rules!Open, Rules!New

LEMMA CommitRules ==
    ASSUME TypeOK, NEW r \in Requests, Commit(r)
    PROVE  Rules!End
  BY SessionsAssumption DEF Commit, Rules!End, Live, Grace, Issued, TypeOK, Tokens

LEMMA RowsSameRules ==
    ASSUME UNCHANGED <<issued, revoked, rotated>>
    PROVE  UNCHANGED Rules!vars
  BY DEF Rules!vars, Live, Grace, Issued

LEMMA ElapseRules ==
    ASSUME TypeOK, NEW t \in Tokens, GraceElapses(t)
    PROVE  UNCHANGED Rules!vars
  <1>1. UNCHANGED <<issued, revoked>> /\ Issued \subseteq Tokens
    BY SessionsAssumption DEF GraceElapses, TypeOK, Issued, Tokens
  <1>2. \A u \in Tokens : rotated'[u] # "null" <=> rotated[u] # "null"
    BY DEF GraceElapses, TypeOK
  <1> QED
    BY <1>1, <1>2 DEF Rules!vars, Live, Grace, Issued

LEMMA NextRules == TypeOK /\ SessionsInv /\ [Next]_vars => [Rules!Next]_(Rules!vars)
  <1> SUFFICES ASSUME TypeOK, SessionsInv, [Next]_vars PROVE [Rules!Next]_(Rules!vars)
    OBVIOUS
  <1>1. ASSUME NEW r \in Requests, Step(r) \/ LoseReply(r) \/ Fail(r)
        PROVE  [Rules!Next]_(Rules!vars)
    <2>1. CASE Moves(r) \/ Deliver(r) \/ LoseReply(r)
      <3>1. UNCHANGED db
        BY <2>1, MovesRows DEF Deliver, LoseReply
      <3> QED
        BY <3>1, RowsSameRules DEF db
    <2>2. CASE IssueSuccessor(r)
      BY <2>2, ExchangeRules
    <2>3. CASE IssueRefreshToken(r)
      BY <2>3, LoginRules DEF Rules!Next
    <2>4. CASE Commit(r)
      BY <2>4, CommitRules DEF Rules!Next
    <2> QED
      BY <1>1, <2>1, <2>2, <2>3, <2>4, StepIs
  <1>2. ASSUME NEW r \in Requests, NEW k \in Kinds, NEW t \in 0..issued, Arrive(r, k, t)
        PROVE  UNCHANGED Rules!vars
    BY <1>2, RowsSameRules DEF Arrive, db
  <1>3. ASSUME NEW t \in Tokens, GraceElapses(t) PROVE UNCHANGED Rules!vars
    BY <1>3, ElapseRules
  <1>4. CASE UNCHANGED vars
    BY <1>4, RowsSameRules DEF vars, db
  <1> QED
    BY <1>1, <1>2, <1>3, <1>4 DEF Next

\* Under every interleaving of their transactions the endpoints of auth_service and
\* account_service exchange a token once, and once more at the most while its grace lasts.
THEOREM RulesKept == Spec => KeepsRules
  <1> QED
    BY InitRules, NextRules, SessionsInvariant, PTL DEF Spec, KeepsRules, Rules!Spec

\* No exchange commits for a token that a logout, a change, a reset or an alarm has ended,
\* however the two overlapped (rotate_refresh_token's conditional updates, end_rotation_grace).
THEOREM EndedForGood == Spec => EndedStaysEnded
  <1>1. TypeOK /\ SessionsInv /\ [Next]_vars =>
          [\A r \in Requests : pc[r] \in {"claimed", "spent"} /\ pc'[r] = "reply" => tok[r] \notin ended]_vars
    <2> SUFFICES ASSUME TypeOK, SessionsInv, NEW r \in Requests, pc[r] \in {"claimed", "spent"}
                 PROVE  tok[r] \notin ended
      OBVIOUS
    <2> QED
      BY DEF SessionsInv, RequestInv, Exchangeable, RowsInv
  <1> QED
    BY <1>1, SessionsInvariant, PTL DEF Spec, EndedStaysEnded

(***************************************************************************)
(* Two tabs of one browser that do nothing but refresh.  What bounds the   *)
(* use of a token is the tabs that present it or would if they asked now:  *)
(* a live token may have both, one in its grace window has one, and a      *)
(* spent one has none.  A third tab would be one too many for the window.  *)
(***************************************************************************)
TwoTabs == \A p, q, r \in Tabs : p = q \/ q = r \/ p = r

\* Where a tab stands that does nothing but refresh, while it holds a token.
Presenting == {"read", "claim", "spend"} \cup Exchanging

\* The tabs that present t, or would if they asked now.
Users(t) == {r \in Tabs : IF pc[r] = "idle" THEN jar = t ELSE pc[r] \in Presenting /\ tok[r] = t}

\* Nobody else has done a thing, and no window has closed.
OnlyRefreshes ==
    /\ \A r \in Requests : pc[r] # "idle" =>
           r \in Tabs /\ kind[r] = "refresh" /\ pc[r] \in Presenting \cup {"reply"}
    /\ \A t \in Tokens : rotated[t] # "old"

\* A consumed token has at most one user left, who has its grace, and a spent one has none.
GraceSuffices ==
    /\ \A t \in revoked : \A p, q \in Users(t) : p = q
    /\ \A t \in revoked : rotated[t] = "null" => Users(t) = {}
    /\ \A r \in Tabs : pc[r] = "spend" => tok[r] \in revoked

\* What a reply carries is live, and nobody has it yet.
Undelivered(r) ==
    /\ got[r] \in Live /\ got[r] # jar
    /\ \A q \in Tabs : pc[q] \in Presenting => tok[q] # got[r]
    /\ \A q \in Tabs : pc[q] = "reply" /\ q # r => got[q] # got[r]

CalmInv ==
    calm => OnlyRefreshes /\ GraceSuffices /\ \A r \in Tabs : pc[r] = "reply" => Undelivered(r)

LEMMA InitCalm == Init => CalmInv
  <1> SUFFICES ASSUME Init PROVE CalmInv
    OBVIOUS
  <1>1. \A r \in Requests : pc[r] = "idle"
    BY DEF Init
  <1>2. OnlyRefreshes
    BY <1>1 DEF Init, OnlyRefreshes
  <1>3. ASSUME NEW t \in revoked PROVE Users(t) = {} 
    BY <1>1, <1>3 DEF Init, Users, Requests
  <1>4. GraceSuffices
    BY <1>1, <1>3 DEF GraceSuffices, Requests
  <1> QED
    BY <1>1, <1>2, <1>4 DEF CalmInv, Requests

\* While all is calm, a step is one of a refresh of a tab.
LEMMA CalmSteps ==
    ASSUME TypeOK, SessionsInv, calm, calm', CalmInv, NEW r \in Requests, Step(r)
    PROVE  /\ r \in Tabs /\ kind[r] = "refresh"
           /\ ReadToken(r) \/ Claim(r) \/ Spend(r) \/ IssueSuccessor(r) \/ Deliver(r)
  <1>1. pc[r] # "idle" => r \in Tabs /\ kind[r] = "refresh" /\ pc[r] \in Presenting \cup {"reply"}
    BY DEF CalmInv, OnlyRefreshes
  <1>2. CASE Refresh(r) \/ Deliver(r)
    BY <1>1, <1>2 DEF Refresh, ReadToken, Claim, Spend, IssueSuccessor, Deliver
  <1>3. CASE Login(r) \/ Logout(r)
    BY <1>1, <1>3 DEF Login, Logout, Authenticate, IssueRefreshToken, ReadLogout, CloseSession, Presenting, Exchanging
  <1>4. CASE ChangePassword(r) \/ ResetPassword(r)
    BY <1>1, <1>4 DEF ChangePassword, ResetPassword, CheckPassword, SetPassword, ReadLink, UseLink, Presenting, Exchanging
  <1>5. CASE RevokeAll(r)
    BY <1>1, <1>5 DEF RevokeAll, BeginRevoke, RevokeRows, EndRotationGrace, ClearRow, Commit, Presenting, Exchanging
  <1>6. ~Abort(r)
    BY DEF Abort
  <1> QED
    BY <1>2, <1>3, <1>4, <1>5, <1>6 DEF Step

\* A tab that moves on with its token leaves the users of every token alone.
LEMMA CalmMove ==
    ASSUME TypeOK, CalmInv, calm, NEW r \in Tabs, pc[r] \in Presenting, NEW l \in Presenting,
           Goto(r, l), UNCHANGED <<db, jar, txn, got>>, l = "spend" => tok[r] \in revoked
    PROVE  CalmInv'
  <1>1. /\ UNCHANGED <<issued, revoked, rotated, jar, kind, tok, got, Live>>
        /\ r \in Requests /\ "reply" \notin Presenting /\ "idle" \notin Presenting
    BY DEF db, txn, Live, Issued, Requests, Presenting, Exchanging
  <1>2. pc' = [pc EXCEPT ![r] = l] /\ DOMAIN pc = Requests
    BY DEF Goto, TypeOK
  <1>3. pc'[r] = l /\ \A q \in Requests \ {r} : pc'[q] = pc[q]
    BY <1>1, <1>2
  <1>4. \A q \in Tabs : (pc'[q] = "reply" <=> pc[q] = "reply") /\ (pc'[q] \in Presenting <=> pc[q] \in Presenting)
                        /\ (pc'[q] = "idle" <=> pc[q] = "idle")
    BY <1>1, <1>3 DEF Requests
  <1>5. \A t : Users(t)' = Users(t)
    BY <1>1, <1>4 DEF Users
  <1>6. OnlyRefreshes'
    BY <1>1, <1>3, <1>4 DEF CalmInv, OnlyRefreshes
  <1>7. GraceSuffices'
    BY <1>1, <1>3, <1>5 DEF CalmInv, GraceSuffices, Requests
  <1>8. \A q \in Tabs : pc'[q] = "reply" => Undelivered(q)'
    BY <1>1, <1>4 DEF CalmInv, Undelivered
  <1> QED
    BY <1>6, <1>7, <1>8 DEF CalmInv

\* Who reads or claims its token finds it live or in its window.
LEMMA CalmUse ==
    ASSUME TypeOK, CalmInv, calm, NEW r \in Tabs, pc[r] \in Presenting
    PROVE  tok[r] \in revoked => rotated[tok[r]] = "recent"
  <1> SUFFICES ASSUME tok[r] \in revoked PROVE rotated[tok[r]] = "recent"
    OBVIOUS
  <1>1. r \in Users(tok[r])
    BY DEF Users, Presenting, Exchanging
  <1>2. rotated[tok[r]] # "null"
    BY <1>1 DEF CalmInv, GraceSuffices
  <1>3. revoked \subseteq 1..issued /\ issued \in 0..MaxTokens /\ rotated \in [Tokens -> {"null", "recent", "old"}]
    BY DEF TypeOK, Issued
  <1>4. tok[r] \in Tokens
    <2>1. tok[r] \in 1..issued
      BY <1>3
    <2> QED
      BY <1>3, <2>1, SessionsAssumption DEF Tokens
  <1> QED
    BY <1>2, <1>3, <1>4 DEF CalmInv, OnlyRefreshes

LEMMA CalmQuery ==
    ASSUME TypeOK, SessionsInv, CalmInv, calm, calm', NEW r \in Tabs, kind[r] = "refresh",
           ReadToken(r) \/ Claim(r) \/ Spend(r)
    PROVE  CalmInv'
  <1>1. pc[r] \in Presenting /\ "idle" \notin Presenting /\ r \in Requests
    BY DEF ReadToken, Claim, Spend, Presenting, Exchanging, Requests
  <1>2. tok[r] \in revoked => rotated[tok[r]] = "recent"
    BY <1>1, CalmUse
  <1>3. CASE ReadToken(r)
    <2>1. ~Finish(r, "idle")
      BY <1>1, <1>3 DEF ReadToken, Finish, Goto, TypeOK
    <2>2. UNCHANGED <<db, jar, txn, got>> /\ (Goto(r, "claim") \/ (Goto(r, "spend") /\ tok[r] \in revoked))
      <3>1. CASE tok[r] \in Live /\ Goto(r, "claim") /\ UNCHANGED txn
        BY <1>3, <3>1 DEF ReadToken, Goto
      <3>2. CASE tok[r] \in revoked /\ Goto(r, IF InGrace(tok[r]) THEN "spend" ELSE "revoke") /\ UNCHANGED txn
        BY <1>2, <1>3, <3>2 DEF ReadToken, InGrace, Goto
      <3> QED
        BY <1>3, <2>1, <3>1, <3>2 DEF ReadToken
    <2> QED
      BY <1>1, <2>2, CalmMove DEF Presenting
  <1>4. CASE Claim(r)
    <2>1. UNCHANGED <<db, jar, txn, got>> /\ (Goto(r, "claimed") \/ (Goto(r, "spend") /\ tok[r] \in revoked))
      <3>1. CASE tok[r] \notin revoked
        <4>1. rotated[tok[r]] = "null"
          <5>1. tok[r] \in Issued
            BY <1>1, <1>4 DEF Claim, SessionsInv, RequestInv, Placed
          <5>2. tok[r] \in Tokens
            BY <5>1, SessionsAssumption DEF TypeOK, Issued, Tokens
          <5> QED
            BY <3>1, <5>2 DEF SessionsInv, RowsInv
        <4> QED
          BY <1>4, <3>1, <4>1 DEF Claim, Goto
      <3>2. CASE tok[r] \in revoked
        BY <1>2, <1>4, <3>2 DEF Claim, Goto
      <3> QED
        BY <3>1, <3>2
    <2> QED
      BY <1>1, <2>1, CalmMove DEF Presenting, Exchanging
  <1>5. CASE Spend(r)
    <2>1. tok[r] \in revoked
      BY <1>5 DEF Spend, CalmInv, GraceSuffices
    <2>2. UNCHANGED <<db, jar, txn, got>> /\ Goto(r, "spent")
      BY <1>2, <1>5, <2>1 DEF Spend
    <2> QED
      BY <1>1, <2>2, CalmMove DEF Presenting, Exchanging
  <1> QED
    BY <1>3, <1>4, <1>5

LEMMA CalmFalls ==
    ASSUME TypeOK, NEW r \in Requests, Step(r), calm'
    PROVE  calm
  <1>1. CASE ReadToken(r) \/ Fail(r) \/ Abort(r)
    BY <1>1 DEF ReadToken, Fail, Abort
  <1>2. CASE IssueSuccessor(r) \/ IssueRefreshToken(r) \/ Commit(r)
    BY <1>2 DEF IssueSuccessor, IssueRefreshToken, Commit
  <1>3. CASE (Moves(r) /\ ~(ReadToken(r) \/ Fail(r) \/ Abort(r))) \/ Deliver(r)
    BY <1>3 DEF Moves, Claim, Spend, Authenticate, ReadLogout, CloseSession, CheckPassword, ReadLink, UseLink,
                SetPassword, BeginRevoke, RevokeRows, EndRotationGrace, ClearRow, Deliver, history
  <1> QED
    BY <1>1, <1>2, <1>3 DEF Step, Refresh, Login, Logout, ChangePassword, ResetPassword, RevokeAll, Moves

LEMMA CalmIssue ==
    ASSUME TwoTabs, TypeOK, SessionsInv, CalmInv, calm, NEW r \in Tabs, IssueSuccessor(r)
    PROVE  CalmInv'
  <1>0. PICK t : t = tok[r]
    OBVIOUS
  <1>1. /\ issued \in Nat /\ issued' = issued + 1 /\ Issued' = Issued \cup {issued'} /\ issued' \notin Issued
    BY IssueIsNext DEF Requests
  <1>2. /\ pc[r] \in Exchanging /\ r \in Requests /\ tok[r] \in Issued /\ t \in Tokens /\ jar' = jar
        /\ pc' = [pc EXCEPT ![r] = "reply"] /\ kind' = [kind EXCEPT ![r] = "refresh"] /\ tok' = [tok EXCEPT ![r] = 0]
        /\ got' = [got EXCEPT ![r] = issued']
    <2>1. r \in Requests /\ pc[r] \in Exchanging
      BY DEF IssueSuccessor, Exchanging, Requests
    <2>2. tok[r] \in Issued
      BY <2>1 DEF SessionsInv, RequestInv, Placed
    <2> QED
      BY <1>0, <1>1, <2>1, <2>2, IssueIsNext DEF IssueSuccessor, Finish, Goto
  <1>3. /\ pc'[r] = "reply" /\ kind'[r] = "refresh" /\ got'[r] = issued'
        /\ \A q \in Requests \ {r} : pc'[q] = pc[q] /\ kind'[q] = kind[q] /\ tok'[q] = tok[q] /\ got'[q] = got[q]
    BY <1>2 DEF TypeOK
  <1>4. \A u : Users(u)' = Users(u) \ {r}
    BY <1>2, <1>3 DEF Users, Requests, Presenting, Exchanging
  <1>5. r \in Users(t)
    BY <1>0, <1>2 DEF Users, Presenting, Exchanging
  <1>6. OnlyRefreshes'
    <2>1. \A u \in Tokens : rotated'[u] # "old"
      BY <1>0, <1>2 DEF IssueSuccessor, TypeOK, CalmInv, OnlyRefreshes
    <2> QED
      BY <1>2, <1>3, <2>1 DEF CalmInv, OnlyRefreshes
  <1>7. GraceSuffices'
    <2>1. \A u \in revoked' : u \in revoked \/ u = t
      BY <1>0 DEF IssueSuccessor
    <2>2. \A u \in Tokens : u # t => rotated'[u] = rotated[u]
      BY <1>0 DEF IssueSuccessor, TypeOK
    <2>3. ASSUME NEW p \in Users(t)', NEW q \in Users(t)' PROVE p = q
      BY <1>4, <2>3 DEF TwoTabs, Users
    <2>4. rotated'[t] = "null" => pc[r] = "spent"
      BY <1>0, <1>2 DEF IssueSuccessor, TypeOK, Exchanging
    <2>5. pc[r] = "spent" => Users(t)' = {}
      <3>1. pc[r] = "spent" => t \in revoked
        BY <1>0, <1>2 DEF SessionsInv, RequestInv, Exchangeable, RowsInv
      <3>2. pc[r] = "spent" => \A p \in Users(t) : p = r
        BY <1>5, <3>1 DEF CalmInv, GraceSuffices
      <3> QED
        BY <1>4, <3>2
    <2>6. \A q \in Tabs : pc'[q] = "spend" => tok'[q] \in revoked'
      BY <1>2, <1>3 DEF CalmInv, GraceSuffices, IssueSuccessor, Requests
    <2>7. revoked \subseteq Tokens
      BY IssueIsNext, <1>2 DEF TypeOK
    <2>8. \A u \in revoked' : \A p, q \in Users(u)' : p = q
      <3> SUFFICES ASSUME NEW u \in revoked', NEW p \in Users(u)', NEW q \in Users(u)' PROVE p = q
        OBVIOUS
      <3>1. CASE u = t
        BY <2>3, <3>1
      <3>2. CASE u # t
        <4>1. u \in revoked /\ p \in Users(u) /\ q \in Users(u)
          BY <1>4, <2>1, <3>2
        <4> QED
          BY <4>1 DEF CalmInv, GraceSuffices
      <3> QED
        BY <3>1, <3>2
    <2>9. \A u \in revoked' : rotated'[u] = "null" => Users(u)' = {}
      <3> SUFFICES ASSUME NEW u \in revoked', rotated'[u] = "null" PROVE Users(u)' = {}
        OBVIOUS
      <3>1. CASE u = t
        BY <2>4, <2>5, <3>1
      <3>2. CASE u # t
        <4>1. u \in revoked /\ rotated[u] = "null"
          BY <2>1, <2>2, <2>7, <3>2
        <4>2. Users(u) = {}
          BY <4>1 DEF CalmInv, GraceSuffices
        <4> QED
          BY <1>4, <4>2
      <3> QED
        BY <3>1, <3>2
    <2> QED
      BY <2>6, <2>8, <2>9 DEF GraceSuffices
  <1>8. \A q \in Tabs : pc'[q] = "reply" => Undelivered(q)'
    <2>1. jar \in 0..issued /\ \A q \in Tabs : tok[q] \in 0..issued /\ got[q] \in 0..issued
      BY DEF TypeOK, Requests
    <2>2. issued' # jar /\ \A q \in Tabs : tok[q] # issued' /\ got[q] # issued'
      BY <1>1, <2>1
    <2>3. issued' \in Live'
      BY <1>1, <1>2 DEF Live, IssueSuccessor, TypeOK
    <2>4. Undelivered(r)'
      BY <1>2, <1>3, <2>2, <2>3 DEF Undelivered, Requests, Presenting, Exchanging
    <2>5. ASSUME NEW q \in Tabs \ {r}, pc'[q] = "reply" PROVE Undelivered(q)'
      <3>1. Undelivered(q) /\ got'[q] = got[q] /\ got[q] # t
        BY <1>0, <1>2, <1>3, <2>5 DEF CalmInv, Undelivered, Requests, Presenting
      <3>2. got[q] \in Live'
        BY <1>0, <1>1, <3>1 DEF Undelivered, Live, IssueSuccessor
      <3>3. \A p \in Tabs : pc'[p] \in Presenting => tok'[p] # got[q]
        BY <1>3, <3>1 DEF Undelivered, Requests, Presenting, Exchanging
      <3>4. \A p \in Tabs : pc'[p] = "reply" /\ p # q => got'[p] # got[q]
        BY <1>3, <2>2, <3>1 DEF Undelivered, Requests
      <3> QED
        BY <1>2, <3>1, <3>2, <3>3, <3>4 DEF Undelivered
    <2> QED
      BY <2>4, <2>5
  <1> QED
    BY <1>6, <1>7, <1>8 DEF CalmInv

LEMMA CalmDeliver ==
    ASSUME TypeOK, CalmInv, calm, NEW r \in Tabs, Deliver(r)
    PROVE  CalmInv'
  <1>1. /\ pc[r] = "reply" /\ r \in Requests /\ jar' = got[r] /\ pc' = [pc EXCEPT ![r] = "idle"]
        /\ got' = [got EXCEPT ![r] = 0] /\ UNCHANGED <<issued, revoked, rotated, kind, tok, Live>>
    BY DEF Deliver, Goto, Requests, db, txn, Live, Issued
  <1>2. /\ pc'[r] = "idle"
        /\ \A q \in Requests \ {r} : pc'[q] = pc[q] /\ got'[q] = got[q]
    BY <1>1 DEF TypeOK
  <1>3. Undelivered(r)
    BY <1>1 DEF CalmInv
  <1>4. OnlyRefreshes'
    BY <1>1, <1>2 DEF CalmInv, OnlyRefreshes
  <1>5. \A u : u # got[r] => Users(u)' \subseteq Users(u)
    BY <1>1, <1>2 DEF Users, Requests
  <1>6. GraceSuffices'
    <2>1. got[r] \notin revoked
      BY <1>3 DEF Undelivered, Live
    <2>2. \A u \in revoked : Users(u)' \subseteq Users(u)
      BY <1>5, <2>1
    <2>3. \A q \in Tabs : pc'[q] = "spend" => tok[q] \in revoked
      BY <1>1, <1>2 DEF CalmInv, GraceSuffices, Requests
    <2> QED
      BY <1>1, <2>2, <2>3 DEF CalmInv, GraceSuffices
  <1>7. ASSUME NEW q \in Tabs, pc'[q] = "reply" PROVE Undelivered(q)'
    <2>1. q # r /\ pc[q] = "reply" /\ got'[q] = got[q] /\ Undelivered(q)
      BY <1>2, <1>7 DEF CalmInv, Requests
    <2>2. got[q] # got[r]
      BY <1>1, <2>1 DEF Undelivered
    <2>3. \A p \in Tabs : pc'[p] \in Presenting => tok'[p] # got[q]
      BY <1>1, <1>2, <2>1 DEF Undelivered, Requests, Presenting, Exchanging
    <2>4. \A p \in Tabs : pc'[p] = "reply" /\ p # q => got'[p] # got[q]
      BY <1>2, <2>1 DEF Undelivered, Requests
    <2> QED
      BY <1>1, <2>1, <2>2, <2>3, <2>4 DEF Undelivered
  <1> QED
    BY <1>4, <1>6, <1>7 DEF CalmInv

LEMMA CalmArrive ==
    ASSUME TypeOK, CalmInv, calm, calm', NEW r \in Requests, NEW k \in Kinds, NEW t \in 0..issued, Arrive(r, k, t)
    PROVE  CalmInv'
  <1>1. /\ r \in Tabs /\ k = "refresh" /\ t = jar /\ pc[r] = "idle"
        /\ pc' = [pc EXCEPT ![r] = "read"] /\ kind' = [kind EXCEPT ![r] = k] /\ tok' = [tok EXCEPT ![r] = t]
        /\ UNCHANGED <<issued, revoked, rotated, jar, got, Live>>
    BY DEF Arrive, Goto, db, Live, Issued
  <1>2. /\ pc'[r] = "read" /\ kind'[r] = "refresh" /\ tok'[r] = jar
        /\ \A q \in Requests \ {r} : pc'[q] = pc[q] /\ kind'[q] = kind[q] /\ tok'[q] = tok[q]
    BY <1>1 DEF TypeOK
  <1>3. \A u : Users(u)' = Users(u)
    BY <1>1, <1>2 DEF Users, Requests, Presenting
  <1>4. OnlyRefreshes'
    BY <1>1, <1>2 DEF CalmInv, OnlyRefreshes, Presenting
  <1>5. GraceSuffices'
    <2>1. \A q \in Tabs : pc'[q] = "spend" => tok'[q] \in revoked
      BY <1>2 DEF CalmInv, GraceSuffices, Requests
    <2> QED
      BY <1>1, <1>3, <2>1 DEF CalmInv, GraceSuffices
  <1>6. ASSUME NEW q \in Tabs, pc'[q] = "reply" PROVE Undelivered(q)'
    <2>1. Undelivered(q)
      BY <1>2, <1>6 DEF CalmInv, Requests
    <2> QED
      BY <1>1, <1>2, <2>1 DEF Undelivered, Requests
  <1> QED
    BY <1>4, <1>5, <1>6 DEF CalmInv

LEMMA NextCalm ==
    ASSUME TwoTabs, TypeOK, SessionsInv, CalmInv, [Next]_vars
    PROVE  CalmInv'
  <1> SUFFICES ASSUME calm' PROVE CalmInv'
    BY DEF CalmInv
  <1>1. ASSUME NEW r \in Requests, Step(r) PROVE CalmInv'
    <2>1. calm
      BY <1>1, CalmFalls
    <2>2. /\ r \in Tabs /\ kind[r] = "refresh"
          /\ ReadToken(r) \/ Claim(r) \/ Spend(r) \/ IssueSuccessor(r) \/ Deliver(r)
      BY <1>1, <2>1, CalmSteps
    <2> QED
      BY <2>1, <2>2, CalmQuery, CalmIssue, CalmDeliver
  <1>2. ASSUME NEW r \in Requests, LoseReply(r) \/ Fail(r) PROVE FALSE
    BY <1>2 DEF LoseReply, Fail
  <1>3. ASSUME NEW r \in Requests, NEW k \in Kinds, NEW t \in 0..issued, Arrive(r, k, t) PROVE CalmInv'
    <2>1. calm
      BY <1>3 DEF Arrive
    <2> QED
      BY <1>3, <2>1, CalmArrive
  <1>4. ASSUME NEW t \in Tokens, GraceElapses(t) PROVE FALSE
    BY <1>4 DEF GraceElapses
  <1>5. CASE UNCHANGED vars
    BY <1>5 DEF vars, db, txn, history, CalmInv, OnlyRefreshes, GraceSuffices, Users, Undelivered, Live, Issued
  <1> QED
    BY <1>1, <1>2, <1>3, <1>4, <1>5 DEF Next

\* The two tabs of a browser may refresh in any overlap, and their answers set the cookie in any
\* order: neither is taken for a thief (rotate_refresh_token, and refreshPromise of api/client.ts),
\* unless a reply is lost, a request fails or the window of REFRESH_GRACE_SECONDS closes between.
THEOREM TwoTabsStay ==
    ASSUME TwoTabs
    PROVE  Spec => []HonestTabsStay
  <1>1. TypeOK /\ SessionsInv /\ CalmInv /\ [Next]_vars => CalmInv'
    BY NextCalm
  <1>2. CalmInv => HonestTabsStay
    BY DEF CalmInv, OnlyRefreshes, HonestTabsStay, Alarmed, Requests, Presenting, Exchanging
  <1> QED
    BY <1>1, <1>2, InitCalm, SessionsInvariant, PTL DEF Spec
=============================================================================
