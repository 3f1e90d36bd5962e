---------------------------- MODULE AuthSessions ----------------------------
(***************************************************************************)
(* One account's refresh sessions (backend/internal/auth/service.go,       *)
(* sessions.go, revoke.go, passwordreset.go, sweeper.go, and the           *)
(* statements of db/queries/sessions.sql).                                 *)
(*                                                                         *)
(* Requests run at the same time.  A transaction is READ COMMITTED, which  *)
(* is what RunInTx opens: an UPDATE finds its rows in a snapshot of what   *)
(* was committed when the statement began, waits for each row another      *)
(* transaction has changed, and then asks its condition of that row again; *)
(* a row inserted and not committed is seen by nobody else.                *)
(*                                                                         *)
(* A row is named by its id, a snowflake; a family by the id of the        *)
(* sign-in that started it (first_seen in the table).  Every statement is  *)
(* scoped by user_id, so accounts do not meet.  Tokens and their hashes    *)
(* are the rows they name.                                                 *)
(***************************************************************************)
EXTENDS Integers, FiniteSets

CONSTANTS
  Device, Req,
  MaxId,          \* bound: snowflakes minted
  MaxPassword     \* bound: password resets

ASSUME AuthAssumption == Device # {} /\ MaxId \in Nat /\ MaxPassword \in Nat

Id == 1..MaxId
None == 0

VARIABLES
  minted,     \* the last snowflake
  password,   \* users.password_hash, as the number of resets
  table,      \* rows of sessions that are committed
  dev,        \* row: device_id
  fam,        \* row: first_seen
  under,      \* row: the password its sign-in proved (history)
  revoked,    \* rows with revoked_at set
  by,         \* row: replaced_by_id
  rotated,    \* rows that were rotated away from (history)
  expired,    \* rows past expires_at
  req,        \* request: where it is and what it has read, minted and changed
  ended,      \* families revoked with no row missed (history)
  slipped     \* families signed out while a row was missed (history)

rows == <<table, dev, fam, under, revoked, by, rotated, expired>>
history == <<ended, slipped>>
vars == <<minted, password, rows, req, history>>

\* op and pc say what a request is doing and where; row is the row its UPDATE names, new the one it
\* inserts, scope the devices its revocation covers, proved the password a login verified, snap
\* what its UPDATE found, hit what its transaction has changed and holds, cut Revocation.Before.
Idle == [pc |-> "idle", op |-> "none", row |-> None, new |-> None, scope |-> {},
         proved |-> 0, snap |-> {}, hit |-> {}, cut |-> None]

Live == table \ revoked
InTx == {"begin", "locking", "rotate", "hit", "commit"}
Held(r) == UNION {req[q].hit : q \in Req \ {r}}

Init ==
  /\ minted = 0 /\ password = 0
  /\ table = {} /\ revoked = {} /\ rotated = {} /\ expired = {}
  /\ dev = [i \in Id |-> CHOOSE d \in Device : TRUE]
  /\ fam = [i \in Id |-> i] /\ under = [i \in Id |-> 0] /\ by = [i \in Id |-> None]
  /\ req = [r \in Req |-> Idle]
  /\ ended = {} /\ slipped = {}

----------------------------------------------------------------------------
(* How each request begins: what it reads before its transaction.          *)

Go(r, next) == req' = [req EXCEPT ![r] = next]

\* A request that revokes by device, having read what it needs.
BeginRevoking(r, op, i, devices) ==
  /\ req[r] = Idle
  /\ Go(r, [Idle EXCEPT !.pc = "begin", !.op = op, !.row = i, !.scope = devices])
  /\ UNCHANGED <<minted, password, rows, history>>

\* verifyCredentials and factorSatisfied.
VerifyCredentials(r, d) ==
  /\ req[r] = Idle
  /\ Go(r, [Idle EXCEPT !.pc = "verified", !.op = "login", !.scope = {d}, !.proved = password])
  /\ UNCHANGED <<minted, password, rows, history>>

\* startSession mints the session's id before its transaction.
StartSession(r) ==
  /\ req[r].pc = "verified" /\ minted < MaxId
  /\ minted' = minted + 1
  /\ Go(r, [req[r] EXCEPT !.pc = "begin", !.new = minted + 1])
  /\ UNCHANGED <<password, rows, history>>

\* Refresh reads the row of its token and mints the successor's id.  A row that was revoked and
\* not rotated, one that has expired, and no row at all, are refused, which changes nothing.
Refresh(r, i) ==
  /\ req[r] = Idle /\ minted < MaxId
  /\ i \in Live \ expired
  /\ minted' = minted + 1
  /\ Go(r, [Idle EXCEPT !.pc = "rotate", !.op = "refresh", !.row = i, !.new = minted + 1])
  /\ UNCHANGED <<password, rows, history>>

\* Refresh finds its token rotated away from: replay, and the device's family is revoked.
RefreshReuse(r, i) == i \in table \cap revoked /\ by[i] # None /\ BeginRevoking(r, "reuse", None, {dev[i]})

\* Logout reads the row of its token.
Logout(r, i) == i \in Live /\ BeginRevoking(r, "logout", i, {dev[i]})

\* RevokeSessionDevice, given the id of a row of the device.
RevokeSessionDevice(r, i) == i \in table /\ BeginRevoking(r, "device", None, {dev[i]})

\* RequireLiveSignIn: the family of the caller's row has a live row.
LiveSignIn(i) == \E j \in Live \ expired : fam[j] = fam[i] /\ dev[j] = dev[i]

\* RevokeOtherSessions, from the device of row i.
RevokeOtherSessions(r, i) ==
  i \in table /\ LiveSignIn(i) /\ BeginRevoking(r, "others", None, Device \ {dev[i]})

\* Mutant: the token is not spent.
ConfirmPasswordResetAgain(r) == password < MaxPassword /\ BeginRevoking(r, "reset", None, Device)

\* ConfirmPasswordReset, whose token one request spends; another that races it changes nothing.
ConfirmPasswordReset(r) ==
  /\ password < MaxPassword /\ \A q \in Req : req[q].op # "reset"
  /\ BeginRevoking(r, "reset", None, Device)

----------------------------------------------------------------------------
(* The transactions.                                                       *)

\* The rows a revoking UPDATE is for: RevokeSession names one; RevokeSessionsForDevice and
\* RevokeAllSessionsForUser take those of a device, of the account, or of all devices but one.
Targets(r) ==
  IF req[r].op = "logout" THEN {req[r].row} \cap Live
  ELSE {i \in Live : dev[i] \in req[r].scope}

\* The UPDATE begins.
Snapshot(r) ==
  /\ req[r].pc = "begin"
  /\ Go(r, [req[r] EXCEPT !.pc = "locking", !.snap = Targets(r)])
  /\ UNCHANGED <<minted, password, rows, history>>

\* Its rows are free, and those still live are changed.  A login has superseded them, and its
\* cutoff is its own id; CreateSession follows, and nobody sees the row before the commit.
RevokeRows(r) ==
  LET hit == req[r].snap \cap Live IN
  /\ req[r].pc = "locking"
  /\ req[r].snap \cap Held(r) = {}
  /\ Go(r, IF req[r].op = "login"
             THEN [req[r] EXCEPT !.pc = "commit", !.hit = hit,
                                 !.cut = IF hit # {} THEN req[r].new ELSE None]
             ELSE [req[r] EXCEPT !.pc = "hit", !.hit = hit])
  /\ UNCHANGED <<minted, password, rows, history>>

\* Mutant: the cutoff is the newest id there is, and no new one is minted.
EndConnectionsNoMint(r) ==
  /\ req[r].pc = "hit"
  /\ Go(r, [req[r] EXCEPT !.pc = "commit", !.cut = minted])
  /\ UNCHANGED <<minted, password, rows, history>>

\* endConnections mints the cutoff.
EndConnections(r) ==
  /\ req[r].pc = "hit" /\ minted < MaxId
  /\ minted' = minted + 1
  /\ Go(r, [req[r] EXCEPT !.pc = "commit", !.cut = minted + 1])
  /\ UNCHANGED <<password, rows, history>>

\* Mutant: RotateSession does not ask whether the row is still live.
RotateAnyRow(r) ==
  /\ req[r].pc = "rotate" /\ req[r].row \notin Held(r)
  /\ Go(r, [req[r] EXCEPT !.pc = "commit", !.hit = {req[r].row}])
  /\ UNCHANGED <<minted, password, rows, history>>

\* Mutant: RotateSession asks whether the row was rotated before, and not whether it was revoked.
RotateUnlessRotated(r) ==
  /\ req[r].pc = "rotate" /\ req[r].row \notin Held(r)
  /\ Go(r, IF req[r].row \in table /\ by[req[r].row] = None
             THEN [req[r] EXCEPT !.pc = "commit", !.hit = {req[r].row}] ELSE Idle)
  /\ UNCHANGED <<minted, password, rows, history>>

\* Refresh's transaction: the successor is inserted, and RotateSession changes the row it
\* succeeds if that is still live.  The loser of a race rolls back with ErrSessionReuse.
Rotate(r) ==
  /\ req[r].pc = "rotate" /\ req[r].row \notin Held(r)
  /\ Go(r, IF req[r].row \in Live THEN [req[r] EXCEPT !.pc = "commit", !.hit = {req[r].row}] ELSE Idle)
  /\ UNCHANGED <<minted, password, rows, history>>

\* The row of a refresh's successor or of a new sign-in, as CreateSession inserted it.
Insert(i, d, f, p) ==
  /\ table' = table \cup {i}
  /\ dev' = [dev EXCEPT ![i] = d]
  /\ fam' = [fam EXCEPT ![i] = f]
  /\ under' = [under EXCEPT ![i] = p]

CommitRefresh(r) ==
  /\ req[r].pc = "commit" /\ req[r].op = "refresh"
  /\ LET i == req[r].row IN
     /\ Insert(req[r].new, dev[i], fam[i], under[i])
     /\ by' = [by EXCEPT ![i] = req[r].new]
     /\ rotated' = rotated \cup {i}
     /\ revoked' = revoked \cup {i}
  /\ Go(r, Idle)
  /\ UNCHANGED <<minted, password, expired, history>>

Fams(ids) == {fam[i] : i \in ids}

\* Rows of the families in its snapshot that are live and were not in it.
Missed(r) == {i \in Live \ req[r].hit : fam[i] \in Fams(req[r].snap)}

\* COMMIT of a transaction that revokes; its hooks publish the revocation, and the request answers.
CommitRevoking(r) ==
  /\ req[r].pc = "commit" /\ req[r].op # "refresh"
  /\ revoked' = revoked \cup req[r].hit
  /\ \/ /\ req[r].op = "login"
        /\ \E d \in req[r].scope : Insert(req[r].new, d, req[r].new, req[r].proved)
     \/ req[r].op # "login" /\ UNCHANGED <<table, dev, fam, under>>
  /\ password' = IF req[r].op = "reset" THEN password + 1 ELSE password
  /\ ended' = ended \cup (Fams(req[r].snap) \ Fams(Missed(r)))
  /\ slipped' = IF req[r].op \in {"device", "others", "reset"} THEN slipped \cup Fams(Missed(r)) ELSE slipped
  /\ Go(r, Idle)
  /\ UNCHANGED <<minted, by, rotated, expired>>

\* A statement fails, or the caller is gone: RunInTx rolls back.
RollBack(r) ==
  /\ req[r].pc \in InTx
  /\ Go(r, Idle)
  /\ UNCHANGED <<minted, password, rows, history>>

----------------------------------------------------------------------------
(* Time and the sweeper.                                                   *)

\* A row's thirty days are over; rows expire in the order they were made.
Expire(i) ==
  /\ i \in table \ expired
  /\ \A j \in table : j < i => j \in expired
  /\ expired' = expired \cup {i}
  /\ UNCHANGED <<minted, password, table, dev, fam, under, revoked, by, rotated, req, history>>

\* A row goes once no transaction holds it; replaced_by_id is ON DELETE SET NULL.
Delete(i) ==
  /\ \A r \in Req : i \notin req[r].hit
  /\ table' = table \ {i}
  /\ by' = [j \in Id |-> IF by[j] = i THEN None ELSE by[j]]
  /\ UNCHANGED <<minted, password, dev, fam, under, revoked, rotated, expired, req, history>>

\* DeleteExpiredSessions, one row of a batch.
DeleteExpired(i) == i \in table \cap expired /\ Delete(i)

----------------------------------------------------------------------------
Requests(r) ==
  \/ \E d \in Device : VerifyCredentials(r, d)
  \/ StartSession(r)
  \/ \E i \in Id : \/ Refresh(r, i) \/ RefreshReuse(r, i) \/ Logout(r, i)
                   \/ RevokeSessionDevice(r, i) \/ RevokeOtherSessions(r, i)
  \/ ConfirmPasswordReset(r)

Transactions(r) ==
  \/ Snapshot(r) \/ RevokeRows(r) \/ EndConnections(r) \/ Rotate(r)
  \/ CommitRefresh(r) \/ CommitRevoking(r) \/ RollBack(r)

Next ==
  \/ \E r \in Req : Requests(r) \/ Transactions(r)
  \/ \E i \in Id : Expire(i) \/ DeleteExpired(i)

Spec == Init /\ [][Next]_vars

----------------------------------------------------------------------------
Request == [pc : {"idle", "verified"} \cup InTx,
            op : {"none", "login", "refresh", "reuse", "logout", "device", "others", "reset"},
            row : 0..MaxId, new : 0..MaxId, scope : SUBSET Device, proved : 0..MaxPassword,
            snap : SUBSET Id, hit : SUBSET Id, cut : 0..MaxId]

TypeOK ==
  /\ minted \in 0..MaxId /\ password \in 0..MaxPassword
  /\ table \subseteq 1..minted /\ revoked \subseteq 1..minted
  /\ rotated \subseteq revoked /\ expired \subseteq 1..minted
  /\ dev \in [Id -> Device] /\ fam \in [Id -> Id] /\ under \in [Id -> 0..MaxPassword]
  /\ by \in [Id -> 0..MaxId]
  /\ req \in [Req -> Request]
  /\ ended \subseteq Id /\ slipped \subseteq Id

\* A refresh token is spent once.  Whatever refreshes, logouts and revocations race, a family has
\* at most one row that has not been rotated away from, so it can hold at most one live session,
\* and every row is the successor of at most one (Refresh and RotateSession).
FamilyIsAChain ==
  /\ \A i, j \in table \ expired : fam[i] = fam[j] /\ by[i] = None /\ by[j] = None => i = j
  /\ \A i \in Live : by[i] = None
  /\ \A i, j \in table : by[i] = by[j] /\ by[i] # None => i = j

\* A family all of whose live rows a revocation reached has no live session ever again: a refresh
\* that read its row before cannot rotate it afterwards (RotateSession, RevokeSessionsForDevice).
EndedStaysEnded == \A i \in Live : fam[i] \notin ended

\* A token that was rotated away from can be told from one that is unknown for as long as it could
\* be presented: the sweep takes neither its row nor its link before it expires
\* (DeleteExpiredSessions).
ReplayStaysEvident == \A i \in rotated \ expired : i \in table /\ by[i] # None

\* The revocation that follows a sign-out is for every session the transaction ended, also one that
\* was made while the request was under way (endConnections, and Revocation.Matches).
CutoffCoversRevoked ==
  \A r \in Req : req[r].pc = "commit" /\ req[r].op \notin {"login", "refresh"} =>
    \A i \in req[r].hit : i < req[r].cut

\* "RevokeSessionDevice signs one device out, family and all" (sessions.go): a family that was
\* signed in when a sign-out looked has no live session once the sign-out has committed.
SignOutSticks == \A i \in Live : fam[i] \notin slipped

\* "Everything the old password could reach is revoked in the same transaction"
\* (passwordreset.go, ConfirmPasswordReset).
OldPasswordReachesNothing == \A i \in Live : under[i] = password

\* A refresh token works once, and its second use can be told for what it is for as
\* long as it could be tried (Refresh, RotateSession, DeleteExpiredSessions).
TokensAreSingleUse == FamilyIsAChain /\ ReplayStaysEvident
=============================================================================
