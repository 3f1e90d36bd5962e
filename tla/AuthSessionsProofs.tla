------------------------- MODULE AuthSessionsProofs -------------------------
(***************************************************************************)
(* The safety of refresh-token rotation and revocation, for any number of  *)
(* devices, concurrent requests, sessions and resets.                      *)
(*                                                                         *)
(* The invariants checked by TLC are not inductive by themselves.  IndInv  *)
(* adds: an id that was minted and not committed is mentioned nowhere      *)
(* (Fresh), so a new row can neither join a family by accident nor be      *)
(* linked twice; the rows open transactions hold are live and held once    *)
(* (Holds); a link points from an older row to a newer committed one and   *)
(* expires first (Links); and a live row is its family's only head even    *)
(* after it expired (Heads), which is what a refresh that read its row in  *)
(* time and rotates it too late needs.                                     *)
(***************************************************************************)
EXTENDS AuthSessions, TLAPS

\* What the fields of a request say about each other.
Good(x) ==
  /\ x.op = "refresh" => x.row \in Id /\ x.new \in Id /\ x.row < x.new
  /\ x.op = "login" /\ x.pc # "verified" => x.new \in Id
  /\ x.op = "refresh" /\ x.pc = "commit" => x.hit = {x.row}
  /\ x.pc = "rotate" => x.op = "refresh"
  /\ x.pc = "verified" => x.op = "login"
  /\ x.pc \in {"begin", "locking", "hit"} => x.op # "refresh"
  /\ x.pc = "hit" => x.op # "login"
  /\ x.pc = "commit" /\ x.op \notin {"login", "refresh"} => \A i \in x.hit : i < x.cut

Phases == \A r \in Req : Good(req[r])

\* One request at a time spends a reset token, and it has not yet been spent.
Resets ==
  /\ \A r \in Req : req[r].op = "reset" => password < MaxPassword
  /\ \A q, r \in Req : req[q].op = "reset" /\ req[r].op = "reset" => q = r

\* Rows that are, or were, in the table and may still be spoken of.
Seen == table \cup UNION {req[q].snap : q \in Req}

\* Ids that no committed row has had.
Unused == {n \in Id : n > minted \/ \E r \in Req : req[r].new = n}

Clean(n) ==
  /\ n \notin Seen /\ n \notin revoked /\ n \notin expired /\ n \notin ended
  /\ by[n] = None
  /\ \A i \in Seen : fam[i] # n

Fresh ==
  /\ \A n \in Unused : Clean(n)
  /\ \A r \in Req : req[r].new <= minted
  /\ \A q, r \in Req : req[q].new = req[r].new /\ req[q].new # None => q = r

Holds ==
  /\ \A r \in Req : req[r].hit \subseteq Live
  /\ \A q, r \in Req : q # r => req[q].hit \cap req[r].hit = {}

Links ==
  /\ \A i \in Id : by[i] # None => i < by[i] /\ by[i] \in table
  /\ \A i \in table : by[i] \in expired => i \in expired
  /\ \A i, j \in table : by[i] = by[j] /\ by[i] # None => i = j
  /\ \A i \in Live : by[i] = None

Heads ==
  \A i, j \in table \ (revoked \cap expired) :
    fam[i] = fam[j] /\ by[i] = None /\ by[j] = None => i = j

IndInv ==
  /\ TypeOK /\ Phases /\ Resets /\ Fresh /\ Holds /\ Links /\ Heads
  /\ EndedStaysEnded /\ ReplayStaysEvident

----------------------------------------------------------------------------
\* Nothing has been minted when the server starts, and every request is idle.
LEMMA InitInd == Init => IndInv
<1> SUFFICES ASSUME Init PROVE IndInv
  OBVIOUS
<1> USE AuthAssumption DEF Init, Idle, None, Id
<1>1. (CHOOSE d \in Device : TRUE) \in Device
  OBVIOUS
<1>2. Idle \in Request
  BY DEF Request
<1>3. TypeOK
  BY <1>1, <1>2 DEF TypeOK
<1>4. Phases /\ Resets /\ Holds
  BY DEF Phases, Good, Resets, Holds, Live
<1>5. Seen = {}
  BY DEF Seen
<1>6. Fresh
  BY <1>5 DEF Fresh, Clean, Unused
<1>7. Links /\ Heads /\ EndedStaysEnded /\ ReplayStaysEvident
  BY DEF Links, Heads, EndedStaysEnded, ReplayStaysEvident, Live
<1> QED
  BY <1>3, <1>4, <1>6, <1>7 DEF IndInv

\* A step that moves one request on, and changes no row: what the request's new state x must
\* satisfy for the invariant to hold after it.
LEMMA RequestStep ==
  ASSUME IndInv, NEW r \in Req, NEW x \in Request, Go(r, x),
         UNCHANGED <<password, rows, history>>,
         minted' \in minted..MaxId,
         x.new \in {None, req[r].new} \/ (x.new = minted + 1 /\ minted' = minted + 1),
         x.snap \subseteq Seen, x.hit \subseteq Live,
         \A q \in Req : q # r => x.hit \cap req[q].hit = {},
         Good(x),
         x.op = "reset" => password < MaxPassword /\ \A q \in Req : q # r => req[q].op # "reset"
  PROVE  IndInv'
<1> USE AuthAssumption
<1>1. req' = [req EXCEPT ![r] = x] /\ req \in [Req -> Request]
  BY DEF Go, IndInv, TypeOK
<1>2. req' \in [Req -> Request] /\ req'[r] = x /\ \A q \in Req : q # r => req'[q] = req[q]
  BY <1>1
<1>3. minted' \in 0..MaxId /\ minted <= minted' /\ minted \in 0..MaxId
  BY DEF IndInv, TypeOK
<1>4. Live' = Live
  BY DEF Live, rows
<1>5. TypeOK'
  BY <1>2, <1>3 DEF IndInv, TypeOK, rows, history
<1>6. Phases'
  BY <1>2 DEF IndInv, Phases, Good
<1>7. Resets'
  BY <1>2 DEF IndInv, Resets
<1>8. Seen' \subseteq Seen
  BY <1>2 DEF Seen, rows
<1>9. Unused' \subseteq Unused
  <2>1. \A q \in Req : req'[q].new \in {None, req[q].new} \/ (req'[q].new = minted + 1 /\ minted' = minted + 1)
    BY <1>2
  <2> QED
    BY <2>1, <1>3 DEF Unused, None, Id
<1>10. \A n \in Unused' : Clean(n)'
  BY <1>8, <1>9 DEF IndInv, Fresh, Clean, rows, history
<1>11. \A q \in Req : req'[q].new <= minted'
  <2>1. \A q \in Req : req[q].new <= minted /\ req[q].new \in 0..MaxId
    BY <1>1 DEF IndInv, Fresh, Request
  <2> QED
    BY <2>1, <1>2, <1>3 DEF None
<1>12. \A p, q \in Req : req'[p].new = req'[q].new /\ req'[p].new # None => p = q
  <2>1. \A q \in Req : req[q].new <= minted /\ req[q].new \in 0..MaxId
    BY <1>1 DEF IndInv, Fresh, Request
  <2>2. \A p, q \in Req : req[p].new = req[q].new /\ req[p].new # None => p = q
    BY DEF IndInv, Fresh
  <2> QED
    BY <2>1, <2>2, <1>2, <1>3 DEF None
<1>13. Fresh'
  BY <1>10, <1>11, <1>12 DEF Fresh
<1>14. Holds'
  BY <1>2, <1>4 DEF IndInv, Holds
<1>15. Links' /\ Heads' /\ EndedStaysEnded' /\ ReplayStaysEvident'
  BY <1>4 DEF IndInv, Links, Heads, EndedStaysEnded, ReplayStaysEvident, rows, history
<1> QED
  BY <1>5, <1>6, <1>7, <1>13, <1>14, <1>15 DEF IndInv

\* Facts about one request that every action's step begins from.
LEMMA RequestFacts ==
  ASSUME IndInv, NEW r \in Req
  PROVE  /\ Idle \in Request /\ Good(Idle) /\ req[r] \in Request /\ Good(req[r])
         /\ req[r].hit \subseteq Live /\ req[r].snap \subseteq Seen
         /\ \A q \in Req : q # r => req[r].hit \cap req[q].hit = {}
         /\ minted \in 0..MaxId
         /\ req[r].op = "reset" => /\ password < MaxPassword
                                   /\ \A q \in Req : q # r => req[q].op # "reset"
<1> USE AuthAssumption
<1>1. Idle \in Request /\ Good(Idle)
  BY DEF Idle, Request, Good, None, Id
<1>2. req[r] \in Request /\ minted \in 0..MaxId
  BY DEF IndInv, TypeOK
<1>3. Good(req[r]) /\ req[r].snap \subseteq Seen
  BY DEF IndInv, Phases, Seen
<1>4. req[r].hit \subseteq Live /\ \A q \in Req : q # r => req[r].hit \cap req[q].hit = {}
  BY DEF IndInv, Holds
<1>5. req[r].op = "reset" => password < MaxPassword /\ \A q \in Req : q # r => req[q].op # "reset"
  BY DEF IndInv, Resets
<1> QED
  BY <1>1, <1>2, <1>3, <1>4, <1>5

\* What a request reads before its transaction changes no row.
LEMMA RequestsStep ==
  ASSUME IndInv, NEW r \in Req, Requests(r)
  PROVE  IndInv'
<1> USE AuthAssumption
<1>a. Idle \in Request /\ req[r] \in Request /\ minted \in 0..MaxId
  BY RequestFacts
<1>d. minted \in minted..MaxId
  BY <1>a
<1>b. Good(Idle) /\ Good(req[r])
  BY RequestFacts
<1>c. /\ req[r].hit \subseteq Live /\ req[r].snap \subseteq Seen
      /\ \A q \in Req : q # r => req[r].hit \cap req[q].hit = {}
      /\ req[r].op = "reset" => /\ password < MaxPassword
                                /\ \A q \in Req : q # r => req[q].op # "reset"
  BY RequestFacts
<1>0. /\ password \in 0..MaxPassword /\ dev \in [Id -> Device] /\ table \subseteq Id
      /\ Live \subseteq table /\ Live \subseteq Id /\ Live \subseteq 1..minted
  <2>1. /\ password \in 0..MaxPassword /\ dev \in [Id -> Device] /\ minted \in 0..MaxId
        /\ table \subseteq 1..minted
    BY DEF IndInv, TypeOK
  <2>2. 1..minted \subseteq Id
    BY <2>1 DEF Id
  <2> QED
    BY <2>1, <2>2 DEF Live
<1>1. ASSUME NEW op \in {"reuse", "logout", "device", "others", "reset"}, NEW i \in 0..MaxId,
             NEW devices \in SUBSET Device, BeginRevoking(r, op, i, devices),
             op = "reset" => password < MaxPassword /\ \A q \in Req : req[q].op # "reset"
      PROVE  IndInv'
  <2> DEFINE x == [Idle EXCEPT !.pc = "begin", !.op = op, !.row = i, !.scope = devices]
  <2>1. x \in Request /\ x.new = None /\ x.snap = {} /\ x.hit = {} /\ x.op = op /\ x.pc = "begin"
    BY <1>a DEF Idle, Request, InTx, None
  <2>2. Good(x)
    BY <2>1 DEF Good
  <2>3. Go(r, x) /\ UNCHANGED <<minted, password, rows, history>>
    BY <1>1 DEF BeginRevoking
  <2> HIDE DEF x
  <2> QED
    BY <1>1, <2>1, <2>2, <2>3, <1>a, <1>b, <1>c, <1>d, RequestStep
<1>2. ASSUME NEW d \in Device, VerifyCredentials(r, d)
      PROVE  IndInv'
  <2> DEFINE x == [Idle EXCEPT !.pc = "verified", !.op = "login", !.scope = {d}, !.proved = password]
  <2>1. x \in Request /\ x.new = None /\ x.snap = {} /\ x.hit = {} /\ x.op = "login" /\ x.pc = "verified"
    BY <1>0, <1>a DEF Idle, Request, InTx, None
  <2>2. Good(x)
    BY <2>1 DEF Good
  <2>3. Go(r, x) /\ UNCHANGED <<minted, password, rows, history>>
    BY <1>2 DEF VerifyCredentials
  <2> HIDE DEF x
  <2> QED
    BY <2>1, <2>2, <2>3, <1>a, <1>b, <1>c, <1>d, RequestStep
<1>3. ASSUME StartSession(r)
      PROVE  IndInv'
  <2> DEFINE x == [req[r] EXCEPT !.pc = "begin", !.new = minted + 1]
  <2>1. req[r].op = "login" /\ minted + 1 \in Id /\ minted' = minted + 1 /\ minted' \in minted..MaxId
    BY <1>3, <1>a, <1>b DEF StartSession, Good, Id
  <2>2. /\ x \in Request /\ x.new = minted + 1 /\ x.snap = req[r].snap /\ x.hit = req[r].hit
        /\ x.op = "login" /\ x.pc = "begin"
    <3>1. minted + 1 \in 0..MaxId
      BY <2>1 DEF Id
    <3> QED
      BY <2>1, <3>1, <1>a DEF Request, InTx
  <2>3. Good(x)
    BY <2>1, <2>2, <1>b DEF Good
  <2>4. Go(r, x) /\ UNCHANGED <<password, rows, history>>
    BY <1>3 DEF StartSession
  <2> HIDE DEF x
  <2> QED
    BY <2>1, <2>2, <2>3, <2>4, <1>a, <1>b, <1>c, <1>d, RequestStep
<1>4. ASSUME NEW i \in Id, Refresh(r, i)
      PROVE  IndInv'
  <2> DEFINE x == [Idle EXCEPT !.pc = "rotate", !.op = "refresh", !.row = i, !.new = minted + 1]
  <2>1. minted + 1 \in Id /\ minted' = minted + 1 /\ minted' \in minted..MaxId /\ i < minted + 1
    <3>1. i \in 1..minted /\ minted < MaxId /\ minted' = minted + 1
      BY <1>0, <1>4 DEF Refresh
    <3> QED
      BY <3>1, <1>a DEF Id
  <2>2. /\ x \in Request /\ x.new = minted + 1 /\ x.snap = {} /\ x.hit = {} /\ x.row = i
        /\ x.op = "refresh" /\ x.pc = "rotate"
    <3>1. minted + 1 \in 0..MaxId /\ i \in 0..MaxId
      BY <2>1 DEF Id
    <3> QED
      BY <2>1, <3>1, <1>a DEF Idle, Request, InTx, None
  <2>3. Good(x)
    BY <2>1, <2>2, <1>b DEF Good
  <2>4. Go(r, x) /\ UNCHANGED <<password, rows, history>>
    BY <1>4 DEF Refresh
  <2> HIDE DEF x
  <2> QED
    BY <2>1, <2>2, <2>3, <2>4, <1>a, <1>b, <1>c, <1>d, RequestStep
<1>5. ASSUME NEW i \in Id,
             RefreshReuse(r, i) \/ Logout(r, i) \/ RevokeSessionDevice(r, i) \/ RevokeOtherSessions(r, i)
      PROVE  IndInv'
  <2>1. None \in 0..MaxId /\ i \in 0..MaxId /\ {dev[i]} \in SUBSET Device /\ Device \ {dev[i]} \in SUBSET Device
    BY <1>0 DEF None, Id
  <2>2. CASE RefreshReuse(r, i)
    BY <1>1, <2>1, <2>2 DEF RefreshReuse
  <2>3. CASE Logout(r, i)
    BY <1>1, <2>1, <2>3 DEF Logout
  <2>4. CASE RevokeSessionDevice(r, i)
    BY <1>1, <2>1, <2>4 DEF RevokeSessionDevice
  <2>5. CASE RevokeOtherSessions(r, i)
    BY <1>1, <2>1, <2>5 DEF RevokeOtherSessions
  <2> QED
    BY <1>5, <2>2, <2>3, <2>4, <2>5
<1>6. ASSUME ConfirmPasswordReset(r)
      PROVE  IndInv'
  <2>1. None \in 0..MaxId /\ Device \in SUBSET Device
    BY DEF None
  <2> QED
    BY <1>1, <1>6, <2>1 DEF ConfirmPasswordReset
<1> QED
  BY <1>2, <1>3, <1>4, <1>5, <1>6 DEF Requests

\* A transaction's statements change rows for nobody else until it commits.
LEMMA StatementStep ==
  ASSUME IndInv, NEW r \in Req,
         Snapshot(r) \/ RevokeRows(r) \/ EndConnections(r) \/ Rotate(r) \/ RollBack(r)
  PROVE  IndInv'
<1> USE AuthAssumption
<1>a. Idle \in Request /\ req[r] \in Request /\ minted \in 0..MaxId
  BY RequestFacts
<1>d. minted \in minted..MaxId
  BY <1>a
<1>b. Good(Idle) /\ Good(req[r])
  BY RequestFacts
<1>c. /\ req[r].hit \subseteq Live /\ req[r].snap \subseteq Seen
      /\ \A q \in Req : q # r => req[r].hit \cap req[q].hit = {}
      /\ req[r].op = "reset" => /\ password < MaxPassword
                                /\ \A q \in Req : q # r => req[q].op # "reset"
  BY RequestFacts
<1>0. Live \subseteq table /\ Live \subseteq Id /\ Live \subseteq 1..minted /\ Live \subseteq Seen
  <2>1. minted \in 0..MaxId /\ table \subseteq 1..minted
    BY DEF IndInv, TypeOK
  <2>2. 1..minted \subseteq Id
    BY <2>1 DEF Id
  <2> QED
    BY <2>1, <2>2 DEF Live, Seen
<1>1. ASSUME Snapshot(r)
      PROVE  IndInv'
  <2> DEFINE x == [req[r] EXCEPT !.pc = "locking", !.snap = Targets(r)]
  <2>1. Targets(r) \subseteq Live
    BY DEF Targets
  <2>2. /\ x \in Request /\ x.new = req[r].new /\ x.snap = Targets(r) /\ x.hit = req[r].hit
        /\ x.op = req[r].op /\ x.pc = "locking"
    BY <1>0, <2>1, <1>a DEF Request, InTx
  <2>3. Good(x)
    BY <1>1, <2>2, <1>b DEF Good, Snapshot
  <2>4. Go(r, x) /\ UNCHANGED <<minted, password, rows, history>>
    BY <1>1 DEF Snapshot
  <2> HIDE DEF x
  <2> QED
    BY <1>0, <2>1, <2>2, <2>3, <2>4, <1>a, <1>b, <1>c, <1>d, RequestStep
<1>2. ASSUME RevokeRows(r)
      PROVE  IndInv'
  <2> DEFINE hit == req[r].snap \cap Live
             x == IF req[r].op = "login"
                    THEN [req[r] EXCEPT !.pc = "commit", !.hit = hit,
                                        !.cut = IF hit # {} THEN req[r].new ELSE None]
                    ELSE [req[r] EXCEPT !.pc = "hit", !.hit = hit]
  <2>1. hit \subseteq Live /\ hit \subseteq Id
    BY <1>0
  <2>2. \A q \in Req : q # r => hit \cap req[q].hit = {}
    BY <1>2 DEF RevokeRows, Held
  <2>3. Go(r, x) /\ UNCHANGED <<minted, password, rows, history>>
    BY <1>2 DEF RevokeRows
  <2>4. req[r].pc = "locking" /\ req[r].op # "refresh" /\ (req[r].op = "login" => req[r].new \in Id)
    BY <1>2, <1>b DEF RevokeRows, Good
  <2> HIDE DEF hit
  <2>5. /\ x \in Request /\ x.new = req[r].new /\ x.snap = req[r].snap /\ x.hit = hit /\ x.op = req[r].op
        /\ x.pc = IF req[r].op = "login" THEN "commit" ELSE "hit"
    <3>1. CASE req[r].op = "login"
      <4>1. (IF hit # {} THEN req[r].new ELSE None) \in 0..MaxId
        BY <1>a DEF Request, None
      <4> QED
        BY <2>1, <3>1, <4>1, <1>a DEF Request, InTx
    <3>2. CASE req[r].op # "login"
      BY <2>1, <3>2, <1>a DEF Request, InTx
    <3> QED
      BY <3>1, <3>2
  <2>6. Good(x)
    BY <2>4, <2>5, <1>b DEF Good
  <2> HIDE DEF x
  <2> QED
    BY <2>1, <2>2, <2>3, <2>5, <2>6, <1>a, <1>b, <1>c, <1>d, RequestStep
<1>3. ASSUME EndConnections(r)
      PROVE  IndInv'
  <2> DEFINE x == [req[r] EXCEPT !.pc = "commit", !.cut = minted + 1]
  <2>1. minted + 1 \in 0..MaxId /\ minted' = minted + 1 /\ minted' \in minted..MaxId
    BY <1>3, <1>a DEF EndConnections
  <2>2. /\ x \in Request /\ x.new = req[r].new /\ x.snap = req[r].snap /\ x.hit = req[r].hit
        /\ x.op = req[r].op /\ x.pc = "commit" /\ x.cut = minted + 1
    BY <2>1, <1>a DEF Request, InTx
  <2>3. \A i \in req[r].hit : i < minted + 1
    <3>1. req[r].hit \subseteq 1..minted
      BY <1>0, <1>c
    <3> QED
      BY <3>1, <1>a
  <2>4. Good(x)
    BY <1>3, <2>2, <2>3, <1>b DEF Good, EndConnections
  <2>5. Go(r, x) /\ UNCHANGED <<password, rows, history>>
    BY <1>3 DEF EndConnections
  <2> HIDE DEF x
  <2> QED
    BY <2>1, <2>2, <2>4, <2>5, <1>a, <1>b, <1>c, <1>d, RequestStep
<1>4. Idle.new = None /\ Idle.snap = {} /\ Idle.hit = {} /\ Idle.op = "none"
  BY DEF Idle
<1>5. ASSUME Go(r, Idle), UNCHANGED <<minted, password, rows, history>>
      PROVE  IndInv'
  BY <1>4, <1>5, <1>a, <1>b, <1>c, <1>d, RequestStep
<1>6. ASSUME Rotate(r)
      PROVE  IndInv'
  <2> DEFINE x == [req[r] EXCEPT !.pc = "commit", !.hit = {req[r].row}]
  <2>1. CASE req[r].row \in Live
    <3>1. /\ x \in Request /\ x.new = req[r].new /\ x.snap = req[r].snap /\ x.hit = {req[r].row}
          /\ x.op = "refresh" /\ x.pc = "commit" /\ x.row = req[r].row
      BY <1>0, <1>6, <2>1, <1>a, <1>b DEF Rotate, Good, Request, InTx
    <3>2. Good(x)
      BY <3>1, <1>b DEF Good
    <3>3. \A q \in Req : q # r => {req[r].row} \cap req[q].hit = {}
      BY <1>6 DEF Rotate, Held
    <3>4. Go(r, x) /\ UNCHANGED <<minted, password, rows, history>>
      BY <1>6, <2>1 DEF Rotate
    <3> HIDE DEF x
    <3> QED
      BY <2>1, <3>1, <3>2, <3>3, <3>4, <1>a, <1>b, <1>c, <1>d, RequestStep
  <2>2. CASE req[r].row \notin Live
    BY <1>5, <1>6, <2>2 DEF Rotate
  <2> QED
    BY <2>1, <2>2
<1>7. ASSUME RollBack(r)
      PROVE  IndInv'
  BY <1>5, <1>7 DEF RollBack
<1> QED
  BY <1>1, <1>2, <1>3, <1>6, <1>7

\* A request that answers is idle again, and the others have not moved.
LEMMA Answered ==
  ASSUME IndInv, NEW r \in Req, Go(r, Idle)
  PROVE  /\ req' \in [Req -> Request]
         /\ req'[r] = Idle /\ Idle.new = None /\ Idle.snap = {} /\ Idle.hit = {} /\ Idle.op = "none"
         /\ \A q \in Req : q # r => req'[q] = req[q]
         /\ Phases'
         /\ \A q \in Req : req'[q].new <= minted
         /\ \A p, q \in Req : req'[p].new = req'[q].new /\ req'[p].new # None => p = q
<1> USE AuthAssumption
<1>1. Idle \in Request /\ Good(Idle) /\ req \in [Req -> Request] /\ minted \in 0..MaxId
  BY RequestFacts DEF IndInv, TypeOK
<1>2. Idle.new = None /\ Idle.snap = {} /\ Idle.hit = {} /\ Idle.op = "none"
  BY DEF Idle
<1>3. req' = [req EXCEPT ![r] = Idle]
  BY DEF Go
<1>4. req' \in [Req -> Request] /\ req'[r] = Idle /\ \A q \in Req : q # r => req'[q] = req[q]
  BY <1>1, <1>3
<1>5. Phases'
  BY <1>1, <1>4 DEF IndInv, Phases, Good
<1>6. \A q \in Req : req'[q].new <= minted
  BY <1>1, <1>2, <1>4 DEF IndInv, Fresh, None
<1>7. \A p, q \in Req : req'[p].new = req'[q].new /\ req'[p].new # None => p = q
  BY <1>2, <1>4 DEF IndInv, Fresh
<1> QED
  BY <1>2, <1>4, <1>5, <1>6, <1>7

\* The commit of a refresh: the successor becomes its family's only head.
LEMMA CommitRefreshStep ==
  ASSUME IndInv, NEW r \in Req, CommitRefresh(r)
  PROVE  IndInv'
<1> USE AuthAssumption
<1> DEFINE i == req[r].row
           n == req[r].new
<1>0. Go(r, Idle)
  BY DEF CommitRefresh
<1>1. /\ req' \in [Req -> Request] /\ req'[r] = Idle
      /\ Idle.new = None /\ Idle.snap = {} /\ Idle.hit = {} /\ Idle.op = "none"
      /\ \A q \in Req : q # r => req'[q] = req[q]
      /\ Phases'
      /\ \A q \in Req : req'[q].new <= minted
      /\ \A p, q \in Req : req'[p].new = req'[q].new /\ req'[p].new # None => p = q
  BY <1>0, Answered
<1>2. i \in Id /\ n \in Id /\ i < n /\ req[r].hit = {i} /\ req[r].op = "refresh"
  BY DEF CommitRefresh, IndInv, Phases, Good
<1>3. /\ minted \in 0..MaxId /\ minted' = minted /\ password' = password /\ expired' = expired
      /\ ended' = ended /\ slipped' = slipped
  BY DEF CommitRefresh, history, IndInv, TypeOK
<1>4. n <= minted /\ n \in 1..minted /\ n # i /\ n # None /\ None \notin 1..minted
  BY <1>2, <1>3 DEF IndInv, Fresh, Id, None
<1>5. Clean(n)
  BY <1>2 DEF IndInv, Fresh, Unused
<1>6. i \in Live /\ i \in table /\ i \notin revoked /\ i \in Seen /\ by[i] = None /\ fam[i] \notin ended
  BY <1>2 DEF IndInv, Holds, Links, EndedStaysEnded, Live, Seen
<1>7. n \notin table /\ n \notin revoked /\ n \notin expired /\ by[n] = None
  BY <1>5 DEF Clean, Seen
<1>8. /\ dev \in [Id -> Device] /\ fam \in [Id -> Id] /\ under \in [Id -> 0..MaxPassword]
      /\ by \in [Id -> 0..MaxId] /\ table \subseteq 1..minted /\ revoked \subseteq 1..minted
      /\ rotated \subseteq revoked /\ expired \subseteq 1..minted
  BY DEF IndInv, TypeOK
<1>9. /\ table' = table \cup {n} /\ revoked' = revoked \cup {i} /\ rotated' = rotated \cup {i}
      /\ by' = [by EXCEPT ![i] = n] /\ fam' = [fam EXCEPT ![n] = fam[i]]
      /\ dev' = [dev EXCEPT ![n] = dev[i]] /\ under' = [under EXCEPT ![n] = under[i]]
  BY DEF CommitRefresh, Insert
<1> HIDE DEF i, n
<1>10. /\ by' \in [Id -> 0..MaxId] /\ by'[i] = n /\ \A k \in Id : k # i => by'[k] = by[k]
       /\ fam' \in [Id -> Id] /\ fam'[n] = fam[i] /\ \A k \in Id : k # n => fam'[k] = fam[k]
       /\ dev' \in [Id -> Device] /\ under' \in [Id -> 0..MaxPassword]
  <2>1. n \in 0..MaxId
    BY <1>2 DEF Id
  <2> QED
    BY <1>2, <1>8, <1>9, <2>1
<1>11. Live' = (Live \ {i}) \cup {n}
  BY <1>4, <1>7, <1>9 DEF Live
<1>12. table \subseteq Id
  <2>1. 1..minted \subseteq Id
    BY <1>3 DEF Id
  <2> QED
    BY <2>1, <1>8
<1>13. TypeOK'
  <2>1. i \in 1..minted
    BY <1>6, <1>8
  <2> QED
    BY <2>1, <1>1, <1>3, <1>4, <1>8, <1>9, <1>10 DEF IndInv, TypeOK
<1>14. Resets'
  BY <1>1, <1>3 DEF IndInv, Resets
<1>15. Seen' \subseteq Seen \cup {n}
  BY <1>1, <1>9 DEF Seen
<1>16. Unused' \subseteq Unused \ {n}
  <2>1. \A q \in Req : req'[q].new # n
    <3>1. \A q \in Req : req[q].new = n => q = r
      BY <1>4 DEF IndInv, Fresh, n
    <3> QED
      BY <3>1, <1>1, <1>4
  <2>2. \A q \in Req : req'[q].new \in {None, req[q].new}
    BY <1>1
  <2> QED
    BY <2>1, <2>2, <1>3, <1>4 DEF Unused, None, Id
<1>17. \A m \in Unused' : Clean(m)'
  <2> SUFFICES ASSUME NEW m \in Unused' PROVE Clean(m)'
    OBVIOUS
  <2>1. m \in Unused /\ m # n /\ Clean(m) /\ m \in Id
    BY <1>16 DEF IndInv, Fresh, Unused
  <2>2. m # i /\ fam[i] # m
    BY <2>1, <1>6 DEF Clean
  <2>3. m \notin Seen' /\ m \notin revoked' /\ m \notin expired' /\ m \notin ended'
    BY <2>1, <2>2, <1>3, <1>9, <1>15 DEF Clean
  <2>4. by'[m] = None
    BY <2>1, <2>2, <1>10 DEF Clean
  <2>5. ASSUME NEW k \in Seen' PROVE fam'[k] # m
    <3>1. CASE k = n
      BY <3>1, <2>2, <1>10
    <3>2. CASE k # n
      <4>1. k \in Seen /\ fam[k] # m
        BY <3>2, <1>15, <2>1 DEF Clean
      <4>2. k \in Id
        BY <4>1, <1>12 DEF Seen, IndInv, TypeOK, Request
      <4> QED
        BY <4>1, <4>2, <3>2, <1>10
    <3> QED
      BY <3>1, <3>2
  <2> QED
    BY <2>3, <2>4, <2>5 DEF Clean
<1>18. Fresh'
  BY <1>1, <1>3, <1>17 DEF Fresh
<1>19. Holds'
  <2>1. \A q \in Req : q # r => i \notin req[q].hit /\ req[q].hit \subseteq Live
    BY <1>2 DEF IndInv, Holds
  <2> QED
    BY <2>1, <1>1, <1>11 DEF IndInv, Holds
<1>20. Links'
  <2>1. \A k \in Id : by'[k] # None => k < by'[k] /\ by'[k] \in table'
    BY <1>2, <1>9, <1>10 DEF IndInv, Links
  <2>2. \A k \in table' : by'[k] \in expired' => k \in expired'
    BY <1>3, <1>4, <1>7, <1>8, <1>9, <1>10, <1>12 DEF IndInv, Links
  <2>3. \A j, k \in table' : by'[j] = by'[k] /\ by'[j] # None => j = k
    <3>1. \A k \in Id : by[k] # n
      BY <1>4, <1>7 DEF IndInv, Links
    <3>2. \A k \in table : k # i => by'[k] = by[k] /\ by'[k] # n
      BY <3>1, <1>10, <1>12
    <3>3. by'[n] = None /\ by'[i] = n
      BY <1>2, <1>4, <1>7, <1>10
    <3>4. \A j, k \in table : by[j] = by[k] /\ by[j] # None => j = k
      BY DEF IndInv, Links
    <3> QED
      BY <3>2, <3>3, <3>4, <1>9
  <2>4. \A k \in Live' : by'[k] = None
    <3>1. by'[n] = None
      BY <1>2, <1>4, <1>7, <1>10
    <3>2. \A k \in Live : k # i => by'[k] = None
      BY <1>10, <1>12 DEF IndInv, Links, Live
    <3> QED
      BY <3>1, <3>2, <1>11
  <2> QED
    BY <2>1, <2>2, <2>3, <2>4 DEF Links
<1>21. Heads'
  <2> SUFFICES ASSUME NEW j \in table' \ (revoked' \cap expired'), NEW k \in table' \ (revoked' \cap expired'),
                      fam'[j] = fam'[k], by'[j] = None, by'[k] = None
               PROVE  j = k
    BY DEF Heads
  <2>1. j # i /\ k # i
    BY <1>4, <1>10
  <2>2. ASSUME NEW l \in table \ (revoked \cap expired), fam[l] = fam[i], by[l] = None PROVE l = i
    BY <2>2, <1>6 DEF IndInv, Heads
  <2>3. ASSUME NEW l \in table' \ (revoked' \cap expired'), l # i, l # n
        PROVE  l \in table \ (revoked \cap expired) /\ fam'[l] = fam[l] /\ by'[l] = by[l]
    BY <2>3, <1>3, <1>9, <1>10, <1>12
  <2>4. CASE j = n /\ k # n
    BY <2>1, <2>2, <2>3, <2>4, <1>10
  <2>5. CASE j # n /\ k = n
    BY <2>1, <2>2, <2>3, <2>5, <1>10
  <2>6. CASE j # n /\ k # n
    BY <2>1, <2>3, <2>6 DEF IndInv, Heads
  <2> QED
    BY <2>4, <2>5, <2>6
<1>22. EndedStaysEnded'
  BY <1>3, <1>6, <1>10, <1>11, <1>12 DEF IndInv, EndedStaysEnded, Live
<1>23. ReplayStaysEvident'
  BY <1>2, <1>3, <1>4, <1>6, <1>9, <1>10, <1>12 DEF IndInv, ReplayStaysEvident
<1> QED
  BY <1>1, <1>13, <1>14, <1>18, <1>19, <1>20, <1>21, <1>22, <1>23 DEF IndInv

\* The commit of a transaction that revokes: the rows it held are live no longer, and a login's
\* new row starts a family nobody has spoken of.
LEMMA CommitRevokingStep ==
  ASSUME IndInv, NEW r \in Req, CommitRevoking(r)
  PROVE  IndInv'
<1> USE AuthAssumption
<1> DEFINE n == req[r].new
           hit == req[r].hit
           snap == req[r].snap
<1>0. Go(r, Idle)
  BY DEF CommitRevoking
<1>1. /\ req' \in [Req -> Request] /\ req'[r] = Idle
      /\ Idle.new = None /\ Idle.snap = {} /\ Idle.hit = {} /\ Idle.op = "none"
      /\ \A q \in Req : q # r => req'[q] = req[q]
      /\ Phases'
      /\ \A q \in Req : req'[q].new <= minted
      /\ \A p, q \in Req : req'[p].new = req'[q].new /\ req'[p].new # None => p = q
  BY <1>0, Answered
<1>2. /\ minted \in 0..MaxId /\ minted' = minted /\ expired' = expired /\ by' = by /\ rotated' = rotated
      /\ revoked' = revoked \cup hit
      /\ password' = (IF req[r].op = "reset" THEN password + 1 ELSE password)
      /\ ended' = ended \cup (Fams(snap) \ Fams(Missed(r)))
      /\ slipped' \subseteq slipped \cup Fams(Missed(r))
  BY DEF CommitRevoking, IndInv, TypeOK
<1>3. /\ dev \in [Id -> Device] /\ fam \in [Id -> Id] /\ under \in [Id -> 0..MaxPassword]
      /\ by \in [Id -> 0..MaxId] /\ table \subseteq 1..minted /\ revoked \subseteq 1..minted
      /\ rotated \subseteq revoked /\ expired \subseteq 1..minted /\ req[r] \in Request
      /\ password \in 0..MaxPassword /\ ended \subseteq Id /\ slipped \subseteq Id
  BY DEF IndInv, TypeOK
<1>4. table \subseteq Id /\ None \notin 1..minted
  <2>1. 1..minted \subseteq Id /\ None \notin 1..minted
    BY <1>2 DEF Id, None
  <2> QED
    BY <2>1, <1>3
<1>5. hit \subseteq Live /\ hit \subseteq table /\ snap \subseteq Seen /\ snap \subseteq Id
  BY <1>3 DEF IndInv, Holds, Live, Seen, Request
<1>6. Seen \subseteq Id
  <2>1. \A q \in Req : req[q].snap \subseteq Id
    BY DEF IndInv, TypeOK, Request
  <2> QED
    BY <2>1, <1>4 DEF Seen
<1>7. Fams(snap) \subseteq Id /\ Fams(Missed(r)) \subseteq Id
  BY <1>3, <1>4, <1>5 DEF Fams, Missed, Live
<1>8. ended' \subseteq Id /\ slipped' \subseteq Id
  BY <1>2, <1>3, <1>7
<1>9. password' \in 0..MaxPassword
  BY <1>2, <1>3 DEF IndInv, Resets
<1>10. Resets'
  <2>1. \A q \in Req : req'[q].op = "reset" => q # r /\ req[q].op = "reset" /\ password' = password
    BY <1>1, <1>2 DEF IndInv, Resets
  <2> QED
    BY <2>1 DEF IndInv, Resets
<1>11. ASSUME NEW k \in Live \ hit PROVE fam[k] \notin ended'
  <2>1. fam[k] \notin ended
    BY DEF IndInv, EndedStaysEnded
  <2>2. fam[k] \in Fams(snap) => k \in Missed(r)
    BY DEF Missed
  <2>3. k \in Missed(r) => fam[k] \in Fams(Missed(r))
    BY DEF Fams
  <2> QED
    BY <2>1, <2>2, <2>3, <1>2
<1>12. \A m \in Unused : m \in Id /\ Clean(m) /\ m \notin revoked' /\ m \notin ended'
  <2> SUFFICES ASSUME NEW m \in Unused PROVE m \in Id /\ Clean(m) /\ m \notin revoked' /\ m \notin ended'
    OBVIOUS
  <2>1. m \in Id /\ Clean(m)
    BY DEF IndInv, Fresh, Unused
  <2>2. m \notin revoked'
    BY <2>1, <1>2, <1>5 DEF Clean, Seen
  <2>3. m \notin Fams(snap)
    BY <2>1, <1>5 DEF Clean, Fams
  <2> QED
    BY <2>1, <2>2, <2>3, <1>2 DEF Clean
<1>13. \A q \in Req : q # r => req[q].hit \subseteq Live \ hit
  BY DEF IndInv, Holds
<1>14. \A q \in Req : req'[q].new \in {None, req[q].new}
  BY <1>1
<1>15. CASE req[r].op # "login"
  <2>1. UNCHANGED <<table, dev, fam, under>>
    BY <1>15 DEF CommitRevoking
  <2>2. TypeOK'
    BY <2>1, <1>1, <1>2, <1>3, <1>5, <1>8, <1>9 DEF TypeOK
  <2>3. Live' = Live \ hit
    BY <2>1, <1>2 DEF Live
  <2>4. Seen' \subseteq Seen
    BY <2>1, <1>1 DEF Seen
  <2>5. Unused' \subseteq Unused
    BY <1>2, <1>14 DEF Unused, None, Id
  <2>6. \A m \in Unused' : Clean(m)'
    BY <2>1, <2>4, <2>5, <1>2, <1>12 DEF Clean
  <2>7. Fresh'
    BY <2>6, <1>1, <1>2 DEF Fresh
  <2>8. Holds'
    BY <2>3, <1>1, <1>13 DEF IndInv, Holds
  <2>9. Links'
    BY <2>1, <2>3, <1>2 DEF IndInv, Links
  <2>10. Heads'
    BY <2>1, <1>2 DEF IndInv, Heads
  <2>11. EndedStaysEnded'
    BY <2>1, <2>3, <1>11 DEF EndedStaysEnded
  <2>12. ReplayStaysEvident'
    BY <2>1, <1>2 DEF IndInv, ReplayStaysEvident
  <2> QED
    BY <2>2, <2>7, <2>8, <2>9, <2>10, <2>11, <2>12, <1>1, <1>10 DEF IndInv
<1>16. CASE req[r].op = "login"
  <2>0. n \in Id
    BY <1>16 DEF CommitRevoking, IndInv, Phases, Good
  <2>1. PICK d \in req[r].scope : Insert(n, d, n, req[r].proved)
    BY <1>16 DEF CommitRevoking
  <2>2. /\ table' = table \cup {n} /\ fam' = [fam EXCEPT ![n] = n]
        /\ dev' = [dev EXCEPT ![n] = d] /\ under' = [under EXCEPT ![n] = req[r].proved]
    BY <2>1 DEF Insert
  <2>3. n \in 1..minted /\ n # None /\ n \in Unused
    BY <2>0, <1>2 DEF IndInv, Fresh, Id, None, Unused
  <2>4. Clean(n) /\ n \notin revoked' /\ n \notin ended'
    BY <2>3, <1>12
  <2>5. \A q \in Req : req[q].new = n => q = r
    BY <2>3 DEF IndInv, Fresh
  <2> HIDE DEF n
  <2>6. /\ fam' \in [Id -> Id] /\ fam'[n] = n /\ \A k \in Id : k # n => fam'[k] = fam[k]
        /\ dev' \in [Id -> Device] /\ under' \in [Id -> 0..MaxPassword]
    <3>1. d \in Device /\ req[r].proved \in 0..MaxPassword
      BY <1>3 DEF Request
    <3> QED
      BY <3>1, <2>0, <2>2, <1>3
  <2>7. TypeOK'
    BY <2>2, <2>3, <2>6, <1>1, <1>2, <1>3, <1>5, <1>8, <1>9 DEF TypeOK
  <2>8. n \notin table /\ n \notin revoked /\ n \notin expired /\ by[n] = None /\ n \notin hit
    BY <2>4, <1>5 DEF Clean, Seen
  <2>9. Live' = (Live \ hit) \cup {n}
    BY <2>2, <2>8, <1>2 DEF Live
  <2>10. Seen' \subseteq Seen \cup {n}
    BY <2>2, <1>1 DEF Seen
  <2>11. Unused' \subseteq Unused \ {n}
    <3>1. \A q \in Req : req'[q].new # n
      BY <2>3, <2>5, <1>1
    <3> QED
      BY <3>1, <2>3, <1>2, <1>14 DEF Unused, None, Id
  <2>12. \A m \in Unused' : Clean(m)'
    <3> SUFFICES ASSUME NEW m \in Unused' PROVE Clean(m)'
      OBVIOUS
    <3>1. m # n /\ m \in Id /\ Clean(m) /\ m \notin revoked' /\ m \notin ended'
      BY <2>11, <1>12
    <3>2. m \notin Seen' /\ m \notin expired' /\ by'[m] = None
      BY <3>1, <2>10, <1>2 DEF Clean
    <3>3. \A k \in Seen' : fam'[k] # m
      BY <3>1, <2>6, <2>10, <1>6 DEF Clean
    <3> QED
      BY <3>1, <3>2, <3>3 DEF Clean
  <2>13. Fresh'
    BY <2>12, <1>1, <1>2 DEF Fresh
  <2>14. Holds'
    BY <2>9, <1>1, <1>13 DEF IndInv, Holds
  <2>15. Links'
    <3>1. \A k \in Id : by[k] # None => k < by[k] /\ by[k] \in table'
      BY <2>2 DEF IndInv, Links
    <3>2. \A k \in table' : by[k] \in expired => k \in expired
      BY <2>2, <2>8, <1>3, <1>4 DEF IndInv, Links
    <3>3. \A j, k \in table' : by[j] = by[k] /\ by[j] # None => j = k
      BY <2>2, <2>8 DEF IndInv, Links
    <3>4. \A k \in Live' : by[k] = None
      BY <2>8, <2>9 DEF IndInv, Links
    <3> QED
      BY <3>1, <3>2, <3>3, <3>4, <1>2 DEF Links
  <2>16. Heads'
    <3> SUFFICES ASSUME NEW j \in table' \ (revoked' \cap expired'), NEW k \in table' \ (revoked' \cap expired'),
                        fam'[j] = fam'[k], by'[j] = None, by'[k] = None
                 PROVE  j = k
      BY DEF Heads
    <3>1. \A l \in table : fam'[l] = fam[l] /\ fam[l] # n
      BY <2>4, <2>6, <2>8, <1>4 DEF Clean, Seen
    <3>2. CASE j \in table /\ k \in table
      BY <3>1, <3>2, <1>2 DEF IndInv, Heads
    <3>3. CASE j \notin table \/ k \notin table
      BY <3>1, <3>3, <2>2, <2>6
    <3> QED
      BY <3>2, <3>3
  <2>17. EndedStaysEnded'
    <3> SUFFICES ASSUME NEW k \in Live' PROVE fam'[k] \notin ended'
      BY DEF EndedStaysEnded
    <3>1. CASE k = n
      BY <3>1, <2>4, <2>6
    <3>2. CASE k # n
      <4>1. k \in Live \ hit /\ k \in Id
        BY <3>2, <2>9, <1>4 DEF Live
      <4> QED
        BY <4>1, <3>2, <2>6, <1>11
    <3> QED
      BY <3>1, <3>2
  <2>18. ReplayStaysEvident'
    BY <2>2, <1>2 DEF IndInv, ReplayStaysEvident
  <2> QED
    BY <2>7, <2>13, <2>14, <2>15, <2>16, <2>17, <2>18, <1>1, <1>10 DEF IndInv
<1> QED
  BY <1>15, <1>16

\* A row expires, after the rows that are older; the row it replaced is one of them.
LEMMA ExpireStep ==
  ASSUME IndInv, NEW i \in Id, Expire(i)
  PROVE  IndInv'
<1> USE AuthAssumption
<1>1. /\ i \in table /\ expired' = expired \cup {i} /\ \A j \in table : j < i => j \in expired
      /\ UNCHANGED <<minted, password, table, dev, fam, under, revoked, by, rotated, req, ended, slipped>>
  BY DEF Expire, history
<1>2. Live' = Live /\ Seen' = Seen /\ Unused' = Unused
  BY <1>1 DEF Live, Seen, Unused
<1>3. TypeOK'
  BY <1>1 DEF IndInv, TypeOK
<1>4. Phases' /\ Resets' /\ Holds'
  BY <1>1, <1>2 DEF IndInv, Phases, Good, Resets, Holds
<1>5. Fresh'
  BY <1>1, <1>2 DEF IndInv, Fresh, Clean, Seen
<1>6. Links'
  <2>1. \A j \in table : by[j] = i => j \in expired'
    <3>1. table \subseteq Id
      <4>1. table \subseteq 1..minted /\ minted \in 0..MaxId
        BY DEF IndInv, TypeOK
      <4> QED
        BY <4>1 DEF Id
    <3>2. \A j \in table : by[j] = i => j < i
      BY <3>1 DEF IndInv, Links, Id, None
    <3> QED
      BY <3>2, <1>1
  <2> QED
    BY <2>1, <1>1, <1>2 DEF IndInv, Links
<1>7. Heads' /\ EndedStaysEnded' /\ ReplayStaysEvident'
  BY <1>1, <1>2 DEF IndInv, Heads, EndedStaysEnded, ReplayStaysEvident
<1> QED
  BY <1>3, <1>4, <1>5, <1>6, <1>7 DEF IndInv

\* The sweep takes an expired row, and only links of expired rows with it.
LEMMA DeleteStep ==
  ASSUME IndInv, NEW i \in Id, DeleteExpired(i)
  PROVE  IndInv'
<1> USE AuthAssumption
<1>1. /\ i \in table /\ i \in expired /\ table' = table \ {i} /\ \A r \in Req : i \notin req[r].hit
      /\ by' = [j \in Id |-> IF by[j] = i THEN None ELSE by[j]]
      /\ UNCHANGED <<minted, password, dev, fam, under, revoked, rotated, expired, req, ended, slipped>>
  BY DEF DeleteExpired, Delete, history
<1>2. Live' = Live \ {i} /\ Seen' \subseteq Seen /\ Unused' = Unused
  BY <1>1 DEF Live, Seen, Unused
<1>3. /\ by \in [Id -> 0..MaxId] /\ table \subseteq Id
  <2>1. table \subseteq 1..minted /\ minted \in 0..MaxId /\ by \in [Id -> 0..MaxId]
    BY DEF IndInv, TypeOK
  <2> QED
    BY <2>1 DEF Id
<1>4. /\ by' \in [Id -> 0..MaxId]
      /\ \A j \in Id : by'[j] = (IF by[j] = i THEN None ELSE by[j])
  BY <1>1, <1>3 DEF None
<1>5. TypeOK'
  BY <1>1, <1>4 DEF IndInv, TypeOK
<1>6. Phases' /\ Resets' /\ Holds'
  BY <1>1, <1>2 DEF IndInv, Phases, Good, Resets, Holds
<1>7. Fresh'
  <2>1. \A n \in Unused : n \in Id /\ Clean(n)
    BY DEF IndInv, Fresh, Unused
  <2>2. \A n \in Unused' : Clean(n)'
    BY <2>1, <1>1, <1>2, <1>4 DEF Clean
  <2> QED
    BY <2>2, <1>1 DEF IndInv, Fresh
<1>8. \A j \in table : by[j] = i => j \in expired /\ j \in revoked
  BY <1>1 DEF IndInv, Links, Live, Id, None
<1>9. Links'
  <2>1. \A k \in Id : by'[k] # None => k < by'[k] /\ by'[k] \in table'
    BY <1>1, <1>4 DEF IndInv, Links
  <2>2. \A k \in table' : by'[k] \in expired' => k \in expired'
    BY <1>1, <1>3, <1>4, <1>8 DEF IndInv, Links
  <2>3. \A j, k \in table' : by'[j] = by'[k] /\ by'[j] # None => j = k
    BY <1>1, <1>3, <1>4 DEF IndInv, Links
  <2>4. \A k \in Live' : by'[k] = None
    BY <1>2, <1>3, <1>4 DEF IndInv, Links, Live
  <2> QED
    BY <2>1, <2>2, <2>3, <2>4 DEF Links
<1>10. Heads'
  BY <1>1, <1>3, <1>4, <1>8 DEF IndInv, Heads
<1>11. EndedStaysEnded'
  BY <1>1, <1>2 DEF IndInv, EndedStaysEnded
<1>12. ReplayStaysEvident'
  BY <1>1, <1>3, <1>4, <1>8 DEF IndInv, ReplayStaysEvident
<1> QED
  BY <1>5, <1>6, <1>7, <1>9, <1>10, <1>11, <1>12 DEF IndInv

\* Every step keeps the invariant.
LEMMA AuthStep == IndInv /\ [Next]_vars => IndInv'
<1> SUFFICES ASSUME IndInv, [Next]_vars PROVE IndInv'
  OBVIOUS
<1>1. ASSUME NEW r \in Req, Transactions(r) PROVE IndInv'
  BY <1>1, StatementStep, CommitRefreshStep, CommitRevokingStep DEF Transactions
<1>2. CASE UNCHANGED vars
  BY <1>2 DEF vars, rows, history, IndInv, TypeOK, Phases, Good, Resets, Fresh, Clean, Seen, Unused,
              Holds, Links, Heads, EndedStaysEnded, ReplayStaysEvident, Live
<1> QED
  BY <1>1, <1>2, RequestsStep, ExpireStep, DeleteStep DEF Next

\* What the invariant says of the properties that are checked.
LEMMA IndImplies == IndInv => TypeOK /\ FamilyIsAChain /\ EndedStaysEnded /\ ReplayStaysEvident /\ CutoffCoversRevoked
<1> SUFFICES ASSUME IndInv
             PROVE  TypeOK /\ FamilyIsAChain /\ EndedStaysEnded /\ ReplayStaysEvident /\ CutoffCoversRevoked
  OBVIOUS
<1>1. FamilyIsAChain
  BY DEF IndInv, Links, Heads, FamilyIsAChain
<1>2. CutoffCoversRevoked
  BY DEF IndInv, Phases, Good, CutoffCoversRevoked
<1> QED
  BY <1>1, <1>2 DEF IndInv

----------------------------------------------------------------------------
\* The rows of an account and the state of its requests are well typed, and no reset token is
\* spent twice, for any number of requests (auth/service.go, passwordreset.go).
THEOREM AuthTypeCorrect == Spec => []TypeOK
  BY InitInd, AuthStep, IndImplies, PTL DEF Spec

\* Refresh tokens are single use and a sign-in has at most one live session, whatever races
\* (Refresh, RotateSession).
THEOREM RotationIsSingleUse == Spec => []FamilyIsAChain
  BY InitInd, AuthStep, IndImplies, PTL DEF Spec

\* A sign-in whose rows a revocation reached never comes back to life
\* (RevokeSessionsForDevice against RotateSession).
THEOREM RevokedStaysRevoked == Spec => []EndedStaysEnded
  BY InitInd, AuthStep, IndImplies, PTL DEF Spec

\* The sweep never destroys what tells a replayed token from an unknown one
\* (DeleteExpiredSessions).
THEOREM ReplayEvidenceIsKept == Spec => []ReplayStaysEvident
  BY InitInd, AuthStep, IndImplies, PTL DEF Spec

\* A sign-out's cutoff is above every session it revoked (endConnections).
THEOREM CutoffIsAboveRevoked == Spec => []CutoffCoversRevoked
  BY InitInd, AuthStep, IndImplies, PTL DEF Spec

\* A refresh token is accepted once, and trying it again is recognised as a replay for as long as
\* the token has not expired (Refresh, RotateSession, DeleteExpiredSessions).
THEOREM SingleUseIsEvident == Spec => []TokensAreSingleUse
<1>1. FamilyIsAChain /\ ReplayStaysEvident => TokensAreSingleUse
  BY DEF TokensAreSingleUse
<1>2. QED
  BY RotationIsSingleUse, ReplayEvidenceIsKept, <1>1, PTL
=============================================================================
