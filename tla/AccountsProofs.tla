---------------------------- MODULE AccountsProofs -----------------------------
(***************************************************************************)
(* What the ways into an account guarantee for any number of accounts,     *)
(* codes, flows, links and requests.  Each part has an inductive invariant *)
(* that its own steps keep; the theorems at the end put the parts together *)
(* as MCAccounts does.                                                     *)
(***************************************************************************)
EXTENDS MCAccounts, FiniteSetTheorems, TLAPS

\* Two members that are always the same are one: how a count of at most one follows.
LEMMA AtMostOne ==
  ASSUME NEW S, \A x, y \in S : x = y PROVE Cardinality(S) <= 1
<1>1. CASE S = {}
  BY <1>1, FS_EmptySet
<1>2. CASE S # {}
  <2>1. PICK x \in S : TRUE
    BY <1>2
  <2>2. S = {x}
    BY <2>1
  <2> QED BY <2>2, FS_Singleton
<1> QED BY <1>1, <1>2

--------------------------------------------------------------------------------
(* Mailed links.                                                           *)

\* A link that can still be spent has had no effect.
LiveLinkUnused ==
  \A l \in Links : link[l].state \in {"unissued", "live"} => effects[l] = 0

LinkInv == LinkTypeOK /\ LinkWorksOnce /\ LiveLinkUnused

\* Nothing was issued or spent at first.
LEMMA LinkInitInv == LinkInit => LinkInv
BY DEF LinkInit, LinkInv, LinkTypeOK, LinkWorksOnce, LiveLinkUnused, Unasked, Kinds

\* A link takes effect only as it is spent (SpendLink), which only a live one can be.
LEMMA LinkStepInv == LinkInv /\ LinkNext => LinkInv'
<1> SUFFICES ASSUME LinkInv, LinkNext PROVE LinkInv'
  OBVIOUS
<1> USE DEF LinkInv, LinkTypeOK, LinkWorksOnce, LiveLinkUnused, Kinds
<1>1. ASSUME NEW a \in Askers, IssueLink(a) PROVE LinkInv'
  <2>1. PICK new \in Links : InsertLink(new, asking[a].kind, asking[a].links)
    BY <1>1 DEF IssueLink
  <2>2. asking[a].kind \in Kinds
    OBVIOUS
  <2>3. link' \in [Links -> [kind: Kinds, state: {"unissued", "live", "spent", "late"}]]
    BY <2>1, <2>2 DEF InsertLink
  <2>4. asking' \in [Askers -> [at: {"none", "issuing", "spending"}, kind: Kinds, links: SUBSET Links]]
    BY <1>1 DEF IssueLink, Unasked
  <2>5. LiveLinkUnused'
    BY <1>1, <2>1 DEF IssueLink, InsertLink
  <2> QED BY <1>1, <2>3, <2>4, <2>5 DEF IssueLink
<1>2. ASSUME NEW a \in Askers, SpendLink(a) PROVE LinkInv'
  <2>1. PICK l \in asking[a].links :
          \/ /\ ConsumableLink(l)
             /\ link' = [link EXCEPT ![l].state = "spent"]
             /\ effects' = Bump(l)
             /\ \/ link[l].kind = "reset" /\ RevokeAllAPITokensForUser /\ UNCHANGED verified
                \/ link[l].kind = "verify" /\ MarkEmailVerified
          \/ ~ConsumableLink(l) /\ UNCHANGED <<link, effects, verified, linkedToken>>
    BY <1>2 DEF SpendLink
  <2>2. l \in Links
    OBVIOUS
  <2>3. asking' \in [Askers -> [at: {"none", "issuing", "spending"}, kind: Kinds, links: SUBSET Links]]
    BY <1>2 DEF SpendLink, Unasked
  <2>4. link' \in [Links -> [kind: Kinds, state: {"unissued", "live", "spent", "late"}]]
    BY <2>1, <2>2
  <2>5. effects' \in [Links -> 0..2] /\ LinkWorksOnce' /\ LiveLinkUnused'
    <3>1. CASE ~ConsumableLink(l)
      BY <2>1, <3>1
    <3>2. CASE ConsumableLink(l)
      <4>1. effects[l] = 0
        BY <2>2, <3>2 DEF ConsumableLink
      <4>2. effects' = [effects EXCEPT ![l] = 1] /\ link' = [link EXCEPT ![l].state = "spent"]
        BY <2>1, <2>2, <3>2, <4>1 DEF Bump
      <4> QED BY <2>2, <4>2
    <3> QED BY <3>1, <3>2
  <2>6. verified' \in BOOLEAN /\ linkedToken' \in [LinkedTokens -> {"unminted", "live", "revoked"}]
    BY <2>1 DEF RevokeAllAPITokensForUser, MarkEmailVerified
  <2> QED BY <1>2, <2>3, <2>4, <2>5, <2>6 DEF SpendLink
<1>3. ASSUME NEW a \in Askers, NEW kind \in Kinds, RequestLink(a, kind) PROVE LinkInv'
  BY <1>3 DEF RequestLink, Outstanding
<1>4. ASSUME NEW a \in Askers, NEW l \in Links, OpenLink(a, l) PROVE LinkInv'
  BY <1>4 DEF OpenLink
<1>5. ASSUME NEW l \in Links, LinkExpires(l) PROVE LinkInv'
  BY <1>5 DEF LinkExpires
<1>6. ASSUME NEW t \in LinkedTokens, MintLinked(t) \/ RevokeLinked(t) \/ UseLinked(t) \/ TouchGrowsOld(t)
      PROVE LinkInv'
  BY <1>6 DEF MintLinked, RevokeLinked, UseLinked, TouchGrowsOld
<1> QED BY <1>1, <1>2, <1>3, <1>4, <1>5, <1>6 DEF LinkNext

\* Steps of the other parts change nothing here.
LEMMA LinkStutterInv == LinkInv /\ UNCHANGED linkVars => LinkInv'
BY DEF LinkInv, LinkTypeOK, LinkWorksOnce, LiveLinkUnused, linkVars

--------------------------------------------------------------------------------
(* Registration, the bootstrap and the instance's invites.                 *)

\* What makes the counts hold across the reads that come before the writes:
\* a registration in flight has a name, and an invite or none, the admins the bootstrap
\* made are in instance_admins, of whom there is one at most, and the attempt
\* that counted none holds the lock until it has inserted.
AttemptInv ==
  /\ \A a \in Attempts : attempt[a].at \in {"free", "taken"} => attempt[a].name \in Names
  /\ \A a \in Attempts : attempt[a].at = "free" => attempt[a].invite \in Invites \cup {Uninvited}
  /\ \A a \in Attempts : attempt[a].at = "counted" => bootLock = a /\ admins = {}
  /\ \A u \in Users : account[u].by = Bootstrapped => u \in admins
  /\ \A u, v \in admins : u = v

RegistrationInv == RegistrationTypeOK /\ InviteCountsAccounts /\ AttemptInv

\* No account is made, and no invite's use counted.
LEMMA RegistrationInitInv == RegistrationInit => RegistrationInv
<1> SUFFICES ASSUME RegistrationInit PROVE RegistrationInv
  OBVIOUS
<1>1. RegistrationTypeOK /\ AttemptInv
  BY RegistrationAssumption DEF RegistrationInit, RegistrationTypeOK, AttemptInv, NoAccount, NoInvite,
     Resting, Bootstrapped, Uninvited
<1>2. ASSUME NEW i \in Invites PROVE invite[i].uses = Made(i) /\ invite[i].uses <= invite[i].max
  <2>1. {u \in Users : account[u].by = i} = {}
    BY RegistrationAssumption DEF RegistrationInit, NoAccount
  <2>2. Made(i) = 0
    BY <2>1, FS_EmptySet DEF Made
  <2> QED BY <2>2 DEF RegistrationInit, NoInvite
<1> QED BY <1>1, <1>2 DEF RegistrationInv, InviteCountsAccounts

\* An account made by another way than invite i leaves i's count alone.
LEMMA MadeUnchanged ==
  ASSUME RegistrationTypeOK, NEW i \in Invites, NEW u \in Users, account[u] = NoAccount,
         NEW new, new.by # i, account' = [account EXCEPT ![u] = new]
  PROVE  Made(i)' = Made(i)
<1>1. {v \in Users : account'[v].by = i} = {v \in Users : account[v].by = i}
  BY RegistrationAssumption DEF RegistrationTypeOK, NoAccount
<1> QED BY <1>1 DEF Made

\* An account made by invite i is one more of its count.
LEMMA MadeGrows ==
  ASSUME RegistrationTypeOK, NEW i \in Invites, NEW u \in Users, account[u] = NoAccount,
         NEW new, new.by = i, account' = [account EXCEPT ![u] = new]
  PROVE  Made(i)' = Made(i) + 1 /\ Made(i) \in Nat
<1> DEFINE S == {v \in Users : account[v].by = i}
<1>1. {v \in Users : account'[v].by = i} = S \cup {u} /\ u \notin S
  BY RegistrationAssumption DEF RegistrationTypeOK, NoAccount
<1>2. IsFiniteSet(S)
  BY RegistrationAssumption, FS_Subset
<1>3. Cardinality(S \cup {u}) = Cardinality(S) + 1 /\ Cardinality(S) \in Nat
  BY <1>1, <1>2, FS_AddElement, FS_CardinalityType
<1> QED BY <1>1, <1>3 DEF Made

\* The invite is redeemed in the transaction that makes the account, and the
\* bootstrap's count is still true when its insert runs.
LEMMA RegistrationStepInv == RegistrationInv /\ RegistrationNext => RegistrationInv'
<1> SUFFICES ASSUME RegistrationInv, RegistrationNext PROVE RegistrationInv'
  OBVIOUS
<1> USE RegistrationAssumption
<1>0. RegistrationTypeOK /\ InviteCountsAccounts /\ AttemptInv
  BY DEF RegistrationInv
<1>a. ASSUME UNCHANGED <<account, invite>> PROVE InviteCountsAccounts'
  BY <1>0, <1>a DEF InviteCountsAccounts, Made
<1>1. ASSUME NEW a \in Attempts, RegisterCommit(a) PROVE RegistrationInv'
  <2>0. attempt[a].invite \in Invites \cup {Uninvited}
    BY <1>0, <1>1 DEF AttemptInv, RegisterCommit
  <2>1. CASE UNCHANGED <<account, invite>>
    <3>0. attempt' = [attempt EXCEPT ![a] = Resting] \/ attempt' = [attempt EXCEPT ![a].at = "taken"]
      BY <1>1 DEF RegisterCommit
    <3>a. UNCHANGED <<reserved, admins, bootLock>> /\ attempt[a].at = "free"
      BY <1>1 DEF RegisterCommit
    <3>b. attempt' \in [Attempts -> [at: {"resting", "free", "taken", "counted"},
                                    name: Names \cup {NoOne}, email: Addresses \cup {NoOne},
                                    invite: Invites \cup {NoOne, Uninvited}]]
      <4>1. CASE attempt' = [attempt EXCEPT ![a] = Resting]
        BY <1>0, <4>1 DEF RegistrationTypeOK, Resting
      <4>2. CASE attempt' = [attempt EXCEPT ![a].at = "taken"]
        BY <1>0, <4>2 DEF RegistrationTypeOK
      <4> QED BY <3>0, <4>1, <4>2
    <3>1. RegistrationTypeOK'
      BY <1>0, <2>1, <3>a, <3>b DEF RegistrationTypeOK
    <3>2. AttemptInv'
      <4>1. CASE attempt' = [attempt EXCEPT ![a] = Resting]
        BY <1>0, <2>1, <3>a, <4>1 DEF RegistrationTypeOK, AttemptInv, Resting
      <4>2. CASE attempt' = [attempt EXCEPT ![a].at = "taken"]
        BY <1>0, <2>1, <3>a, <4>2 DEF RegistrationTypeOK, AttemptInv
      <4> QED BY <3>0, <4>1, <4>2
    <3> QED BY <1>a, <2>1, <3>1, <3>2 DEF RegistrationInv
  <2>2. ASSUME NEW u \in Users, account[u] = NoAccount,
               account' = [account EXCEPT ![u] =
                 [name |-> attempt[a].name, email |-> attempt[a].email, by |-> attempt[a].invite]],
               attempt[a].invite = Uninvited \/ Redeemable(attempt[a].invite),
               invite' = IF attempt[a].invite = Uninvited THEN invite
                         ELSE [invite EXCEPT ![attempt[a].invite].uses = @ + 1],
               attempt' = [attempt EXCEPT ![a] = Resting]
        PROVE  RegistrationInv'
    <3> DEFINE i == attempt[a].invite
    <3> DEFINE new == [name |-> attempt[a].name, email |-> attempt[a].email, by |-> attempt[a].invite]
    <3>0. UNCHANGED <<reserved, admins, bootLock>>
      BY <1>1 DEF RegisterCommit
    <3>1. i # Uninvited => i \in Invites /\ invite[i].uses < invite[i].max
                          /\ invite' = [invite EXCEPT ![i].uses = invite[i].uses + 1]
      BY <2>0, <2>2 DEF Redeemable
    <3>2. invite' \in [Invites -> [there: BOOLEAN, uses: 0..MaxUses, max: 0..MaxUses, late: BOOLEAN]]
      BY <1>0, <2>2, <3>1 DEF RegistrationTypeOK
    <3>3. account' \in [Users -> [name: Names \cup {NoOne}, email: Addresses \cup {NoOne},
                                  by: Invites \cup {NoOne, Bootstrapped, Uninvited}]]
      BY <1>0, <2>0, <2>2 DEF RegistrationTypeOK
    <3>4. RegistrationTypeOK'
      BY <1>0, <2>2, <3>0, <3>2, <3>3 DEF RegistrationTypeOK, Resting
    <3>5. AttemptInv'
      BY <1>0, <2>0, <2>2, <3>0 DEF RegistrationTypeOK, AttemptInv, Resting, Bootstrapped, Uninvited
    <3>6. ASSUME NEW j \in Invites PROVE invite'[j].uses = Made(j)' /\ invite'[j].uses <= invite'[j].max
      <4>1. CASE j = i
        <5>1. Made(j)' = Made(j) + 1
          BY <1>0, <2>2, <4>1, MadeGrows, new.by = j
        <5>2. i # Uninvited
          BY <4>1 DEF Uninvited
        <5> QED BY <1>0, <3>1, <4>1, <5>1, <5>2 DEF InviteCountsAccounts, RegistrationTypeOK
      <4>2. CASE j # i
        <5>1. Made(j)' = Made(j)
          BY <1>0, <2>2, <4>2, MadeUnchanged, new.by # j
        <5>2. invite'[j] = invite[j]
          BY <1>0, <2>2, <3>1, <4>2 DEF RegistrationTypeOK
        <5> QED BY <1>0, <5>1, <5>2 DEF InviteCountsAccounts
      <4> QED BY <4>1, <4>2
    <3> QED BY <3>4, <3>5, <3>6 DEF RegistrationInv, InviteCountsAccounts
  <2> QED BY <1>1, <2>1, <2>2 DEF RegisterCommit
<1>2. ASSUME NEW a \in Attempts, ReserveUsername(a) PROVE RegistrationInv'
  <2>1. RegistrationTypeOK'
    BY <1>0, <1>2 DEF ReserveUsername, RegistrationTypeOK, AttemptInv, Resting
  <2>2. AttemptInv'
    BY <1>0, <1>2 DEF ReserveUsername, RegistrationTypeOK, AttemptInv, Resting
  <2> QED BY <1>2, <1>a, <2>1, <2>2 DEF ReserveUsername, RegistrationInv
<1>3. ASSUME NEW a \in Attempts, CreateInstanceAdmin(a) PROVE RegistrationInv'
  <2>0. bootLock = a /\ admins = {} /\ \A b \in Attempts : attempt[b].at = "counted" => b = a
    BY <1>0, <1>3 DEF CreateInstanceAdmin, AttemptInv
  <2>1. CASE UNCHANGED <<account, admins>>
    <3>1. RegistrationTypeOK'
      BY <1>0, <1>3, <2>1 DEF CreateInstanceAdmin, RegistrationTypeOK, Resting
    <3>2. AttemptInv'
      BY <1>0, <1>3, <2>0, <2>1 DEF CreateInstanceAdmin, RegistrationTypeOK, AttemptInv, Resting
    <3> QED BY <1>3, <1>a, <2>1, <3>1, <3>2 DEF CreateInstanceAdmin, RegistrationInv
  <2>2. ASSUME NEW u \in Users, account[u] = NoAccount,
               account' = [account EXCEPT ![u] =
                 [name |-> attempt[a].name, email |-> attempt[a].email, by |-> Bootstrapped]],
               admins' = admins \cup {u}
        PROVE  RegistrationInv'
    <3> DEFINE new == [name |-> attempt[a].name, email |-> attempt[a].email, by |-> Bootstrapped]
    <3>1. account' \in [Users -> [name: Names \cup {NoOne}, email: Addresses \cup {NoOne},
                                  by: Invites \cup {NoOne, Bootstrapped, Uninvited}]]
      BY <1>0, <2>2 DEF RegistrationTypeOK
    <3>2. RegistrationTypeOK'
      BY <1>0, <1>3, <2>2, <3>1 DEF CreateInstanceAdmin, RegistrationTypeOK, Resting
    <3>3. AttemptInv'
      BY <1>0, <1>3, <2>0, <2>2 DEF CreateInstanceAdmin, RegistrationTypeOK, AttemptInv, Resting
    <3>4. ASSUME NEW j \in Invites PROVE Made(j)' = Made(j)
      BY <1>0, <2>2, MadeUnchanged, new.by # j DEF Bootstrapped
    <3>5. InviteCountsAccounts'
      BY <1>0, <1>3, <3>4 DEF CreateInstanceAdmin, InviteCountsAccounts
    <3> QED BY <3>2, <3>3, <3>5 DEF RegistrationInv
  <2> QED BY <1>3, <2>1, <2>2 DEF CreateInstanceAdmin
<1>4. ASSUME NEW a \in Attempts, NEW n \in Names, NEW e \in Addresses, Register(a, n, e) PROVE RegistrationInv'
  <2>1. PICK i \in IF Gated THEN Invites ELSE {Uninvited} :
          attempt' = [attempt EXCEPT ![a] = [at |-> "free", name |-> n, email |-> e, invite |-> i]]
    BY <1>4 DEF Register
  <2>2. i \in Invites \cup {Uninvited}
    BY <2>1
  <2>3. RegistrationTypeOK' /\ AttemptInv'
    BY <1>0, <1>4, <2>1, <2>2 DEF Register, RegistrationTypeOK, AttemptInv
  <2> QED BY <1>4, <1>a, <2>3 DEF Register, RegistrationInv
<1>5. ASSUME NEW a \in Attempts, NEW n \in Names, NEW e \in Addresses, Bootstrap(a, n, e) PROVE RegistrationInv'
  <2>0. ASSUME NEW b \in Attempts, attempt[b].at = "counted" PROVE b = a
    BY <1>0, <1>5, <2>0 DEF Bootstrap, LockInstanceBootstrap, AttemptInv
  <2>1. RegistrationTypeOK'
    BY <1>0, <1>5 DEF Bootstrap, RegistrationTypeOK
  <2>2. AttemptInv'
    BY <1>0, <1>5, <2>0 DEF Bootstrap, RegistrationTypeOK, AttemptInv
  <2> QED BY <1>5, <1>a, <2>1, <2>2 DEF Bootstrap, RegistrationInv
<1>6. ASSUME NEW i \in Invites, CreateInstanceInvite(i) \/ DeleteInstanceInvite(i) \/ InviteExpires(i)
      PROVE  RegistrationInv'
  <2>0. UNCHANGED <<account, reserved, attempt, admins, bootLock>>
    BY <1>6 DEF CreateInstanceInvite, DeleteInstanceInvite, InviteExpires
  <2>1. invite' \in [Invites -> [there: BOOLEAN, uses: 0..MaxUses, max: 0..MaxUses, late: BOOLEAN]]
    <3>1. CASE CreateInstanceInvite(i)
      BY <1>0, <3>1 DEF CreateInstanceInvite, RegistrationTypeOK
    <3>2. CASE DeleteInstanceInvite(i)
      BY <1>0, <3>2 DEF DeleteInstanceInvite, RegistrationTypeOK
    <3>3. CASE InviteExpires(i)
      BY <1>0, <3>3 DEF InviteExpires, RegistrationTypeOK
    <3> QED BY <1>6, <3>1, <3>2, <3>3
  <2>2. ASSUME NEW j \in Invites
        PROVE  invite'[j].uses = invite[j].uses /\ invite'[j].uses <= invite'[j].max
    BY <1>0, <1>6 DEF CreateInstanceInvite, DeleteInstanceInvite, InviteExpires, RegistrationTypeOK,
       InviteCountsAccounts, NoInvite
  <2>3. InviteCountsAccounts'
    BY <1>0, <2>0, <2>2 DEF InviteCountsAccounts, Made
  <2>4. RegistrationTypeOK' /\ AttemptInv'
    BY <1>0, <2>0, <2>1 DEF RegistrationTypeOK, AttemptInv
  <2> QED BY <2>3, <2>4 DEF RegistrationInv
<1> QED BY <1>1, <1>2, <1>3, <1>4, <1>5, <1>6 DEF RegistrationNext

\* Steps of the other parts change nothing here.
LEMMA RegistrationStutterInv == RegistrationInv /\ UNCHANGED registrationVars => RegistrationInv'
<1> SUFFICES ASSUME RegistrationInv, UNCHANGED registrationVars PROVE RegistrationInv'
  OBVIOUS
<1>1. RegistrationTypeOK'
  BY DEF RegistrationInv, RegistrationTypeOK, registrationVars
<1>2. InviteCountsAccounts'
  BY DEF RegistrationInv, InviteCountsAccounts, Made, registrationVars
<1>3. AttemptInv'
  BY DEF RegistrationInv, AttemptInv, registrationVars
<1> QED BY <1>1, <1>2, <1>3 DEF RegistrationInv

\* One admin at most, so one of the bootstrap's making at most.
LEMMA RegistrationSafe == RegistrationInv => InviteCountsAccounts /\ OneBootstrapAdmin
BY AtMostOne DEF RegistrationInv, AttemptInv, OneBootstrapAdmin

--------------------------------------------------------------------------------
(* Device-code sign-in.                                                    *)

\* A session and the row it came from agree: the row names its account, is
\* consumed and was not denied, and has no other session.  What was told about
\* a row is in the row, and revokeEverything ends sessions of its own account
\* that are there.
GrantInv ==
  /\ \A g, h \in granted : g.code = h.code => g = h
  /\ \A g \in granted : /\ g.user = code[g.code].user
                        /\ code[g.code].consumed /\ ~code[g.code].denied
  /\ \A c \in Codes : <<c, "stopped">> \in told => code[c].denied
  /\ \A c \in Codes : <<c, "revoked">> \in told => code[c].consumed /\ \A g \in granted : g.code # c
  /\ \A u \in Users : sweeping[u] # NotRevoking => \A g \in sweeping[u] : g \in granted /\ g.user = u

DeviceInv == DeviceTypeOK /\ GrantInv

\* There is no row and no session at first.
LEMMA DeviceInitInv == DeviceInit => DeviceInv
<1> SUFFICES ASSUME DeviceInit PROVE DeviceInv
  OBVIOUS
<1>1. code \in [Codes -> [user: Users \cup {NoOne}, denied: BOOLEAN, consumed: BOOLEAN,
                         late: BOOLEAN, recent: BOOLEAN]]
  BY DEF DeviceInit, Absent
<1>2. DeviceTypeOK
  BY <1>1 DEF DeviceInit, DeviceTypeOK
<1>3. GrantInv
  BY DEF DeviceInit, GrantInv
<1> QED BY <1>2, <1>3 DEF DeviceInv

\* What a continuation token names.
LEMMA TokenNames ==
  ASSUME NEW token \in Tokens
  PROVE  token.code \in Codes /\ (token.type # "entry" => token.user \in Users)
BY DEF Tokens, Entry, Factor, Approval

\* A step that changes one row, and neither its sessions nor what was told of
\* it, keeps the invariant: an unconsumed row has no session yet, and a
\* consumed one keeps its account and its standing.
LEMMA RowChanges ==
  ASSUME DeviceInv, NEW c \in Codes,
         NEW row \in [user: Users \cup {NoOne}, denied: BOOLEAN, consumed: BOOLEAN,
                      late: BOOLEAN, recent: BOOLEAN],
         code' = [code EXCEPT ![c] = row],
         code[c].consumed => row.consumed /\ row.user = code[c].user /\ row.denied = code[c].denied,
         code[c].denied => row.denied,
         UNCHANGED <<granted, told, sweeping>>
  PROVE  GrantInv'
<1>1. DeviceTypeOK /\ GrantInv
  BY DEF DeviceInv
<1>2. code' \in [Codes -> [user: Users \cup {NoOne}, denied: BOOLEAN, consumed: BOOLEAN,
                           late: BOOLEAN, recent: BOOLEAN]]
  BY <1>1 DEF DeviceTypeOK
<1>3. ASSUME NEW d \in Codes
      PROVE  /\ code[d].consumed => code'[d].consumed /\ code'[d].user = code[d].user
                                    /\ code'[d].denied = code[d].denied
             /\ code[d].denied => code'[d].denied
  BY <1>1 DEF DeviceTypeOK
<1>4. \A g \in granted : g.code \in Codes
  BY <1>1 DEF DeviceTypeOK
<1> QED BY <1>1, <1>3, <1>4 DEF GrantInv

\* A session is written with the consumption of its code, in one transaction
\* whose WHERE refuses a code that was collected, denied or taken back.
LEMMA DeviceStepInv == DeviceInv /\ DeviceNext => DeviceInv'
<1> SUFFICES ASSUME DeviceInv, DeviceNext PROVE DeviceInv'
  OBVIOUS
<1>0. DeviceTypeOK /\ GrantInv
  BY DEF DeviceInv
<1> DEFINE Rows == [user: Users \cup {NoOne}, denied: BOOLEAN, consumed: BOOLEAN, late: BOOLEAN, recent: BOOLEAN]
<1> DEFINE Sessions == [code: Codes, user: Users, live: BOOLEAN]
<1> DEFINE Answers == Codes \X {"stopped", "revoked", "too late"}
<1>t. /\ told \subseteq Answers
      /\ \A c \in Codes : /\ <<c, "stopped">> \in Answers /\ <<c, "revoked">> \in Answers
                          /\ <<c, "too late">> \in Answers
  BY <1>0 DEF DeviceTypeOK
<1>r. ASSUME NEW c \in Codes PROVE code[c] \in Rows
  BY <1>0 DEF DeviceTypeOK
<1>p. ASSUME UNCHANGED <<code, granted, told, sweeping>> PROVE GrantInv'
  BY <1>0, <1>p DEF GrantInv
<1>1. ASSUME NEW c \in Codes, StartDeviceAuth(c) PROVE DeviceInv'
  <2>a. Created \in Rows
    BY DEF Created, Absent
  <2>b. ~code[c].consumed /\ ~code[c].denied
    BY <1>1 DEF StartDeviceAuth, Absent
  <2>1. Created \in Rows /\ code' = [code EXCEPT ![c] = Created] /\ ~code[c].consumed /\ ~code[c].denied
    BY <1>1, <2>a, <2>b DEF StartDeviceAuth
  <2>2. UNCHANGED <<pages, polled, granted, factor, told, sweeping>>
    BY <1>1 DEF StartDeviceAuth
  <2>3. GrantInv'
    BY <2>1, <2>2, RowChanges
  <2> QED BY <1>0, <2>1, <2>2, <2>3 DEF DeviceInv, DeviceTypeOK
<1>2. ASSUME NEW c \in Codes, PollIntervalPasses(c) PROVE DeviceInv'
  <2> DEFINE row == [code[c] EXCEPT !.recent = FALSE]
  <2>1. row \in Rows /\ code' = [code EXCEPT ![c] = row]
    BY <1>2, <1>r DEF PollIntervalPasses
  <2>2. UNCHANGED <<pages, polled, granted, factor, told, sweeping>>
    BY <1>2 DEF PollIntervalPasses
  <2>3. row.consumed = code[c].consumed /\ row.user = code[c].user /\ row.denied = code[c].denied
    BY <1>r
  <2> HIDE DEF row
  <2>4. GrantInv'
    BY <2>1, <2>2, <2>3, RowChanges
  <2> QED BY <1>0, <2>1, <2>2, <2>4 DEF DeviceInv, DeviceTypeOK
<1>3. ASSUME NEW c \in Codes, DeviceCodeExpires(c) PROVE DeviceInv'
  <2> DEFINE row == [code[c] EXCEPT !.late = TRUE]
  <2>1. row \in Rows /\ code' = [code EXCEPT ![c] = row]
    BY <1>3, <1>r DEF DeviceCodeExpires
  <2>2. UNCHANGED <<pages, polled, granted, factor, told, sweeping>>
    BY <1>3 DEF DeviceCodeExpires
  <2>3. row.consumed = code[c].consumed /\ row.user = code[c].user /\ row.denied = code[c].denied
    BY <1>r
  <2> HIDE DEF row
  <2>4. GrantInv'
    BY <2>1, <2>2, <2>3, RowChanges
  <2> QED BY <1>0, <2>1, <2>2, <2>4 DEF DeviceInv, DeviceTypeOK
<1>4. ASSUME NEW c \in Codes, DevicePageSubmit(c) PROVE DeviceInv'
  <2>0. Entry(c) \in Tokens
    BY DEF Tokens
  <2>1. pages' \subseteq Tokens
    BY <1>0, <1>4, <2>0 DEF DevicePageSubmit, DeviceTypeOK
  <2> QED BY <1>0, <1>4, <1>p, <2>1 DEF DevicePageSubmit, DeviceInv, DeviceTypeOK
<1>5. ASSUME NEW p \in Pollers, NEW c \in Codes, PollDeviceCode(p, c) PROVE DeviceInv'
  <2> DEFINE row == [code[c] EXCEPT !.recent = TRUE]
  <2>1. row \in Rows /\ code' = [code EXCEPT ![c] = row]
    BY <1>5, <1>r DEF PollDeviceCode
  <2>2. UNCHANGED <<pages, granted, factor, told, sweeping>>
    BY <1>5 DEF PollDeviceCode
  <2>3. row.consumed = code[c].consumed /\ row.user = code[c].user /\ row.denied = code[c].denied
    BY <1>r
  <2> HIDE DEF row
  <2>4. GrantInv'
    BY <2>1, <2>2, <2>3, RowChanges
  <2>5. polled' \in [Pollers -> Codes \cup {Idle}]
    BY <1>0, <1>5 DEF PollDeviceCode, DeviceTypeOK
  <2> QED BY <1>0, <2>1, <2>2, <2>4, <2>5 DEF DeviceInv, DeviceTypeOK
<1>6. ASSUME NEW p \in Pollers, RedeemDeviceCode(p) PROVE DeviceInv'
  <2> DEFINE c == polled[p]
  <2>1. c \in Codes
    BY <1>0, <1>6 DEF RedeemDeviceCode, DeviceTypeOK
  <2>2. polled' \in [Pollers -> Codes \cup {Idle}] /\ UNCHANGED <<pages, factor, told, sweeping>>
    BY <1>0, <1>6 DEF RedeemDeviceCode, DeviceTypeOK
  <2>3. CASE UNCHANGED <<code, granted>>
    BY <1>0, <1>p, <2>2, <2>3 DEF DeviceInv, DeviceTypeOK
  <2>4. CASE /\ Consumable(c)
             /\ code' = [code EXCEPT ![c].consumed = TRUE]
             /\ granted' = granted \cup {[code |-> c, user |-> code[c].user, live |-> TRUE]}
    <3> DEFINE new == [code |-> c, user |-> code[c].user, live |-> TRUE]
    <3>1. ~code[c].consumed /\ code[c].user \in Users /\ ~code[c].denied
      BY <1>r, <2>1, <2>4 DEF Consumable, Unspent
    <3>2. code' = [code EXCEPT ![c] = [code[c] EXCEPT !.consumed = TRUE]]
      BY <2>4
    <3>3. code' \in [Codes -> Rows]
      BY <1>0, <1>r, <2>1, <3>2 DEF DeviceTypeOK
    <3>n. new \in Sessions
      BY <2>1, <3>1
    <3>4. granted' \subseteq Sessions
      BY <1>0, <2>4, <3>n DEF DeviceTypeOK
    <3>5. \A g \in granted : g.code # c /\ g.code \in Codes
      BY <1>0, <3>1 DEF GrantInv, DeviceTypeOK
    <3>6. <<c, "stopped">> \notin told /\ <<c, "revoked">> \notin told
      BY <1>0, <2>1, <3>1 DEF GrantInv
    <3>7. /\ code'[c].consumed /\ ~code'[c].denied /\ code'[c].user = code[c].user
          /\ \A d \in Codes : d # c => code'[d] = code[d]
      BY <1>0, <2>1, <3>1, <3>2 DEF DeviceTypeOK
    <3>8. new.code = c /\ new.user = code[c].user
      OBVIOUS
    <3>9. granted' = granted \cup {new}
      BY <2>4
    <3> HIDE DEF new, c
    <3>10. GrantInv'
      BY <1>0, <2>1, <2>2, <3>5, <3>6, <3>7, <3>8, <3>9 DEF GrantInv
    <3> QED BY <1>0, <2>2, <3>3, <3>4, <3>10 DEF DeviceInv, DeviceTypeOK
  <2> QED BY <1>6, <2>3, <2>4 DEF RedeemDeviceCode
<1>7. ASSUME NEW token \in pages, ContinuationExpires(token) PROVE DeviceInv'
  BY <1>0, <1>7, <1>p DEF ContinuationExpires, DeviceInv, DeviceTypeOK
<1>8. ASSUME NEW token \in pages, NEW u \in Users, DevicePageSignIn(token, u) PROVE DeviceInv'
  <2>1. token \in Tokens /\ token.code \in Codes
    BY <1>0, TokenNames DEF DeviceTypeOK
  <2>2. Factor(token.code, u) \in Tokens /\ Approval(token.code, u) \in Tokens
    BY <2>1 DEF Tokens
  <2>3. pages' \subseteq Tokens
    BY <1>0, <1>8, <2>2 DEF DevicePageSignIn, ContinueToApproval, RenderPage, DeviceTypeOK
  <2> QED BY <1>0, <1>8, <1>p, <2>3 DEF DevicePageSignIn, DeviceInv, DeviceTypeOK
<1>9. ASSUME NEW token \in pages, DevicePageFactor(token) PROVE DeviceInv'
  <2>1. token \in Tokens /\ token.code \in Codes /\ token.user \in Users
    BY <1>0, <1>9, TokenNames DEF DeviceTypeOK, DevicePageFactor, Holds
  <2>2. Approval(token.code, token.user) \in Tokens
    BY <2>1 DEF Tokens
  <2>3. pages' \subseteq Tokens
    BY <1>0, <1>9, <2>2 DEF DevicePageFactor, RenderPage, DeviceTypeOK
  <2> QED BY <1>0, <1>9, <1>p, <2>3 DEF DevicePageFactor, DeviceInv, DeviceTypeOK
<1>10. ASSUME NEW token \in pages, DevicePageApprove(token) PROVE DeviceInv'
  <2> DEFINE c == token.code
  <2>1. c \in Codes /\ token.user \in Users
    BY <1>0, <1>10, TokenNames DEF DeviceTypeOK, DevicePageApprove, Holds
  <2>2. CASE ApproveDeviceAuthorization(token)
    <3> DEFINE row == [code[c] EXCEPT !.user = token.user]
    <3>1. row \in Rows /\ code' = [code EXCEPT ![c] = row] /\ ~code[c].consumed
      BY <1>r, <2>1, <2>2 DEF ApproveDeviceAuthorization, Approvable, Open, Unspent
    <3>2. row.denied = code[c].denied
      BY <1>r, <2>1
    <3>3. UNCHANGED <<pages, polled, granted, factor, told, sweeping>>
      BY <2>2 DEF ApproveDeviceAuthorization
    <3> HIDE DEF row
    <3>4. GrantInv'
      BY <2>1, <3>1, <3>2, <3>3, RowChanges
    <3> QED BY <1>0, <2>1, <3>1, <3>3, <3>4 DEF DeviceInv, DeviceTypeOK
  <2>3. CASE DenyDeviceAuthorization(token)
    <3>0. UNCHANGED <<pages, polled, granted, factor, sweeping>>
      BY <2>3 DEF DenyDeviceAuthorization
    <3>1. CASE /\ Deniable(c)
               /\ code' = [code EXCEPT ![c].denied = TRUE]
               /\ told' = told \cup {<<c, "stopped">>}
      <4>1. ~code[c].consumed
        BY <3>1 DEF Deniable, Open, Unspent
      <4>2. code' = [code EXCEPT ![c] = [code[c] EXCEPT !.denied = TRUE]]
        BY <3>1
      <4>3. code' \in [Codes -> Rows]
        BY <1>0, <1>r, <2>1, <4>2 DEF DeviceTypeOK
      <4>t. told' \subseteq Answers
        <5> HIDE DEF Answers
        <5> QED BY <1>t, <2>1, <3>1
      <4>4. code'[c].denied /\ \A d \in Codes : d # c => code'[d] = code[d]
        BY <1>0, <1>r, <2>1, <4>2 DEF DeviceTypeOK
      <4>5. \A g \in granted : g.code # c /\ g.code \in Codes
        BY <1>0, <4>1 DEF GrantInv, DeviceTypeOK
      <4>6. <<c, "revoked">> \notin told
        BY <1>0, <2>1, <4>1 DEF GrantInv
      <4> HIDE DEF c
      <4>7. GrantInv'
        BY <1>0, <2>1, <3>0, <3>1, <4>4, <4>5, <4>6 DEF GrantInv
      <4> QED BY <1>0, <3>0, <4>3, <4>t, <4>7 DEF DeviceInv, DeviceTypeOK
    <3>2. CASE /\ Revocable(c, token.user)
               /\ code' = [code EXCEPT ![c].consumed = TRUE]
               /\ told' = told \cup {<<c, "revoked">>}
      <4>1. ~code[c].consumed
        BY <3>2 DEF Revocable
      <4>2. code' = [code EXCEPT ![c] = [code[c] EXCEPT !.consumed = TRUE]]
        BY <3>2
      <4>3. code' \in [Codes -> Rows]
        BY <1>0, <1>r, <2>1, <4>2 DEF DeviceTypeOK
      <4>t. told' \subseteq Answers
        <5> HIDE DEF Answers
        <5> QED BY <1>t, <2>1, <3>2
      <4>4. /\ code'[c].consumed /\ code'[c].denied = code[c].denied
            /\ \A d \in Codes : d # c => code'[d] = code[d]
        BY <1>0, <1>r, <2>1, <4>2 DEF DeviceTypeOK
      <4>5. \A g \in granted : g.code # c /\ g.code \in Codes
        BY <1>0, <4>1 DEF GrantInv, DeviceTypeOK
      <4> HIDE DEF c
      <4>7. GrantInv'
        BY <1>0, <2>1, <3>0, <3>2, <4>4, <4>5 DEF GrantInv
      <4> QED BY <1>0, <3>0, <4>3, <4>t, <4>7 DEF DeviceInv, DeviceTypeOK
    <3>3. CASE told' = told \cup {<<c, "too late">>} /\ UNCHANGED code
      <4>1. GrantInv'
        BY <1>0, <3>0, <3>3 DEF GrantInv
      <4>2. told' \subseteq Answers
        <5> HIDE DEF Answers
        <5> QED BY <1>t, <2>1, <3>3
      <4> QED BY <1>0, <3>0, <3>3, <4>1, <4>2 DEF DeviceInv, DeviceTypeOK
    <3> QED BY <2>3, <3>1, <3>2, <3>3 DEF DenyDeviceAuthorization
  <2> QED BY <1>10, <2>2, <2>3 DEF DevicePageApprove
<1>11. ASSUME NEW u \in Users, RevokeAllSessionsForUser(u) PROVE DeviceInv'
  <2> DEFINE ends == {g \in granted : g.user = u /\ g.live}
  <2>1. sweeping' = [sweeping EXCEPT ![u] = ends] /\ UNCHANGED <<code, pages, polled, granted, factor, told>>
    BY <1>11 DEF RevokeAllSessionsForUser
  <2>2. ends \in SUBSET Sessions
    BY <1>0 DEF DeviceTypeOK
  <2>3. sweeping' \in [Users -> (SUBSET Sessions) \cup {NotRevoking}]
    BY <1>0, <2>1, <2>2 DEF DeviceTypeOK
  <2>4. GrantInv'
    BY <1>0, <2>1 DEF GrantInv, DeviceTypeOK
  <2> QED BY <1>0, <2>1, <2>3, <2>4 DEF DeviceInv, DeviceTypeOK
<1>12. ASSUME NEW u \in Users, RevokeDeviceCodesForUser(u) PROVE DeviceInv'
  <2> DEFINE ended(g) == [g EXCEPT !.live = FALSE]
  <2>1. /\ granted' = (granted \ sweeping[u]) \cup {ended(g) : g \in sweeping[u]}
        /\ code' = [c \in Codes |-> IF Revocable(c, u) THEN [code[c] EXCEPT !.consumed = TRUE] ELSE code[c]]
        /\ told' = told \cup {<<c, "revoked">> : c \in {d \in Codes : Revocable(d, u)}}
        /\ sweeping' = [sweeping EXCEPT ![u] = NotRevoking]
        /\ sweeping[u] # NotRevoking
        /\ UNCHANGED <<pages, polled, factor>>
    BY <1>12 DEF RevokeDeviceCodesForUser
  <2>2. \A g \in sweeping[u] : g \in granted /\ g.user = u
    BY <1>0, <2>1 DEF GrantInv
  <2>3. \A g \in granted : g \in Sessions
    BY <1>0 DEF DeviceTypeOK
  <2>4. \A g \in Sessions : ended(g) \in Sessions /\ ended(g).code = g.code /\ ended(g).user = g.user
    OBVIOUS
  <2>5. ASSUME NEW h \in granted'
        PROVE  \E g \in granted : /\ h \in Sessions /\ h.code = g.code /\ h.user = g.user
                                  /\ \/ h = g /\ g \notin sweeping[u]
                                     \/ h = ended(g) /\ g \in sweeping[u]
    <3> HIDE DEF ended, Sessions
    <3> QED BY <2>1, <2>2, <2>3, <2>4
  <2>6. \A c \in Codes : /\ code'[c] \in Rows /\ code'[c].user = code[c].user
                         /\ code'[c].denied = code[c].denied
                         /\ code[c].consumed => code'[c].consumed
                         /\ Revocable(c, u) => ~code[c].consumed /\ code'[c].consumed
    BY <1>r, <2>1 DEF Revocable
  <2>7. \A c \in Codes : /\ <<c, "stopped">> \in told' => <<c, "stopped">> \in told
                         /\ <<c, "revoked">> \in told' => <<c, "revoked">> \in told \/ Revocable(c, u)
    BY <2>1
  <2>8. code' \in [Codes -> Rows]
    BY <2>1, <2>6
  <2>t. told' \subseteq Answers
    <3> HIDE DEF Answers
    <3> QED BY <1>t, <2>1
  <2>9. granted' \subseteq Sessions
    BY <2>5
  <2>10. sweeping' \in [Users -> (SUBSET Sessions) \cup {NotRevoking}]
    BY <1>0, <2>1 DEF DeviceTypeOK
  <2> HIDE DEF ended
  <2>11. \A g, h \in granted' : g.code = h.code => g = h
    BY <1>0, <2>5 DEF GrantInv
  <2>12. \A g \in granted' : g.user = code'[g.code].user /\ code'[g.code].consumed /\ ~code'[g.code].denied
    BY <1>0, <2>5, <2>6 DEF GrantInv
  <2>13. \A c \in Codes : <<c, "stopped">> \in told' => code'[c].denied
    BY <1>0, <2>6, <2>7 DEF GrantInv
  <2>14. ASSUME NEW c \in Codes, <<c, "revoked">> \in told'
         PROVE  code'[c].consumed /\ \A g \in granted' : g.code # c
    <3>1. code'[c].consumed /\ \A g \in granted : g.code # c
      BY <1>0, <2>6, <2>7, <2>14 DEF GrantInv
    <3> QED BY <2>5, <3>1
  <2>15. ASSUME NEW v \in Users, sweeping'[v] # NotRevoking, NEW g \in sweeping'[v]
         PROVE  g \in granted' /\ g.user = v
    <3>1. v # u /\ sweeping'[v] = sweeping[v]
      BY <1>0, <2>1, <2>15 DEF DeviceTypeOK
    <3>2. g \in granted /\ g.user = v
      BY <1>0, <2>15, <3>1 DEF GrantInv
    <3> QED BY <2>1, <2>2, <3>1, <3>2
  <2>16. GrantInv'
    BY <2>11, <2>12, <2>13, <2>14, <2>15 DEF GrantInv
  <2> QED BY <1>0, <2>1, <2>8, <2>t, <2>9, <2>10, <2>16 DEF DeviceInv, DeviceTypeOK
<1> QED BY <1>1, <1>2, <1>3, <1>4, <1>5, <1>6, <1>7, <1>8, <1>9, <1>10, <1>11, <1>12 DEF DeviceNext

\* Steps of the other parts change nothing here.
LEMMA DeviceStutterInv == DeviceInv /\ UNCHANGED deviceVars => DeviceInv'
<1> SUFFICES ASSUME DeviceInv, UNCHANGED deviceVars PROVE DeviceInv'
  OBVIOUS
<1>1. DeviceTypeOK'
  BY DEF DeviceInv, DeviceTypeOK, deviceVars
<1>2. GrantInv'
  BY DEF DeviceInv, GrantInv, deviceVars
<1> QED BY <1>1, <1>2 DEF DeviceInv

\* A code has one session at most, its own account's; and none once somebody
\* was told it was stopped or taken back.
LEMMA DeviceSafe == DeviceInv => OneSessionPerCode /\ DenialSticks
<1> SUFFICES ASSUME DeviceInv PROVE OneSessionPerCode /\ DenialSticks
  OBVIOUS
<1>1. ASSUME NEW c \in Codes PROVE Cardinality({g \in granted : g.code = c}) <= 1
  BY AtMostOne DEF DeviceInv, GrantInv
<1> QED BY <1>1 DEF DeviceInv, GrantInv, OneSessionPerCode, DenialSticks

--------------------------------------------------------------------------------
(* The second factor.                                                      *)

\* The row's secret is the newest or none.  A time code that was accepted is of
\* a secret that is gone, or of a step the confirmed row has used; a recovery
\* code that was accepted is spent or cleared.
UsedInv ==
  /\ totp.secret \in {NoSecret, minted}
  /\ \A c \in TimeCode : accepted[c] >= 1 =>
       c[1] <= minted /\ (c[1] = totp.secret => totp.confirmed /\ c[2] <= totp.last)
  /\ \A b \in Batches : accepted[b] >= 1 => recovery[b] \in {"used", "gone"}

FactorInv == FactorTypeOK /\ UsedInv /\ CodeAcceptedOnce /\ DemandedFactorHasCodes

\* A time code is a secret and a step, and none of the marks for what is neither.
LEMMA TimeCodes ==
  /\ \A c \in TimeCode : c[1] \in Secrets /\ c[2] \in 1..Steps /\ c[1] # NoSecret
                         /\ c[1] \in Nat /\ c[2] \in Nat /\ c \notin Batches
  /\ \A c \in TimeCode \cup {NoCodeYet} : c[2] \in 0..Steps /\ (c[1] # NoSecret => c \in TimeCode)
BY TwoFactorAssumption DEF TimeCode, Secrets, NoSecret, NoCodeYet

\* Nothing is enrolled, and nothing was accepted.
LEMMA FactorInitInv == FactorInit => FactorInv
<1> SUFFICES ASSUME FactorInit PROVE FactorInv
  OBVIOUS
<1> USE TwoFactorAssumption
<1>1. Ready \in [at: {"ready", "begin", "confirm", "prove", "proved"},
                 code: TimeCode \cup {NoCodeYet}, for: Purposes]
  BY DEF Ready, Purposes
<1>2. FactorTypeOK
  BY <1>1 DEF FactorInit, FactorTypeOK, NoRow, NoSecret
<1>3. UsedInv /\ CodeAcceptedOnce /\ DemandedFactorHasCodes
  BY DEF FactorInit, UsedInv, CodeAcceptedOnce, DemandedFactorHasCodes, HasConfirmedFactor, NoRow
<1> QED BY <1>2, <1>3 DEF FactorInv

\* Counting a code that was not accepted before: it is accepted once now.
LEMMA CountFirst ==
  ASSUME FactorTypeOK, NEW c \in TimeCode \cup Batches, ~(accepted[c] >= 1)
  PROVE  Count(c) = [accepted EXCEPT ![c] = 1]
<1>1. accepted[c] \in 0..2
  BY DEF FactorTypeOK
<1>2. accepted[c] = 0
  BY <1>1
<1> QED BY <1>2 DEF Count

\* What a step used or spent is never accepted again while it could be: the
\* step's UPDATE asks for a later one than the row's last, and a recovery code's
\* for one that is still live.
LEMMA FactorStepInv == FactorInv /\ FactorNext => FactorInv'
<1> SUFFICES ASSUME FactorInv, FactorNext PROVE FactorInv'
  OBVIOUS
<1> USE TwoFactorAssumption
<1>0. FactorTypeOK /\ UsedInv /\ CodeAcceptedOnce /\ DemandedFactorHasCodes
  BY DEF FactorInv
<1> DEFINE Codings == TimeCode \cup {NoCodeYet}
<1> DEFINE Asks == [at: {"ready", "begin", "confirm", "prove", "proved"}, code: Codings, for: Purposes]
<1> DEFINE Rows == [secret: Secrets \cup {NoSecret}, confirmed: BOOLEAN, last: 0..Steps]
<1> DEFINE Kept == UNCHANGED <<totp, recovery, minted, accepted>>
<1>k. ASSUME Kept PROVE UsedInv' /\ CodeAcceptedOnce' /\ DemandedFactorHasCodes'
  BY <1>0, <1>k DEF UsedInv, CodeAcceptedOnce, DemandedFactorHasCodes, HasConfirmedFactor
<1>r. Ready \in Asks
  BY DEF Ready, Purposes
<1>t. /\ totp \in Rows /\ request \in [Requests -> Asks] /\ now \in 1..Steps /\ minted \in 0..MaxSecrets
      /\ recovery \in [Batches -> {"unwritten", "live", "used", "gone"}]
      /\ accepted \in [TimeCode \cup Batches -> 0..2]
  BY <1>0 DEF FactorTypeOK
<1>q. ASSUME NEW r \in Requests, request' = [request EXCEPT ![r] = Ready] PROVE request' \in [Requests -> Asks]
  <2> HIDE DEF Asks
  <2> QED BY <1>r, <1>t, <1>q
<1>1. CASE StepPasses
  <2>1. FactorTypeOK'
    BY <1>0, <1>1 DEF StepPasses, FactorTypeOK
  <2> QED BY <1>1, <1>k, <2>1 DEF StepPasses, FactorInv
<1>2. ASSUME NEW r \in Requests, BeginTOTPEnrollment(r) PROVE FactorInv'
  <2>1. request' \in [Requests -> Asks]
    BY <1>2, <1>t DEF BeginTOTPEnrollment
  <2>2. FactorTypeOK'
    BY <1>0, <1>2, <2>1 DEF BeginTOTPEnrollment, FactorTypeOK
  <2> QED BY <1>2, <1>k, <2>2 DEF BeginTOTPEnrollment, FactorInv
<1>3. ASSUME NEW r \in Requests, UpsertTOTPEnrollment(r) PROVE FactorInv'
  <2>1. /\ minted' = minted + 1 /\ minted' \in Secrets /\ minted' \in 0..MaxSecrets
        /\ UNCHANGED <<recovery, now, accepted>>
        /\ totp' = [totp EXCEPT !.secret = minted', !.confirmed = FALSE]
    BY <1>3, <1>t DEF UpsertTOTPEnrollment, Secrets
  <2>2. totp' \in Rows /\ totp'.secret = minted + 1 /\ totp'.confirmed = FALSE
    BY <1>t, <2>1
  <2>3. FactorTypeOK'
    BY <1>0, <1>3, <1>q, <2>1, <2>2 DEF UpsertTOTPEnrollment, FactorTypeOK
  <2>4. ASSUME NEW c \in TimeCode, accepted'[c] >= 1 PROVE c[1] <= minted' /\ c[1] # totp'.secret
    <3>1. c[1] <= minted /\ c[1] \in Nat
      BY <1>0, <2>1, <2>4, TimeCodes DEF UsedInv
    <3> QED BY <1>t, <2>1, <2>2, <3>1
  <2>5. UsedInv'
    BY <1>0, <2>1, <2>2, <2>4 DEF UsedInv
  <2>6. CodeAcceptedOnce' /\ DemandedFactorHasCodes'
    BY <1>0, <2>1, <2>2 DEF CodeAcceptedOnce, DemandedFactorHasCodes, HasConfirmedFactor
  <2> QED BY <2>3, <2>5, <2>6 DEF FactorInv
<1>4. ASSUME NEW r \in Requests, ConfirmTOTPEnrollment(r) PROVE FactorInv'
  <2>1. PICK c \in TimeCode : request' = [request EXCEPT ![r].at = "confirm", ![r].code = c]
    BY <1>4 DEF ConfirmTOTPEnrollment
  <2>2. request' \in [Requests -> Asks]
    <3> DEFINE ask == [request[r] EXCEPT !.at = "confirm", !.code = c]
    <3>1. ask \in Asks
      BY <1>t
    <3>2. request' = [q \in Requests |-> IF q = r THEN ask ELSE request[q]]
      BY <1>t, <2>1
    <3> HIDE DEF ask, Asks
    <3> QED BY <1>t, <3>1, <3>2
  <2>3. FactorTypeOK'
    BY <1>0, <1>4, <2>2 DEF ConfirmTOTPEnrollment, FactorTypeOK
  <2> QED BY <1>4, <1>k, <2>3 DEF ConfirmTOTPEnrollment, FactorInv
<1>5. ASSUME NEW r \in Requests, ConfirmTOTP(r) PROVE FactorInv'
  <2> DEFINE c == request[r].code
  <2>0. c \in Codings /\ request' = [request EXCEPT ![r] = Ready] /\ UNCHANGED <<now, minted>>
    BY <1>5, <1>t DEF ConfirmTOTP
  <2>1. CASE UNCHANGED <<totp, recovery, accepted>>
    <3>1. FactorTypeOK'
      BY <1>0, <1>q, <2>0, <2>1 DEF FactorTypeOK
    <3> QED BY <1>k, <2>0, <2>1, <3>1 DEF FactorInv
  <2>2. CASE /\ totp.secret # NoSecret /\ ~totp.confirmed
             /\ totp' = [totp EXCEPT !.confirmed = TRUE, !.last = IF @ < c[2] THEN c[2] ELSE @]
             /\ WriteRecoveryCodes(recovery)
             /\ accepted' = IF totp.secret = c[1] THEN Count(c) ELSE accepted
    <3>1. PICK b \in Batches : recovery[b] = "unwritten" /\ recovery' = [recovery EXCEPT ![b] = "live"]
      BY <2>2 DEF WriteRecoveryCodes
    <3>2. c[2] \in 0..Steps /\ (totp.secret = c[1] => c \in TimeCode)
      BY <2>0, <2>2, TimeCodes
    <3>3. /\ totp' \in Rows /\ totp'.secret = totp.secret /\ totp'.confirmed
          /\ totp'.last >= c[2]
      <4> DEFINE last == IF totp.last < c[2] THEN c[2] ELSE totp.last
      <4>1. last \in 0..Steps /\ last >= c[2]
        BY <1>t, <3>2
      <4>2. totp' = [totp EXCEPT !.confirmed = TRUE, !.last = last]
        BY <2>2
      <4> HIDE DEF c, last
      <4> QED BY <1>t, <4>1, <4>2
    <3>4. recovery' \in [Batches -> {"unwritten", "live", "used", "gone"}]
      BY <1>t, <3>1
    <3>5. \A d \in TimeCode : d[1] = totp.secret => ~(accepted[d] >= 1)
      BY <1>0, <2>2 DEF UsedInv
    <3>6. accepted' = accepted \/ (c \in TimeCode /\ totp.secret = c[1] /\ accepted' = [accepted EXCEPT ![c] = 1])
      BY <1>0, <2>2, <3>2, <3>5, CountFirst
    <3> HIDE DEF c
    <3>7. accepted' \in [TimeCode \cup Batches -> 0..2]
      BY <1>t, <3>6
    <3>8. FactorTypeOK'
      BY <1>0, <1>q, <2>0, <3>3, <3>4, <3>7 DEF FactorTypeOK
    <3>9. ASSUME NEW d \in TimeCode, accepted'[d] >= 1
          PROVE  d[1] <= minted' /\ (d[1] = totp'.secret => totp'.confirmed /\ d[2] <= totp'.last)
      <4>1. CASE accepted[d] >= 1
        BY <1>0, <2>0, <3>3, <3>5, <4>1 DEF UsedInv
      <4>2. CASE ~(accepted[d] >= 1)
        <5>1. d = c /\ totp.secret = c[1]
          BY <1>t, <3>6, <3>9, <4>2
        <5>2. totp.secret = minted
          BY <1>0, <2>2 DEF UsedInv
        <5> QED BY <1>t, <2>0, <3>2, <3>3, <5>1, <5>2
      <4> QED BY <4>1, <4>2
    <3>10. ASSUME NEW e \in Batches, accepted'[e] >= 1 PROVE recovery'[e] \in {"used", "gone"}
      <4>1. accepted'[e] = accepted[e]
        BY <1>t, <3>6, TimeCodes
      <4>2. recovery[e] \in {"used", "gone"}
        BY <1>0, <3>10, <4>1 DEF UsedInv
      <4> QED BY <1>t, <3>1, <4>2
    <3>11. UsedInv'
      BY <1>0, <2>0, <3>3, <3>9, <3>10 DEF UsedInv
    <3>12. CodeAcceptedOnce'
      BY <1>0, <1>t, <3>6 DEF CodeAcceptedOnce
    <3>13. DemandedFactorHasCodes'
      BY <1>t, <3>1 DEF DemandedFactorHasCodes
    <3> QED BY <3>8, <3>11, <3>12, <3>13 DEF FactorInv
  <2> QED BY <1>5, <2>1, <2>2 DEF ConfirmTOTP
<1>6. ASSUME NEW r \in Requests, ProveFactor(r) PROVE FactorInv'
  <2>1. PICK c \in TimeCode, p \in Purposes :
          request' = [request EXCEPT ![r] = [at |-> "prove", code |-> c, for |-> p]]
    BY <1>6 DEF ProveFactor
  <2>2. request' \in [Requests -> Asks]
    BY <1>t, <2>1
  <2>3. FactorTypeOK'
    BY <1>0, <1>6, <2>2 DEF ProveFactor, FactorTypeOK
  <2> QED BY <1>6, <1>k, <2>3 DEF ProveFactor, FactorInv
<1>7. ASSUME NEW r \in Requests, MarkTOTPStepUsed(r) PROVE FactorInv'
  <2> DEFINE c == request[r].code
  <2>0. c \in Codings /\ UNCHANGED <<recovery, now, minted>>
    BY <1>7, <1>t DEF MarkTOTPStepUsed
  <2>1. CASE UNCHANGED <<totp, accepted>> /\ request' = [request EXCEPT ![r] = Ready]
    <3>1. FactorTypeOK'
      BY <1>0, <1>q, <2>0, <2>1 DEF FactorTypeOK
    <3> QED BY <1>k, <2>0, <2>1, <3>1 DEF FactorInv
  <2>2. CASE /\ StepUnused(c[2])
             /\ totp' = [totp EXCEPT !.last = c[2]]
             /\ accepted' = IF totp.secret = c[1] THEN Count(c) ELSE accepted
             /\ request' = [request EXCEPT ![r].at = "proved"]
    <3>1. totp.secret # NoSecret /\ totp.confirmed /\ totp.last < c[2]
      BY <2>2 DEF StepUnused, HasConfirmedFactor
    <3>2. c[2] \in 0..Steps /\ (totp.secret = c[1] => c \in TimeCode)
      BY <2>0, <3>1, TimeCodes
    <3>3. totp' \in Rows /\ totp'.secret = totp.secret /\ totp'.confirmed /\ totp'.last = c[2]
      <4> HIDE DEF c
      <4> QED BY <1>t, <2>2, <3>1, <3>2
    <3>4. request' \in [Requests -> Asks]
      BY <1>t, <2>2
    <3>5. \A d \in TimeCode : d[1] = totp.secret /\ accepted[d] >= 1 => d[2] <= totp.last /\ d[2] < c[2]
      BY <1>0, <1>t, <3>1, <3>2, TimeCodes DEF UsedInv
    <3>6. accepted' = accepted \/ (c \in TimeCode /\ totp.secret = c[1] /\ accepted' = [accepted EXCEPT ![c] = 1])
      <4>1. CASE totp.secret = c[1]
        <5>1. ~(accepted[c] >= 1)
          BY <3>2, <3>5, <4>1
        <5> QED BY <1>0, <2>2, <3>2, <4>1, <5>1, CountFirst
      <4> QED BY <2>2, <4>1
    <3> HIDE DEF c
    <3>7. accepted' \in [TimeCode \cup Batches -> 0..2]
      BY <1>t, <3>6
    <3>8. FactorTypeOK'
      BY <1>0, <2>0, <3>3, <3>4, <3>7 DEF FactorTypeOK
    <3>9. ASSUME NEW d \in TimeCode, accepted'[d] >= 1
          PROVE  d[1] <= minted' /\ (d[1] = totp'.secret => totp'.confirmed /\ d[2] <= totp'.last)
      <4>1. CASE accepted[d] >= 1
        <5>1. d[1] <= minted
          BY <1>0, <4>1 DEF UsedInv
        <5>2. d[1] = totp.secret => d[2] <= c[2]
          BY <3>2, <3>5, <4>1, TimeCodes
        <5> QED BY <2>0, <3>3, <5>1, <5>2
      <4>2. CASE ~(accepted[d] >= 1)
        <5>1. d = c /\ totp.secret = c[1]
          BY <1>t, <3>6, <3>9, <4>2
        <5>2. totp.secret = minted
          BY <1>0, <3>1 DEF UsedInv
        <5> QED BY <1>t, <2>0, <3>2, <3>3, <5>1, <5>2
      <4> QED BY <4>1, <4>2
    <3>10. ASSUME NEW e \in Batches, accepted'[e] >= 1 PROVE recovery'[e] \in {"used", "gone"}
      <4>1. accepted'[e] = accepted[e]
        BY <1>t, <3>6, TimeCodes
      <4> QED BY <1>0, <2>0, <3>10, <4>1 DEF UsedInv
    <3>11. UsedInv'
      BY <1>0, <2>0, <3>3, <3>9, <3>10 DEF UsedInv
    <3>12. CodeAcceptedOnce'
      BY <1>0, <1>t, <3>6 DEF CodeAcceptedOnce
    <3>13. DemandedFactorHasCodes'
      BY <1>0, <2>0, <3>1 DEF DemandedFactorHasCodes, HasConfirmedFactor
    <3> QED BY <3>8, <3>11, <3>12, <3>13 DEF FactorInv
  <2> QED BY <1>7, <2>1, <2>2 DEF MarkTOTPStepUsed
<1>8. ASSUME NEW r \in Requests, ProveRecoveryCode(r) PROVE FactorInv'
  <2>1. PICK b \in Batches, p \in Purposes :
          /\ recovery[b] = "live"
          /\ recovery' = [recovery EXCEPT ![b] = "used"]
          /\ accepted' = Count(b)
          /\ request' = [request EXCEPT ![r] = [at |-> "proved", code |-> NoCodeYet, for |-> p]]
    BY <1>8 DEF ProveRecoveryCode
  <2>2. UNCHANGED <<totp, now, minted>>
    BY <1>8 DEF ProveRecoveryCode
  <2>3. request' \in [Requests -> Asks]
    BY <1>t, <2>1
  <2>4. recovery' \in [Batches -> {"unwritten", "live", "used", "gone"}]
    BY <1>t, <2>1
  <2>5. accepted' = [accepted EXCEPT ![b] = 1]
    <3>1. ~(accepted[b] >= 1)
      BY <1>0, <2>1 DEF UsedInv
    <3> QED BY <1>0, <2>1, <3>1, CountFirst
  <2>6. accepted' \in [TimeCode \cup Batches -> 0..2] /\ \A c \in TimeCode : accepted'[c] = accepted[c]
    BY <1>t, <2>5, TimeCodes
  <2>7. FactorTypeOK'
    BY <1>0, <2>2, <2>3, <2>4, <2>6 DEF FactorTypeOK
  <2>8. ASSUME NEW e \in Batches, accepted'[e] >= 1 PROVE recovery'[e] \in {"used", "gone"}
    <3>1. CASE e = b
      BY <1>t, <2>1, <3>1
    <3>2. CASE e # b
      <4>1. accepted'[e] = accepted[e] /\ recovery'[e] = recovery[e]
        BY <1>t, <2>1, <2>5, <3>2
      <4> QED BY <1>0, <2>8, <4>1 DEF UsedInv
    <3> QED BY <3>1, <3>2
  <2>9. UsedInv'
    BY <1>0, <2>2, <2>6, <2>8 DEF UsedInv
  <2>10. CodeAcceptedOnce'
    BY <1>0, <1>t, <2>5 DEF CodeAcceptedOnce
  <2>11. DemandedFactorHasCodes'
    BY <1>t, <2>1 DEF DemandedFactorHasCodes
  <2> QED BY <2>7, <2>9, <2>10, <2>11 DEF FactorInv
<1>9. ASSUME NEW r \in Requests, CompleteTwoFactorLogin(r) PROVE FactorInv'
  <2>1. FactorTypeOK'
    BY <1>0, <1>9, <1>q DEF CompleteTwoFactorLogin, FactorTypeOK
  <2> QED BY <1>9, <1>k, <2>1 DEF CompleteTwoFactorLogin, FactorInv
<1>c. Cleared \in [Batches -> {"unwritten", "live", "used", "gone"}]
      /\ \A b \in Batches : recovery[b] \in {"used", "gone"} => Cleared[b] \in {"used", "gone"}
  BY <1>t DEF Cleared
<1>10. ASSUME NEW r \in Requests, DisableTwoFactor(r) PROVE FactorInv'
  <2>1. /\ totp' = NoRow /\ recovery' = Cleared /\ request' = [request EXCEPT ![r] = Ready]
        /\ UNCHANGED <<now, minted, accepted>>
    BY <1>10 DEF DisableTwoFactor
  <2>2. totp' \in Rows /\ totp'.secret = NoSecret
    BY <2>1 DEF NoRow, NoSecret
  <2>3. FactorTypeOK'
    BY <1>0, <1>c, <1>q, <2>1, <2>2 DEF FactorTypeOK
  <2>4. UsedInv'
    BY <1>0, <1>c, <2>1, <2>2, TimeCodes DEF UsedInv
  <2>5. CodeAcceptedOnce' /\ DemandedFactorHasCodes'
    BY <1>0, <2>1, <2>2 DEF CodeAcceptedOnce, DemandedFactorHasCodes, HasConfirmedFactor
  <2> QED BY <2>3, <2>4, <2>5 DEF FactorInv
<1>11. ASSUME NEW r \in Requests, RegenerateRecoveryCodes(r) PROVE FactorInv'
  <2>1. PICK b \in Batches : Cleared[b] = "unwritten" /\ recovery' = [Cleared EXCEPT ![b] = "live"]
    BY <1>11 DEF RegenerateRecoveryCodes, WriteRecoveryCodes
  <2>2. request' = [request EXCEPT ![r] = Ready] /\ UNCHANGED <<totp, now, minted, accepted>>
    BY <1>11 DEF RegenerateRecoveryCodes
  <2>3. recovery' \in [Batches -> {"unwritten", "live", "used", "gone"}] /\ recovery'[b] = "live"
        /\ \A e \in Batches : recovery[e] \in {"used", "gone"} => recovery'[e] \in {"used", "gone"}
    BY <1>c, <2>1
  <2>4. FactorTypeOK'
    BY <1>0, <1>q, <2>2, <2>3 DEF FactorTypeOK
  <2>5. UsedInv'
    BY <1>0, <2>2, <2>3 DEF UsedInv
  <2>6. CodeAcceptedOnce' /\ DemandedFactorHasCodes'
    BY <1>0, <2>2, <2>3 DEF CodeAcceptedOnce, DemandedFactorHasCodes
  <2> QED BY <2>4, <2>5, <2>6 DEF FactorInv
<1> QED BY <1>1, <1>2, <1>3, <1>4, <1>5, <1>6, <1>7, <1>8, <1>9, <1>10, <1>11 DEF FactorNext

\* Steps of the other parts change nothing here.
LEMMA FactorStutterInv == FactorInv /\ UNCHANGED factorVars => FactorInv'
<1> SUFFICES ASSUME FactorInv, UNCHANGED factorVars PROVE FactorInv'
  OBVIOUS
<1>1. FactorTypeOK'
  BY DEF FactorInv, FactorTypeOK, factorVars
<1>2. UsedInv' /\ CodeAcceptedOnce' /\ DemandedFactorHasCodes'
  BY DEF FactorInv, UsedInv, CodeAcceptedOnce, DemandedFactorHasCodes, HasConfirmedFactor, factorVars
<1> QED BY <1>1, <1>2 DEF FactorInv

--------------------------------------------------------------------------------
(* Provider sign-in.                                                       *)

\* What a flow, a code, a token, a session and a confirmation rest on.  All of
\* it is about a flow that ended, a link that is there or an address that is
\* proved, none of which is ever taken back.
FlowRows == [at: {"new", "begun", "resolve", "link", "done"}, device: BOOLEAN,
             who: Claims \cup {NoIdentity}, user: Users \cup {NoOne}]

IsProved(u) == \E e \in Emails : holder[e] = u /\ e \in proved

FlowOk(f) ==
  /\ flow[f].at \in {"resolve", "link"} => flow[f].who \in Claims
  /\ flow[f].at = "link" => flow[f].user \in Users /\ IsProved(flow[f].user)

\* The flow f ended as its own client's, with an identity linked to account u.
EndedFor(f, u) ==
  /\ flow[f].at = "done" /\ ~flow[f].device /\ flow[f].who \in Claims
  /\ linked[flow[f].who.ident] = u

CodeOk(f) ==
  /\ exchange[f].user # NoOne => EndedFor(f, exchange[f].user)
  /\ ~exchange[f].spent \/ f \in redeeming => exchange[f].user # NoOne

TokenOk(t) ==
  /\ flow[t.flow].at = "done" /\ flow[t.flow].who = t.who
  /\ t.byMail \/ (t.who.vouched /\ t.who.email \in proved)

OAuthFacts ==
  /\ \A f \in Flows : FlowOk(f) /\ CodeOk(f)
  /\ \A t \in signup : TokenOk(t)
  /\ \A s \in signedIn : EndedFor(s[1], s[2])
  /\ \A u \in confirmed : IsProved(u)

OAuthInv == OAuthTypeOK /\ OAuthFacts

\* No flow was begun at first.
LEMMA OAuthInitInv == OAuthInit => OAuthInv
<1> SUFFICES ASSUME OAuthInit PROVE OAuthInv
  OBVIOUS
<1>1. flow \in [Flows -> FlowRows]
  BY DEF OAuthInit, FlowRows
<1>2. exchange \in [Flows -> [user: Users \cup {NoOne}, spent: BOOLEAN]]
  BY DEF OAuthInit, NoCode
<1>3. OAuthTypeOK
  BY <1>1, <1>2 DEF OAuthInit, OAuthTypeOK, FlowRows
<1>4. OAuthFacts
  BY DEF OAuthInit, OAuthFacts, FlowOk, CodeOk, NoCode
<1> QED BY <1>3, <1>4 DEF OAuthInv

\* What no step takes back: a link, the account of an address, a proof, and how
\* a flow ended.
OnlyGrows ==
  /\ \A i \in Identities : linked[i] # NoOne => linked'[i] = linked[i]
  /\ \A e \in Emails : holder[e] # NoOne => holder'[e] = holder[e]
  /\ proved \subseteq proved'
  /\ \A f \in Flows : flow[f].at = "done" =>
       flow'[f].at = "done" /\ flow'[f].device = flow[f].device /\ flow'[f].who = flow[f].who

\* So what rests on it stays true, but for what the step itself adds.
LEMMA FactsKept ==
  ASSUME OAuthInv, OnlyGrows
  PROVE  /\ \A f \in Flows : flow'[f] = flow[f] => FlowOk(f)'
         /\ \A f \in Flows, u \in Users : EndedFor(f, u) => EndedFor(f, u)'
         /\ \A t \in signup : TokenOk(t)'
         /\ \A s \in signedIn : EndedFor(s[1], s[2])'
         /\ \A u \in Users : IsProved(u) => IsProved(u)'
<1>0. OAuthTypeOK /\ OAuthFacts /\ NoOne \notin Users
  BY NoOneIsNoUser DEF OAuthInv
<1>1. \A u \in Users : IsProved(u) => IsProved(u)'
  BY <1>0 DEF IsProved, OnlyGrows
<1>2. ASSUME NEW f \in Flows, flow'[f] = flow[f] PROVE FlowOk(f)'
  <2>1. FlowOk(f)
    BY <1>0 DEF OAuthFacts
  <2> QED BY <1>1, <1>2, <2>1 DEF FlowOk
<1>3. ASSUME NEW f \in Flows, NEW u \in Users, EndedFor(f, u) PROVE EndedFor(f, u)'
  <2>1. flow[f].who.ident \in Identities /\ u # NoOne
    BY <1>0, <1>3 DEF EndedFor, Claims
  <2> QED BY <1>3, <2>1 DEF EndedFor, OnlyGrows
<1>4. ASSUME NEW t \in signup PROVE TokenOk(t)'
  <2>1. t.flow \in Flows /\ TokenOk(t)
    BY <1>0 DEF OAuthTypeOK, OAuthFacts
  <2> QED BY <2>1 DEF TokenOk, OnlyGrows
<1>5. ASSUME NEW s \in signedIn PROVE EndedFor(s[1], s[2])'
  <2>1. s[1] \in Flows /\ s[2] \in Users /\ EndedFor(s[1], s[2])
    BY <1>0 DEF OAuthTypeOK, OAuthFacts
  <2> QED BY <1>3, <2>1
<1> QED BY <1>1, <1>2, <1>3, <1>4, <1>5

\* A code the step leaves to the same account stays sound.
LEMMA CodeKept ==
  ASSUME OAuthInv, OnlyGrows, NEW f \in Flows,
         exchange'[f].user = exchange[f].user, exchange[f].spent => exchange'[f].spent,
         f \in redeeming' => f \in redeeming \/ ~exchange[f].spent
  PROVE  CodeOk(f)'
<1>1. CodeOk(f) /\ exchange[f] \in [user: Users \cup {NoOne}, spent: BOOLEAN]
  BY DEF OAuthInv, OAuthFacts, OAuthTypeOK
<1>2. \A u \in Users : EndedFor(f, u) => EndedFor(f, u)'
  BY FactsKept
<1> QED BY <1>1, <1>2 DEF CodeOk

\* A code issued for a flow that ended for this account is sound.
LEMMA CodeIssued ==
  ASSUME NEW f \in Flows, NEW u \in Users, exchange'[f].user = u, EndedFor(f, u)'
  PROVE  CodeOk(f)'
BY NoOneIsNoUser DEF CodeOk

\* A step that moves one flow on keeps how the others, and a flow that had
\* ended, stand.
LEMMA OneFlowMoves ==
  ASSUME OAuthInv, NEW f \in Flows, NEW row \in FlowRows, flow' = [flow EXCEPT ![f] = row],
         flow[f].at = "done" => row.at = "done" /\ row.device = flow[f].device /\ row.who = flow[f].who
  PROVE  /\ flow' \in [Flows -> FlowRows] /\ flow'[f] = row
         /\ \A g \in Flows : g # f => flow'[g] = flow[g]
         /\ \A g \in Flows : flow[g].at = "done" =>
              flow'[g].at = "done" /\ flow'[g].device = flow[g].device /\ flow'[g].who = flow[g].who
<1>1. flow \in [Flows -> FlowRows]
  BY DEF OAuthInv, OAuthTypeOK, FlowRows
<1> HIDE DEF FlowRows
<1> QED BY <1>1

\* A callback's account comes from its own flow's identity, by a link that is
\* there when the code is issued; a link, a sign-up or a redeemed code that
\* loses a race changes nothing that was said before.
LEMMA OAuthStepInv == OAuthInv /\ OAuthNext => OAuthInv'
<1> SUFFICES ASSUME OAuthInv, OAuthNext PROVE OAuthInv'
  OBVIOUS
<1> USE OAuthAssumption, NoOneIsNoUser
<1> DEFINE CodeRows == [user: Users \cup {NoOne}, spent: BOOLEAN]
<1>0. OAuthTypeOK /\ OAuthFacts
  BY DEF OAuthInv
<1>t. /\ holder \in [Emails -> Users \cup {NoOne}] /\ confirmed \subseteq Users
      /\ linked \in [Identities -> Users \cup {NoOne}] /\ flow \in [Flows -> FlowRows]
      /\ signup \subseteq [flow: Flows, who: Claims, byMail: BOOLEAN]
      /\ exchange \in [Flows -> CodeRows]
      /\ redeeming \subseteq Flows /\ proved \subseteq Emails /\ signedIn \subseteq Flows \X Users
  BY <1>0 DEF OAuthTypeOK, FlowRows
<1>f. ASSUME NEW f \in Flows
      PROVE  /\ flow[f] \in FlowRows /\ exchange[f] \in CodeRows /\ FlowOk(f) /\ CodeOk(f)
             /\ flow[f].who \in Claims => flow[f].who.ident \in Identities /\ flow[f].who.email \in Emails
                                          /\ flow[f].who.vouched \in BOOLEAN
  BY <1>0, <1>t DEF OAuthFacts, Claims
<1>n. ASSUME NEW f \in Flows, flow[f].at # "done" PROVE exchange[f].user = NoOne
  BY <1>f, <1>n DEF CodeOk, EndedFor
<1>1. ASSUME NEW f \in Flows, StartOAuth(f) \/ CompleteOAuth(f) \/ OAuthStateExpires(f) PROVE OAuthInv'
  <2>1. PICK row \in FlowRows : /\ flow' = [flow EXCEPT ![f] = row]
                                /\ flow[f].at \in {"new", "begun"} /\ row.at \in {"begun", "resolve", "done"}
                                /\ row.at = "resolve" => row.who \in Claims
    <3>1. CASE StartOAuth(f)
      <4>1. PICK device \in BOOLEAN : flow' = [flow EXCEPT ![f].at = "begun", ![f].device = device]
        BY <3>1 DEF StartOAuth
      <4> DEFINE row == [flow[f] EXCEPT !.at = "begun", !.device = device]
      <4>2. row \in FlowRows /\ row.at = "begun"
        BY <1>f DEF FlowRows
      <4>3. flow' = [flow EXCEPT ![f] = row]
        BY <1>t, <4>1
      <4> HIDE DEF row
      <4> QED BY <3>1, <4>2, <4>3 DEF StartOAuth
    <3>2. ASSUME flow' = [flow EXCEPT ![f].at = "done"], flow[f].at = "begun"
          PROVE  \E row \in FlowRows : /\ flow' = [flow EXCEPT ![f] = row]
                                       /\ flow[f].at \in {"new", "begun"} /\ row.at = "done"
      <4> DEFINE row == [flow[f] EXCEPT !.at = "done"]
      <4>2. row \in FlowRows /\ row.at = "done"
        BY <1>f DEF FlowRows
      <4>3. flow' = [flow EXCEPT ![f] = row]
        BY <1>t, <3>2
      <4> HIDE DEF row
      <4> QED BY <3>2, <4>2, <4>3
    <3>3. ASSUME NEW who \in Claims, flow' = [flow EXCEPT ![f].at = "resolve", ![f].who = who], flow[f].at = "begun"
          PROVE  \E row \in FlowRows : /\ flow' = [flow EXCEPT ![f] = row] /\ row.at = "resolve"
                                       /\ flow[f].at \in {"new", "begun"} /\ row.who \in Claims
      <4> DEFINE row == [flow[f] EXCEPT !.at = "resolve", !.who = who]
      <4>2. row \in FlowRows /\ row.at = "resolve" /\ row.who \in Claims
        BY <1>f DEF FlowRows
      <4>3. flow' = [flow EXCEPT ![f] = row]
        BY <1>t, <3>3
      <4> HIDE DEF row
      <4> QED BY <3>3, <4>2, <4>3
    <3> QED BY <1>1, <3>1, <3>2, <3>3 DEF CompleteOAuth, OAuthStateExpires
  <2>2. UNCHANGED <<holder, confirmed, linked, signup, exchange, redeeming, signedIn, proved>>
    BY <1>1 DEF StartOAuth, CompleteOAuth, OAuthStateExpires
  <2>3. /\ flow' \in [Flows -> FlowRows] /\ flow'[f] = row /\ \A g \in Flows : g # f => flow'[g] = flow[g]
        /\ OnlyGrows
    BY <2>1, <2>2, OneFlowMoves DEF OnlyGrows
  <2>4. OAuthTypeOK'
    BY <1>t, <2>2, <2>3 DEF OAuthTypeOK, FlowRows
  <2>5. \A g \in Flows : FlowOk(g)'
    BY <2>1, <2>3, FactsKept DEF FlowOk
  <2>6. \A g \in Flows : CodeOk(g)'
    BY <2>2, <2>3, CodeKept
  <2>7. OAuthFacts'
    BY <1>0, <1>t, <2>2, <2>3, <2>5, <2>6, FactsKept DEF OAuthFacts
  <2> QED BY <2>4, <2>7 DEF OAuthInv
<1>2. ASSUME NEW f \in Flows, ResolveOAuthIdentity(f) PROVE OAuthInv'
  <2> DEFINE who == flow[f].who
  <2>0. /\ flow[f].at = "resolve" /\ who \in Claims /\ exchange[f].user = NoOne
        /\ who.ident \in Identities /\ who.email \in Emails /\ who.vouched \in BOOLEAN
        /\ UNCHANGED <<holder, confirmed, linked, redeeming, signedIn>>
    BY <1>2, <1>f, <1>n DEF ResolveOAuthIdentity, FlowOk
  <2>1. CASE /\ linked[who.ident] # NoOne
             /\ SignedInOutcome(f, linked[who.ident])
             /\ UNCHANGED <<signup, proved>>
    <3>1. PICK u \in Users : u = linked[who.ident]
      BY <1>t, <2>0, <2>1
    <3> DEFINE row == [flow[f] EXCEPT !.at = "done", !.user = u]
    <3>2. row \in FlowRows /\ row.at = "done" /\ row.who = who /\ row.device = flow[f].device
      BY <1>f, <3>1 DEF FlowRows
    <3>3. flow' = [flow EXCEPT ![f] = row]
      BY <1>t, <2>1, <3>1 DEF SignedInOutcome
    <3> HIDE DEF row
    <3>4. /\ flow' \in [Flows -> FlowRows] /\ flow'[f] = row /\ \A g \in Flows : g # f => flow'[g] = flow[g]
          /\ OnlyGrows
      BY <2>0, <2>1, <3>2, <3>3, OneFlowMoves DEF OnlyGrows
    <3>5. /\ exchange' \in [Flows -> CodeRows]
          /\ \A g \in Flows : g # f => exchange'[g] = exchange[g]
          /\ flow[f].device => exchange' = exchange
          /\ ~flow[f].device => exchange'[f].user = u
      BY <1>t, <2>1, <3>1 DEF SignedInOutcome, IssueOAuthExchangeCode
    <3>6. OAuthTypeOK'
      BY <1>t, <2>0, <2>1, <3>4, <3>5 DEF OAuthTypeOK, FlowRows
    <3>7. \A g \in Flows : FlowOk(g)'
      BY <3>2, <3>4, FactsKept DEF FlowOk
    <3>8. ~flow[f].device => EndedFor(f, u)'
      BY <2>0, <3>1, <3>2, <3>4 DEF EndedFor
    <3>9. ASSUME NEW g \in Flows PROVE CodeOk(g)'
      <4>1. CASE g # f \/ flow[f].device
        BY <2>0, <3>4, <3>5, <4>1, CodeKept
      <4>2. CASE g = f /\ ~flow[f].device
        BY <3>5, <3>8, <4>2, CodeIssued
      <4> QED BY <1>f, <4>1, <4>2 DEF FlowRows
    <3>10. OAuthFacts'
      BY <1>0, <1>t, <2>0, <2>1, <3>4, <3>7, <3>9, FactsKept DEF OAuthFacts
    <3> QED BY <3>6, <3>10 DEF OAuthInv
  <2>2. ASSUME NEW row \in FlowRows, flow' = [flow EXCEPT ![f] = row], row.who = who, row.device = flow[f].device,
               \/ row.at = "done" /\ proved' \in {proved, proved \cup {who.email}}
               \/ /\ row.at = "link" /\ row.user \in Users /\ holder[who.email] = row.user
                  /\ proved' = proved \cup {who.email},
               UNCHANGED exchange,
               NEW token \in [flow: Flows, who: Claims, byMail: BOOLEAN],
               \/ UNCHANGED signup
               \/ /\ signup' = signup \cup {token} /\ token.flow = f /\ token.who = who /\ row.at = "done"
                  /\ token.byMail \/ (who.vouched /\ proved' = proved \cup {who.email})
        PROVE OAuthInv'
    <3>1. proved \subseteq proved' /\ proved' \subseteq Emails
      BY <1>t, <2>0, <2>2
    <3>2. /\ flow' \in [Flows -> FlowRows] /\ flow'[f] = row /\ \A g \in Flows : g # f => flow'[g] = flow[g]
          /\ OnlyGrows
      BY <2>0, <2>2, <3>1, OneFlowMoves DEF OnlyGrows
    <3>3. signup' \subseteq [flow: Flows, who: Claims, byMail: BOOLEAN]
      BY <1>t, <2>2
    <3>4. OAuthTypeOK'
      BY <1>t, <2>0, <2>2, <3>1, <3>2, <3>3 DEF OAuthTypeOK, FlowRows
    <3>5. FlowOk(f)'
      BY <2>0, <2>2, <3>2 DEF FlowOk, IsProved
    <3>6. \A g \in Flows : FlowOk(g)'
      BY <3>2, <3>5, FactsKept
    <3>7. \A g \in Flows : CodeOk(g)'
      BY <2>0, <2>2, <3>2, CodeKept
    <3>8. ASSUME NEW t \in signup' PROVE TokenOk(t)'
      <4>1. CASE t \in signup
        BY <3>2, <4>1, FactsKept
      <4>2. CASE t \notin signup
        BY <2>0, <2>2, <3>2, <4>2 DEF TokenOk
      <4> QED BY <4>1, <4>2
    <3>9. OAuthFacts'
      BY <1>0, <1>t, <2>0, <3>2, <3>6, <3>7, <3>8, FactsKept DEF OAuthFacts
    <3> QED BY <3>4, <3>9 DEF OAuthInv
  <2>d. ASSUME flow' = [flow EXCEPT ![f].at = "done"]
        PROVE  \E row \in FlowRows : flow' = [flow EXCEPT ![f] = row] /\ row.who = who
                                     /\ row.device = flow[f].device /\ row.at = "done"
    <3> DEFINE row == [flow[f] EXCEPT !.at = "done"]
    <3>1. row \in FlowRows /\ row.at = "done" /\ row.who = who /\ row.device = flow[f].device
      BY <1>f DEF FlowRows
    <3>2. flow' = [flow EXCEPT ![f] = row]
      BY <1>t, <2>d
    <3> HIDE DEF row
    <3> QED BY <3>1, <3>2
  <2>s. ASSUME NEW byMail \in BOOLEAN
        PROVE  /\ SignupToken(f, byMail) \in [flow: Flows, who: Claims, byMail: BOOLEAN]
               /\ SignupToken(f, byMail).flow = f /\ SignupToken(f, byMail).who = who
               /\ SignupToken(f, byMail).byMail = byMail
    BY <2>0 DEF SignupToken
  <2>3. CASE linked[who.ident] = NoOne /\ ~who.vouched /\ UnverifiedProviderAddress(f)
    <3>1. /\ flow' = [flow EXCEPT ![f].at = "done"] /\ UNCHANGED <<exchange, proved>>
          /\ UNCHANGED signup \/ signup' = signup \cup {SignupToken(f, TRUE)}
      BY <2>3 DEF UnverifiedProviderAddress
    <3> QED BY <2>2, <2>d, <2>s, <3>1
  <2>4. CASE /\ linked[who.ident] = NoOne /\ who.vouched /\ holder[who.email] # NoOne
             /\ flow' = [flow EXCEPT ![f].at = "link", ![f].user = holder[who.email]]
             /\ proved' = proved \cup {who.email}
             /\ UNCHANGED <<signup, exchange>>
    <3> DEFINE row == [flow[f] EXCEPT !.at = "link", !.user = holder[who.email]]
    <3>1. holder[who.email] \in Users
      BY <1>t, <2>0, <2>4
    <3>2. /\ row \in FlowRows /\ row.at = "link" /\ row.who = who /\ row.device = flow[f].device
          /\ row.user = holder[who.email]
      BY <1>f, <3>1 DEF FlowRows
    <3>3. flow' = [flow EXCEPT ![f] = row]
      BY <1>t, <2>4
    <3> HIDE DEF row
    <3> QED BY <2>2, <2>4, <2>s, <3>1, <3>2, <3>3
  <2>5. CASE /\ linked[who.ident] = NoOne /\ who.vouched /\ holder[who.email] = NoOne
             /\ flow' = [flow EXCEPT ![f].at = "done"]
             /\ signup' = IF RegistrationOpen
                          THEN signup \cup {SignupToken(f, FALSE)} ELSE signup
             /\ proved' = proved \cup {who.email}
             /\ UNCHANGED exchange
    BY <2>2, <2>5, <2>d, <2>s
  <2> QED BY <1>2, <2>1, <2>3, <2>4, <2>5 DEF ResolveOAuthIdentity
<1>3. ASSUME NEW f \in Flows, LinkOAuthIdentity(f) PROVE OAuthInv'
  <2>u. PICK u \in Users : u = flow[f].user
    BY <1>3, <1>f DEF LinkOAuthIdentity, FlowOk
  <2> DEFINE i == flow[f].who.ident
             free == linked[i] = NoOne /\ \A j \in Identities : linked[j] # u
  <2>0. /\ flow[f].at = "link" /\ flow[f].who \in Claims /\ exchange[f].user = NoOne
        /\ i \in Identities /\ IsProved(u)
        /\ UNCHANGED <<holder, signup, redeeming, signedIn, proved>>
    BY <1>3, <1>f, <1>n, <2>u DEF LinkOAuthIdentity, FlowOk
  <2>1. CASE /\ free \/ ClassifyLinkConflict(i, u)
             /\ linked' = IF free THEN CreateOAuthIdentity(i, u) ELSE linked
             /\ confirmed' = confirmed \cup {u}
             /\ SignedInOutcome(f, u)
    <3> DEFINE row == [flow[f] EXCEPT !.at = "done", !.user = u]
    <3>1. /\ linked' \in [Identities -> Users \cup {NoOne}] /\ linked'[i] = u
          /\ \A j \in Identities : linked[j] # NoOne => linked'[j] = linked[j]
      <4> HIDE DEF i
      <4> QED BY <1>t, <2>0, <2>1 DEF CreateOAuthIdentity, ClassifyLinkConflict
    <3>2. row \in FlowRows /\ row.at = "done" /\ row.who = flow[f].who /\ row.device = flow[f].device
      BY <1>f, <2>0 DEF FlowRows
    <3>3. flow' = [flow EXCEPT ![f] = row]
      BY <1>t, <2>1 DEF SignedInOutcome
    <3>5. /\ exchange' \in [Flows -> CodeRows]
          /\ \A g \in Flows : g # f => exchange'[g] = exchange[g]
          /\ flow[f].device => exchange' = exchange
          /\ ~flow[f].device => exchange'[f].user = u
      BY <1>t, <2>0, <2>1 DEF SignedInOutcome, IssueOAuthExchangeCode
    <3> HIDE DEF row
    <3>4. /\ flow' \in [Flows -> FlowRows] /\ flow'[f] = row /\ \A g \in Flows : g # f => flow'[g] = flow[g]
          /\ OnlyGrows
      BY <2>0, <3>1, <3>2, <3>3, OneFlowMoves DEF OnlyGrows
    <3>6. OAuthTypeOK'
      BY <1>t, <2>0, <2>1, <3>1, <3>4, <3>5 DEF OAuthTypeOK, FlowRows
    <3>7. \A g \in Flows : FlowOk(g)'
      BY <3>2, <3>4, FactsKept DEF FlowOk
    <3>8. ~flow[f].device => EndedFor(f, u)'
      BY <2>0, <3>1, <3>2, <3>4 DEF EndedFor
    <3>9. ASSUME NEW g \in Flows PROVE CodeOk(g)'
      <4>1. CASE g # f \/ flow[f].device
        BY <2>0, <3>4, <3>5, <4>1, CodeKept
      <4>2. CASE g = f /\ ~flow[f].device
        BY <3>5, <3>8, <4>2, CodeIssued
      <4> QED BY <1>f, <4>1, <4>2 DEF FlowRows
    <3>10. \A v \in confirmed' : IsProved(v)'
      BY <1>0, <1>t, <2>0, <2>1, <3>4, FactsKept DEF OAuthFacts
    <3>11. OAuthFacts'
      BY <2>0, <3>4, <3>7, <3>9, <3>10, FactsKept DEF OAuthFacts
    <3> QED BY <3>6, <3>11 DEF OAuthInv
  <2>2. CASE /\ flow' = [flow EXCEPT ![f].at = "done", ![f].user = NoOne]
             /\ UNCHANGED <<linked, confirmed, exchange>>
    <3> DEFINE row == [flow[f] EXCEPT !.at = "done", !.user = NoOne]
    <3>1. row \in FlowRows /\ row.at = "done"
      BY <1>f DEF FlowRows
    <3>2. flow' = [flow EXCEPT ![f] = row]
      BY <1>t, <2>2
    <3> HIDE DEF row
    <3>3. /\ flow' \in [Flows -> FlowRows] /\ flow'[f] = row /\ \A g \in Flows : g # f => flow'[g] = flow[g]
          /\ OnlyGrows
      BY <2>0, <2>2, <3>1, <3>2, OneFlowMoves DEF OnlyGrows
    <3>4. OAuthTypeOK'
      BY <1>t, <2>0, <2>2, <3>3 DEF OAuthTypeOK, FlowRows
    <3>5. \A g \in Flows : FlowOk(g)'
      BY <3>1, <3>3, FactsKept DEF FlowOk
    <3>6. \A g \in Flows : CodeOk(g)'
      BY <2>0, <2>2, <3>3, CodeKept
    <3>7. OAuthFacts'
      BY <1>0, <1>t, <2>0, <2>2, <3>3, <3>5, <3>6, FactsKept DEF OAuthFacts
    <3> QED BY <3>4, <3>7 DEF OAuthInv
  <2> QED BY <1>3, <2>u, <2>1, <2>2 DEF LinkOAuthIdentity
<1>4. ASSUME NEW t \in signup, NEW u \in Users, CompleteOAuthSignup(t, u) PROVE OAuthInv'
  <2> DEFINE f == t.flow
             i == t.who.ident
             e == t.who.email
  <2>0. /\ f \in Flows /\ i \in Identities /\ e \in Emails /\ t.who \in Claims /\ t.byMail \in BOOLEAN
        /\ flow[f].at = "done" /\ flow[f].who = t.who
        /\ t.byMail \/ (t.who.vouched /\ e \in proved)
    BY <1>0, <1>t DEF OAuthFacts, TokenOk, Claims
  <2>1. /\ holder[e] = NoOne /\ linked[i] = NoOne
        /\ holder' = [holder EXCEPT ![e] = u] /\ linked' = [linked EXCEPT ![i] = u]
        /\ confirmed' \in {confirmed, confirmed \cup {u}}
        /\ proved' = IF t.byMail THEN proved \cup {e} ELSE proved
        /\ flow' = IF t.byMail THEN flow ELSE [flow EXCEPT ![f].user = u]
        /\ exchange' = IF t.byMail \/ flow[f].device THEN exchange
                       ELSE [exchange EXCEPT ![f] = [user |-> u, spent |-> FALSE]]
        /\ UNCHANGED <<signup, redeeming, signedIn>>
    BY <1>4 DEF CompleteOAuthSignup, CreateOAuthUser, CreateOAuthIdentity, IssueOAuthExchangeCode
  <2>2. PICK row \in FlowRows : /\ flow' = [flow EXCEPT ![f] = row] /\ row.at = "done"
                                /\ row.who = t.who /\ row.device = flow[f].device
    <3> DEFINE row == IF t.byMail THEN flow[f] ELSE [flow[f] EXCEPT !.user = u]
    <3>1. row \in FlowRows /\ row.at = "done" /\ row.who = t.who /\ row.device = flow[f].device
      BY <1>f, <2>0 DEF FlowRows
    <3>2. flow' = [flow EXCEPT ![f] = row]
      <4> HIDE DEF f
      <4> QED BY <1>t, <2>0, <2>1
    <3> HIDE DEF row
    <3> QED BY <3>1, <3>2
  <2>3. /\ holder' \in [Emails -> Users \cup {NoOne}] /\ holder'[e] = u
        /\ \A x \in Emails : holder[x] # NoOne => holder'[x] = holder[x]
    <3> HIDE DEF e
    <3> QED BY <1>t, <2>0, <2>1
  <2>4. /\ linked' \in [Identities -> Users \cup {NoOne}] /\ linked'[i] = u
        /\ \A x \in Identities : linked[x] # NoOne => linked'[x] = linked[x]
    <3> HIDE DEF i
    <3> QED BY <1>t, <2>0, <2>1
  <2>5. proved \subseteq proved' /\ proved' \subseteq Emails /\ e \in proved' /\ confirmed' \subseteq Users
    BY <1>t, <2>0, <2>1
  <2>6. /\ exchange' \in [Flows -> CodeRows]
        /\ \A g \in Flows : g # f => exchange'[g] = exchange[g]
        /\ exchange'[f] = exchange[f] \/ (exchange'[f].user = u /\ ~flow[f].device)
    <3> HIDE DEF f
    <3>1. flow[f].device \in BOOLEAN
      BY <1>f, <2>0 DEF FlowRows
    <3> QED BY <1>t, <2>0, <2>1, <3>1
  <2> HIDE DEF f, i, e
  <2>7. /\ flow' \in [Flows -> FlowRows] /\ flow'[f] = row /\ \A g \in Flows : g # f => flow'[g] = flow[g]
        /\ OnlyGrows
    BY <2>0, <2>2, <2>3, <2>4, <2>5, OneFlowMoves DEF OnlyGrows
  <2>8. OAuthTypeOK'
    BY <1>t, <2>1, <2>3, <2>4, <2>5, <2>6, <2>7 DEF OAuthTypeOK, FlowRows
  <2>9. \A g \in Flows : FlowOk(g)'
    BY <2>2, <2>7, FactsKept DEF FlowOk
  <2>10. ~flow[f].device => EndedFor(f, u)'
    BY <2>0, <2>2, <2>4, <2>7 DEF EndedFor, i
  <2>11. ASSUME NEW g \in Flows PROVE CodeOk(g)'
    <3>1. CASE exchange'[g] = exchange[g]
      BY <2>1, <2>7, <3>1, CodeKept
    <3>2. CASE exchange'[g] # exchange[g]
      BY <2>6, <2>10, <3>2, CodeIssued
    <3> QED BY <3>1, <3>2
  <2>12. \A v \in confirmed' : IsProved(v)'
    <3>1. IsProved(u)'
      BY <2>0, <2>3, <2>5 DEF IsProved
    <3> QED BY <1>0, <1>t, <2>1, <2>7, <3>1, FactsKept DEF OAuthFacts
  <2>13. OAuthFacts'
    BY <2>1, <2>7, <2>9, <2>11, <2>12, FactsKept DEF OAuthFacts
  <2> QED BY <2>8, <2>13 DEF OAuthInv
<1>5. ASSUME UNCHANGED <<confirmed, linked, flow, proved>>, OnlyGrows, signup' \subseteq signup,
             holder' \in [Emails -> Users \cup {NoOne}],
             exchange' \in [Flows -> CodeRows], redeeming' \subseteq Flows, signedIn' \subseteq Flows \X Users,
             \A f \in Flows : /\ exchange'[f].user = exchange[f].user /\ (exchange[f].spent => exchange'[f].spent)
                              /\ f \in redeeming' => f \in redeeming \/ ~exchange[f].spent,
             \A s \in signedIn' : s \in signedIn \/ (s[1] \in redeeming /\ s[2] = exchange[s[1]].user)
      PROVE  OAuthInv'
  <2>1. OAuthTypeOK'
    BY <1>t, <1>5 DEF OAuthTypeOK, FlowRows
  <2>2. \A f \in Flows : CodeOk(f)'
    BY <1>5, CodeKept
  <2>3. ASSUME NEW s \in signedIn' PROVE EndedFor(s[1], s[2])'
    <3>1. CASE s \in signedIn
      BY <1>5, <3>1, FactsKept
    <3>2. CASE s[1] \in redeeming /\ s[2] = exchange[s[1]].user
      <4>1. s[1] \in Flows /\ s[2] \in Users
        BY <1>5
      <4>2. EndedFor(s[1], s[2])
        BY <1>f, <3>2, <4>1 DEF CodeOk
      <4> QED BY <1>5, <4>1, <4>2, FactsKept
    <3> QED BY <1>5, <3>1, <3>2
  <2>4. OAuthFacts'
    BY <1>0, <1>t, <1>5, <2>2, <2>3, FactsKept DEF OAuthFacts
  <2> QED BY <2>1, <2>4 DEF OAuthInv
<1>s. ASSUME UNCHANGED <<holder, linked, flow, proved>> PROVE OnlyGrows
  BY <1>s DEF OnlyGrows
<1>6. ASSUME NEW f \in Flows, NEW g \in Flows, ExchangeOAuthCode(f, g) PROVE OAuthInv'
  <2>1. exchange' = [exchange EXCEPT ![f].spent = TRUE] /\ ~exchange[f].spent
        /\ UNCHANGED <<holder, confirmed, linked, flow, signup, signedIn, proved>>
        /\ redeeming' \subseteq redeeming \cup {f}
    BY <1>6 DEF ExchangeOAuthCode
  <2>2. exchange' \in [Flows -> CodeRows]
        /\ \A h \in Flows : exchange'[h].user = exchange[h].user /\ (exchange[h].spent => exchange'[h].spent)
    BY <1>t, <2>1
  <2> QED BY <1>5, <1>s, <1>t, <2>1, <2>2
<1>7. ASSUME NEW f \in Flows, OAuthCodeExpires(f) PROVE OAuthInv'
  <2>1. exchange' = [exchange EXCEPT ![f].spent = TRUE]
        /\ UNCHANGED <<holder, confirmed, linked, flow, signup, redeeming, signedIn, proved>>
    BY <1>7 DEF OAuthCodeExpires
  <2>2. exchange' \in [Flows -> CodeRows]
        /\ \A h \in Flows : exchange'[h].user = exchange[h].user /\ (exchange[h].spent => exchange'[h].spent)
    BY <1>t, <2>1
  <2> QED BY <1>5, <1>s, <1>t, <2>1, <2>2
<1>8. ASSUME NEW f \in Flows, StartSession(f) PROVE OAuthInv'
  <2>1. /\ f \in redeeming /\ redeeming' = redeeming \ {f}
        /\ signedIn' = signedIn \cup {<<f, exchange[f].user>>}
        /\ UNCHANGED <<holder, confirmed, linked, flow, signup, exchange, proved>>
    BY <1>8 DEF StartSession
  <2>2. exchange[f].user \in Users
    BY <1>f, <2>1 DEF CodeOk
  <2>3. signedIn' \subseteq Flows \X Users
    BY <1>t, <2>1, <2>2
  <2>4. \A s \in signedIn' : s \in signedIn \/ (s[1] \in redeeming /\ s[2] = exchange[s[1]].user)
    BY <2>1
  <2> QED BY <1>5, <1>s, <1>t, <2>1, <2>3, <2>4
<1>9. ASSUME NEW t \in signup, OAuthSignupExpires(t) PROVE OAuthInv'
  <2>1. signup' \subseteq signup /\ UNCHANGED <<holder, confirmed, linked, flow, exchange, redeeming, signedIn, proved>>
    BY <1>9 DEF OAuthSignupExpires
  <2> QED BY <1>5, <1>s, <1>t, <2>1
<1>10. ASSUME NEW u \in Users, RevokeOAuthExchangeCodesForUser(u) PROVE OAuthInv'
  <2>1. /\ exchange' = [f \in Flows |-> IF exchange[f].user = u
                                        THEN [exchange[f] EXCEPT !.spent = TRUE] ELSE exchange[f]]
        /\ UNCHANGED <<holder, confirmed, linked, flow, signup, redeeming, signedIn, proved>>
    BY <1>10 DEF RevokeOAuthExchangeCodesForUser
  <2>2. exchange' \in [Flows -> CodeRows]
        /\ \A h \in Flows : exchange'[h].user = exchange[h].user /\ (exchange[h].spent => exchange'[h].spent)
    BY <1>t, <2>1
  <2> QED BY <1>5, <1>s, <1>t, <2>1, <2>2
<1>11. ASSUME NEW u \in Users, NEW e \in Emails, RegisterWithPassword(u, e) PROVE OAuthInv'
  <2>1. /\ holder[e] = NoOne /\ holder' = [holder EXCEPT ![e] = u]
        /\ UNCHANGED <<confirmed, linked, flow, signup, exchange, redeeming, signedIn, proved>>
    BY <1>11 DEF RegisterWithPassword
  <2>2. holder' \in [Emails -> Users \cup {NoOne}] /\ OnlyGrows
    BY <1>t, <2>1 DEF OnlyGrows
  <2> QED BY <1>5, <1>t, <2>1, <2>2
<1> QED BY <1>1, <1>2, <1>3, <1>4, <1>6, <1>7, <1>8, <1>9, <1>10, <1>11 DEF OAuthNext

\* Steps of the other parts change nothing here.
LEMMA OAuthStutterInv == OAuthInv /\ UNCHANGED oauthVars => OAuthInv'
<1> SUFFICES ASSUME OAuthInv, UNCHANGED oauthVars PROVE OAuthInv'
  OBVIOUS
<1>1. OAuthTypeOK'
  BY DEF OAuthInv, OAuthTypeOK, oauthVars
<1>2. OAuthFacts'
  BY DEF OAuthInv, OAuthFacts, FlowOk, CodeOk, TokenOk, EndedFor, IsProved, oauthVars
<1> QED BY <1>1, <1>2 DEF OAuthInv

\* A session is the flow's own, and what is confirmed is proved.
LEMMA OAuthSafe == OAuthInv => SessionIsTheFlowsOwn /\ ConfirmedIsProved
<1> SUFFICES ASSUME OAuthInv PROVE SessionIsTheFlowsOwn /\ ConfirmedIsProved
  OBVIOUS
<1>1. NoIdentity \notin Claims
  BY OAuthAssumption DEF NoIdentity, Claims
<1>2. SessionIsTheFlowsOwn
  BY <1>1 DEF OAuthInv, OAuthFacts, EndedFor, SessionIsTheFlowsOwn
<1>3. ConfirmedIsProved
  BY DEF OAuthInv, OAuthFacts, IsProved, ConfirmedIsProved
<1> QED BY <1>2, <1>3

--------------------------------------------------------------------------------
(* The way of a request.                                                   *)

Stages == {"idle", "arrived", "limited", "refused", "routed", "handling", "checking", "signedOut", "hashing", "served"}
CallRows == [at: Stages, route: Routes, with: Credentials, late: BOOLEAN]

\* A request's credential was given by a sign-in that began; a late one's is
\* over, and stays so.  Only a login hashes, only a user is checked, and what a
\* guarded route handles passed the check.
CallOk(c) ==
  LET k == call[c].with.kind  s == signIn[call[c].with.token[1]] IN
  /\ k = "access" => s # "none"
  /\ call[c].late => k = "access" /\ s = "ended"
  /\ call[c].at = "hashing" => call[c].route = "login"
  /\ call[c].at = "checking" => k = "access"
  /\ call[c].at = "signedOut" => k = "access" /\ s = "ended"
  /\ call[c].at \in {"handling", "served"} /\ call[c].route \in {"guarded", "instance"} => ~call[c].late

PathInv == PathTypeOK /\ call \in [Calls -> CallRows] /\ \A c \in Calls : CallOk(c)

\* What a credential names.
LEMMA CredentialParts ==
  ASSUME NEW cred \in Credentials
  PROVE  /\ cred.kind \in {"access", "api", "operator", "none"}
         /\ cred.kind = "access" => cred.token[1] \in SignIns
BY DEF Credentials, AccessTokens, Rowless

\* Nobody waits for a hash, and the first sign-in is live.
LEMMA PathInitInv == PathInit => PathInv
<1> SUFFICES ASSUME PathInit PROVE PathInv
  OBVIOUS
<1> USE RequestPathAssumption
<1>1. Uncalled \in CallRows
  BY DEF Uncalled, CallRows, Stages, Routes, Credentials
<1>2. call \in [Calls -> CallRows] /\ Hashing = {}
  BY <1>1 DEF PathInit, Hashing, Uncalled
<1>3. Cardinality(Hashing) <= maxConcurrentHashes
  BY <1>2, FS_EmptySet
<1>4. PathTypeOK
  <2>1. \A c \in Calls : call[c].route \in Routes /\ call[c].with \in Credentials
    BY <1>2 DEF CallRows
  <2>2. signIn \in [SignIns -> {"none", "live", "ended"}]
    BY DEF PathInit
  <2> QED BY <1>3, <2>1, <2>2 DEF PathInit, PathTypeOK
<1>5. \A c \in Calls : CallOk(c)
  BY DEF PathInit, CallOk, Uncalled
<1> QED BY <1>2, <1>4, <1>5 DEF PathInv

\* Sign-ins only go forward: one that began has begun, one that ended is over.
GoesForward ==
  \A s \in SignIns : /\ signIn[s] # "none" => signIn'[s] # "none"
                     /\ signIn[s] = "ended" => signIn'[s] = "ended"

\* Which keeps what is known of a request that does not move.
LEMMA CallKept ==
  ASSUME PathInv, GoesForward, NEW c \in Calls, call'[c] = call[c] PROVE CallOk(c)'
<1>1. CallOk(c) /\ call[c].with \in Credentials
  BY DEF PathInv, CallRows
<1>2. call[c].with.kind = "access" => call[c].with.token[1] \in SignIns
  BY <1>1, CredentialParts
<1> QED BY <1>1, <1>2 DEF CallOk, GoesForward

\* One request moves on, and no more hash than may.
LEMMA OneCallMoves ==
  ASSUME PathInv, NEW c \in Calls, NEW row \in CallRows, call' = [call EXCEPT ![c] = row],
         row.at = "hashing" => Cardinality(Hashing) < maxConcurrentHashes,
         GoesForward, CallOk(c)'
  PROVE  /\ call' \in [Calls -> CallRows] /\ (\A d \in Calls : CallOk(d)')
         /\ Cardinality(Hashing)' <= maxConcurrentHashes
         /\ \A d \in Calls : call'[d].route \in Routes /\ call'[d].with \in Credentials
<1> USE RequestPathAssumption
<1>1. call \in [Calls -> CallRows] /\ Cardinality(Hashing) <= maxConcurrentHashes
  BY DEF PathInv, PathTypeOK
<1>2. call' \in [Calls -> CallRows]
  BY <1>1
<1>3. \A d \in Calls : call'[d].route \in Routes /\ call'[d].with \in Credentials
  BY <1>2 DEF CallRows
<1>4. \A d \in Calls : d # c => call'[d] = call[d]
  BY <1>1
<1>5. \A d \in Calls : CallOk(d)'
  BY <1>4, CallKept
<1>6. IsFiniteSet(Hashing)
  BY FS_Subset DEF Hashing
<1>7. CASE row.at # "hashing"
  <2>1. Hashing' \subseteq Hashing
    BY <1>1, <1>7 DEF Hashing
  <2>2. Cardinality(Hashing') <= Cardinality(Hashing)
    BY <1>6, <2>1, FS_Subset
  <2>3. Cardinality(Hashing') \in Nat /\ Cardinality(Hashing) \in Nat
    BY <1>6, <2>1, FS_Subset, FS_CardinalityType
  <2> QED BY <1>1, <1>2, <1>3, <1>5, <2>2, <2>3
<1>8. CASE row.at = "hashing"
  <2>1. Hashing' \subseteq Hashing \cup {c}
    BY <1>1 DEF Hashing
  <2>a. /\ IsFiniteSet(Hashing \cup {c}) /\ Cardinality(Hashing) \in Nat
        /\ Cardinality(Hashing \cup {c}) = IF c \in Hashing THEN Cardinality(Hashing) ELSE Cardinality(Hashing) + 1
    BY <1>6, FS_AddElement, FS_CardinalityType
  <2>2. IsFiniteSet(Hashing \cup {c}) /\ Cardinality(Hashing \cup {c}) <= Cardinality(Hashing) + 1
        /\ Cardinality(Hashing) \in Nat /\ Cardinality(Hashing \cup {c}) \in Nat
    BY <2>a
  <2>3. Cardinality(Hashing') <= Cardinality(Hashing \cup {c}) /\ IsFiniteSet(Hashing')
    BY <2>1, <2>2, FS_Subset
  <2>4. Cardinality(Hashing') \in Nat
    BY <2>3, FS_CardinalityType
  <2>5. Cardinality(Hashing') <= maxConcurrentHashes
    BY <1>8, <2>2, <2>3, <2>4
  <2> QED BY <1>2, <1>3, <1>5, <2>5
<1> QED BY <1>7, <1>8

\* The check before a guarded handler asks of the sign-in the token names, and a
\* sign-in that was over on arrival is over then.
LEMMA PathStepInv == PathInv /\ PathNext => PathInv'
<1> SUFFICES ASSUME PathInv, PathNext PROVE PathInv'
  OBVIOUS
<1> USE RequestPathAssumption
<1>0. PathTypeOK /\ call \in [Calls -> CallRows] /\ \A c \in Calls : CallOk(c)
  BY DEF PathInv
<1>t. ASSUME NEW c \in Calls
      PROVE  /\ call[c] \in CallRows /\ CallOk(c) /\ call[c].with \in Credentials
             /\ call[c].with.kind \in {"access", "api", "operator", "none"}
             /\ call[c].with.kind = "access" => call[c].with.token[1] \in SignIns
  <2>1. call[c] \in CallRows /\ call[c].with \in Credentials
    BY <1>0 DEF CallRows
  <2> QED BY <1>0, <2>1, CredentialParts
<1>f. ASSUME UNCHANGED signIn PROVE GoesForward
  BY <1>f DEF GoesForward
<1>s. ASSUME NEW c \in Calls, NEW stage \in Stages, Goes(c, stage), GoesForward,
             stage = "hashing" => call[c].route = "login" /\ Cardinality(Hashing) < maxConcurrentHashes,
             stage = "checking" => call[c].with.kind = "access",
             stage = "signedOut" => call[c].with.kind = "access" /\ signIn[call[c].with.token[1]] = "ended",
             stage \in {"handling", "served"} /\ call[c].route \in {"guarded", "instance"} => ~call[c].late
      PROVE  /\ call' \in [Calls -> CallRows] /\ (\A d \in Calls : CallOk(d)')
             /\ Cardinality(Hashing)' <= maxConcurrentHashes
             /\ \A d \in Calls : call'[d].route \in Routes /\ call'[d].with \in Credentials
  <2> DEFINE row == [call[c] EXCEPT !.at = stage]
  <2>1. /\ row \in CallRows /\ row.at = stage /\ row.route = call[c].route /\ row.with = call[c].with
        /\ row.late = call[c].late
    BY <1>t DEF CallRows
  <2>2. call' = [call EXCEPT ![c] = row]
    BY <1>0, <1>s DEF Goes
  <2> HIDE DEF row
  <2>3. call'[c] = row
    BY <1>0, <2>2
  <2>4. CallOk(c)'
    BY <1>s, <1>t, <2>1, <2>3 DEF CallOk, GoesForward
  <2> QED BY <1>s, <2>1, <2>2, <2>4, OneCallMoves
<1>1. CASE WindowEnds \/ MarkReady
  <2>1. attempts' \in 0..MaxAttempts
    BY <1>0, <1>1 DEF WindowEnds, MarkReady, PathTypeOK
  <2>b. serving' \in BOOLEAN
    BY <1>0, <1>1 DEF WindowEnds, MarkReady, StateKept, PathTypeOK
  <2>2. UNCHANGED <<signIn, newestRow, expiredTokens, apiToken, isAdmin, call>>
    BY <1>1 DEF WindowEnds, MarkReady, StateKept
  <2> QED BY <1>0, <2>1, <2>b, <2>2 DEF PathInv, PathTypeOK, CallOk, Hashing
<1>2. ASSUME NEW s \in SignIns, Rotate(s) PROVE PathInv'
  <2>1. newestRow' \in [SignIns -> 1..(MaxRefreshes + 1)]
    BY <1>0, <1>2 DEF Rotate, PathTypeOK
  <2>2. UNCHANGED <<serving, attempts, signIn, expiredTokens, apiToken, isAdmin, call>>
    BY <1>2 DEF Rotate
  <2> QED BY <1>0, <2>1, <2>2 DEF PathInv, PathTypeOK, CallOk, Hashing
<1>3. ASSUME NEW s \in SignIns, EndSignIn(s) PROVE PathInv'
  <2>1. signIn' \in [SignIns -> {"none", "live", "ended"}] /\ GoesForward
    BY <1>0, <1>3 DEF EndSignIn, PathTypeOK, GoesForward
  <2>2. UNCHANGED <<serving, attempts, newestRow, expiredTokens, apiToken, isAdmin, call>>
    BY <1>3 DEF EndSignIn
  <2>3. \A c \in Calls : CallOk(c)'
    BY <2>1, <2>2, CallKept
  <2> QED BY <1>0, <2>1, <2>2, <2>3 DEF PathInv, PathTypeOK, Hashing
<1>4. ASSUME NEW t \in AccessTokens, TokenExpires(t) PROVE PathInv'
  <2>1. expiredTokens' \subseteq AccessTokens
        /\ UNCHANGED <<serving, attempts, signIn, newestRow, apiToken, isAdmin, call>>
    BY <1>0, <1>4 DEF TokenExpires, PathTypeOK
  <2> QED BY <1>0, <2>1 DEF PathInv, PathTypeOK, CallOk, Hashing
<1>5. ASSUME NEW c \in Calls, NEW route \in Routes, NEW cred \in Credentials, Arrive(c, route, cred)
      PROVE  PathInv'
  <2> DEFINE late == cred.kind = "access" /\ signIn[cred.token[1]] = "ended"
             row == [at |-> "arrived", route |-> route, with |-> cred, late |-> late]
  <2>1. row \in CallRows /\ row.at = "arrived" /\ row.with = cred /\ (row.late <=> late)
    BY DEF CallRows, Stages
  <2>2. call' = [call EXCEPT ![c] = row] /\ (cred.kind = "access" => signIn[cred.token[1]] # "none")
    BY <1>5 DEF Arrive
  <2>3. StateKept /\ UNCHANGED attempts
    BY <1>5 DEF Arrive
  <2> HIDE DEF row
  <2>4. CallOk(c)'
    BY <1>0, <2>1, <2>2, <2>3 DEF CallOk, StateKept
  <2>5. GoesForward
    BY <1>f, <2>3 DEF StateKept
  <2>6. /\ call' \in [Calls -> CallRows] /\ (\A d \in Calls : CallOk(d)')
        /\ Cardinality(Hashing)' <= maxConcurrentHashes
        /\ \A d \in Calls : call'[d].route \in Routes /\ call'[d].with \in Credentials
    BY <2>1, <2>2, <2>4, <2>5, OneCallMoves
  <2> QED BY <1>0, <2>3, <2>6 DEF PathInv, PathTypeOK, StateKept
<1>6. ASSUME NEW c \in Calls, Answered(c) PROVE PathInv'
  <2>1. Uncalled \in CallRows /\ Uncalled.at = "idle" /\ Uncalled.with.kind = "none" /\ ~Uncalled.late
    BY DEF Uncalled, CallRows, Stages, Routes, Credentials
  <2>2. call' = [call EXCEPT ![c] = Uncalled] /\ StateKept /\ UNCHANGED attempts
    BY <1>6 DEF Answered
  <2>3. call'[c] = Uncalled
    BY <1>0, <2>2
  <2>4. CallOk(c)'
    BY <2>1, <2>3 DEF CallOk
  <2>5. GoesForward
    BY <1>f, <2>2 DEF StateKept
  <2>6. /\ call' \in [Calls -> CallRows] /\ (\A d \in Calls : CallOk(d)')
        /\ Cardinality(Hashing)' <= maxConcurrentHashes
        /\ \A d \in Calls : call'[d].route \in Routes /\ call'[d].with \in Credentials
    BY <2>1, <2>2, <2>4, <2>5, OneCallMoves
  <2> QED BY <1>0, <2>2, <2>6 DEF PathInv, PathTypeOK, StateKept
<1>m. ASSUME NEW c \in Calls, NEW stage \in Stages, Goes(c, stage), StateKept, attempts' \in 0..MaxAttempts,
             stage = "hashing" => call[c].route = "login" /\ Cardinality(Hashing) < maxConcurrentHashes,
             stage = "checking" => call[c].with.kind = "access",
             stage = "signedOut" => call[c].with.kind = "access" /\ signIn[call[c].with.token[1]] = "ended",
             stage \in {"handling", "served"} /\ call[c].route \in {"guarded", "instance"} => ~call[c].late
      PROVE  PathInv'
  <2>1. GoesForward
    BY <1>f, <1>m DEF StateKept
  <2>2. /\ call' \in [Calls -> CallRows] /\ (\A d \in Calls : CallOk(d)')
        /\ Cardinality(Hashing)' <= maxConcurrentHashes
        /\ \A d \in Calls : call'[d].route \in Routes /\ call'[d].with \in Credentials
    BY <1>m, <1>s, <2>1
  <2> QED BY <1>0, <1>m, <2>2 DEF PathInv, PathTypeOK, StateKept
<1>a. attempts \in 0..MaxAttempts
  BY <1>0 DEF PathTypeOK
<1>7. ASSUME NEW c \in Calls, Limited(c) PROVE PathInv'
  <2>1. attempts' \in 0..MaxAttempts
    BY <1>7, <1>a DEF Limited
  <2>2. StateKept /\ Goes(c, IF attempts < rateLimit THEN "limited" ELSE "refused")
    BY <1>7 DEF Limited
  <2>3. PICK stage \in {"limited", "refused"} : Goes(c, stage)
    BY <2>2
  <2> QED BY <1>m, <2>1, <2>2, <2>3 DEF Stages
<1>8. ASSUME NEW c \in Calls, StoreFailure(c) \/ RefuseWhileStarting(c) \/ HangUp(c) PROVE PathInv'
  <2>1. PICK stage \in {"limited", "routed", "refused"} : Goes(c, stage)
    BY <1>8 DEF StoreFailure, RefuseWhileStarting, HangUp
  <2>2. StateKept /\ UNCHANGED attempts
    BY <1>8 DEF StoreFailure, RefuseWhileStarting, HangUp
  <2> QED BY <1>a, <1>m, <2>1, <2>2 DEF Stages
<1>9. ASSUME NEW c \in Calls, Authenticate(c) PROVE PathInv'
  <2>1. PICK stage \in {"handling", "checking", "refused"} :
          /\ Goes(c, stage)
          /\ stage = "handling" => call[c].route \in {"read", "scoped"}
          /\ stage = "checking" => call[c].with.kind = "access"
    BY <1>9 DEF Authenticate, AuthenticateAccessToken
  <2>2. StateKept /\ UNCHANGED attempts
    BY <1>9 DEF Authenticate
  <2> QED BY <1>a, <1>m, <2>1, <2>2 DEF Stages
<1>10. ASSUME NEW c \in Calls, AuthenticateInstanceAdmin(c) PROVE PathInv'
  <2>1. PICK stage \in {"handling", "checking", "refused"} :
          /\ Goes(c, stage)
          /\ stage = "handling" => call[c].with.kind = "operator"
          /\ stage = "checking" => call[c].with.kind = "access"
    BY <1>10 DEF AuthenticateInstanceAdmin, AuthenticateAccessToken
  <2>2. StateKept /\ UNCHANGED attempts
    BY <1>10 DEF AuthenticateInstanceAdmin
  <2>3. call[c].with.kind = "operator" => ~call[c].late
    BY <1>t DEF CallOk
  <2> QED BY <1>a, <1>m, <2>1, <2>2, <2>3 DEF Stages
<1>11. ASSUME NEW c \in Calls, RequireLiveSession(c) PROVE PathInv'
  <2>0. /\ call[c].with.kind = "access" /\ call[c].with.token[1] \in SignIns
        /\ signIn[call[c].with.token[1]] \in {"live", "ended"}
        /\ call[c].late => signIn[call[c].with.token[1]] = "ended"
    BY <1>0, <1>11, <1>t DEF RequireLiveSession, At, CallOk, PathTypeOK
  <2>1. PICK stage \in {"signedOut", "refused", "handling"} :
          /\ Goes(c, stage)
          /\ stage = "signedOut" => signIn[call[c].with.token[1]] # "live"
          /\ stage = "handling" => signIn[call[c].with.token[1]] = "live"
    BY <1>11 DEF RequireLiveSession, Live
  <2>2. StateKept /\ UNCHANGED attempts
    BY <1>11 DEF RequireLiveSession
  <2> QED BY <1>a, <1>m, <2>0, <2>1, <2>2 DEF Stages
<1>12. ASSUME NEW c \in Calls, NEW held \in BOOLEAN, RequireScope(c, held) PROVE PathInv'
  <2>1. PICK stage \in {"handling", "refused"} : Goes(c, stage)
    BY <1>12 DEF RequireScope
  <2>2. StateKept /\ UNCHANGED attempts /\ call[c].route = "scoped"
    BY <1>12 DEF RequireScope
  <2> QED BY <1>a, <1>m, <2>1, <2>2 DEF Stages
<1>13. ASSUME NEW c \in Calls, AcquireHashSlot(c) PROVE PathInv'
  BY <1>13, <1>a, <1>m DEF AcquireHashSlot, Stages
<1>14. ASSUME NEW c \in Calls, Login(c) PROVE PathInv'
  <2>0. call[c].route = "login"
    BY <1>14, <1>t DEF Login, At, CallOk
  <2>1. PICK stage \in {"refused", "served"} : Goes(c, stage)
    BY <1>14 DEF Login
  <2>2. UNCHANGED <<serving, attempts, newestRow, expiredTokens, apiToken, isAdmin>>
    BY <1>14 DEF Login
  <2>3. signIn' \in [SignIns -> {"none", "live", "ended"}] /\ GoesForward
    <3>1. CASE UNCHANGED signIn
      BY <1>0, <1>f, <3>1 DEF PathTypeOK
    <3>2. ASSUME NEW s \in SignIns,
                 signIn' = [q \in SignIns |-> IF q = s THEN "live"
                                              ELSE IF signIn[q] = "live" THEN "ended" ELSE signIn[q]],
                 signIn[s] = "none"
          PROVE  signIn' \in [SignIns -> {"none", "live", "ended"}] /\ GoesForward
      BY <1>0, <3>2 DEF PathTypeOK, GoesForward
    <3> QED BY <1>14, <3>1, <3>2 DEF Login
  <2>4. /\ call' \in [Calls -> CallRows] /\ (\A d \in Calls : CallOk(d)')
        /\ Cardinality(Hashing)' <= maxConcurrentHashes
        /\ \A d \in Calls : call'[d].route \in Routes /\ call'[d].with \in Credentials
    BY <1>s, <2>0, <2>1, <2>3 DEF Stages
  <2> QED BY <1>0, <2>2, <2>3, <2>4 DEF PathInv, PathTypeOK
<1>15. ASSUME NEW c \in Calls, Serve(c) PROVE PathInv'
  <2>1. call[c].route \in {"guarded", "instance"} => ~call[c].late
    BY <1>15, <1>t DEF Serve, At, CallOk
  <2> QED BY <1>15, <1>a, <1>m, <2>1 DEF Serve, Stages
<1>16. ASSUME NEW c \in Calls, NEW t \in ApiTokens, MintAPIToken(c, t) \/ RevokeAPIToken(c, t) PROVE PathInv'
  <2>1. (call[c].route \in {"guarded", "instance"} => ~call[c].late) /\ Goes(c, "served")
    BY <1>16, <1>t DEF MintAPIToken, RevokeAPIToken, At, CallOk
  <2>2. UNCHANGED <<serving, attempts, signIn, newestRow, expiredTokens, isAdmin>>
    BY <1>16 DEF MintAPIToken, RevokeAPIToken
  <2>3. apiToken' \in [ApiTokens -> {"none", "active", "revoked"}]
    BY <1>0, <1>16 DEF MintAPIToken, RevokeAPIToken, PathTypeOK
  <2>4. GoesForward
    BY <1>f, <2>2
  <2>5. /\ call' \in [Calls -> CallRows] /\ (\A d \in Calls : CallOk(d)')
        /\ Cardinality(Hashing)' <= maxConcurrentHashes
        /\ \A d \in Calls : call'[d].route \in Routes /\ call'[d].with \in Credentials
    BY <1>s, <2>1, <2>4 DEF Stages
  <2> QED BY <1>0, <2>2, <2>3, <2>5 DEF PathInv, PathTypeOK
<1> QED BY <1>1, <1>2, <1>3, <1>4, <1>5, <1>6, <1>7, <1>8, <1>9, <1>10, <1>11, <1>12, <1>13, <1>14, <1>15, <1>16
        DEF PathNext

\* Steps of the other parts change nothing here.
LEMMA PathStutterInv == PathInv /\ UNCHANGED pathVars => PathInv'
BY DEF PathInv, PathTypeOK, CallOk, Hashing, pathVars

\* What was found out on the way is what the property asks for.
LEMMA PathSafe == PathInv => LivenessIsTheSignIns
BY DEF PathInv, CallOk, LivenessIsTheSignIns

--------------------------------------------------------------------------------
(* The parts together, as MCAccounts runs them: a step is of one part, and *)
(* the others stand still.                                                 *)

AccountsInv ==
  /\ part \in Parts
  /\ DeviceInv /\ OAuthInv /\ FactorInv /\ RegistrationInv /\ LinkInv /\ PathInv

\* Each part's invariant holds at first.
LEMMA AccountsInitInv == Init => AccountsInv
BY DeviceInitInv, OAuthInitInv, FactorInitInv, RegistrationInitInv, LinkInitInv, PathInitInv
   DEF Init, AccountsInv

\* And is kept by the part's own steps and by everybody else's.
LEMMA AccountsStepInv == AccountsInv /\ [Next]_vars => AccountsInv'
<1> SUFFICES ASSUME AccountsInv, [Next]_vars PROVE AccountsInv'
  OBVIOUS
<1>0. /\ part \in Parts
      /\ DeviceInv /\ OAuthInv /\ FactorInv /\ RegistrationInv /\ LinkInv /\ PathInv
  BY DEF AccountsInv
<1>1. UNCHANGED part
  BY DEF Next, vars
<1>2. DeviceNext \/ UNCHANGED deviceVars
  BY DEF Next, vars
<1>3. OAuthNext \/ UNCHANGED oauthVars
  BY DEF Next, vars
<1>4. FactorNext \/ UNCHANGED factorVars
  BY DEF Next, vars
<1>5. RegistrationNext \/ UNCHANGED registrationVars
  BY DEF Next, vars
<1>6. LinkNext \/ UNCHANGED linkVars
  BY DEF Next, vars
<1>7. PathNext \/ UNCHANGED pathVars
  BY DEF Next, vars
<1>8. DeviceInv' /\ OAuthInv' /\ FactorInv'
  BY <1>0, <1>2, <1>3, <1>4, DeviceStepInv, DeviceStutterInv, OAuthStepInv, OAuthStutterInv,
     FactorStepInv, FactorStutterInv
<1>9. RegistrationInv' /\ LinkInv' /\ PathInv'
  BY <1>0, <1>5, <1>6, <1>7, RegistrationStepInv, RegistrationStutterInv, LinkStepInv, LinkStutterInv,
     PathStepInv, PathStutterInv
<1> QED BY <1>0, <1>1, <1>8, <1>9 DEF AccountsInv

\* The inductive invariant of all the ways in.
THEOREM AccountsInvariant == Spec => []AccountsInv
<1>1. Init => AccountsInv
  BY AccountsInitInv
<1>2. AccountsInv /\ [Next]_vars => AccountsInv'
  BY AccountsStepInv
<1> QED BY <1>1, <1>2, PTL DEF Spec

\* Every part stays well typed, whatever the number of accounts, codes and
\* requests: no invite is redeemed past its limit (RedeemInstanceInvite), and no
\* more passwords are hashed at once than withHashSlot has slots for.
THEOREM AccountsTypeOK == Spec => []TypeOK
<1>1. AccountsInv => TypeOK
  BY DEF AccountsInv, TypeOK, DeviceInv, OAuthInv, FactorInv, RegistrationInv, LinkInv, PathInv
<1> QED BY <1>1, AccountsInvariant, PTL

\* What may be used once is used once: RedeemDeviceCode, MarkTOTPStepUsed,
\* ConsumeRecoveryCode, ConsumePasswordResetToken, RedeemInstanceInvite and
\* Bootstrap, for any number of requests that read before any of them wrote.
THEOREM UsedOnce == Spec => []SpentOnce
<1>1. AccountsInv => SpentOnce
  BY DeviceSafe, RegistrationSafe DEF AccountsInv, SpentOnce, FactorInv, LinkInv
<1> QED BY <1>1, AccountsInvariant, PTL

\* Nobody comes in by a flow that is not theirs or was taken back, and nobody
\* is locked out: ResolveOAuthIdentity and its links, the two statements of
\* revokeEverything against a poll, and the recovery codes of a factor.
THEOREM WaysInSound == Spec => []WaysInAreSound
<1>1. AccountsInv => WaysInAreSound
  BY DeviceSafe, OAuthSafe DEF AccountsInv, WaysInAreSound, FactorInv
<1> QED BY <1>1, AccountsInvariant, PTL

\* RequireLiveSession asks of the sign-in, for any number of requests and
\* sign-ins: what arrived late is not served, and only the signed out are told so.
THEOREM LivenessOfSignIns == Spec => []LivenessIsTheSignIns
<1>1. AccountsInv => LivenessIsTheSignIns
  BY PathSafe DEF AccountsInv
<1> QED BY <1>1, AccountsInvariant, PTL
================================================================================
