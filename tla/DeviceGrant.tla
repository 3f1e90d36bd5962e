------------------------------ MODULE DeviceGrant ------------------------------
(***************************************************************************)
(* Device-code sign-in (RFC 8628): the device_codes rows, the device's     *)
(* polls, and the browser pages that approve or deny one.  Sources:        *)
(* auth/device.go, auth/devicepage.go, auth/devicetoken.go and the         *)
(* statements of db/device.sql.go.                                         *)
(*                                                                         *)
(* A continuation token is a signed JWT nobody stores: once issued it can  *)
(* be posted until it expires, whatever happened to the code since, so     *)
(* `pages' holds every token issued and not yet expired.  Every statement  *)
(* is atomic.  A transaction is one step where it touches one code and the *)
(* sessions it creates itself; revokeEverything is two, because what its   *)
(* first statement saw of the sessions is old when its last one runs.      *)
(***************************************************************************)
EXTENDS Accounts, Naturals, FiniteSets

CONSTANTS Codes,    \* ids of device_codes rows
          Pollers   \* requests to the token endpoint in flight at once

VARIABLES
  code,      \* [Codes -> row, or Absent]
  pages,     \* the continuation tokens a browser holds
  polled,    \* [Pollers -> the code whose approval RedeemDeviceCode has read]
  granted,   \* sessions written by RedeemDeviceCode: [code, user, live]
  factor,    \* accounts that have a confirmed second factor
  told,      \* <<code, outcome>> of every denial or revocation answered
  sweeping   \* [Users -> sessions revokeEverything's first statement revoked]

deviceVars == <<code, pages, polled, granted, factor, told, sweeping>>

Absent  == [user |-> NoOne, denied |-> FALSE, consumed |-> FALSE, late |-> TRUE, recent |-> FALSE]
Created == [Absent EXCEPT !.late = FALSE]

Entry(c)       == [type |-> "entry", code |-> c, user |-> NoOne]
Factor(c, u)   == [type |-> "factor", code |-> c, user |-> u]
Approval(c, u) == [type |-> "approval", code |-> c, user |-> u]
Tokens == {Entry(c) : c \in Codes} \cup {Factor(c, u) : c \in Codes, u \in Users}
            \cup {Approval(c, u) : c \in Codes, u \in Users}

Idle == "idle"
NotRevoking == {NoOne}

DeviceTypeOK ==
  /\ code \in [Codes -> [user: Users \cup {NoOne}, denied: BOOLEAN, consumed: BOOLEAN,
                         late: BOOLEAN, recent: BOOLEAN]]
  /\ pages \subseteq Tokens
  /\ polled \in [Pollers -> Codes \cup {Idle}]
  /\ granted \subseteq [code: Codes, user: Users, live: BOOLEAN]
  /\ factor \subseteq Users
  /\ told \subseteq Codes \X {"stopped", "revoked", "too late"}
  /\ sweeping \in [Users -> (SUBSET [code: Codes, user: Users, live: BOOLEAN]) \cup {NotRevoking}]

DeviceInit ==
  /\ code = [c \in Codes |-> Absent]
  /\ pages = {} /\ granted = {} /\ told = {}
  /\ polled = [p \in Pollers |-> Idle]
  /\ factor \in SUBSET Users
  /\ sweeping = [u \in Users |-> NotRevoking]

-------------------------------------------------------------------------------
(* The guards of the statements: what a row must be for each to match it. *)

Unspent(c) == ~code[c].consumed /\ ~code[c].late

\* GetDeviceCodeByUserCode and GetDeviceCodeByID: still open for an answer.
Open(c) == Unspent(c) /\ code[c].user = NoOne /\ ~code[c].denied

\* ApproveDeviceCode's WHERE.
Approvable(c) == Open(c)

\* DenyDeviceCode's WHERE.
Deniable(c) == Open(c)

\* A RevokeApprovedDeviceCode that forgot the codes already collected.
RevocableEvenSpent(c, u) == code[c].user = u

\* RevokeApprovedDeviceCode's WHERE, and RevokeDeviceCodesForUser's: approved by this account, not collected.
Revocable(c, u) == code[c].user = u /\ ~code[c].consumed

\* ConsumeDeviceCode's WHERE.
Consumable(c) == Unspent(c) /\ code[c].user # NoOne /\ ~code[c].denied

-------------------------------------------------------------------------------
(* The device. *)

StartDeviceAuth(c) ==
  /\ code[c] = Absent
  /\ code' = [code EXCEPT ![c] = Created]
  /\ UNCHANGED <<pages, polled, granted, factor, told, sweeping>>

\* RedeemDeviceCode up to its transaction: the poll stamps the row, and a poll
\* that came too soon, or of a denied or pending code, ends there.
PollDeviceCode(p, c) ==
  /\ polled[p] = Idle /\ Unspent(c)
  /\ code' = [code EXCEPT ![c].recent = TRUE]
  /\ polled' = [polled EXCEPT ![p] =
                  IF ~code[c].recent /\ ~code[c].denied /\ code[c].user # NoOne THEN c ELSE Idle]
  /\ UNCHANGED <<pages, granted, factor, told, sweeping>>

PollIntervalPasses(c) ==
  /\ code[c].recent
  /\ code' = [code EXCEPT ![c].recent = FALSE]
  /\ UNCHANGED <<pages, polled, granted, factor, told, sweeping>>

\* RedeemDeviceCode's transaction: ConsumeDeviceCode and writeSession together,
\* for the account the row names now; the row no longer matching rolls back.
RedeemDeviceCode(p) ==
  /\ polled[p] # Idle
  /\ polled' = [polled EXCEPT ![p] = Idle]
  /\ LET c == polled[p] IN
       \/ /\ Consumable(c)
          /\ code' = [code EXCEPT ![c].consumed = TRUE]
          /\ granted' = granted \cup {[code |-> c, user |-> code[c].user, live |-> TRUE]}
       \/ ~Consumable(c) /\ UNCHANGED <<code, granted>>
  /\ UNCHANGED <<pages, factor, told, sweeping>>

-------------------------------------------------------------------------------
(* The browser. *)

\* parseDeviceToken: the token is ours, unexpired, and of the wanted type.
Holds(token, type) == token \in pages /\ token.type = type

LookUpDeviceCode(c) == Open(c)

\* The typed code is looked up; the sign-in page carries the entry token.
DevicePageSubmit(c) ==
  /\ LookUpDeviceCode(c)
  /\ pages' = pages \cup {Entry(c)}
  /\ UNCHANGED <<code, polled, granted, factor, told, sweeping>>

\* renderDeviceFactor and renderDeviceApproval: both look the code up again.
RenderPage(token) ==
  pages' = IF Open(token.code) THEN pages \cup {token} ELSE pages

\* continueToApproval: factorSatisfied, or the page that asks for the code.
ContinueToApproval(c, u) ==
  RenderPage(IF u \in factor THEN Factor(c, u) ELSE Approval(c, u))

\* The password was right; OAuth's callback for a device ends here as well.
DevicePageSignIn(token, u) ==
  /\ Holds(token, "entry")
  /\ ContinueToApproval(token.code, u)
  /\ UNCHANGED <<code, polled, granted, factor, told, sweeping>>

\* proveFactor answered that the code is right, which it never does for an
\* account without a confirmed factor.
DevicePageFactor(token) ==
  /\ Holds(token, "factor") /\ token.user \in factor
  /\ RenderPage(Approval(token.code, token.user))
  /\ UNCHANGED <<code, polled, granted, factor, told, sweeping>>

ApproveDeviceAuthorization(token) ==
  /\ Approvable(token.code)
  /\ code' = [code EXCEPT ![token.code].user = token.user]
  /\ UNCHANGED <<pages, polled, granted, factor, told, sweeping>>

\* DenyDeviceAuthorization: deny a code nobody answered, else revoke one this
\* account approved and nobody collected, else it is too late.
DenyDeviceAuthorization(token) ==
  /\ LET c == token.code  u == token.user IN
       \/ /\ Deniable(c)
          /\ code' = [code EXCEPT ![c].denied = TRUE]
          /\ told' = told \cup {<<c, "stopped">>}
       \/ /\ ~Deniable(c) /\ Revocable(c, u)
          /\ code' = [code EXCEPT ![c].consumed = TRUE]
          /\ told' = told \cup {<<c, "revoked">>}
       \/ /\ ~Deniable(c) /\ ~Revocable(c, u)
          /\ told' = told \cup {<<c, "too late">>}
          /\ UNCHANGED code
  /\ UNCHANGED <<pages, polled, granted, factor, sweeping>>

\* The approval page's two buttons.
DevicePageApprove(token) ==
  /\ Holds(token, "approval")
  /\ ApproveDeviceAuthorization(token) \/ DenyDeviceAuthorization(token)

-------------------------------------------------------------------------------
(* The account and the clock. *)

\* revokeEverything's first statement; the sessions it saw are the ones it ends.
RevokeAllSessionsForUser(u) ==
  /\ sweeping[u] = NotRevoking
  /\ sweeping' = [sweeping EXCEPT ![u] = {g \in granted : g.user = u /\ g.live}]
  /\ UNCHANGED <<code, pages, polled, granted, factor, told>>

\* Its last statement and the commit: RevokeDeviceCodesForUser matches what is
\* approved and not collected now.
RevokeDeviceCodesForUser(u) ==
  /\ sweeping[u] # NotRevoking
  /\ granted' = (granted \ sweeping[u]) \cup {[g EXCEPT !.live = FALSE] : g \in sweeping[u]}
  /\ code' = [c \in Codes |-> IF Revocable(c, u) THEN [code[c] EXCEPT !.consumed = TRUE] ELSE code[c]]
  /\ told' = told \cup {<<c, "revoked">> : c \in {d \in Codes : Revocable(d, u)}}
  /\ sweeping' = [sweeping EXCEPT ![u] = NotRevoking]
  /\ UNCHANGED <<pages, polled, factor>>

DeviceCodeExpires(c) ==
  /\ code[c] # Absent /\ ~code[c].late
  /\ code' = [code EXCEPT ![c].late = TRUE]
  /\ UNCHANGED <<pages, polled, granted, factor, told, sweeping>>

ContinuationExpires(token) ==
  /\ token \in pages
  /\ pages' = pages \ {token}
  /\ UNCHANGED <<code, polled, granted, factor, told, sweeping>>

DeviceNext ==
  \/ \E c \in Codes : \/ StartDeviceAuth(c) \/ PollIntervalPasses(c)
                      \/ DevicePageSubmit(c) \/ DeviceCodeExpires(c)
  \/ \E p \in Pollers : RedeemDeviceCode(p) \/ \E c \in Codes : PollDeviceCode(p, c)
  \/ \E token \in pages : \/ DevicePageFactor(token) \/ DevicePageApprove(token)
                          \/ ContinuationExpires(token)
                          \/ \E u \in Users : DevicePageSignIn(token, u)
  \/ \E u \in Users : RevokeAllSessionsForUser(u) \/ RevokeDeviceCodesForUser(u)

DeviceSpec == DeviceInit /\ [][DeviceNext]_deviceVars

-------------------------------------------------------------------------------
\* However many requests poll at once, and whatever the pages did meanwhile, a
\* code is collected at most once, and for the account its row names.
OneSessionPerCode ==
  \A c \in Codes : /\ Cardinality({g \in granted : g.code = c}) <= 1
                   /\ \A g \in granted : g.code = c => g.user = code[c].user /\ code[c].consumed

\* Somebody who was told that the request was stopped, or that its approval was
\* taken back (by a denial, or counted by revokeEverything), was told the truth:
\* the device has no session from it and never gets one, though a poll that saw
\* the approval may have been on its way.
DenialSticks ==
  \A c \in Codes : (\E o \in {"stopped", "revoked"} : <<c, o>> \in told)
                     => \A g \in granted : g.code # c
================================================================================
