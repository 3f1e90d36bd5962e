------------------------------ MODULE Registration ------------------------------
(***************************************************************************)
(* How accounts come to be: Register on an open or an invite-only          *)
(* instance, Bootstrap of the first instance admin, and the instance's     *)
(* invites.  Sources: auth/service.go (Register), auth/instance.go,        *)
(* auth/invites.go and the statements of db/users.sql.go,                  *)
(* db/instance.sql.go and db/instance_invites.sql.go.                      *)
(*                                                                         *)
(* Register asks about the username before its transaction and reserves it *)
(* after one that created nothing, so those are steps of their own.  The   *)
(* transaction itself is one: the invite's row is locked by the UPDATE     *)
(* that redeems it, and a lost race for a name or an address is a unique   *)
(* violation the code answers as if it had seen it.  Bootstrap's is two,   *)
(* the count and the insert, with an advisory lock around both.            *)
(***************************************************************************)
EXTENDS Accounts, Naturals, FiniteSets

CONSTANTS Names, Addresses, Invites, Attempts, MaxUses, Gated

\* The accounts there may be are finitely many, and no id is one of the marks
\* below for what has no id.
ASSUME RegistrationAssumption ==
  /\ IsFiniteSet(Users) /\ MaxUses \in Nat /\ Gated \in BOOLEAN
  /\ NoOne \notin Attempts \cup Invites \cup {"bootstrap", "uninvited"}
  /\ Invites \cap {"bootstrap", "uninvited"} = {}

VARIABLES
  account,   \* [Users -> [name, email, how it was made], or NoAccount]
  reserved,  \* reserved usernames of registrations that created nothing
  invite,    \* [Invites -> row, or NoInvite]
  attempt,   \* [Attempts -> Register or Bootstrap in flight]
  admins,    \* instance_admins
  bootLock   \* who holds LockInstanceBootstrap's advisory lock

registrationVars == <<account, reserved, invite, attempt, admins, bootLock>>

NoAccount == [name |-> NoOne, email |-> NoOne, by |-> NoOne]
NoInvite  == [there |-> FALSE, uses |-> 0, max |-> 0, late |-> FALSE]
Resting   == [at |-> "resting", name |-> NoOne, email |-> NoOne, invite |-> NoOne]
Bootstrapped == "bootstrap"
Uninvited == "uninvited"

TakenNames  == {account[u].name : u \in Users} \ {NoOne}
TakenEmails == {account[u].email : u \in Users} \ {NoOne}
Made(i)     == Cardinality({u \in Users : account[u].by = i})

RegistrationTypeOK ==
  /\ account \in [Users -> [name: Names \cup {NoOne}, email: Addresses \cup {NoOne},
                            by: Invites \cup {NoOne, Bootstrapped, Uninvited}]]
  /\ reserved \subseteq Names /\ admins \subseteq Users
  /\ invite \in [Invites -> [there: BOOLEAN, uses: 0..MaxUses, max: 0..MaxUses, late: BOOLEAN]]
  /\ attempt \in [Attempts -> [at: {"resting", "free", "taken", "counted"},
                               name: Names \cup {NoOne}, email: Addresses \cup {NoOne},
                               invite: Invites \cup {NoOne, Uninvited}]]
  /\ bootLock \in Attempts \cup {NoOne}

RegistrationInit ==
  /\ account = [u \in Users |-> NoAccount]
  /\ reserved = {} /\ admins = {} /\ bootLock = NoOne
  /\ invite = [i \in Invites |-> NoInvite]
  /\ attempt = [a \in Attempts |-> Resting]

-------------------------------------------------------------------------------
(* Register. *)

\* UsernameUnavailable, over accounts and reservations.
UsernameUnavailable(n) == n \in TakenNames \cup reserved

\* A RedeemInstanceInvite off by one.
RedeemableOnceMore(i) == invite[i].there /\ ~invite[i].late /\ invite[i].uses <= invite[i].max

\* RedeemInstanceInvite's WHERE.
Redeemable(i) == invite[i].there /\ ~invite[i].late /\ invite[i].uses < invite[i].max

\* The checks before the transaction; a gated instance asks for an invite code.
Register(a, n, e) ==
  /\ attempt[a].at = "resting" /\ ~UsernameUnavailable(n)
  /\ \E i \in IF Gated THEN Invites ELSE {Uninvited} :
       attempt' = [attempt EXCEPT ![a] = [at |-> "free", name |-> n, email |-> e, invite |-> i]]
  /\ UNCHANGED <<account, reserved, invite, admins, bootLock>>

\* The transaction: redeemInvite first, then the address, then the row.  A taken
\* address, seen or lost to, rolls all of it back and is answered silently.
RegisterCommit(a) ==
  LET t == attempt[a]
      invited == t.invite = Uninvited \/ Redeemable(t.invite) IN
  /\ t.at = "free"
  /\ \/ /\ ~invited \/ (t.email \notin TakenEmails /\ t.name \in TakenNames)
        /\ attempt' = [attempt EXCEPT ![a] = Resting]
        /\ UNCHANGED <<account, invite>>
     \/ /\ invited /\ t.email \in TakenEmails
        /\ attempt' = [attempt EXCEPT ![a].at = "taken"]
        /\ UNCHANGED <<account, invite>>
     \/ /\ invited /\ t.email \notin TakenEmails /\ t.name \notin TakenNames
        /\ \E u \in Users : /\ account[u] = NoAccount
                            /\ account' = [account EXCEPT ![u] =
                                 [name |-> t.name, email |-> t.email, by |-> t.invite]]
        /\ invite' = IF t.invite = Uninvited THEN invite
                     ELSE [invite EXCEPT ![t.invite].uses = @ + 1]
        /\ attempt' = [attempt EXCEPT ![a] = Resting]
  /\ UNCHANGED <<reserved, admins, bootLock>>

\* ReserveUsername, so the same name is as unavailable as if it had been made.
ReserveUsername(a) ==
  /\ attempt[a].at = "taken"
  /\ reserved' = reserved \cup {attempt[a].name}
  /\ attempt' = [attempt EXCEPT ![a] = Resting]
  /\ UNCHANGED <<account, invite, admins, bootLock>>

-------------------------------------------------------------------------------
(* Bootstrap. *)

\* LockInstanceBootstrap: pg_advisory_xact_lock, held to the transaction's end.
LockInstanceBootstrap(a) == bootLock \in {NoOne, a}

\* Takes the lock and counts the admins.
Bootstrap(a, n, e) ==
  /\ attempt[a].at = "resting" /\ LockInstanceBootstrap(a)
  /\ \/ /\ admins = {}
        /\ attempt' = [attempt EXCEPT ![a] =
                         [at |-> "counted", name |-> n, email |-> e, invite |-> NoOne]]
        /\ bootLock' = a
     \/ admins # {} /\ UNCHANGED <<attempt, bootLock>>      \* ErrAlreadyBootstrapped
  /\ UNCHANGED <<account, reserved, invite, admins>>

\* CreateUser, CreateInstanceAdmin and the commit; or a conflict, and neither.
CreateInstanceAdmin(a) ==
  LET t == attempt[a] IN
  /\ t.at = "counted"
  /\ \/ /\ t.name \notin TakenNames /\ t.email \notin TakenEmails
        /\ \E u \in Users :
             /\ account[u] = NoAccount
             /\ account' = [account EXCEPT ![u] =
                              [name |-> t.name, email |-> t.email, by |-> Bootstrapped]]
             /\ admins' = admins \cup {u}
     \/ /\ t.name \in TakenNames \/ t.email \in TakenEmails
        /\ UNCHANGED <<account, admins>>
  /\ attempt' = [attempt EXCEPT ![a] = Resting]
  /\ bootLock' = NoOne
  /\ UNCHANGED <<reserved, invite>>

-------------------------------------------------------------------------------
(* Invites. *)

CreateInstanceInvite(i) ==
  /\ invite[i] = NoInvite
  /\ \E m \in 1..MaxUses :
       invite' = [invite EXCEPT ![i] = [there |-> TRUE, uses |-> 0, max |-> m, late |-> FALSE]]
  /\ UNCHANGED <<account, reserved, attempt, admins, bootLock>>

\* DeleteInstanceInvite by an admin, or DeleteExpiredInstanceInvites by the sweep.
DeleteInstanceInvite(i) ==
  /\ invite[i].there
  /\ invite' = [invite EXCEPT ![i].there = FALSE]
  /\ UNCHANGED <<account, reserved, attempt, admins, bootLock>>

InviteExpires(i) ==
  /\ invite[i].there /\ ~invite[i].late
  /\ invite' = [invite EXCEPT ![i].late = TRUE]
  /\ UNCHANGED <<account, reserved, attempt, admins, bootLock>>

RegistrationNext ==
  \/ \E a \in Attempts : \/ RegisterCommit(a) \/ ReserveUsername(a) \/ CreateInstanceAdmin(a)
                         \/ \E n \in Names, e \in Addresses : Register(a, n, e) \/ Bootstrap(a, n, e)
  \/ \E i \in Invites : CreateInstanceInvite(i) \/ DeleteInstanceInvite(i) \/ InviteExpires(i)

RegistrationSpec == RegistrationInit /\ [][RegistrationNext]_registrationVars

-------------------------------------------------------------------------------
\* An invite's count is exactly the accounts it admitted: a registration that
\* lost its address or its name, or rolled back, cost whoever holds it nothing,
\* and two at once never spend the last use twice.
InviteCountsAccounts ==
  \A i \in Invites : invite[i].uses = Made(i) /\ invite[i].uses <= invite[i].max

\* Bootstrap makes one admin in the instance's life, though every attempt counts
\* before it inserts: an operator token replayed later adds nobody.
OneBootstrapAdmin == Cardinality({u \in Users : account[u].by = Bootstrapped}) <= 1
================================================================================
