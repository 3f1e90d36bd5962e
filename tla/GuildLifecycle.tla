----------------------------- MODULE GuildLifecycle -----------------------------
(***************************************************************************)
(* Guilds, who owns and who is in them, and the invites that let people    *)
(* in.  Sources: guilds/guild.go, guilds/invite.go, guilds/ownership.go,   *)
(* guilds/member.go and the statements of db/guilds.sql.go and             *)
(* db/invites.sql.go.                                                      *)
(*                                                                         *)
(* Each operation is a transaction under READ COMMITTED that takes its     *)
(* locks one after another: the account's advisory lock, and the guild row *)
(* FOR SHARE (a join, a removal), FOR NO KEY UPDATE (a transfer) or        *)
(* FOR UPDATE (a deletion).  A transaction waiting in a cycle is aborted   *)
(* by Postgres, as any other may be by a failure.                          *)
(***************************************************************************)
EXTENDS Accounts, Naturals, FiniteSets

CONSTANTS Guilds, GuildInvites, Txs,
          maxGuildsPerAccount, maxJoinedGuildsPerAccount, MaxInviteUses

ASSUME LifecycleOfGuilds ==
  /\ IsFiniteSet(Guilds) /\ NoOne \notin Guilds
  /\ {maxGuildsPerAccount, maxJoinedGuildsPerAccount, MaxInviteUses} \subseteq Nat

VARIABLES
  guild,      \* [Guilds -> [state, owner]]
  joined,     \* [Users -> SUBSET Guilds], guild_members
  guildInvite,\* [GuildInvites -> [guild, uses, state]]
  admitted,   \* [GuildInvites -> joins made with it]
  tx          \* [Txs -> the transaction's progress and locks]

lifeVars == <<guild, joined, guildInvite, admitted, tx>>

IdleTx == [at |-> "idle", user |-> NoOne, guild |-> NoOne, to |-> NoOne, invite |-> NoOne]
Unmade == [state |-> "none", owner |-> NoOne]
NoInvite == [guild |-> NoOne, uses |-> 0, state |-> "none"]

LifeTypeOK ==
  /\ guild \in [Guilds -> [state: {"none", "live", "gone"}, owner: Users \cup {NoOne}]]
  /\ joined \in [Users -> SUBSET Guilds]
  /\ guildInvite \in [GuildInvites -> [guild: Guilds \cup {NoOne}, uses: 0..MaxInviteUses,
                                       state: {"none", "live", "expired", "deleted"}]]
  /\ admitted \in [GuildInvites -> Nat]
  /\ \A t \in Txs : tx[t].at \in {"idle", "create", "redeem", "join", "transfer", "handover",
                                  "owned", "delete"}

LifeInit ==
  /\ guild = [g \in Guilds |-> Unmade]
  /\ joined = [u \in Users |-> {}]
  /\ guildInvite = [i \in GuildInvites |-> NoInvite]
  /\ admitted = [i \in GuildInvites |-> 0]
  /\ tx = [t \in Txs |-> IdleTx]

-------------------------------------------------------------------------------
(* Locks. *)

\* LockAccountOwnership, held by every transaction that counts an account's guilds.
AccountHeld(u) == \E t \in Txs :
  \/ tx[t].at \in {"create", "redeem", "join"} /\ tx[t].user = u
  \/ tx[t].at = "owned" /\ tx[t].to = u

AccountOpen(u) == TRUE
AccountFree(u) == ~AccountHeld(u)

\* The guild row, FOR SHARE by a join and FOR NO KEY UPDATE by a transfer.
Shared(g)   == \E t \in Txs : tx[t].at = "join" /\ tx[t].guild = g
Writing(g)  == \E t \in Txs : tx[t].at \in {"handover", "owned"} /\ tx[t].guild = g

Live(g)     == guild[g].state = "live"
OwnedBy(u)  == Cardinality({g \in Guilds : Live(g) /\ guild[g].owner = u})
JoinedBy(u) == Cardinality(joined[u])

Go(t, r) == tx[t].at = "idle" /\ tx' = [tx EXCEPT ![t] = r]
Ended(t) == tx' = [tx EXCEPT ![t] = IdleTx]

\* A refusal, a failure, or Postgres choosing this one of a deadlocked pair.
Abort(t) == tx[t].at # "idle" /\ Ended(t) /\ UNCHANGED <<guild, joined, guildInvite, admitted>>

-------------------------------------------------------------------------------
(* Creating. *)

LockForCreate(t, u) ==
  /\ AccountFree(u)
  /\ OwnedBy(u) < maxGuildsPerAccount /\ JoinedBy(u) < maxJoinedGuildsPerAccount
  /\ Go(t, [IdleTx EXCEPT !.at = "create", !.user = u])
  /\ UNCHANGED <<guild, joined, guildInvite, admitted>>

\* The guild, its @everyone role and the owner's membership, together.
CreateGuild(t, g) ==
  LET u == tx[t].user IN
  /\ tx[t].at = "create" /\ guild[g].state = "none"
  /\ guild' = [guild EXCEPT ![g] = [state |-> "live", owner |-> u]]
  /\ joined' = [joined EXCEPT ![u] = @ \cup {g}]
  /\ Ended(t)
  /\ UNCHANGED <<guildInvite, admitted>>

-------------------------------------------------------------------------------
(* Invites. *)

\* Authorized unlocked; the foreign key refuses an invite into a deleted guild.
CreateInvite(u, i, g) ==
  /\ Live(g) /\ g \in joined[u] /\ guildInvite[i].state = "none"
  /\ guildInvite' = [guildInvite EXCEPT ![i] = [guild |-> g, uses |-> 0, state |-> "live"]]
  /\ UNCHANGED <<guild, joined, admitted, tx>>

InviteExpires(i) ==
  /\ guildInvite[i].state = "live"
  /\ guildInvite' = [guildInvite EXCEPT ![i].state = "expired"]
  /\ UNCHANGED <<guild, joined, admitted, tx>>

\* RevokeInvite, and the sweep of expired ones.
DeleteInvite(i) ==
  /\ guildInvite[i].state \in {"live", "expired"}
  /\ guildInvite' = [guildInvite EXCEPT ![i].state = "deleted"]
  /\ UNCHANGED <<guild, joined, admitted, tx>>

\* GetLiveGuildInvite, and the WHERE of RedeemGuildInvite.
RedeemableInvite(i) == guildInvite[i].state = "live" /\ guildInvite[i].uses < MaxInviteUses

LockForRedeem(t, u, i) ==
  /\ AccountFree(u) /\ RedeemableInvite(i)
  /\ Go(t, [IdleTx EXCEPT !.at = "redeem", !.user = u, !.invite = i, !.guild = guildInvite[i].guild])
  /\ UNCHANGED <<guild, joined, guildInvite, admitted>>

\* The guild FOR SHARE, then the joined ceiling; a member stops here with nothing spent.
LockGuildForShare(t) ==
  LET g == tx[t].guild IN
  /\ tx[t].at = "redeem" /\ ~Writing(g) /\ Live(g)
  /\ g \notin joined[tx[t].user] /\ JoinedBy(tx[t].user) < maxJoinedGuildsPerAccount
  /\ tx' = [tx EXCEPT ![t].at = "join"]
  /\ UNCHANGED <<guild, joined, guildInvite, admitted>>

\* The use is spent by one guarded statement; the last use deletes the invite.
RedeemInvite(t) ==
  LET i == tx[t].invite
      u == tx[t].user
      spent == guildInvite[i].uses + 1
  IN
  /\ tx[t].at = "join" /\ RedeemableInvite(i)
  /\ guildInvite' = [guildInvite EXCEPT ![i].uses = IF spent > MaxInviteUses THEN @ ELSE spent,
                                        ![i].state = IF spent = MaxInviteUses THEN "deleted" ELSE @]
  /\ admitted' = [admitted EXCEPT ![i] = @ + 1]
  /\ joined' = [joined EXCEPT ![u] = @ \cup {tx[t].guild}]
  /\ Ended(t)
  /\ UNCHANGED guild

-------------------------------------------------------------------------------
(* Ownership, departure and deletion. *)

\* The caller owns the guild by an unlocked read.
BeginTransfer(t, u, g, to) ==
  /\ Live(g) /\ guild[g].owner = u /\ to # u
  /\ Go(t, [IdleTx EXCEPT !.at = "transfer", !.user = u, !.guild = g, !.to = to])
  /\ UNCHANGED <<guild, joined, guildInvite, admitted>>

\* FOR NO KEY UPDATE: still the owner, the recipient a member.
LockForTransfer(t) ==
  LET g == tx[t].guild IN
  /\ tx[t].at = "transfer" /\ ~Shared(g) /\ ~Writing(g)
  /\ Live(g) /\ guild[g].owner = tx[t].user /\ g \in joined[tx[t].to]
  /\ tx' = [tx EXCEPT ![t].at = "handover"]
  /\ UNCHANGED <<guild, joined, guildInvite, admitted>>

\* The recipient's account lock, then their count.
CountRecipient(t) ==
  /\ tx[t].at = "handover" /\ AccountFree(tx[t].to)
  /\ OwnedBy(tx[t].to) < maxGuildsPerAccount
  /\ tx' = [tx EXCEPT ![t].at = "owned"]
  /\ UNCHANGED <<guild, joined, guildInvite, admitted>>

HandOver(t) ==
  /\ tx[t].at = "owned"
  /\ tx[t].guild \in joined[tx[t].to]
  /\ guild' = [guild EXCEPT ![tx[t].guild].owner = tx[t].to]
  /\ Ended(t)
  /\ UNCHANGED <<joined, guildInvite, admitted>>

\* RemoveMember from its FOR SHARE lock to its commit: a kick, or leaving.
DepartGuild(u, g) ==
  /\ g \in joined[u] /\ ~Writing(g) /\ guild[g].owner # u
  /\ joined' = [joined EXCEPT ![u] = @ \ {g}]
  /\ UNCHANGED <<guild, guildInvite, admitted, tx>>

\* Delete: authorized, then FOR UPDATE and checked again.
BeginDelete(t, u, g) ==
  /\ Live(g) /\ guild[g].owner = u
  /\ Go(t, [IdleTx EXCEPT !.at = "delete", !.user = u, !.guild = g])
  /\ UNCHANGED <<guild, joined, guildInvite, admitted>>

\* The cascade takes memberships and invites along.
DeleteGuild(t) ==
  LET g == tx[t].guild IN
  /\ tx[t].at = "delete" /\ ~Shared(g) /\ ~Writing(g)
  /\ Live(g) /\ guild[g].owner = tx[t].user
  /\ guild' = [guild EXCEPT ![g] = [Unmade EXCEPT !.state = "gone"]]
  /\ joined' = [u \in Users |-> joined[u] \ {g}]
  /\ guildInvite' = [i \in GuildInvites |->
                       IF guildInvite[i].guild = g THEN [guildInvite[i] EXCEPT !.state = "deleted"]
                       ELSE guildInvite[i]]
  /\ Ended(t)
  /\ UNCHANGED admitted

-------------------------------------------------------------------------------
LifeNext ==
  \/ \E t \in Txs :
       \/ Abort(t) \/ LockGuildForShare(t) \/ RedeemInvite(t) \/ LockForTransfer(t)
       \/ CountRecipient(t) \/ HandOver(t) \/ DeleteGuild(t)
       \/ \E u \in Users : LockForCreate(t, u) \/ \E i \in GuildInvites : LockForRedeem(t, u, i)
       \/ \E g \in Guilds : CreateGuild(t, g)
       \/ \E u \in Users, g \in Guilds :
            \/ BeginDelete(t, u, g)
            \/ \E to \in Users : BeginTransfer(t, u, g, to)
  \/ \E u \in Users, g \in Guilds :
       DepartGuild(u, g) \/ \E i \in GuildInvites : CreateInvite(u, i, g)
  \/ \E i \in GuildInvites : InviteExpires(i) \/ DeleteInvite(i)

LifeSpec == LifeInit /\ [][LifeNext]_lifeVars

-------------------------------------------------------------------------------
(* Properties. *)

\* No account passes its ceilings: creations, transfers to it from different guilds and
\* redemptions each count and then write, and lock different guild rows or none at all.
CeilingsHold ==
  \A u \in Users : OwnedBy(u) <= maxGuildsPerAccount /\ JoinedBy(u) <= maxJoinedGuildsPerAccount

\* A counted invite lets in exactly as many as it counts, whoever redeems it at once.
InviteAdmitsItsUses ==
  \A i \in GuildInvites : admitted[i] = guildInvite[i].uses /\ admitted[i] <= MaxInviteUses
===============================================================================
