----------------------------- MODULE GuildAuthority -----------------------------
(***************************************************************************)
(* Authority inside one guild: roles and their positions, who holds them,  *)
(* a channel's permission overwrites, and the owner.  Sources: roles/      *)
(* resolve.go, guildauth/guildauth.go, guilds/role.go, memberrole.go,      *)
(* overwrite.go, member.go, ownership.go, and the statements of            *)
(* db/guilds.sql.go and db/roles.sql.go.                                   *)
(*                                                                         *)
(* A request is a transaction under READ COMMITTED.  Its first step reads  *)
(* the caller's authority (guildauth.Authorize); what follows runs on that *)
(* decision while other requests commit.  A later step is atomic where the *)
(* code holds the lock that keeps others out: the guild's role-position    *)
(* lock, the channel row, the overwrite row, the guild row.                *)
(***************************************************************************)
EXTENDS Accounts, Naturals, FiniteSets, FiniteSetsExt

CONSTANTS
  RoleCount,       \* role ids are minted 1, 2, ... up to this bound
  maxRolesPerGuild,
  Masks,           \* the permission sets a request may ask for
  Requests,        \* transactions in flight at once
  MaxBegun,        \* transactions begun in all
  GuildUsers, Founder, Manager,
  InstanceAdmins

VARIABLES
  owner, members,
  lastRole,     \* the newest role id minted
  roles,        \* live roles other than @everyone
  position,     \* [RoleIds -> Nat]
  permissions,  \* [RoleIds \cup {Everyone} -> SUBSET Perms]
  holds,        \* [GuildUsers -> SUBSET RoleIds], guild_member_roles
  overwrite,    \* [Targets -> a row [allow, deny], or NoRow], of the one channel
  request,      \* [Requests -> the transaction's progress]
  begun,        \* transactions begun so far
  conferred     \* permissions the owner or an instance admin ever put in the guild

guildVars == <<owner, members, lastRole, roles, position, permissions, holds,
               overwrite, request, begun, conferred>>

Perms    == {"administrator", "manage_roles", "kick_members", "view_channel"}
RoleIds  == 1..RoleCount
Everyone == 0
Targets  == {Everyone} \cup RoleIds \cup GuildUsers
NoRow    == [allow |-> {}, deny |-> {}, set |-> FALSE]
Row(allow, deny) == [allow |-> allow, deny |-> deny, set |-> TRUE]

ASSUME GuildAssumption ==
  /\ RoleCount \in Nat \ {0, 1} /\ maxRolesPerGuild \in Nat /\ MaxBegun \in Nat
  /\ Masks \subseteq SUBSET Perms
  /\ {Founder, Manager} \subseteq GuildUsers /\ GuildUsers \cap Nat = {}

NoDecision == [actor |-> NoOne, admin |-> FALSE, owner |-> NoOne, bypassed |-> FALSE,
               permissions |-> {}, base |-> {}, highest |-> 0, held |-> {}]
NoRequest  == [at |-> "idle", d |-> NoDecision, target |-> NoOne, want |-> NoRow, plan |-> <<>>]

Phases == {"idle", "roles", "overwrite", "kick", "leave", "transfer",
           "create", "reorder", "set", "remove"}

GuildTypeOK ==
  /\ owner \in GuildUsers /\ members \subseteq GuildUsers
  /\ lastRole \in 0..RoleCount /\ roles \subseteq 1..lastRole
  /\ position \in [RoleIds -> 0..(maxRolesPerGuild + RoleCount)]
  /\ permissions \in [RoleIds \cup {Everyone} -> SUBSET Perms]
  /\ holds \in [GuildUsers -> SUBSET RoleIds] /\ \A u \in GuildUsers \ members : holds[u] = {}
  /\ \A t \in Targets : overwrite[t].allow \cup overwrite[t].deny \subseteq Perms
  /\ \A q \in Requests : request[q].at \in Phases
  /\ begun \in 0..MaxBegun /\ conferred \subseteq Perms

-------------------------------------------------------------------------------
(* Resolution: what a member may do, in the guild and in the channel. *)

Held(u) == holds[u] \cup {Everyone}

HighestOf(S) == Max({position[r] : r \in S} \cup {0})

Union(field(_), S) == UNION {field(t) : t \in S}

\* applyOverwrites: @everyone's row, then the held roles' together, then the member's.
\* A row whose target is no held role and not the member does not apply.
ApplyOverwrites(base, held, u) ==
  LET Allow(t) == overwrite[t].allow
      Deny(t)  == overwrite[t].deny
      mine     == held \ {Everyone}
      guild    == (base \ Deny(Everyone)) \cup Allow(Everyone)
      ranked   == (guild \ Union(Deny, mine)) \cup Union(Allow, mine)
  IN  (ranked \ Deny(u)) \cup Allow(u)

\* Resolve, for a channel or for the guild alone, and Authorize around it.
Resolve(u, inChannel) ==
  LET base  == UNION {permissions[r] : r \in Held(u)}
      owns  == u = owner
      free  == owns \/ "administrator" \in base
  IN  [actor |-> u, admin |-> u \in InstanceAdmins, owner |-> owner, bypassed |-> free,
       base |-> IF owns THEN Perms ELSE base,
       permissions |-> IF free THEN Perms
                       ELSE IF inChannel THEN ApplyOverwrites(base, Held(u), u) ELSE base,
       highest |-> HighestOf(holds[u]), held |-> Held(u)]

Owns(d)   == d.actor = d.owner
Allows(d, need) == d.admin \/ need \subseteq d.permissions
Outranks(d, p)  == d.admin \/ Owns(d) \/ d.highest > p
OutranksMember(d, u) ==
  d.admin \/ (u # d.owner /\ Outranks(d, HighestOf(holds[u])))
AllowsInChannel(d, need) ==
  d.admin \/ d.bypassed \/ need \subseteq ApplyOverwrites(d.base, d.held, d.actor)

MayGrantOwnRank(d, want) == d.admin \/ Owns(d) \/ "manage_roles" \in d.permissions

\* refuseEscalation: nobody hands out what the decision does not hold.
MayGrant(d, want) == Allows(d, want)

\* refuseRemovingOverwritesFor: what a target's row allows and denies, taken away with it.
MayStripOverwrites(d, t) ==
  overwrite[t].set => AllowsInChannel(d, overwrite[t].allow \cup overwrite[t].deny)

\* What a commit by the owner or an instance admin confers on the guild.
Confers(d, ps) == conferred \cup (IF d.admin \/ Owns(d) THEN ps ELSE {})

-------------------------------------------------------------------------------
(* Locks, read off the transactions that hold them. *)

\* LockGuildRolePositions: one reordering at a time, and no creation during it.
PositionsFree(q) == \A p \in Requests \ {q} : request[p].at # "reorder"

\* AuthorizeChannel locks the channel row to the end of the transaction.
ChannelFree == \A q \in Requests : request[q].at \notin {"overwrite", "set"}

\* GetPermissionOverwriteForUpdate holds the row it replaces; an absent row holds nothing.
RowFree(t) == \A q \in Requests :
  ~(request[q].at = "set" /\ request[q].target = t /\ request[q].plan # <<>>)

Done(q) == request' = [request EXCEPT ![q] = NoRequest]

GuildInit ==
  /\ owner = Founder /\ members = {Founder, Manager}
  /\ lastRole = 2 /\ roles = {1, 2}
  /\ position = [r \in RoleIds |-> IF r <= 2 THEN r ELSE 0]
  /\ permissions = [r \in RoleIds \cup {Everyone} |->
                      CASE r = Everyone -> {"view_channel"}
                        [] r = 2        -> {"manage_roles", "kick_members"}
                        [] OTHER        -> {}]
  /\ holds = [u \in GuildUsers |-> IF u = Manager THEN {2} ELSE {}]
  /\ overwrite = [t \in Targets |-> NoRow]
  /\ conferred = {"view_channel", "manage_roles", "kick_members"}
  /\ request = [q \in Requests |-> NoRequest] /\ begun = 0

-------------------------------------------------------------------------------
(* The first step of every transaction: the decision it will act on. *)

Begin(q, at, u, inChannel, need) ==
  LET d == Resolve(u, inChannel) IN
  /\ request[q].at = "idle" /\ begun < MaxBegun /\ begun' = begun + 1
  /\ u \in members \cup {owner} \cup InstanceAdmins
  /\ Allows(d, need)
  /\ request' = [request EXCEPT ![q] = [NoRequest EXCEPT !.at = at, !.d = d]]
  /\ UNCHANGED <<owner, members, lastRole, roles, position, permissions, holds, overwrite, conferred>>

AuthorizeRoles(q, u) == Begin(q, "roles", u, FALSE, {"manage_roles"})

\* authorizeChannel: whoever cannot see the channel is refused, whatever else is asked.
SeenAnd(need) == need \cup {"view_channel"}

AuthorizeChannel(q, u) ==
  ChannelFree /\ Begin(q, "overwrite", u, TRUE, SeenAnd({"manage_roles"}))

AuthorizeTransfer(q, u) ==
  Begin(q, "transfer", u, FALSE, {"view_channel"}) /\ (u = owner \/ u \in InstanceAdmins)

AuthorizeLeave(q, u) == Begin(q, "leave", u, FALSE, {})

\* RemoveMember of another: the target's standing is read, unlocked, on this decision.
AuthorizeKick(q, u) == Begin(q, "kick", u, FALSE, {"kick_members"})

CheckKick(q, u) ==
  LET d == request[q].d IN
  /\ request[q].at = "kick"
  /\ u \in members \ {d.actor} /\ OutranksMember(d, u)
  /\ request' = [request EXCEPT ![q].at = "remove", ![q].target = u]
  /\ UNCHANGED <<owner, members, lastRole, roles, position, permissions, holds, overwrite, begun, conferred>>

\* Any refusal or failure rolls the transaction back: nothing it did is seen.
Refused(q) ==
  /\ request[q].at # "idle" /\ Done(q)
  /\ UNCHANGED <<owner, members, lastRole, roles, position, permissions, holds, overwrite, begun, conferred>>

-------------------------------------------------------------------------------
(* Roles. *)

\* CreateRole as far as its count, which the position lock does not cover.
CountRoles(q, ps) ==
  LET d == request[q].d IN
  /\ request[q].at = "roles" /\ MayGrant(d, ps)
  /\ Cardinality(roles) + 1 < maxRolesPerGuild    \* @everyone is counted too
  /\ request' = [request EXCEPT ![q].at = "create", ![q].want = Row(ps, {})]
  /\ UNCHANGED <<owner, members, lastRole, roles, position, permissions, holds, overwrite, begun, conferred>>

\* ShiftRolePositionsUp: ranked by position and id, from 2.
Renumbered(r) ==
  2 + Cardinality({s \in roles : position[s] < position[r] \/ (position[s] = position[r] /\ s < r)})

\* The role's row, lowest of all, above @everyone alone.
InsertRole(r, ps) ==
  /\ lastRole' = r /\ roles' = roles \cup {r}
  /\ position' = [s \in RoleIds |-> IF s = r THEN 1
                                    ELSE IF s \in roles THEN Renumbered(s) ELSE 0]
  /\ permissions' = [permissions EXCEPT ![r] = ps]

CreateRole(q) ==
  LET d == request[q].d
      r == lastRole + 1
      ps == request[q].want.allow
  IN
  /\ request[q].at = "create" /\ PositionsFree(q) /\ r \in RoleIds
  /\ InsertRole(r, ps)
  /\ conferred' = Confers(d, ps)
  /\ Done(q)
  /\ UNCHANGED <<owner, members, holds, overwrite, begun>>

UpdateRole(q, r, ps) ==
  LET d == request[q].d IN
  /\ request[q].at = "roles" /\ r \in roles \cup {Everyone}
  /\ Outranks(d, IF r = Everyone THEN 0 ELSE position[r]) /\ MayGrant(d, ps)
  /\ permissions' = [permissions EXCEPT ![r] = ps]
  /\ conferred' = Confers(d, ps)
  /\ Done(q)
  /\ UNCHANGED <<owner, members, lastRole, roles, position, holds, overwrite, begun>>

\* The role's row, and by cascade the grants of it.
DropRole(r) ==
  /\ roles' = roles \ {r}
  /\ position' = [position EXCEPT ![r] = 0]
  /\ permissions' = [permissions EXCEPT ![r] = {}]
  /\ holds' = [u \in GuildUsers |-> holds[u] \ {r}]

\* DeleteOverwritesForTarget goes with the role.
DeleteRole(q, r) ==
  LET d == request[q].d IN
  /\ request[q].at = "roles" /\ r \in roles
  /\ Outranks(d, position[r]) /\ MayStripOverwrites(d, r) /\ RowFree(r)
  /\ DropRole(r)
  /\ overwrite' = [overwrite EXCEPT ![r] = NoRow]
  /\ Done(q)
  /\ UNCHANGED <<owner, members, lastRole, begun, conferred>>

\* ReorderRoles under the lock: every role and every place outranked, no two in one place.
PlanReorder(q, S, plan) ==
  LET d == request[q].d
      final == [r \in roles |-> IF r \in S THEN plan[r] ELSE position[r]]
  IN
  /\ PositionsFree(q)
  /\ \A r \in S : Outranks(d, position[r]) /\ Outranks(d, plan[r])
  /\ \A r, s \in roles : r # s => final[r] # final[s]
  /\ request' = [request EXCEPT ![q].at = "reorder", ![q].plan = [r \in S |-> plan[r]]]
  /\ UNCHANGED <<owner, members, lastRole, roles, position, permissions, holds, overwrite, begun, conferred>>

\* SetRolePosition for each; one that was deleted meanwhile undoes them all.
SetRolePosition(plan) ==
  /\ DOMAIN plan \subseteq roles /\ \A r \in DOMAIN plan : plan[r] > 0
  /\ position' = [r \in RoleIds |-> IF r \in DOMAIN plan THEN plan[r] ELSE position[r]]

ReorderRoles(q) ==
  /\ request[q].at = "reorder" /\ SetRolePosition(request[q].plan)
  /\ Done(q)
  /\ UNCHANGED <<owner, members, lastRole, roles, permissions, holds, overwrite, begun, conferred>>

\* changeMemberRole, both ways.
MayChangeMemberRole(d, u, r) ==
  /\ r \in roles /\ u \in members
  /\ Outranks(d, position[r])
  /\ u = d.actor \/ OutranksMember(d, u)
  /\ MayStripOverwrites(d, r)

\* Its statement and its commit; a grant already there, or already gone, is no error.
ChangeMemberRole(q, u, held) ==
  /\ holds' = [holds EXCEPT ![u] = held]
  /\ Done(q)
  /\ UNCHANGED <<owner, members, lastRole, roles, position, permissions, overwrite, begun, conferred>>

Assigned(u, r)   == holds[u] \cup {r}
Unassigned(u, r) == holds[u] \ {r}

AssignRole(q, u, r) ==
  LET d == request[q].d IN
  /\ request[q].at = "roles" /\ MayChangeMemberRole(d, u, r) /\ MayGrant(d, permissions[r])
  /\ ChangeMemberRole(q, u, Assigned(u, r))

UnassignRole(q, u, r) ==
  LET d == request[q].d IN
  /\ request[q].at = "roles" /\ MayChangeMemberRole(d, u, r)
  /\ ChangeMemberRole(q, u, Unassigned(u, r))

-------------------------------------------------------------------------------
(* Overwrites. *)

\* checkOverwriteTarget: the role or member exists, and the caller outranks it.
MayTarget(d, t) ==
  \/ t \in roles \cup {Everyone} /\ Outranks(d, IF t = Everyone THEN 0 ELSE position[t])
  \/ t \in members /\ (t = d.actor \/ OutranksMember(d, t))

\* SetOverwrite as far as its checks; the row that is there is locked, the target is not.
CheckOverwrite(q, t, row) ==
  LET d == request[q].d IN
  /\ request[q].at = "overwrite" /\ MayTarget(d, t)
  /\ MayGrant(d, overwrite[t].allow \cup overwrite[t].deny \cup row.allow \cup row.deny)
  /\ request' = [request EXCEPT ![q].at = "set", ![q].target = t, ![q].want = row,
                                ![q].plan = IF overwrite[t].set THEN <<t>> ELSE <<>>]
  /\ UNCHANGED <<owner, members, lastRole, roles, position, permissions, holds, overwrite, begun, conferred>>

SetOverwrite(q) ==
  LET d == request[q].d IN
  /\ request[q].at = "set"
  /\ overwrite' = [overwrite EXCEPT ![request[q].target] = request[q].want]
  /\ conferred' = Confers(d, request[q].want.allow)
  /\ Done(q)
  /\ UNCHANGED <<owner, members, lastRole, roles, position, permissions, holds, begun>>

DeleteOverwrite(q, t) ==
  LET d == request[q].d IN
  /\ request[q].at = "overwrite" /\ overwrite[t].set
  /\ MayTarget(d, t) /\ MayGrant(d, overwrite[t].allow \cup overwrite[t].deny)
  /\ overwrite' = [overwrite EXCEPT ![t] = NoRow]
  /\ Done(q)
  /\ UNCHANGED <<owner, members, lastRole, roles, position, permissions, holds, begun, conferred>>

-------------------------------------------------------------------------------
(* Members and the owner.  A removal holds the guild row FOR SHARE from its *)
(* owner check, a transfer FOR NO KEY UPDATE from its own: the two exclude  *)
(* each other, so each of them is one step from that lock to its commit.    *)

Remove(q, u) ==
  /\ u \in members /\ u # owner /\ RowFree(u)
  /\ members' = members \ {u}
  /\ holds' = [holds EXCEPT ![u] = {}]
  /\ overwrite' = [overwrite EXCEPT ![u] = NoRow]
  /\ Done(q)
  /\ UNCHANGED <<owner, lastRole, roles, position, permissions, begun, conferred>>

RemoveMember(q) == request[q].at = "remove" /\ Remove(q, request[q].target)
Leave(q) == request[q].at = "leave" /\ Remove(q, request[q].d.actor)

\* Still the owner, and the recipient still a member, by the statement's own WHERE.
TransferOwnership(q, to) ==
  LET d == request[q].d IN
  /\ request[q].at = "transfer"
  /\ owner = d.actor \/ d.admin
  /\ to \in members \ {owner}
  /\ owner' = to
  /\ Done(q)
  /\ UNCHANGED <<members, lastRole, roles, position, permissions, holds, overwrite, begun, conferred>>

\* A redeemed invite adds the member with no roles; the invite is GuildMembership's.
Join(u) ==
  /\ u \in GuildUsers \ members
  /\ members' = members \cup {u}
  /\ UNCHANGED <<owner, lastRole, roles, position, permissions, holds, overwrite, request, begun, conferred>>

-------------------------------------------------------------------------------
GuildNext ==
  \/ \E q \in Requests, u \in GuildUsers :
       \/ AuthorizeRoles(q, u) \/ AuthorizeChannel(q, u) \/ AuthorizeTransfer(q, u)
       \/ AuthorizeLeave(q, u) \/ AuthorizeKick(q, u) \/ CheckKick(q, u)
       \/ TransferOwnership(q, u)
  \/ \E q \in Requests :
       \/ Refused(q) \/ CreateRole(q) \/ ReorderRoles(q) \/ SetOverwrite(q)
       \/ RemoveMember(q) \/ Leave(q)
  \/ \E q \in Requests, ps \in Masks : CountRoles(q, ps)
  \/ \E q \in Requests, ps \in Masks, r \in RoleIds \cup {Everyone} : UpdateRole(q, r, ps)
  \/ \E q \in Requests, r \in RoleIds : DeleteRole(q, r)
  \/ \E q \in Requests : /\ request[q].at = "roles"
                        /\ \E S \in SUBSET roles \ {{}} :
                             \E plan \in [S -> 1..maxRolesPerGuild] : PlanReorder(q, S, plan)
  \/ \E q \in Requests, u \in GuildUsers, r \in RoleIds : AssignRole(q, u, r) \/ UnassignRole(q, u, r)
  \/ \E q \in Requests, t \in Targets :
       \/ DeleteOverwrite(q, t)
       \/ \E ps \in Masks : CheckOverwrite(q, t, Row(ps, {})) \/ CheckOverwrite(q, t, Row({}, ps))
  \/ \E u \in GuildUsers : Join(u)

GuildSpec == GuildInit /\ [][GuildNext]_guildVars

-------------------------------------------------------------------------------
(* Properties. *)

\* No two roles share a place: creation and reordering read every position and then write,
\* and only the role-position lock keeps another's write from falling between.
RolePositionsDistinct == \A r, s \in roles : r # s => position[r] # position[s]

\* Everything the guild's roles and overwrites allow was put there by an owner or an instance
\* admin: no sequence of grants, edits, reorderings and overwrites by other members, acting on
\* authority that may be stale by then, brings in a permission nobody handed down.
NothingUnconferred ==
  LET reach == IF "administrator" \in conferred THEN Perms ELSE conferred IN
  /\ \A r \in RoleIds \cup {Everyone} : permissions[r] \subseteq reach
  /\ \A t \in Targets : overwrite[t].allow \subseteq reach

\* The guild is never owned by somebody who is not in it, however a kick or a departure,
\* authorized while the target was an ordinary member, races the transfer.
OwnerIsMember == owner \in members

\* An overwrite's role or member exists: deleting a role and removing a member take the
\* overwrites that name them along (guilds/role.go, guilds/member.go).
OverwriteTargetsExist ==
  \A t \in Targets : overwrite[t].set => t \in roles \cup {Everyone} \cup members
===============================================================================
