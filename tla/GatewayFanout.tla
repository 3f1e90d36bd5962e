--------------------------- MODULE GatewayFanout ---------------------------
(***************************************************************************)
(* From a committed change to the sessions' streams: the transactions of   *)
(* backend/internal/guilds and messages with their after-commit hooks      *)
(* (dispatch, platform/database), the in-process bus (platform/events),    *)
(* and the gateway's lanes, candidates, audience check, index and READY    *)
(* (gateway/fanout.go, index.go, session.go).                              *)
(*                                                                         *)
(* An event is its guild, its audience and the number of the transaction   *)
(* that queued it.  Membership stands for the audience check's whole       *)
(* answer: who may view a channel is not modelled.  What happens to a      *)
(* stream after an event is numbered is GatewayStream's.                   *)
(***************************************************************************)
EXTENDS Integers, Sequences, FiniteSets, SequencesExt

CONSTANTS
  User, Guild, Sess,
  Owner,           \* session.userID
  Lane, LaneOf,    \* Options.FanoutLanes, and the lane of a guild
  BusCap,          \* subscriptionBuffer
  LaneDepth,       \* laneDepth
  MaxOps           \* bound: transactions committed

ASSUME FanoutAssumption ==
  /\ Owner \in [Sess -> User] /\ LaneOf \in [Guild -> Lane]
  /\ BusCap \in Nat /\ LaneDepth \in Nat \ {0} /\ MaxOps \in Nat

Op == 1..MaxOps

VARIABLES
  guilds,     \* rows of guilds
  members,    \* rows of guild_members, as user-guild pairs
  log,        \* the guild of every transaction committed so far
  hooks,      \* transaction: its events not yet published
  bus,        \* inprocSub.queue
  lanes,      \* lane: its channel
  work,       \* lane: the event in fanOut and the sessions it may still go to
  byUser,     \* sessionIndex.byUser: the sessions in it
  byGuild,    \* sessionIndex.byGuild
  unready,    \* sessionIndex.unready
  state,      \* session: "new", "open" (not READY yet), "ready" or "ended"
  read,       \* session: what IDENTIFY has read for READY
  sguilds,    \* session.guilds
  pending,    \* session.pending
  stream,     \* what the session has numbered after READY
  until,      \* user-guild pair: the number of transactions at its last removal, or Never
  amiss       \* what went wrong on the way (history): "lost", an event was dropped; "swapped", a
              \* transaction's hooks published before an earlier one's

db == <<guilds, members, log, until>>
path == <<hooks, bus, lanes, work, amiss>>
index == <<byUser, byGuild, unready>>
sessions == <<state, read, sguilds, pending, stream>>
vars == <<db, path, index, sessions>>

Event == [type : {"CREATE", "DELETE", "OTHER"}, aud : {"guild", "users", "former"},
          guild : Guild, users : SUBSET User, op : Op]
Idle == [stage |-> "idle"]
NotRead == [guilds |-> {}, at |-> -1]

Never == -1

ops == Len(log)
GuildsOf(u) == {g \in Guild : <<u, g>> \in members}

Init ==
  /\ guilds = Guild
  /\ members \in SUBSET (User \X Guild)
  /\ until = [m \in User \X Guild |-> Never]
  /\ log = <<>>
  /\ hooks = [o \in Op |-> <<>>]
  /\ bus = <<>>
  /\ lanes = [l \in Lane |-> <<>>]
  /\ work = [l \in Lane |-> Idle]
  /\ byUser = {} /\ unready = {} /\ byGuild = [g \in Guild |-> {}]
  /\ state = [s \in Sess |-> "new"]
  /\ read = [s \in Sess |-> NotRead]
  /\ sguilds = [s \in Sess |-> {}]
  /\ pending = [s \in Sess |-> <<>>]
  /\ stream = [s \in Sess |-> <<>>]
  /\ amiss = {}

----------------------------------------------------------------------------
(* Transactions: the rows change at commit, and the hooks run after it.    *)

Commit(g, events) ==
  /\ ops < MaxOps
  /\ log' = Append(log, g)
  /\ hooks' = [hooks EXCEPT ![ops + 1] = events]
  /\ UNCHANGED <<bus, lanes, work, amiss, index, sessions>>

ToUser(type, u, g) == [type |-> type, aud |-> "users", guild |-> g, users |-> {u}, op |-> ops + 1]
ToGuild(g) == [type |-> "OTHER", aud |-> "guild", guild |-> g, users |-> {}, op |-> ops + 1]
ToFormer(g) == [type |-> "DELETE", aud |-> "former", guild |-> g, users |-> {}, op |-> ops + 1]

\* RedeemInvite: the joiner first, then the guild.
Join(u, g) ==
  /\ g \in guilds /\ <<u, g>> \notin members
  /\ members' = members \cup {<<u, g>>}
  /\ Commit(g, <<ToUser("CREATE", u, g), ToGuild(g)>>)
  /\ UNCHANGED <<guilds, until>>

\* RemoveMember: a kick or a departure; the removed account first.  The guild's owner cannot
\* be removed, and is not one of User.
RemoveMember(u, g) ==
  /\ <<u, g>> \in members
  /\ members' = members \ {<<u, g>>}
  /\ until' = [until EXCEPT ![<<u, g>>] = ops]
  /\ Commit(g, <<ToUser("DELETE", u, g), ToGuild(g)>>)
  /\ UNCHANGED guilds

\* Delete: the guild's rows go, its memberships with them.
DeleteGuild(g) ==
  /\ g \in guilds
  /\ guilds' = guilds \ {g}
  /\ members' = {m \in members : m[2] # g}
  /\ until' = [m \in User \X Guild |-> IF m \in members /\ m[2] = g THEN ops ELSE until[m]]
  /\ Commit(g, <<ToFormer(g)>>)

\* A message, or any other change that is told to the guild.
Post(g) ==
  /\ g \in guilds
  /\ Commit(g, <<ToGuild(g)>>)
  /\ UNCHANGED <<guilds, members, until>>

----------------------------------------------------------------------------
(* The bus and the lanes.                                                  *)

Overtakes(o) == \E p \in Op : p < o /\ hooks[p] # <<>>

\* Mutant: the subscription's queue has no bound.
PublishAlways(o) ==
  /\ hooks[o] # <<>>
  /\ hooks' = [hooks EXCEPT ![o] = Tail(@)]
  /\ bus' = Append(bus, Head(hooks[o]))
  /\ UNCHANGED <<db, lanes, work, amiss, index, sessions>>

\* A hook publishes: the event is offered to the subscription and dropped if it is full.
Publish(o) ==
  /\ hooks[o] # <<>>
  /\ hooks' = [hooks EXCEPT ![o] = Tail(@)]
  /\ bus' = IF Len(bus) < BusCap THEN Append(bus, Head(hooks[o])) ELSE bus
  /\ amiss' = amiss \cup (IF Overtakes(o) THEN {"swapped"} ELSE {})
                    \cup (IF Len(bus) < BusCap THEN {} ELSE {"lost"})
  /\ UNCHANGED <<db, lanes, work, index, sessions>>

\* onEvent: the subscription's goroutine hands an event to its guild's lane, and waits if it is full.
OnEvent ==
  LET l == LaneOf[Head(bus).guild] IN
  /\ bus # <<>>
  /\ Len(lanes[l]) < LaneDepth
  /\ lanes' = [lanes EXCEPT ![l] = Append(@, Head(bus))]
  /\ bus' = Tail(bus)
  /\ UNCHANGED <<db, hooks, work, amiss, index, sessions>>

\* Mutant: a session that is not READY is looked up by its guilds, of which it has none.
CandidatesReadyOnly(ev) ==
  IF ev.aud = "users" THEN {s \in byUser : Owner[s] \in ev.users} ELSE byGuild[ev.guild]

\* candidates: the index is a pre-filter.
Candidates(ev) ==
  IF ev.aud = "users" THEN {s \in byUser : Owner[s] \in ev.users}
  ELSE byGuild[ev.guild] \cup unready

\* fanOut, first step.
Pick(l) ==
  /\ work[l].stage = "idle" /\ lanes[l] # <<>>
  /\ lanes' = [lanes EXCEPT ![l] = Tail(@)]
  /\ LET ev == Head(lanes[l]) IN
     work' = [work EXCEPT ![l] = IF Candidates(ev) = {} THEN Idle
                                 ELSE [stage |-> "check", ev |-> ev, to |-> Candidates(ev)]]
  /\ UNCHANGED <<db, hooks, bus, amiss, index, sessions>>

\* Mutant: memory is the authority, and the rows are not asked.
AllowedByIndex(ev, candidates) == candidates

\* Audience.Allowed: the rows decide for a guild's event, now.
Allowed(ev, candidates) ==
  IF ev.aud = "guild" THEN {s \in candidates : <<Owner[s], ev.guild>> \in members} ELSE candidates

\* fanOut, second step; the database may not answer, and then nobody receives the event.
Check(l) ==
  /\ work[l].stage = "check"
  /\ \/ /\ work' = [work EXCEPT ![l] =
              IF Allowed(@.ev, @.to) = {} THEN Idle
              ELSE [stage |-> "deliver", ev |-> @.ev, to |-> Allowed(@.ev, @.to)]]
        /\ UNCHANGED amiss
     \/ work' = [work EXCEPT ![l] = Idle] /\ amiss' = amiss \cup {"lost"}
  /\ UNCHANGED <<db, hooks, bus, lanes, index, sessions>>

----------------------------------------------------------------------------
(* session.go and index.go.                                                *)

\* applyLocked: what an event makes of a session's guild set and stream.
Apply(acc, ev) ==
  IF ev.aud = "former" /\ ev.guild \notin acc.set THEN acc
  ELSE [set |-> CASE ev.type = "CREATE" -> acc.set \cup {ev.guild}
                  [] ev.type = "DELETE" -> acc.set \ {ev.guild}
                  [] OTHER -> acc.set,
        out |-> Append(acc.out, ev)]

\* Events applied in turn.
Applied(base, events) ==
  LET acc[n \in 0..Len(events)] == IF n = 0 THEN base ELSE Apply(acc[n - 1], events[n])
  IN acc[Len(events)]

\* Events applied to session s, which had set, its index entries following.
ApplyAll(s, set, events) ==
  LET end == Applied([set |-> set, out |-> stream[s]], events) IN
  /\ sguilds' = [sguilds EXCEPT ![s] = end.set]
  /\ stream' = [stream EXCEPT ![s] = end.out]
  /\ byGuild' = [g \in Guild |-> IF g \in end.set THEN byGuild[g] \cup {s} ELSE byGuild[g] \ {s}]

Handed(l, s) ==
  work' = [work EXCEPT ![l] = IF @.to = {s} THEN Idle ELSE [@ EXCEPT !.to = work[l].to \ {s}]]

\* Mutant: a session dropped since fan-out picked it is given the event.
DeliverToEnded(l, s) ==
  /\ work[l].stage = "deliver" /\ s \in work[l].to
  /\ Handed(l, s)
  /\ IF state[s] = "open"
       THEN /\ pending' = [pending EXCEPT ![s] = Append(@, work[l].ev)]
            /\ UNCHANGED <<stream, sguilds, byGuild>>
       ELSE ApplyAll(s, sguilds[s], <<work[l].ev>>) /\ UNCHANGED pending
  /\ UNCHANGED <<db, hooks, bus, lanes, amiss, byUser, unready, state, read>>

\* fanOut, last step, for one of the sessions: deliver.
Deliver(l, s) ==
  /\ work[l].stage = "deliver" /\ s \in work[l].to
  /\ Handed(l, s)
  /\ \/ state[s] = "ended" /\ UNCHANGED <<pending, stream, sguilds, byGuild>>
     \/ /\ state[s] = "open"
        /\ pending' = [pending EXCEPT ![s] = Append(@, work[l].ev)]
        /\ UNCHANGED <<stream, sguilds, byGuild>>
     \/ state[s] = "ready" /\ ApplyAll(s, sguilds[s], <<work[l].ev>>) /\ UNCHANGED pending
  /\ UNCHANGED <<db, hooks, bus, lanes, amiss, byUser, unready, state, read>>

\* newSession: from here the session is a candidate for every guild.
Register(s) ==
  /\ state[s] = "new"
  /\ state' = [state EXCEPT ![s] = "open"]
  /\ byUser' = byUser \cup {s} /\ unready' = unready \cup {s}
  /\ UNCHANGED <<db, path, byGuild, read, sguilds, pending, stream>>

\* identify reads the account's guilds for READY.
ReadGuilds(s) ==
  /\ state[s] = "open" /\ read[s] = NotRead
  /\ read' = [read EXCEPT ![s] = [guilds |-> GuildsOf(Owner[s]), at |-> ops]]
  /\ UNCHANGED <<db, path, index, state, sguilds, pending, stream>>

\* becomeReady: READY, then what arrived while it was assembled.
BecomeReady(s) ==
  /\ state[s] = "open" /\ read[s] # NotRead
  /\ state' = [state EXCEPT ![s] = "ready"]
  /\ unready' = unready \ {s}
  /\ ApplyAll(s, read[s].guilds, pending[s])
  /\ pending' = [pending EXCEPT ![s] = <<>>]
  /\ UNCHANGED <<db, path, byUser, read>>

\* stop: the session is dropped, for any reason, and leaves the index.
Stop(s) ==
  /\ state[s] \in {"open", "ready"}
  /\ state' = [state EXCEPT ![s] = "ended"]
  /\ pending' = [pending EXCEPT ![s] = <<>>]
  /\ byUser' = byUser \ {s} /\ unready' = unready \ {s}
  /\ byGuild' = [g \in Guild |-> IF g \in sguilds[s] THEN byGuild[g] \ {s} ELSE byGuild[g]]
  /\ UNCHANGED <<db, path, read, sguilds, stream>>

----------------------------------------------------------------------------
Transaction ==
  \/ \E u \in User, g \in Guild : Join(u, g) \/ RemoveMember(u, g)
  \/ \E g \in Guild : DeleteGuild(g) \/ Post(g)

FanOut == \E l \in Lane : Pick(l) \/ Check(l) \/ \E s \in Sess : Deliver(l, s)

Next ==
  \/ Transaction
  \/ \E o \in Op : Publish(o)
  \/ OnEvent
  \/ FanOut
  \/ \E s \in Sess : Register(s) \/ ReadGuilds(s) \/ BecomeReady(s) \/ Stop(s)

Spec == Init /\ [][Next]_vars

----------------------------------------------------------------------------
TypeOK ==
  /\ guilds \subseteq Guild /\ members \subseteq User \X guilds
  /\ log \in Seq(Guild) /\ ops <= MaxOps
  /\ until \in [User \X Guild -> -1..MaxOps]
  /\ hooks \in [Op -> Seq(Event)]
  /\ bus \in Seq(Event) /\ Len(bus) <= BusCap
  /\ lanes \in [Lane -> Seq(Event)] /\ \A l \in Lane : Len(lanes[l]) <= LaneDepth
  /\ \A l \in Lane : \/ work[l] = Idle
                      \/ /\ work[l].stage \in {"check", "deliver"}
                         /\ work[l].ev \in Event /\ work[l].to \in SUBSET Sess
  /\ byUser \subseteq Sess /\ unready \subseteq Sess /\ byGuild \in [Guild -> SUBSET Sess]
  /\ state \in [Sess -> {"new", "open", "ready", "ended"}]
  /\ read \in [Sess -> [guilds : SUBSET Guild, at : -1..MaxOps]]
  /\ sguilds \in [Sess -> SUBSET Guild]
  /\ pending \in [Sess -> Seq(Event)] /\ stream \in [Sess -> Seq(Event)]
  /\ amiss \subseteq {"lost", "swapped"}

\* A session in the index is one that is not over, and it is under the guilds of its set: a
\* dropped session is never put back by an event that fan-out had already picked it for
\* (session.go, deliver and stop).
IndexIsExact ==
  /\ byUser = {s \in Sess : state[s] \in {"open", "ready"}}
  /\ unready = {s \in Sess : state[s] = "open"}
  /\ \A g \in Guild : byGuild[g] = {s \in Sess : state[s] = "ready" /\ g \in sguilds[s]}

Told(s) == Range(stream[s])

\* A guild's event reaches a session only if its account was still a member at some moment
\* after the change was committed, whatever the session's own guild set says (rule 1, fanOut).
OnlyToMembers ==
  \A s \in Sess : \A ev \in Told(s) :
    ev.aud = "guild" => <<Owner[s], ev.guild>> \in members \/ until[<<Owner[s], ev.guild>>] >= ev.op

\* A session is told of a guild only if its account has been a member: identifying while some
\* other guild is deleted does not disclose it (session.go, applyLocked).
OnlyOwnGuilds ==
  \A s \in Sess : \A ev \in Told(s) :
    <<Owner[s], ev.guild>> \in members \/ until[<<Owner[s], ev.guild>>] # Never

\* A guild's events reach a session in the order they were committed, as long as they were
\* published in it: fan-out reorders nothing (fanout.go, onEvent).
GuildOrder ==
  "swapped" \notin amiss => \A s \in Sess : \A i, j \in DOMAIN stream[s] :
    i < j /\ stream[s][i].guild = stream[s][j].guild => stream[s][i].op <= stream[s][j].op

\* Nothing is on its way.
Quiet ==
  /\ bus = <<>> /\ \A o \in Op : hooks[o] = <<>>
  /\ \A l \in Lane : lanes[l] = <<>> /\ work[l] = Idle

Current == \A s \in Sess : state[s] = "ready" => sguilds[s] = GuildsOf(Owner[s])

\* Once nothing is on its way a READY session's guild set is its account's memberships, however
\* joins, removals and deletions met its IDENTIFY, if every event came and none overtook another
\* (session.go, becomeReady and applyLocked).
CurrentWhenInOrder == Quiet /\ amiss = {} => Current

\* "guilds is what READY listed, kept current by GUILD_CREATE and GUILD_DELETE" (session.go):
\* the same, in whatever order the hooks of two transactions publish.
KeptCurrent == Quiet /\ "lost" \notin amiss => Current

\* No event falls between READY's data and becoming a candidate: what changes in a guild that
\* READY listed, after its data was read, reaches the session (session.go, ready and pending).
NoMissedEvent ==
  Quiet /\ amiss = {} => \A s \in Sess : state[s] = "ready" =>
    \A g \in read[s].guilds : \A n \in (read[s].at + 1)..ops :
      log[n] = g /\ <<Owner[s], g>> \in members /\ until[<<Owner[s], g>>] < read[s].at
        => \E ev \in Told(s) : ev.guild = g /\ ev.op = n

\* Nobody is told of a guild's event, or that a guild exists, who was not a member of
\* it when it mattered, though candidates are chosen from memory (fanout.go, fanOut).
ToldOfOwnOnly == OnlyToMembers /\ OnlyOwnGuilds

\* What a READY session is told is complete, in order and enough to keep its guild
\* set, across the moments it registers, reads READY's data and becomes ready.
NothingMissed == NoMissedEvent /\ GuildOrder /\ CurrentWhenInOrder
=============================================================================
