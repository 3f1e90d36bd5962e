------------------------------ MODULE VoiceRooms ------------------------------
(***************************************************************************)
(* Who is in which voice room of the SFU, and who may no longer enter.     *)
(* Sources: voice/sfu.go, voice/conn.go (newConn, negotiate, closeFor),    *)
(* voice/room.go (admit, add, remove, members, shut).                      *)
(*                                                                         *)
(* A provision carries the id under which it was issued.  Evict, CloseRoom *)
(* and EvictConnection must also refuse the provisions still on their way, *)
(* so each leaves a cutoff behind; sweep forgets a cutoff once the age     *)
(* check refuses whatever it would have refused.  Ids are snowflakes: the  *)
(* instant they were minted, and a sequence number within it.              *)
(***************************************************************************)
EXTENDS Accounts, Naturals, FiniteSets

CONSTANTS
  Rooms, Conns, IdsPerTick,
  Horizon,               \* the last instant the clock reaches
  MaxEvictions,          \* evictions and room closings in a behaviour
  ProvisionTimeout, ParticipantsPerRoom, ConnsPerUser, RoomLimit
ASSUME VoiceRoomsAssumption ==
  IdsPerTick \in Nat \ {0} /\ Horizon \in Nat \ {0} /\ ProvisionTimeout \in Nat

VARIABLES
  clock,
  lastMinted,     \* the newest snowflake
  ticket,         \* [Conns -> the provision issued for this connection id]
  conn,           \* [Conns -> "none", "negotiating", "open" or "closing"]
  doomed,         \* the connections a close has collected and will reach
  shut,           \* the connections whose room object was let go of by CloseRoom
  cutoffs,        \* [Rooms \X Users -> the eviction remembered]
  closedRooms,    \* [Rooms -> the closing remembered]
  evictedConns,   \* [Conns -> until when the eviction is remembered]
  stopped,
  barred          \* history: the room, user and cutoff of every eviction made

voiceVars == <<clock, lastMinted, ticket, conn, doomed, shut, cutoffs, closedRooms,
               evictedConns, stopped, barred>>

NoTicket == [room |-> NoOne, user |-> NoOne, issued |-> 0]
NoCutoff == [id |-> 0, until |-> 0]
SnowflakeIds == 0..((Horizon + 1) * IdsPerTick)
TimeOf(id) == id \div IdsPerTick

VoiceTypeOK ==
  /\ clock \in 1..Horizon /\ lastMinted \in SnowflakeIds /\ stopped \in BOOLEAN
  /\ ticket \in [Conns -> {NoTicket} \cup [room: Rooms, user: Users, issued: SnowflakeIds]]
  /\ conn \in [Conns -> {"none", "negotiating", "open", "closing"}]
  /\ doomed \subseteq Conns /\ shut \subseteq Conns
  /\ \A c \in doomed \cup shut : conn[c] # "none"
  /\ cutoffs \in [Rooms \X Users -> [id: SnowflakeIds, until: Nat]]
  /\ closedRooms \in [Rooms -> [id: SnowflakeIds, until: Nat]]
  /\ evictedConns \in [Conns -> Nat]
  /\ barred \subseteq [room: Rooms, users: {{u} : u \in Users} \cup {Users}, cut: SnowflakeIds]

VoiceInit ==
  /\ clock = 1 /\ lastMinted = IdsPerTick - 1 /\ stopped = FALSE
  /\ ticket = [c \in Conns |-> NoTicket] /\ conn = [c \in Conns |-> "none"]
  /\ doomed = {} /\ shut = {} /\ barred = {}
  /\ cutoffs = [k \in Rooms \X Users |-> NoCutoff] /\ closedRooms = [r \in Rooms |-> NoCutoff]
  /\ evictedConns = [c \in Conns |-> 0]

------------------------------------------------------------------------------
\* The snowflake the backend mints next; a tick's ids are all its sequence allows.
NextId == IF lastMinted < clock * IdsPerTick THEN clock * IdsPerTick ELSE lastMinted + 1
CanMint == TimeOf(NextId) = clock

\* The backend issues a provision: it decides who, and the offer is then on its way.
Issue(c, r, u) ==
  /\ ticket[c] = NoTicket /\ CanMint
  /\ ticket' = [ticket EXCEPT ![c] = [room |-> r, user |-> u, issued |-> NextId]]
  /\ lastMinted' = NextId
  /\ UNCHANGED <<clock, conn, doomed, shut, cutoffs, closedRooms, evictedConns, stopped, barred>>

Tick ==
  /\ clock < Horizon /\ clock' = clock + 1
  /\ UNCHANGED <<lastMinted, ticket, conn, doomed, shut, cutoffs, closedRooms, evictedConns,
                 stopped, barred>>

Members(r) == {c \in Conns : conn[c] # "none" /\ ticket[c].room = r /\ c \notin shut}

\* A remembered cutoff refuses what was issued at or before it.
InForce(cut, id) == clock < cut.until /\ id <= cut.id

FreshAtTheEdge(id) == TimeOf(id) + ProvisionTimeout >= clock
\* reserve's age check: issued strictly within the provision timeout.
Fresh(id) == TimeOf(id) + ProvisionTimeout > clock

\* room.admit: the room's places and the user's.
Admit(r, u) ==
  /\ Cardinality(Members(r)) < ParticipantsPerRoom
  /\ Cardinality({c \in Members(r) : ticket[c].user = u}) < ConnsPerUser

\* reserve, under the SFU's lock: a provision that arrives, for the first time or again.
Reserve(c) ==
  LET t == ticket[c] IN
  /\ t # NoTicket /\ ~stopped /\ Fresh(t.issued)
  /\ ~InForce(cutoffs[<<t.room, t.user>>], t.issued) /\ ~InForce(closedRooms[t.room], t.issued)
  /\ ~(clock < evictedConns[c])
  /\ conn[c] = "none"
  /\ Members(t.room) = {} => Cardinality({r \in Rooms : Members(r) # {}}) < RoomLimit
  /\ Admit(t.room, t.user)
  /\ conn' = [conn EXCEPT ![c] = "negotiating"]
  /\ UNCHANGED <<clock, lastMinted, ticket, doomed, shut, cutoffs, closedRooms, evictedConns,
                 stopped, barred>>

\* negotiate returns its answer, unless the connection was closed meanwhile.
Negotiate(c) ==
  /\ conn[c] = "negotiating" /\ conn' = [conn EXCEPT ![c] = "open"]
  /\ UNCHANGED <<clock, lastMinted, ticket, doomed, shut, cutoffs, closedRooms, evictedConns,
                 stopped, barred>>

\* closeFor, for whatever reason: a failed negotiation, a timeout, a refusal, an eviction.
CloseFor(c) ==
  /\ conn[c] \in {"negotiating", "open"}
  /\ conn' = [conn EXCEPT ![c] = "closing"]
  /\ UNCHANGED <<clock, lastMinted, ticket, doomed, shut, cutoffs, closedRooms, evictedConns,
                 stopped, barred>>

\* forget: the closed connection leaves its room and the SFU.
Forget(c) ==
  /\ conn[c] = "closing" /\ conn' = [conn EXCEPT ![c] = "none"]
  /\ doomed' = doomed \ {c} /\ shut' = shut \ {c}
  /\ UNCHANGED <<clock, lastMinted, ticket, cutoffs, closedRooms, evictedConns, stopped, barred>>

Raise(prev, cut) == [id |-> IF cut > prev.id THEN cut ELSE prev.id,
                     until |-> clock + ProvisionTimeout]

\* Evict: the cutoff is remembered and the connections it reaches collected, under the lock.
Evict(r, u, cut) ==
  /\ cut \in 1..lastMinted /\ Cardinality(barred) < MaxEvictions
  /\ cutoffs' = [cutoffs EXCEPT ![<<r, u>>] = Raise(@, cut)]
  /\ doomed' = doomed \cup {c \in Members(r) : ticket[c].user = u /\ ticket[c].issued <= cut}
  /\ barred' = barred \cup {[room |-> r, users |-> {u}, cut |-> cut]}
  /\ UNCHANGED <<clock, lastMinted, ticket, conn, shut, closedRooms, evictedConns, stopped>>

EvictConnection(c) ==
  /\ ticket[c] # NoTicket
  /\ evictedConns' = [evictedConns EXCEPT ![c] = clock + ProvisionTimeout]
  /\ doomed' = IF conn[c] = "none" THEN doomed ELSE doomed \cup {c}
  /\ UNCHANGED <<clock, lastMinted, ticket, conn, shut, cutoffs, closedRooms, stopped, barred>>

\* CloseRoom lets go of the room object first; a later provision opens a new one.
CloseRoom(r, cut) ==
  /\ cut \in 1..lastMinted /\ Cardinality(barred) < MaxEvictions
  /\ closedRooms' = [closedRooms EXCEPT ![r] = Raise(@, cut)]
  /\ doomed' = doomed \cup Members(r) /\ shut' = shut \cup Members(r)
  /\ barred' = barred \cup {[room |-> r, users |-> Users, cut |-> cut]}
  /\ UNCHANGED <<clock, lastMinted, ticket, conn, cutoffs, evictedConns, stopped>>

\* sweep keeps what still refuses something.
Kept(until) == clock < until

Sweep ==
  /\ ~stopped
  /\ cutoffs' = [k \in Rooms \X Users |-> IF Kept(cutoffs[k].until) THEN cutoffs[k] ELSE NoCutoff]
  /\ closedRooms' = [r \in Rooms |-> IF Kept(closedRooms[r].until) THEN closedRooms[r] ELSE NoCutoff]
  /\ evictedConns' = [c \in Conns |-> IF Kept(evictedConns[c]) THEN evictedConns[c] ELSE 0]
  /\ UNCHANGED <<clock, lastMinted, ticket, conn, doomed, shut, stopped, barred>>

\* Close: no provision is taken any more, and every connection is collected.
StopSFU ==
  /\ ~stopped /\ stopped' = TRUE
  /\ doomed' = {c \in Conns : conn[c] # "none"}
  /\ UNCHANGED <<clock, lastMinted, ticket, conn, shut, cutoffs, closedRooms, evictedConns, barred>>

VoiceNext ==
  \/ Tick \/ Sweep \/ StopSFU
  \/ \E c \in Conns :
       \/ Reserve(c) \/ Negotiate(c) \/ CloseFor(c) \/ Forget(c) \/ EvictConnection(c)
       \/ \E r \in Rooms, u \in Users : Issue(c, r, u)
  \/ \E r \in Rooms, cut \in {lastMinted} \cup {ticket[c].issued : c \in Conns} :
       CloseRoom(r, cut) \/ \E u \in Users : Evict(r, u, cut)

VoiceSpec == VoiceInit /\ [][VoiceNext]_voiceVars

------------------------------------------------------------------------------
\* An eviction is for good: once Evict or CloseRoom has named a cutoff, every connection it is
\* about that is in the room, now or later, is one its close has collected.  A provision that
\* was issued before and arrives after, however late, and after the cutoff was forgotten or
\* replaced by an older one, is let in nowhere.
EvictedStayOut ==
  \A c \in Conns : \A b \in barred :
    /\ conn[c] \in {"negotiating", "open"} /\ ticket[c].room = b.room
    /\ ticket[c].user \in b.users /\ ticket[c].issued <= b.cut
    => c \in doomed
===============================================================================
