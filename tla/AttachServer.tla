----------------------------- MODULE AttachServer -----------------------------
(***************************************************************************)
(* The daemon's attach socket: clients that are told the account and its   *)
(* guilds in READY and then every gateway event, between a session source  *)
(* that may already name another sign-in and a gateway connection that     *)
(* still serves the old one. A sign-in is its generation; 0 is none. Every *)
(* method of Server holds its lock and is one step.                        *)
(***************************************************************************)
EXTENDS Naturals, FiniteSets, Sequences

CONSTANTS
  Clients,        \* connections to the socket
  CachedGuilds,   \* the guilds the account may be in
  MaxGeneration,  \* sign-ins
  maxClients, queueFrames

ASSUME AttachAssumption ==
  IsFiniteSet(Clients) /\ {MaxGeneration, maxClients, queueFrames} \subseteq Nat

VARIABLES
  account,     \* session.Status: the generation of the account it names, 0 when signed out
  generations, \* the sign-ins so far
  gwSignIn,    \* the generation the gateway connection signed in with, 0 when it has none
  stateGen, guilds,  \* state.State: the generation it belongs to, and its guild summaries
  client,      \* connection -> conn
  attachClosing  \* Serve is stopping

attachVars == <<account, generations, gwSignIn, stateGen, guilds, client, attachClosing>>

Gens == 0..MaxGeneration
GuildEvent == [created : BOOLEAN, guild : CachedGuilds, gen : Gens]
Detached == [at |-> "off", watching |-> FALSE, account |-> 0, view |-> {}, queue |-> <<>>]

AttachInit ==
  /\ account = 0 /\ generations = 0 /\ gwSignIn = 0 /\ stateGen = 0 /\ guilds = {}
  /\ client = [c \in Clients |-> Detached] /\ attachClosing = FALSE

Attached == {c \in Clients : client[c].at \in {"added", "ready"}}
Watchers == {c \in Clients : client[c].at = "ready" /\ client[c].watching}

\* What a client makes of an event.
Apply(view, e) == IF e.created THEN view \cup {e.guild} ELSE view \ {e.guild}

\* The guilds a connection shows once it has read its queue: the last event about a guild decides.
LastOf(g, queue) == {i \in DOMAIN queue : queue[i].guild = g /\ \A j \in DOMAIN queue : queue[j].guild = g => j <= i}
InTheEnd(k) ==
  {g \in CachedGuilds : IF LastOf(g, k.queue) = {} THEN g \in k.view
                        ELSE \E i \in LastOf(g, k.queue) : k.queue[i].created}

-----------------------------------------------------------------------------
(* The session source and the gateway connection.                          *)

\* signIn takes up a credential, and names its account at once.
NameSignIn ==
  /\ generations < MaxGeneration
  /\ generations' = generations + 1 /\ account' = generations + 1
  /\ UNCHANGED <<gwSignIn, stateGen, guilds, client, attachClosing>>

NameNobody ==
  /\ account # 0 /\ account' = 0
  /\ UNCHANGED <<generations, gwSignIn, stateGen, guilds, client, attachClosing>>

\* The gateway client takes the credential it will connect with.
ConnectGateway ==
  /\ gwSignIn = 0 /\ account # 0 /\ gwSignIn' = account
  /\ UNCHANGED <<account, generations, stateGen, guilds, client, attachClosing>>

\* kill, once: the writer sends the Close frame and nothing queued after it.
Killed(S) == [c \in Clients |-> IF c \in S THEN [client[c] EXCEPT !.at = "gone"] ELSE client[c]]

\* Begin: a fresh gateway session. What was known is dropped, and every watcher sent to resync.
Begin ==
  /\ gwSignIn # 0
  /\ stateGen' = gwSignIn /\ guilds' = {} /\ client' = Killed(Watchers)
  /\ UNCHANGED <<account, generations, gwSignIn, attachClosing>>

\* End: the gateway client found its sign-in over.
End ==
  /\ gwSignIn # 0 /\ gwSignIn # account
  /\ gwSignIn' = 0 /\ stateGen' = 0 /\ guilds' = {} /\ client' = Killed(Watchers)
  /\ UNCHANGED <<account, generations, attachClosing>>

\* Dispatch of READY, which carries the whole guild list.
DispatchReady(S) ==
  /\ gwSignIn # 0 /\ stateGen = gwSignIn
  /\ guilds' = S /\ client' = Killed(Watchers)
  /\ UNCHANGED <<account, generations, gwSignIn, stateGen, attachClosing>>

\* fanOutLocked and enqueue: a client whose queue is full is dropped as too slow.
FanOut(e) ==
  [c \in Clients |->
     IF c \notin Watchers THEN client[c]
     ELSE IF Len(client[c].queue) = queueFrames THEN [client[c] EXCEPT !.at = "gone"]
     ELSE [client[c] EXCEPT !.queue = Append(@, e)]]

\* Forwarded only while the state belongs to the sign-in the session names.
Forwards == account = stateGen

\* Dispatch of GUILD_CREATE and GUILD_DELETE.
DispatchGuild(e) ==
  /\ gwSignIn # 0 /\ stateGen = gwSignIn /\ e.gen = stateGen
  /\ guilds' = Apply(guilds, e)
  /\ client' = IF Forwards THEN FanOut(e) ELSE client
  /\ UNCHANGED <<account, generations, gwSignIn, stateGen, attachClosing>>

-----------------------------------------------------------------------------
(* A connection.                                                           *)

\* Mutant: the limit is compared after the client was counted in.
AttachOneMore(c) ==
  /\ client[c].at = "off" /\ ~attachClosing
  /\ Cardinality({d \in Clients : client[d].at # "off"}) <= maxClients
  /\ client' = [client EXCEPT ![c].at = "added"]
  /\ UNCHANGED <<account, generations, gwSignIn, stateGen, guilds, attachClosing>>

\* serveConn and add: refused while stopping or at the limit.
Attach(c) ==
  /\ client[c].at = "off" /\ ~attachClosing
  /\ Cardinality({d \in Clients : client[d].at # "off"}) < maxClients
  /\ client' = [client EXCEPT ![c].at = "added"]
  /\ UNCHANGED <<account, generations, gwSignIn, stateGen, guilds, attachClosing>>

\* handshake's IDENTIFY: READY and the wish for events are taken in one hold of the lock.
Handshake(c, events) ==
  /\ client[c].at = "added"
  /\ client' = [client EXCEPT
       ![c] = [at |-> "ready", watching |-> events, account |-> account, queue |-> <<>>,
               view |-> IF account # 0 /\ stateGen = account THEN guilds ELSE {}]]
  /\ UNCHANGED <<account, generations, gwSignIn, stateGen, guilds, attachClosing>>

\* write: the client reads its oldest frame.
Receive(c) ==
  /\ client[c].at = "ready" /\ client[c].queue # <<>>
  /\ client' = [client EXCEPT ![c].view = Apply(@, Head(client[c].queue)), ![c].queue = Tail(@)]
  /\ UNCHANGED <<account, generations, gwSignIn, stateGen, guilds, attachClosing>>

\* The client goes, a frame of its own is not one it may send, or no IDENTIFY came in time.
Drop(c) ==
  /\ c \in Attached /\ client' = Killed({c})
  /\ UNCHANGED <<account, generations, gwSignIn, stateGen, guilds, attachClosing>>

\* serveConn returns and remove frees the place.
Detach(c) ==
  /\ client[c].at = "gone" /\ client' = [client EXCEPT ![c] = Detached]
  /\ UNCHANGED <<account, generations, gwSignIn, stateGen, guilds, attachClosing>>

\* Serve returns.
StopServing ==
  /\ ~attachClosing /\ attachClosing' = TRUE /\ client' = Killed(Attached)
  /\ UNCHANGED <<account, generations, gwSignIn, stateGen, guilds>>

AttachNext ==
  \/ NameSignIn \/ NameNobody \/ ConnectGateway \/ Begin \/ End
  \/ \E S \in SUBSET CachedGuilds : DispatchReady(S)
  \/ \E e \in GuildEvent : DispatchGuild(e)
  \/ \E c \in Clients :
       \/ Attach(c) \/ Receive(c) \/ Drop(c) \/ Detach(c)
       \/ \E events \in BOOLEAN : Handshake(c, events)
  \/ StopServing

AttachSpec == AttachInit /\ [][AttachNext]_attachVars

-----------------------------------------------------------------------------
AttachTypeOK ==
  /\ account \in Gens /\ generations \in Gens /\ gwSignIn \in Gens /\ stateGen \in Gens
  /\ guilds \subseteq CachedGuilds /\ attachClosing \in BOOLEAN
  /\ client \in [Clients -> [at : {"off", "added", "ready", "gone"}, watching : BOOLEAN, account : Gens,
                             view : SUBSET CachedGuilds, queue : Seq(GuildEvent)]]
  /\ \A c \in Clients : Len(client[c].queue) <= queueFrames
  /\ Cardinality({c \in Clients : client[c].at # "off"}) <= maxClients

\* A client told it is one account is sent no event of another, though the session names a new
\* sign-in while the gateway still delivers the old one's (Dispatch, attach.go:241).
OneAccountPerClient ==
  \A c \in Watchers : \A i \in DOMAIN client[c].queue : client[c].queue[i].gen = client[c].account

\* A client that watches and has read what was queued for it sees the guilds the daemon has: its
\* READY and its events leave no gap, and whatever would leave one closes it (Begin, End,
\* Dispatch, enqueue, handshake).
WatcherInStep ==
  \A c \in Watchers : client[c].account = account /\ account = stateGen => InTheEnd(client[c]) = guilds
=============================================================================
