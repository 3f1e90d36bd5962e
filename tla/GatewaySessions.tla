-------------------------- MODULE GatewaySessions --------------------------
(***************************************************************************)
(* The session registry of the real-time gateway, for one account on one   *)
(* process (backend/internal/gateway: gateway.go, session.go, conn.go,     *)
(* index.go), with the sign-ins and revocations of backend/internal/auth   *)
(* that open and end its sessions.                                         *)
(*                                                                         *)
(* A step is one critical section of one goroutine.  Three locks cut the   *)
(* handlers into steps: Server.mu (the session map and the account's       *)
(* counter), session.mu (the fields of one session) and the index's lock.  *)
(* dropSession, for one, is two steps: the map under Server.mu, then       *)
(* session.stop under session.mu.  Goroutines are the serve loop of each   *)
(* connection, the expiry callback of each session, the subscriber of the  *)
(* revocation topic, and Shutdown.                                         *)
(*                                                                         *)
(* Accounts share nothing in the registry but the two maps, which are      *)
(* keyed by account or by a random session id, so one account is modelled. *)
(* Frames, sequence numbers and the replay buffer are GatewayStream's:     *)
(* here a resume that finds a gap or a bad sequence number is a choice.    *)
(***************************************************************************)
EXTENDS Integers, FiniteSets, TLC

CONSTANTS
  Conn,           \* sockets, each used once
  Sess,           \* session ids IDENTIFY can mint, each used once
  Device,         \* devices of the account
  DeviceOf,       \* the device each sign-in is made on
  MaxSignIn,      \* bound: sign-ins ever made
  MaxPerAccount,  \* maxConnectionsPerAccount
  MaxLost,        \* bound: revocations the at-most-once bus may lose
  CanShutdown,    \* whether the process may be told to shut down
  None

Bus == "bus"            \* the goroutine delivering revocations
Server == "server"      \* the goroutine running Shutdown

ASSUME RegistryAssumption ==
  /\ MaxSignIn \in Nat \ {0}
  /\ MaxPerAccount \in Nat \ {0}
  /\ MaxLost \in Nat
  /\ CanShutdown \in BOOLEAN
  /\ DeviceOf \in [1..MaxSignIn -> Device]
  /\ None \notin Conn \cup Sess
  /\ Conn \cap Sess = {} /\ {Bus, Server} \cap (Conn \cup Sess) = {}
  /\ IsFiniteSet(Sess)

Actor == Conn \cup Sess \cup {Bus, Server}

VARIABLES
  minted,      \* sign-ins made so far; a sign-in is its number, as snowflakes order them
  live,        \* sign-ins with a live session row
  bus,         \* revocations committed and not yet delivered
  lost,        \* revocations the bus dropped
  shut,        \* Server.closing
  sessions,    \* Server.sessions
  perUser,     \* Server.perUser of the account
  idx,         \* sessionIndex.byUser of the account
  used,        \* session ids minted so far
  signIn,      \* session.signIn (and since): the sign-in the stream runs on
  device,      \* session.deviceID
  sconn,       \* session.conn
  ended,       \* sessions with session.ended set
  expiry,      \* sessions whose session.expiry is armed
  ready,       \* sessions with session.ready set
  open,        \* sockets that are open
  closing,     \* sockets a closeWith on its own goroutine has yet to close
  csess,       \* conn.sess
  token,       \* the sign-in of the token the connection presented
  pc, at, todo, taken  \* each goroutine: where it is, the session it works on, the
                       \* sessions still to handle, the socket takeConn gave it

db == <<minted, live, bus, lost>>
registry == <<sessions, perUser, idx, used>>
fields == <<signIn, device, sconn, ended, expiry, ready>>
sockets == <<open, closing, csess, token>>
control == <<pc, at, todo, taken>>
vars == <<db, shut, registry, fields, sockets, control>>

SignIns == 1..MaxSignIn
Revocation == [before : 1..(MaxSignIn + 1), devices : SUBSET Device]

\* dispatch.Revocation.Matches.
Matches(r, s) == signIn[s] < r.before /\ device[s] \in r.devices

Init ==
  /\ minted = 0 /\ live = {} /\ bus = {} /\ lost = {} /\ shut = FALSE
  /\ sessions = {} /\ perUser = 0 /\ idx = {} /\ used = {}
  /\ signIn = [s \in Sess |-> 0]
  /\ device = [s \in Sess |-> None]
  /\ sconn = [s \in Sess |-> None]
  /\ ended = {}
  /\ expiry = {}
  /\ ready = {}
  /\ open = {}
  /\ closing = {}
  /\ csess = [c \in Conn |-> None]
  /\ token = [c \in Conn |-> 0]
  /\ pc = [a \in Actor |-> IF a \in Conn THEN "new" ELSE "idle"]
  /\ at = [a \in Actor |-> None]
  /\ todo = [a \in Actor |-> {}]
  /\ taken = [a \in Actor |-> None]

Goto(a, label) == pc' = [pc EXCEPT ![a] = label]

----------------------------------------------------------------------------
(* Sign-ins, which live in the database, and the revocations they publish. *)

\* writeSession: a sign-in ends the device's earlier one and, if there was one,
\* revokes the connections opened with a sign-in older than its own.
SignInAgain ==
  /\ minted < MaxSignIn
  /\ LET k == minted + 1
         superseded == {j \in live : DeviceOf[j] = DeviceOf[k]}
     IN /\ minted' = k
        /\ live' = (live \ superseded) \cup {k}
        /\ bus' = IF superseded = {} THEN bus
                  ELSE bus \cup {[before |-> k, devices |-> {DeviceOf[k]}]}
  /\ UNCHANGED <<lost, shut, registry, fields, sockets, control>>

\* Mutant: the cutoff is taken one id late, past anything minted.
SignOutLateCutoff(D) ==
  /\ live' = {j \in live : DeviceOf[j] \notin D}
  /\ live' # live
  /\ bus' = bus \cup {[before |-> minted + 2, devices |-> D]}
  /\ UNCHANGED <<minted, lost, shut, registry, fields, sockets, control>>

\* Sign out one device, every device, or every device but one: the rows and the
\* queued revocation commit together, and its cutoff is an id minted now.  Only a
\* sign-out that ends something is worth a step: another one's revocation reaches
\* no sign-in that an earlier one did not.
SignOut(D) ==
  /\ live' = {j \in live : DeviceOf[j] \notin D}
  /\ live' # live
  /\ bus' = bus \cup {[before |-> minted + 1, devices |-> D]}
  /\ UNCHANGED <<minted, lost, shut, registry, fields, sockets, control>>

\* The bus is at-most-once.
LoseRevocation(r) ==
  /\ r \in bus
  /\ Cardinality(lost) < MaxLost
  /\ bus' = bus \ {r}
  /\ lost' = lost \cup {r}
  /\ UNCHANGED <<minted, live, shut, registry, fields, sockets, control>>

----------------------------------------------------------------------------
(* dropSession and revoke, run by whichever goroutine is at that label.    *)

\* takeConn: the first step of revoke.
TakeConn(a) ==
  /\ pc[a] = "take"
  /\ taken' = [taken EXCEPT ![a] = sconn[at[a]]]
  /\ sconn' = [sconn EXCEPT ![at[a]] = None]
  /\ Goto(a, "drop")
  /\ UNCHANGED <<db, shut, registry, signIn, device, ended, expiry, ready, sockets, at, todo>>

\* Mutant: the slot is not given back.
DropKeepsSlot(a) ==
  /\ pc[a] = "drop"
  /\ sessions' = sessions \ {at[a]}
  /\ Goto(a, "stop")
  /\ UNCHANGED <<db, shut, perUser, idx, used, fields, sockets, at, todo, taken>>

\* dropSession under Server.mu.
DropFromMap(a) ==
  /\ pc[a] = "drop"
  /\ IF at[a] \in sessions
       THEN /\ sessions' = sessions \ {at[a]}
            /\ perUser' = IF perUser <= 1 THEN 0 ELSE perUser - 1
       ELSE UNCHANGED <<sessions, perUser>>
  /\ Goto(a, "stop")
  /\ UNCHANGED <<db, shut, idx, used, fields, sockets, at, todo, taken>>

\* session.stop.
Stop(s) ==
  /\ expiry' = expiry \ {s}
  /\ idx' = IF s \in ended THEN idx ELSE idx \ {s}
  /\ ended' = ended \cup {s}

\* A connection that dropped a session returns from its handler, except after a
\* resume that found a gap, which answers "not resumable" and reads on.
Return(a) ==
  CASE a \in Conn /\ csess[a] # None -> "exit"
    [] a = Server -> "collected"
    [] OTHER -> "idle"

\* session.stop, the end of dropSession, and after it the close revoke starts.
StopDropped(a) ==
  /\ pc[a] = "stop"
  /\ Stop(at[a])
  /\ closing' = IF taken[a] = None THEN closing ELSE closing \cup {taken[a]}
  /\ taken' = [taken EXCEPT ![a] = None]
  /\ at' = [at EXCEPT ![a] = None]
  /\ Goto(a, Return(a))
  /\ UNCHANGED <<db, shut, sessions, perUser, used, signIn, device, sconn, ready,
                 open, csess, token, todo>>

----------------------------------------------------------------------------
(* Connections.                                                            *)

\* ServeHTTP: Server.track refuses once the server is closing.
Track(c) ==
  /\ pc[c] = "new"
  /\ ~shut
  /\ open' = open \cup {c}
  /\ Goto(c, "idle")
  /\ UNCHANGED <<db, shut, registry, fields, closing, csess, token, at, todo, taken>>

Reading(c) == pc[c] = "idle" /\ c \in open

\* The sessions an IDENTIFY on device d supersedes: the device's detached ones.
Superseded(d) == {o \in idx : device[o] = d /\ sconn[o] = None}

\* IDENTIFY, up to the end of newSession: a token of sign-in k, session id s.
NewSession(c, k, s) ==
  /\ Reading(c) /\ csess[c] = None
  /\ k <= minted
  /\ s \notin used
  /\ LET sup == Superseded(DeviceOf[k])
         left == perUser - Cardinality(sup)
     IN /\ todo' = [todo EXCEPT ![c] = sup]
        /\ \/ /\ left >= MaxPerAccount
              /\ sessions' = sessions \ sup
              /\ perUser' = left
              /\ Goto(c, "refuse")
              /\ UNCHANGED <<idx, used, signIn, device, at>>
           \/ /\ left < MaxPerAccount
              /\ sessions' = (sessions \ sup) \cup {s}
              /\ perUser' = left + 1
              /\ idx' = idx \cup {s}
              /\ used' = used \cup {s}
              /\ signIn' = [signIn EXCEPT ![s] = k]
              /\ device' = [device EXCEPT ![s] = DeviceOf[k]]
              /\ at' = [at EXCEPT ![c] = s]
              /\ Goto(c, "attach")
  /\ token' = [token EXCEPT ![c] = k]
  /\ UNCHANGED <<db, shut, sconn, ended, expiry, ready, open, closing, csess, taken>>

\* stopAll over the superseded sessions, outside Server.mu.
StopSuperseded(c, s) ==
  /\ pc[c] \in {"attach", "refuse"}
  /\ s \in todo[c]
  /\ Stop(s)
  /\ todo' = [todo EXCEPT ![c] = @ \ {s}]
  /\ UNCHANGED <<db, shut, sessions, perUser, used, signIn, device, sconn, ready,
                 sockets, pc, at, taken>>

\* The account has no slot left: closed with CloseRateLimited.
Refuse(c) ==
  /\ pc[c] = "refuse" /\ todo[c] = {}
  /\ open' = open \ {c}
  /\ Goto(c, "exit")
  /\ UNCHANGED <<db, shut, registry, fields, closing, csess, token, at, todo, taken>>

Attach(c) ==
  /\ pc[c] = "attach" /\ todo[c] = {}
  /\ sconn' = [sconn EXCEPT ![at[c]] = c]
  /\ csess' = [csess EXCEPT ![c] = at[c]]
  /\ Goto(c, "live")
  /\ UNCHANGED <<db, shut, registry, signIn, device, ended, expiry, ready, open,
                 closing, token, at, todo, taken>>

\* Mutant: liveness was asked with the token, before the session was registered.
CheckLiveSkipped(c) ==
  /\ pc[c] = "live"
  /\ Goto(c, "ready")
  /\ UNCHANGED <<db, shut, registry, fields, sockets, at, todo, taken>>

\* checkLive, asked only now that the session is registered.
CheckLive(c) ==
  /\ pc[c] = "live"
  /\ IF token[c] \in live
       THEN Goto(c, "ready") /\ UNCHANGED open
       ELSE Goto(c, "drop") /\ open' = open \ {c}
  /\ UNCHANGED <<db, shut, registry, fields, closing, csess, token, at, todo, taken>>

\* READY's data is read and becomeReady runs; or a read fails and the session goes.
BecomeReady(c) ==
  /\ pc[c] = "ready"
  /\ \/ /\ ready' = ready \cup ({at[c]} \ ended)
        /\ Goto(c, "idle")
        /\ at' = [at EXCEPT ![c] = None]
        /\ UNCHANGED open
     \/ /\ Goto(c, "drop")
        /\ open' = open \ {c}
        /\ UNCHANGED <<at, ready>>
  /\ UNCHANGED <<db, shut, registry, signIn, device, sconn, ended, expiry, closing,
                 csess, token, todo, taken>>

\* RESUME: the token's sign-in is asked about first, then the session looked up.
\* A session of another device, or one no longer there, is "not resumable".
LookupSession(c, k, s) ==
  /\ Reading(c) /\ csess[c] = None
  /\ k \in live
  /\ s \in ready            \* only READY tells a client the id
  /\ s \in sessions /\ device[s] = DeviceOf[k]
  /\ token' = [token EXCEPT ![c] = k]
  /\ at' = [at EXCEPT ![c] = s]
  /\ Goto(c, "resume")
  /\ UNCHANGED <<db, shut, registry, fields, open, closing, csess, todo, taken>>

\* session.resume attaches the connection and closes the one it replaces.
ResumeAttach(c) ==
  LET s == at[c] IN
  /\ pc[c] = "resume" /\ s \notin ended
  /\ expiry' = expiry \ {s}
  /\ closing' = IF sconn[s] \in {None, c} THEN closing ELSE closing \cup {sconn[s]}
  /\ sconn' = [sconn EXCEPT ![s] = c]
  /\ signIn' = [signIn EXCEPT ![s] = token[c]]
  /\ csess' = [csess EXCEPT ![c] = s]
  /\ at' = [at EXCEPT ![c] = None]
  /\ Goto(c, "idle")
  /\ UNCHANGED <<db, shut, registry, device, ended, ready, open, token, todo, taken>>

\* resumeEnded answers "not resumable", resumeGap also drops the session, and
\* resumeInvalidSeq closes the connection.
ResumeRefused(c) ==
  /\ pc[c] = "resume"
  /\ \/ /\ at[c] \in ended
        /\ Goto(c, "idle") /\ at' = [at EXCEPT ![c] = None] /\ UNCHANGED open
     \/ /\ at[c] \notin ended
        /\ Goto(c, "drop") /\ UNCHANGED <<at, open>>
     \/ /\ at[c] \notin ended
        /\ Goto(c, "exit") /\ at' = [at EXCEPT ![c] = None]
        /\ open' = open \ {c}
  /\ UNCHANGED <<db, shut, registry, fields, closing, csess, token, todo, taken>>

\* Mutant: asks whether the device is signed in rather than the sign-in.
HeartbeatAsksDevice(c) ==
  /\ Reading(c) /\ csess[c] # None
  /\ \A k \in live : DeviceOf[k] # device[csess[c]]
  /\ at' = [at EXCEPT ![c] = csess[c]]
  /\ Goto(c, "take")
  /\ UNCHANGED <<db, shut, registry, fields, sockets, todo, taken>>

\* stillSignedIn on a heartbeat: a sign-in found over is revoked from here.
Heartbeat(c) ==
  /\ Reading(c) /\ csess[c] # None
  /\ signIn[csess[c]] \notin live
  /\ at' = [at EXCEPT ![c] = csess[c]]
  /\ Goto(c, "take")
  /\ UNCHANGED <<db, shut, registry, fields, sockets, todo, taken>>

\* The peer went away, a deadline passed, or a frame was refused.
Disconnect(c) ==
  /\ c \in open /\ pc[c] # "new"
  /\ open' = open \ {c}
  /\ closing' = closing \ {c}
  /\ UNCHANGED <<db, shut, registry, fields, csess, token, control>>

\* A closeWith started on its own goroutine reaches the socket.
CloseLands(c) ==
  /\ c \in closing
  /\ open' = open \ {c}
  /\ closing' = closing \ {c}
  /\ UNCHANGED <<db, shut, registry, fields, csess, token, control>>

\* Mutant: detach opens no window.
ExitWithoutWindow(c) ==
  /\ \/ pc[c] = "idle" /\ c \notin open
     \/ pc[c] = "exit"
  /\ Goto(c, "gone")
  /\ sconn' = [s \in Sess |-> IF sconn[s] = c THEN None ELSE sconn[s]]
  /\ open' = open \ {c}
  /\ closing' = closing \ {c}
  /\ UNCHANGED <<db, shut, registry, signIn, device, ended, expiry, ready, csess, token,
                 at, todo, taken>>

\* serve returns, and its deferred detach opens the resume window.
Exit(c) ==
  LET s == csess[c] IN
  /\ \/ pc[c] = "idle" /\ c \notin open
     \/ pc[c] = "exit"
  /\ Goto(c, "gone")
  /\ IF s # None /\ sconn[s] = c
       THEN /\ sconn' = [sconn EXCEPT ![s] = None]
            /\ expiry' = expiry \cup ({s} \ ended)
       ELSE UNCHANGED <<sconn, expiry>>
  /\ open' = open \ {c}
  /\ closing' = closing \ {c}
  /\ UNCHANGED <<db, shut, registry, signIn, device, ended, ready, csess, token, at,
                 todo, taken>>

----------------------------------------------------------------------------
(* The expiry callback, the revocation subscriber and Shutdown.            *)

\* The resume window passes.  An earlier window's callback is long over.
TimerFires(s) ==
  /\ s \in expiry /\ pc[s] = "idle"
  /\ expiry' = expiry \ {s}
  /\ at' = [at EXCEPT ![s] = s]
  /\ Goto(s, "expire")
  /\ UNCHANGED <<db, shut, registry, signIn, device, sconn, ended, ready, sockets, todo,
                 taken>>

\* Mutant: the check is the wrong way round.
ExpireAttached(s) ==
  /\ pc[s] = "expire"
  /\ IF sconn[s] # None
       THEN Goto(s, "drop") /\ UNCHANGED at
       ELSE Goto(s, "idle") /\ at' = [at EXCEPT ![s] = None]
  /\ UNCHANGED <<db, shut, registry, fields, sockets, todo, taken>>

\* expireSession looks at the connection under session.mu, and drops after it.
ExpireSession(s) ==
  /\ pc[s] = "expire"
  /\ IF sconn[s] = None
       THEN Goto(s, "drop") /\ UNCHANGED at
       ELSE Goto(s, "idle") /\ at' = [at EXCEPT ![s] = None]
  /\ UNCHANGED <<db, shut, registry, fields, sockets, todo, taken>>

\* onRevocation collects the sessions the revocation names.
OnRevocation(r) ==
  /\ r \in bus /\ ~shut
  /\ pc[Bus] = "idle" /\ todo[Bus] = {}
  /\ bus' = bus \ {r}
  /\ todo' = [todo EXCEPT ![Bus] = {s \in idx : Matches(r, s)}]
  /\ UNCHANGED <<minted, live, lost, shut, registry, fields, sockets, pc, at, taken>>

\* Then it revokes them one by one.
RevokeNext(s) ==
  /\ pc[Bus] = "idle" /\ s \in todo[Bus]
  /\ at' = [at EXCEPT ![Bus] = s]
  /\ todo' = [todo EXCEPT ![Bus] = @ \ {s}]
  /\ Goto(Bus, "take")
  /\ UNCHANGED <<db, shut, registry, fields, sockets, taken>>

\* Shutdown unsubscribes, waiting for a revocation in progress, then sends every
\* connection a Reconnect.
Shutdown ==
  /\ CanShutdown /\ ~shut
  /\ pc[Bus] = "idle" /\ todo[Bus] = {}
  /\ shut' = TRUE
  /\ closing' = {c \in Conn : pc[c] \notin {"new", "gone"}}
  /\ UNCHANGED <<db, registry, fields, open, csess, token, control>>

\* It then takes the list of sessions and drops each.
ShutdownCollect ==
  /\ shut /\ pc[Server] = "idle"
  /\ todo' = [todo EXCEPT ![Server] = sessions]
  /\ Goto(Server, "collected")
  /\ UNCHANGED <<db, shut, registry, fields, sockets, at, taken>>

ShutdownDrop(s) ==
  /\ pc[Server] = "collected" /\ s \in todo[Server]
  /\ at' = [at EXCEPT ![Server] = s]
  /\ todo' = [todo EXCEPT ![Server] = @ \ {s}]
  /\ Goto(Server, "drop")
  /\ UNCHANGED <<db, shut, registry, fields, sockets, taken>>

----------------------------------------------------------------------------
Accounts ==
  \/ SignInAgain
  \/ \E d \in Device : SignOut({d}) \/ SignOut(Device \ {d})
  \/ SignOut(Device)
  \/ \E r \in bus : LoseRevocation(r)

Serve(c) ==
  \/ Track(c)
  \/ \E k \in SignIns, s \in Sess : NewSession(c, k, s) \/ LookupSession(c, k, s)
  \/ \E s \in Sess : StopSuperseded(c, s)
  \/ Refuse(c) \/ Attach(c) \/ CheckLive(c) \/ BecomeReady(c)
  \/ ResumeAttach(c) \/ ResumeRefused(c)
  \/ Heartbeat(c) \/ Exit(c)

Internal(a) == TakeConn(a) \/ DropFromMap(a) \/ StopDropped(a)

Next ==
  \/ Accounts
  \/ \E c \in Conn : Serve(c) \/ Disconnect(c) \/ CloseLands(c)
  \/ \E s \in Sess : TimerFires(s) \/ ExpireSession(s)
  \/ \E r \in bus : OnRevocation(r)
  \/ \E s \in Sess : RevokeNext(s) \/ ShutdownDrop(s)
  \/ Shutdown \/ ShutdownCollect
  \/ \E a \in Actor : Internal(a)

Spec == Init /\ [][Next]_vars

\* The client heartbeats, or the watchdog closes it; the database answers in the
\* end; every goroutine that has work runs; timers fire; the bus delivers.
Fairness ==
  /\ \A c \in Conn :
       /\ WF_vars(\E s \in Sess : StopSuperseded(c, s))
       /\ WF_vars(Refuse(c) \/ Attach(c) \/ CheckLive(c) \/ BecomeReady(c))
       /\ WF_vars(ResumeAttach(c) \/ ResumeRefused(c))
       /\ WF_vars(Heartbeat(c))
       /\ WF_vars(CloseLands(c))
       /\ WF_vars(Exit(c))
  /\ \A s \in Sess : WF_vars(TimerFires(s)) /\ WF_vars(ExpireSession(s))
  /\ WF_vars(\E r \in bus : OnRevocation(r))
  /\ WF_vars(\E s \in Sess : RevokeNext(s))
  /\ \A a \in Actor : WF_vars(Internal(a))

FairSpec == Spec /\ Fairness

----------------------------------------------------------------------------
Label ==
  {"new", "idle", "attach", "refuse", "live", "ready", "resume", "take", "drop",
   "stop", "expire", "collected", "exit", "gone"}

TypeOK ==
  /\ minted \in 0..MaxSignIn
  /\ live \subseteq SignIns
  /\ bus \subseteq Revocation /\ lost \subseteq Revocation
  /\ shut \in BOOLEAN
  /\ sessions \subseteq used /\ idx \subseteq used /\ used \subseteq Sess
  /\ perUser \in Int
  /\ signIn \in [Sess -> 0..MaxSignIn]
  /\ device \in [Sess -> Device \cup {None}]
  /\ sconn \in [Sess -> Conn \cup {None}]
  /\ ended \subseteq Sess
  /\ expiry \subseteq Sess
  /\ ready \subseteq Sess
  /\ open \subseteq Conn
  /\ closing \subseteq Conn
  /\ csess \in [Conn -> Sess \cup {None}]
  /\ token \in [Conn -> 0..MaxSignIn]
  /\ pc \in [Actor -> Label]
  /\ at \in [Actor -> Sess \cup {None}]
  /\ todo \in [Actor -> SUBSET Sess]
  /\ taken \in [Actor -> Conn \cup {None}]

\* Every session the map resumes is one fan-out and revocations find, and neither
\* index holds a session that has ended: however dropSession, newSession's
\* superseding, expiry and Shutdown interleave, the map is left before the index
\* and the index before the session is marked ended (gateway.go dropSession,
\* session.go stop).
RegisteredIsIndexed ==
  /\ sessions \subseteq idx
  /\ \A s \in idx : s \notin ended

\* A session's slot is given back whichever of the racing paths ends it, so an
\* account is never refused while it holds fewer sessions than the limit
\* (gateway.go newSession and dropSession, the perUser counter).
SlotsNotLeaked == perUser <= Cardinality(sessions)

\* What will still end session s: a revocation on its way or lost (the heartbeat's
\* then), the goroutine revoking or dropping it, or the IDENTIFY that registered
\* it and has yet to ask whether its sign-in is live.
Covered(s) ==
  \/ \E r \in bus \cup lost : Matches(r, s)
  \/ s \in todo[Bus]
  \/ \E a \in Actor : at[a] = s /\ pc[a] \in {"take", "drop", "attach", "live"}
  \/ shut

\* A sign-out leaves no gap to fall into: once no sign-in of a device is live,
\* every session of the device still registered is one that a revocation, or the
\* liveness check of the IDENTIFY creating it, will end (conn.go identify, which
\* registers first and asks afterwards; auth/revoke.go endConnections).
SignOutHasNoGap ==
  \A s \in sessions :
    (\A k \in live : DeviceOf[k] # device[s]) => Covered(s)

\* The stronger claim, of each sign-in: no registered session runs on an ended
\* sign-in unless something is about to end it.  session.go says "a resume with a
\* newer token moves the stream onto the newer sign-in"; a resume that asked about
\* its token before a newer one resumed moves it back.
DeadSignInIsCovered ==
  \A s \in sessions : signIn[s] \notin live => Covered(s)

\* A connection that is served and that nothing is closing.
Served(c) == c \in open /\ c \notin closing /\ \A a \in Actor : taken[a] # c

\* Two sockets never share a stream: a resume closes the connection it replaces,
\* whatever that one was doing (session.go resume).
OneSocketPerStream ==
  \A c, d \in Conn :
    c # d /\ Served(c) /\ Served(d) /\ csess[c] # None => csess[c] # csess[d]

\* No session is forgotten in the map: while it is registered, either the serve
\* loop of its connection will detach it, or its window is running out, or some
\* goroutine is about to drop it (session.go detach, gateway.go expireSession).
NoForgottenSession ==
  \A s \in sessions :
    \/ sconn[s] # None /\ pc[sconn[s]] # "gone"
    \/ sconn[s] = None /\ s \in expiry
    \/ sconn[s] = None /\ s \in todo[Bus] \cup todo[Server]
    \/ \E a \in Actor : at[a] = s /\ pc[a] # "resume"

\* gateway.go: maxConnectionsPerAccount "bounds how many sessions one account may
\* hold on this process".
SlotsBounded == Cardinality(sessions) <= MaxPerAccount

\* A connection whose sign-in has ended is closed in the end, even when the bus
\* loses the revocation: a heartbeat asks again (conn.go stillSignedIn).
DeadSignInIsClosed ==
  \A c \in Conn :
    (c \in open /\ csess[c] # None /\ signIn[csess[c]] \notin live) ~> c \notin open

\* A registered session that is left alone goes when its window passes; a slot is
\* never held for good by a client that does not come back.
DetachedSessionEnds ==
  \A s \in Sess :
    (s \in sessions /\ sconn[s] = None) ~> (s \notin sessions \/ sconn[s] # None)

\* What the registry keeps in three places agrees between critical sections: the
\* map, the index and the account's counter (gateway.go newSession, dropSession).
RegistryAgrees == RegisteredIsIndexed /\ SlotsNotLeaked

\* A registered session is held by exactly what will let go of it: one socket, its
\* window, or a goroutine that is dropping it (session.go resume, detach).
NoStraySession == OneSocketPerStream /\ NoForgottenSession

----------------------------------------------------------------------------
(* The instances checked.                                                  *)

OneDevice == [k \in SignIns |-> "laptop"]

Symmetric == Permutations(Conn) \cup Permutations(Sess)
=============================================================================
