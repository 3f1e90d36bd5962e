-------------------------- MODULE GatewayAdmission --------------------------
(***************************************************************************)
(* The sockets of the gateway from one address, from the upgrade to the    *)
(* return of their handler: the slots of those that have not identified,   *)
(* and Shutdown, which tells every socket to reconnect elsewhere and waits *)
(* for every handler.  Sources: gateway/gateway.go (ServeHTTP, admit,      *)
(* identified, track, untrack, Shutdown) and gateway/conn.go (serve,       *)
(* handle, markIdentified).  What a session does is GatewaySessions'.      *)
(***************************************************************************)
EXTENDS Naturals, FiniteSets

CONSTANTS
  Sockets,                    \* upgrades the address may ask for
  MaxUnidentifiedPerAddress
ASSUME AdmissionAssumption == MaxUnidentifiedPerAddress \in Nat

VARIABLES
  handler,        \* where each socket's handler is
  slotReleased,   \* the sockets that gave their slot back
  closedSockets,           \* the sockets something closed
  unidentified,   \* the address's count
  tracked,        \* Server.conns
  active,         \* the handlers Shutdown waits for
  shutdown,       \* "no", "told" once closing is set and the sockets collected, "returned", "gave up"
  collected       \* the sockets Shutdown tells to reconnect elsewhere

admissionVars == <<handler, slotReleased, closedSockets, unidentified, tracked, active, shutdown, collected>>

At(c, label) == handler' = [handler EXCEPT ![c] = label]
Serving == {"reading", "attached"}

\* Server.identified: the address's slot is given back.
Identified == unidentified' = unidentified - 1

\* conn.markIdentified gives the slot back once, though identifying and returning both call it.
MarkIdentified(c) ==
  /\ slotReleased' = slotReleased \cup {c}
  /\ unidentified' = unidentified - (IF c \in slotReleased THEN 0 ELSE 1)

AdmissionInit ==
  /\ handler = [c \in Sockets |-> "none"]
  /\ slotReleased = {} /\ closedSockets = {} /\ unidentified = 0
  /\ tracked = {} /\ active = 0 /\ shutdown = "no" /\ collected = {}

-----------------------------------------------------------------------------
\* admit: an address that holds all its slots is refused before the upgrade.
AdmitSocket(c) ==
  /\ handler[c] = "none" /\ unidentified < MaxUnidentifiedPerAddress
  /\ unidentified' = unidentified + 1 /\ At(c, "upgrade")
  /\ UNCHANGED <<slotReleased, closedSockets, tracked, active, shutdown, collected>>

\* A handshake that fails never had a connection to mark.
UpgradeFails(c) ==
  /\ handler[c] = "upgrade" /\ Identified /\ At(c, "gone")
  /\ UNCHANGED <<slotReleased, closedSockets, tracked, active, shutdown, collected>>

\* track, or the refusal of a server that is shutting down.
TrackSocket(c) ==
  /\ handler[c] = "upgrade" /\ shutdown = "no"
  /\ tracked' = tracked \cup {c} /\ active' = active + 1 /\ At(c, "reading")
  /\ UNCHANGED <<slotReleased, closedSockets, unidentified, shutdown, collected>>

TrackRefused(c) ==
  /\ handler[c] = "upgrade" /\ shutdown # "no" /\ MarkIdentified(c) /\ At(c, "gone")
  /\ UNCHANGED <<closedSockets, tracked, active, shutdown, collected>>

\* IDENTIFY or RESUME that succeeds: the session is attached, READY is put together or the
\* replay queued, and only then is the slot given back. The frame may have been read before
\* somebody closed the socket.
AttachSession(c) ==
  /\ handler[c] = "reading" /\ c \notin slotReleased /\ At(c, "attached")
  /\ UNCHANGED <<slotReleased, closedSockets, unidentified, tracked, active, shutdown, collected>>

MarkSocket(c) ==
  /\ handler[c] = "attached" /\ MarkIdentified(c) /\ At(c, "reading")
  /\ UNCHANGED <<closedSockets, tracked, active, shutdown, collected>>

\* The watchdog's callback: the deadline to identify passed, or the one between heartbeats.
\* Setting the deadline anew does not undo a callback that has started.
WatchdogFires(c) ==
  /\ handler[c] \in Serving /\ c \notin closedSockets /\ closedSockets' = closedSockets \cup {c}
  /\ UNCHANGED <<handler, slotReleased, unidentified, tracked, active, shutdown, collected>>

\* The loop ends: a read failed, or a frame was refused, an IDENTIFY half answered included.
LeaveLoop(c) ==
  /\ handler[c] \in {"reading", "attached"} /\ At(c, "leaving") /\ closedSockets' = closedSockets \cup {c}
  /\ UNCHANGED <<slotReleased, unidentified, tracked, active, shutdown, collected>>

\* untrack, in its three parts: the slot, the map, the wait group.
GiveSlotBack(c) ==
  /\ handler[c] = "leaving" /\ MarkIdentified(c) /\ At(c, "untrack")
  /\ UNCHANGED <<closedSockets, tracked, active, shutdown, collected>>

Untrack(c) ==
  /\ handler[c] = "untrack" /\ tracked' = tracked \ {c} /\ At(c, "done")
  /\ UNCHANGED <<slotReleased, closedSockets, unidentified, active, shutdown, collected>>

HandlerDone(c) ==
  /\ handler[c] = "done" /\ active' = active - 1 /\ At(c, "gone")
  /\ UNCHANGED <<slotReleased, closedSockets, unidentified, tracked, shutdown, collected>>

\* Shutdown sets closing and collects the sockets under one lock.
BeginShutdown ==
  /\ shutdown = "no" /\ shutdown' = "told" /\ collected' = tracked
  /\ UNCHANGED <<handler, slotReleased, closedSockets, unidentified, tracked, active>>

\* One of the goroutines that tell a socket to reconnect, and close it.
Reconnect(c) ==
  /\ c \in collected /\ c \notin closedSockets /\ closedSockets' = closedSockets \cup {c}
  /\ UNCHANGED <<handler, slotReleased, unidentified, tracked, active, shutdown, collected>>

ShutdownReturns ==
  /\ shutdown = "told" /\ shutdown' = IF active = 0 THEN "returned" ELSE "gave up"
  /\ UNCHANGED <<handler, slotReleased, closedSockets, unidentified, tracked, active, collected>>

AdmissionNext ==
  \/ BeginShutdown \/ ShutdownReturns
  \/ \E c \in Sockets :
       \/ AdmitSocket(c) \/ UpgradeFails(c) \/ TrackSocket(c) \/ TrackRefused(c)
       \/ AttachSession(c) \/ MarkSocket(c) \/ WatchdogFires(c) \/ LeaveLoop(c)
       \/ GiveSlotBack(c) \/ Untrack(c) \/ HandlerDone(c) \/ Reconnect(c)

AdmissionSpec == AdmissionInit /\ [][AdmissionNext]_admissionVars

-----------------------------------------------------------------------------
AdmissionTypeOK ==
  /\ handler \in [Sockets -> Serving \cup {"none", "upgrade", "leaving", "untrack", "done", "gone"}]
  /\ slotReleased \subseteq Sockets /\ closedSockets \subseteq Sockets
  /\ unidentified \in 0..MaxUnidentifiedPerAddress
  /\ tracked \subseteq Sockets /\ active \in Nat
  /\ shutdown \in {"no", "told", "returned", "gave up"} /\ collected \subseteq Sockets

\* An address's count is the sockets that still hold one of its slots, on every way out of
\* the handler, so that no address is locked out by sockets that are gone (admit, identified).
SlotsGivenBack ==
  unidentified = Cardinality({c \in Sockets : handler[c] \notin {"none", "gone"} /\ c \notin slotReleased})

\* Shutdown leaves nobody unaware: each socket still served is one it tells to reconnect, and
\* when it returns without giving up no handler is running (track, Shutdown).
ShutdownReachesAll ==
  /\ shutdown # "no" => \A c \in Sockets : handler[c] \in Serving => c \in collected
  /\ shutdown = "returned" => \A c \in Sockets : handler[c] \in {"none", "upgrade", "gone"}
=============================================================================
