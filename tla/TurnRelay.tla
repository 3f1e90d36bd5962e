------------------------------- MODULE TurnRelay -------------------------------
(***************************************************************************)
(* What the TURN server holds for the clients of one address and account:  *)
(* stream connections, relay sockets, and the counters that bound them.    *)
(* Sources: voice/turn/relay.go, voice/turn/streams.go, voice/turn/        *)
(* server.go (quota, the allocation events, Close).  pion, the library     *)
(* that runs the protocol, is external: it asks for the quota, then for a  *)
(* relay socket, then reports the allocation, from one goroutine for the   *)
(* UDP port and one for every stream.                                      *)
(***************************************************************************)
EXTENDS Naturals, FiniteSets

CONSTANTS
  Streams,              \* stream connections, by TCP or TLS
  Asks,                 \* allocations clients ask for
  UDPPort,              \* the one goroutine that reads the UDP port
  AllocationLimit, AllocationsPerUser, AllocationsPerSource, StreamsPerSource

VARIABLES
  turnStream,  \* [Streams -> "out", "live", "closing" or "closed"]
  streamCount, \* streams.perSource
  ask,         \* [Asks -> "none", "asked", "reserved", "bound", "held", "ended"]
  via,         \* [Asks -> the goroutine it is handled in]
  socket,      \* [Asks -> "none", "open" or "closed"], closed once and for all
  total,       \* relays.total and, for the one account, relays.perUser
  sourceCount, \* sources.perSource
  turnClosed

turnVars == <<turnStream, streamCount, ask, via, socket, total, sourceCount, turnClosed>>

TurnTypeOK ==
  /\ turnStream \in [Streams -> {"out", "live", "closing", "closed"}]
  /\ ask \in [Asks -> {"none", "asked", "reserved", "bound", "held", "ended"}]
  /\ via \in [Asks -> Streams \cup {UDPPort}]
  /\ socket \in [Asks -> {"none", "open", "closed"}]
  /\ {streamCount, total, sourceCount} \subseteq Nat /\ turnClosed \in BOOLEAN

TurnInit ==
  /\ turnStream = [t \in Streams |-> "out"] /\ ask = [a \in Asks |-> "none"]
  /\ via = [a \in Asks |-> UDPPort] /\ socket = [a \in Asks |-> "none"]
  /\ streamCount = 0 /\ total = 0 /\ sourceCount = 0 /\ turnClosed = FALSE

------------------------------------------------------------------------------
\* admit: a stream is counted, or closed at once.
AdmitStream(t) ==
  /\ turnStream[t] = "out" /\ ~turnClosed /\ streamCount < StreamsPerSource
  /\ turnStream' = [turnStream EXCEPT ![t] = "live"] /\ streamCount' = streamCount + 1
  /\ UNCHANGED <<ask, via, socket, total, sourceCount, turnClosed>>

\* streamConn.Close, through once: a failed write, the client gone, the server closing, or
\* checkAuthenticated finding that the connection holds no allocation.
CloseStream(t) ==
  /\ turnStream[t] = "live" /\ turnStream' = [turnStream EXCEPT ![t] = "closing"]
  /\ UNCHANGED <<streamCount, ask, via, socket, total, sourceCount, turnClosed>>

\* release, which only counts a stream that was admitted.
ReleaseStream(t) ==
  /\ turnStream[t] = "closing" /\ turnStream' = [turnStream EXCEPT ![t] = "closed"]
  /\ streamCount' = streamCount - 1
  /\ UNCHANGED <<ask, via, socket, total, sourceCount, turnClosed>>

InHand == {"asked", "reserved", "bound"}
Busy(g) == \E a \in Asks : via[a] = g /\ ask[a] \in InHand

\* quota: the count of the source, read before the allocation is made.
Quota(a, g) ==
  /\ ask[a] = "none" /\ ~Busy(g) /\ ~turnClosed
  /\ g \in Streams => turnStream[g] = "live" /\ ~(\E b \in Asks : via[b] = g /\ ask[b] = "held")
  /\ sourceCount < AllocationsPerSource
  /\ ask' = [ask EXCEPT ![a] = "asked"] /\ via' = [via EXCEPT ![a] = g]
  /\ UNCHANGED <<turnStream, streamCount, socket, total, sourceCount, turnClosed>>

\* reserve: the check and the count under one lock, or errFull.
ReserveRelay(a) ==
  /\ ask[a] = "asked"
  /\ IF total < AllocationLimit /\ total < AllocationsPerUser
     THEN total' = total + 1 /\ ask' = [ask EXCEPT ![a] = "reserved"]
     ELSE ask' = [ask EXCEPT ![a] = "ended"] /\ UNCHANGED total
  /\ UNCHANGED <<turnStream, streamCount, via, socket, sourceCount, turnClosed>>

\* bind: a port, or none is left and the reservation is given back.
BindRelay(a) ==
  /\ ask[a] = "reserved"
  /\ \/ ask' = [ask EXCEPT ![a] = "bound"] /\ socket' = [socket EXCEPT ![a] = "open"] /\ UNCHANGED total
     \/ ask' = [ask EXCEPT ![a] = "ended"] /\ total' = total - 1 /\ UNCHANGED socket
  /\ UNCHANGED <<turnStream, streamCount, via, sourceCount, turnClosed>>

\* OnAllocationCreated.
Created(a) ==
  /\ ask[a] = "bound" /\ ask' = [ask EXCEPT ![a] = "held"] /\ sourceCount' = sourceCount + 1
  /\ UNCHANGED <<turnStream, streamCount, via, socket, total, turnClosed>>

\* relayConn.Close, through once: idle, past its rate, bound to another peer, or its allocation
\* deleted.  Several of them may come at once.
CloseRelay(a) ==
  /\ socket[a] = "open"
  /\ socket' = [socket EXCEPT ![a] = "closed"] /\ total' = total - 1
  /\ UNCHANGED <<turnStream, streamCount, ask, via, sourceCount, turnClosed>>

\* pion deletes an allocation whose relay socket is closed, expired or whose stream is gone:
\* OnAllocationDeleted, after the socket's own Close.
Deleted(a) ==
  /\ ask[a] = "held" /\ socket[a] = "closed"
  /\ ask' = [ask EXCEPT ![a] = "ended"] /\ sourceCount' = sourceCount - 1
  /\ UNCHANGED <<turnStream, streamCount, via, socket, total, turnClosed>>

CloseServer ==
  /\ ~turnClosed /\ turnClosed' = TRUE
  /\ UNCHANGED <<turnStream, streamCount, ask, via, socket, total, sourceCount>>

TurnNext ==
  \/ CloseServer
  \/ \E t \in Streams : AdmitStream(t) \/ CloseStream(t) \/ ReleaseStream(t)
  \/ \E a \in Asks :
       \/ ReserveRelay(a) \/ BindRelay(a) \/ Created(a) \/ CloseRelay(a) \/ Deleted(a)
       \/ \E g \in Streams \cup {UDPPort} : Quota(a, g)

TurnSpec == TurnInit /\ [][TurnNext]_turnVars

------------------------------------------------------------------------------
\* The counters say what is held: a relay is counted from its reservation until its socket is
\* closed, however many things close it and wherever its making fails, and a source's
\* allocations from the event that made them to the one that ended them.
RelaysCounted ==
  /\ total = Cardinality({a \in Asks : ask[a] = "reserved" \/ socket[a] = "open"})
  /\ sourceCount = Cardinality({a \in Asks : ask[a] = "held"})
  /\ streamCount = Cardinality({t \in Streams : turnStream[t] \in {"live", "closing"}})
===============================================================================
