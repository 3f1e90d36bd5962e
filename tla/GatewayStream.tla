--------------------------- MODULE GatewayStream ---------------------------
(***************************************************************************)
(* One client's event stream, end to end: the numbered frames and replay   *)
(* buffer of backend/internal/gateway/session.go, the bounded queue,       *)
(* writer and close of conn.go, and the daemon's client that reads them,   *)
(* reconnects and resumes (daemon/internal/gatewayclient).                 *)
(*                                                                         *)
(* A socket carries the client's last request one way and frames the       *)
(* other; it loses a tail of the frames when the network drops.  A session *)
(* is named by the socket that identified it.  The event numbered k of a   *)
(* session is the k-th that fan-out gave it; what an event says does not   *)
(* matter here.  How sessions are dropped by racing goroutines is          *)
(* GatewaySessions'; here a drop is one step.                              *)
(***************************************************************************)
EXTENDS Integers, Sequences, FiniteSets

CONSTANTS
  MaxConn,       \* bound: sockets the client opens
  MaxEvents,     \* bound: events a session is given
  ResumeBuffer,  \* Options.ResumeBuffer
  OutCap         \* outboundBuffer

ASSUME StreamAssumption ==
  /\ MaxConn \in Nat /\ MaxEvents \in Nat
  /\ ResumeBuffer \in Nat /\ OutCap \in Nat
  /\ ResumeBuffer < OutCap   \* DefaultResumeBuffer is 512, outboundBuffer 1024

Conn == 1..MaxConn
None == 0
Session == Conn   \* a session is named by the socket that identified it

VARIABLES
  phase,    \* socket: "new", "up", "shut" (the server closed it) or "cut" (the network did)
  req,      \* the client's IDENTIFY or RESUME not yet handled, or None
  out,      \* conn.out: frames queued for the socket
  net,      \* frames on the wire, and the close after them
  closing,  \* conn.closeOnce has run, with this close code; None if it has not
  serving,  \* sockets whose serve loop runs
  seq,      \* session.seq
  buf,      \* session.buf
  attached, \* session.conn
  over,     \* sessions that do not exist yet or are over (session.ended)
  given,    \* events given to the session
  slow,     \* sockets that a frame found full
  cur,      \* the client's socket
  sid,      \* Client.sessionID
  cseq,     \* Client.seq
  seen      \* events handed to the sink since its Begin

sockets == <<phase, req, out, net, closing, serving, slow>>
streams == <<seq, buf, attached, over, given>>
client == <<cur, sid, cseq, seen>>
vars == <<sockets, streams, client>>

Frame ==
  [op : {"READY"}, s : {1}, ev : Session]
    \cup [op : {"RESUMED", "EVENT", "RECONNECT", "INVALID", "CLOSE"}, s : Nat, ev : Nat]
\* Mutant: READY does not name its session.
ReadyUnnamed(c) == [op |-> "READY", s |-> 1, ev |-> 0]
\* READY is frame 1 of its session, and names it.
Ready(c) == [op |-> "READY", s |-> 1, ev |-> c]
Resumed(n) == [op |-> "RESUMED", s |-> n, ev |-> 0]
Event(n, k) == [op |-> "EVENT", s |-> n, ev |-> k]
InvalidSession == [op |-> "INVALID", s |-> 0, ev |-> 0]
Reconnect == [op |-> "RECONNECT", s |-> 0, ev |-> 0]
\* A close is a frame whose s tells whether the client may resume (1) or must identify (2).
Close(code) == [op |-> "CLOSE", s |-> code, ev |-> 0]
MayResume == 1
MustIdentify == 2

Identify == [op |-> "IDENTIFY", session |-> None, after |-> 0]
Resume(s, n) == [op |-> "RESUME", session |-> s, after |-> n]
NoReq == [op |-> "NONE", session |-> None, after |-> 0]
Request ==
  [op : {"NONE", "IDENTIFY"}, session : {None}, after : Nat]
    \cup [op : {"RESUME"}, session : Session, after : Nat]

Init ==
  /\ phase = [c \in Conn |-> "new"]
  /\ req = [c \in Conn |-> NoReq]
  /\ out = [c \in Conn |-> <<>>]
  /\ net = [c \in Conn |-> <<>>]
  /\ closing = [c \in Conn |-> None]
  /\ serving = {} /\ slow = {}
  /\ seq = [s \in Session |-> 0]
  /\ buf = [s \in Session |-> <<>>]
  /\ attached = [s \in Session |-> None]
  /\ over = Session
  /\ given = [s \in Session |-> 0]
  /\ cur = None /\ sid = None /\ cseq = 0 /\ seen = <<>>

----------------------------------------------------------------------------
(* session.go: numbering, buffering and queueing a dispatch.               *)

\* Mutant: trims the newest frames and keeps the oldest.
TrimmedNewestFirst(b) == {SubSeq(b, 1, k) : k \in 0..(IF Len(b) < ResumeBuffer THEN Len(b) ELSE ResumeBuffer)}

\* The frames a trim may leave of b: at most ResumeBuffer of the newest, and fewer,
\* or none, when their bytes exceed maxResumeBytes.
Trimmed(b) == {SubSeq(b, Len(b) - k + 1, Len(b)) : k \in 0..(IF Len(b) < ResumeBuffer THEN Len(b) ELSE ResumeBuffer)}

\* enqueueFrame: a frame that finds the queue of socket c full is left out and starts a close.
Enqueue(c, f) ==
  IF Len(out[c]) < OutCap
    THEN out' = [out EXCEPT ![c] = Append(@, f)] /\ UNCHANGED <<slow, closing>>
    ELSE /\ slow' = slow \cup {c}
         /\ closing' = [closing EXCEPT ![c] = IF @ = None THEN MayResume ELSE @]
         /\ UNCHANGED out

\* Number f as the next frame of session s and keep it for replay.
Number(s, f) ==
  /\ seq' = [seq EXCEPT ![s] = @ + 1]
  /\ \E kept \in Trimmed(Append(buf[s], f)) : buf' = [buf EXCEPT ![s] = kept]

\* deliver, once the session is READY: an event that fan-out permitted.
Deliver(s) ==
  LET f == Event(seq[s] + 1, given[s] + 1) IN
  /\ s \notin over /\ given[s] < MaxEvents
  /\ given' = [given EXCEPT ![s] = @ + 1]
  /\ Number(s, f)
  /\ IF attached[s] = None THEN UNCHANGED <<out, slow, closing>> ELSE Enqueue(attached[s], f)
  /\ UNCHANGED <<phase, req, net, serving, attached, over, client>>

----------------------------------------------------------------------------
(* conn.go: the writer, the close, and the requests of the serve loop.     *)

\* writeLoop puts one frame on the socket.
Write(c) ==
  /\ phase[c] = "up" /\ out[c] # <<>>
  /\ net' = [net EXCEPT ![c] = Append(@, Head(out[c]))]
  /\ out' = [out EXCEPT ![c] = Tail(@)]
  /\ UNCHANGED <<phase, req, closing, serving, slow, streams, client>>

\* closeWith: the queue has been written, or closeFlushWait has passed.
CloseWith(c) ==
  /\ phase[c] = "up" /\ closing[c] # None
  /\ phase' = [phase EXCEPT ![c] = "shut"]
  /\ net' = [net EXCEPT ![c] = Append(@, Close(closing[c]))]
  /\ UNCHANGED <<req, out, closing, serving, slow, streams, client>>

\* IDENTIFY starts a session, which supersedes the device's detached ones.
HandleIdentify(c) ==
  /\ c \in serving /\ phase[c] = "up"
  /\ req[c].op = "IDENTIFY"
  /\ req' = [req EXCEPT ![c] = NoReq]
  /\ over' = (over \cup {s \in Session : attached[s] = None}) \ {c}
  /\ attached' = [attached EXCEPT ![c] = c]
  /\ seq' = [seq EXCEPT ![c] = 1]
  /\ \E kept \in Trimmed(<<Ready(c)>>) :
       buf' = [s \in Session |-> IF s = c THEN kept ELSE IF s \in over' THEN <<>> ELSE buf[s]]
  /\ Enqueue(c, Ready(c))
  /\ UNCHANGED <<phase, net, serving, given, client>>

\* Mutant: an empty buffer counts as reaching back to the start.
OldestOfEmptyIsFirst(s) == IF buf[s] = <<>> THEN 1 ELSE buf[s][1].s

\* The oldest frame a replay can start from.
Oldest(s) == IF buf[s] = <<>> THEN seq[s] + 1 ELSE buf[s][1].s

\* The frames of b numbered above n; the numbers of b increase.
FramesAfter(b, n) ==
  SubSeq(b, (CHOOSE k \in 0..Len(b) : \A i \in 1..Len(b) : b[i].s > n <=> i > k) + 1, Len(b))

\* resume: replay what the client missed, then RESUMED, and close the socket it replaces.
\* The queue of a socket that resumes is empty, and a replay fits.
HandleResume(c) ==
  LET s == req[c].session
      after == req[c].after
      f == Resumed(seq[s] + 1)
      replay == FramesAfter(buf[s], after)
      old == attached[s]
  IN
  /\ c \in serving /\ phase[c] = "up"
  /\ req[c].op = "RESUME"
  /\ s \notin over /\ Oldest(s) - 1 <= after /\ after <= seq[s]
  /\ req' = [req EXCEPT ![c] = NoReq]
  /\ attached' = [attached EXCEPT ![s] = c]
  /\ Number(s, f)
  /\ out' = [out EXCEPT ![c] = @ \o Append(replay, f)]
  /\ closing' = [d \in Conn |-> IF d = old /\ d # c /\ closing[d] = None THEN MayResume ELSE closing[d]]
  /\ UNCHANGED <<phase, net, serving, slow, over, given, client>>

\* Mutant: a session that is gone is refused without an answer.
RefuseResumeSilently(c) ==
  /\ c \in serving /\ phase[c] = "up"
  /\ req[c].op = "RESUME"
  /\ req[c].session \in over
  /\ req' = [req EXCEPT ![c] = NoReq]
  /\ UNCHANGED <<phase, out, net, closing, serving, slow, streams, client>>

\* The session is over, or its buffer starts too late and it is dropped: "not resumable".
\* A number never sent closes the connection, and the client gives the session up.
RefuseResume(c) ==
  LET s == req[c].session
      after == req[c].after
  IN
  /\ c \in serving /\ phase[c] = "up"
  /\ req[c].op = "RESUME"
  /\ s \in over \/ after > seq[s] \/ after < Oldest(s) - 1
  /\ req' = [req EXCEPT ![c] = NoReq]
  /\ IF s \notin over /\ after > seq[s]
       THEN /\ closing' = [closing EXCEPT ![c] = IF @ = None THEN MustIdentify ELSE @]
            /\ UNCHANGED <<over, buf, out, slow>>
       ELSE /\ over' = over \cup {s}
            /\ buf' = [buf EXCEPT ![s] = <<>>]
            /\ Enqueue(c, InvalidSession)
  /\ UNCHANGED <<phase, net, serving, seq, attached, given, client>>

\* The watchdog closes a connection that has not identified, or sent a heartbeat, in time.
Watchdog(c) ==
  /\ c \in serving /\ closing[c] = None
  /\ closing' = [closing EXCEPT ![c] = MayResume]
  /\ UNCHANGED <<phase, req, out, net, serving, slow, streams, client>>

\* serve returns once its socket is closed, and detaches.
ServeReturns(c) ==
  /\ c \in serving /\ phase[c] \in {"shut", "cut"}
  /\ serving' = serving \ {c}
  /\ attached' = [s \in Session |-> IF attached[s] = c THEN None ELSE attached[s]]
  /\ UNCHANGED <<phase, req, out, net, closing, slow, seq, buf, over, given, client>>

\* The resume window passes.
Expire(s) ==
  /\ s \notin over /\ attached[s] = None
  /\ over' = over \cup {s}
  /\ buf' = [buf EXCEPT ![s] = <<>>]
  /\ UNCHANGED <<sockets, seq, attached, given, client>>

\* Shutdown, and another process in its place: op 7 and a close to every connection, and
\* every session dropped.
Restart ==
  /\ over # Session
  /\ over' = Session
  /\ buf' = [s \in Session |-> <<>>]
  /\ out' = [c \in Conn |-> 
       IF c \in serving /\ Len(out[c]) < OutCap THEN Append(out[c], Reconnect) ELSE out[c]]
  /\ closing' = [c \in Conn |-> IF c \in serving /\ closing[c] = None THEN MayResume ELSE closing[c]]
  /\ UNCHANGED <<phase, req, net, serving, slow, seq, attached, given, client>>

\* The network drops a socket, with what was on its way.
Cut(c) ==
  /\ phase[c] \in {"up", "shut"} /\ (phase[c] = "shut" => net[c] # <<>>)
  /\ phase' = [phase EXCEPT ![c] = "cut"]
  /\ net' = [net EXCEPT ![c] = <<>>]
  /\ UNCHANGED <<req, out, closing, serving, slow, streams, client>>

----------------------------------------------------------------------------
(* gatewayclient: connect, converse and after.                             *)

\* Mutant: the sink is not told that a fresh session begins.
OpenWithoutBegin(c, session, n) ==
  /\ req' = [req EXCEPT ![c] = IF session # None THEN Resume(session, n) ELSE Identify]
  /\ UNCHANGED seen

\* open: RESUME if there is a session, and IDENTIFY if not, telling the sink first.
Open(c, session, n) ==
  IF session # None
    THEN req' = [req EXCEPT ![c] = Resume(session, n)] /\ UNCHANGED seen
    ELSE req' = [req EXCEPT ![c] = Identify] /\ seen' = <<>>

Connect(c) ==
  /\ cur = None /\ phase[c] = "new" /\ (c > 1 => phase[c - 1] # "new")
  /\ cur' = c
  /\ phase' = [phase EXCEPT ![c] = "up"]
  /\ serving' = serving \cup {c}
  /\ Open(c, sid, cseq)
  /\ UNCHANGED <<out, net, closing, slow, streams, sid, cseq>>

\* The client takes the next frame off its socket.
Read(f) ==
  /\ cur # None /\ net[cur] # <<>> /\ f = Head(net[cur])
  /\ net' = [net EXCEPT ![cur] = Tail(@)]

ReadDispatch(f) ==
  /\ Read(f) /\ f.op \in {"READY", "RESUMED", "EVENT"}
  /\ cseq' = f.s
  /\ sid' = IF f.op = "READY" THEN f.ev ELSE sid
  /\ seen' = IF f.op = "EVENT" THEN Append(seen, f.ev) ELSE seen
  /\ UNCHANGED <<phase, req, out, closing, serving, slow, streams, cur>>

\* INVALID_SESSION: identify afresh on this connection.
ReadInvalid(f) ==
  /\ Read(f) /\ f.op = "INVALID"
  /\ sid' = None /\ cseq' = 0
  /\ Open(cur, None, 0)
  /\ UNCHANGED <<phase, out, closing, serving, slow, streams, cur>>

\* Op 7: the client closes its side and reconnects.
ReadReconnect(f) ==
  /\ Read(f) /\ f.op = "RECONNECT"
  /\ phase' = [phase EXCEPT ![cur] = "cut"]
  /\ cur' = None
  /\ UNCHANGED <<req, out, closing, serving, slow, streams, sid, cseq, seen>>

\* A close: after, and connect again.
ReadClose(f) ==
  /\ Read(f) /\ f.op = "CLOSE"
  /\ cur' = None
  /\ IF f.s = MustIdentify THEN sid' = None /\ cseq' = 0 ELSE UNCHANGED <<sid, cseq>>
  /\ UNCHANGED <<phase, req, out, closing, serving, slow, streams, seen>>

\* The sink panics on an event: the connection ends and is identified afresh.
Panic(f) ==
  /\ Read(f) /\ f.op = "EVENT"
  /\ phase' = [phase EXCEPT ![cur] = "cut"]
  /\ cur' = None /\ sid' = None /\ cseq' = 0
  /\ UNCHANGED <<req, out, closing, serving, slow, streams, seen>>

\* The socket is gone, and everything that reached the client has been read.
LinkLost ==
  /\ cur # None /\ phase[cur] = "cut" /\ net[cur] = <<>>
  /\ cur' = None
  /\ UNCHANGED <<sockets, streams, sid, cseq, seen>>

----------------------------------------------------------------------------
Server(c) ==
  \/ Write(c) \/ CloseWith(c)
  \/ HandleIdentify(c) \/ HandleResume(c) \/ RefuseResume(c)
  \/ ServeReturns(c)

Client ==
  \/ \E c \in Conn : Connect(c)
  \/ cur # None /\ net[cur] # <<>> /\
       LET f == Head(net[cur]) IN
       ReadDispatch(f) \/ ReadInvalid(f) \/ ReadReconnect(f) \/ ReadClose(f)
  \/ LinkLost

Next ==
  \/ \E s \in Session : Deliver(s) \/ Expire(s)
  \/ \E c \in Conn : Server(c) \/ Watchdog(c) \/ Cut(c)
  \/ Restart
  \/ Client
  \/ cur # None /\ net[cur] # <<>> /\ Panic(Head(net[cur]))

Spec == Init /\ [][Next]_vars

\* The server's goroutines and the client's loop are scheduled; a socket is read and written.
Fairness == WF_vars(Client) /\ \A c \in Conn : WF_vars(Server(c))
FairSpec == Spec /\ Fairness

----------------------------------------------------------------------------
TypeOK ==
  /\ phase \in [Conn -> {"new", "up", "shut", "cut"}]
  /\ req \in [Conn -> Request]
  /\ out \in [Conn -> Seq(Frame)] /\ net \in [Conn -> Seq(Frame)]
  /\ closing \in [Conn -> {None, MayResume, MustIdentify}]
  /\ serving \subseteq Conn /\ slow \subseteq Conn
  /\ seq \in [Session -> Nat] /\ buf \in [Session -> Seq(Frame)]
  /\ attached \in [Session -> Conn \cup {None}]
  /\ over \subseteq Session /\ given \in [Session -> Nat]
  /\ cur \in Conn \cup {None} /\ sid \in Session \cup {None}
  /\ cseq \in Nat /\ seen \in Seq(Nat)

\* The replay buffer is the newest frames of the stream, without a gap, so that a replay from
\* any number the buffer reaches sends every frame after it (session.go, dispatchLocked).
BufferIsNewest ==
  \A s \in Session : \A i \in 1..Len(buf[s]) : buf[s][i].s = seq[s] - Len(buf[s]) + i

\* No frame is queued past the bound, a whole replay and its RESUMED included: enqueueFrame
\* never has to leave out a replayed frame (session.go, resume).
QueueBounded == \A c \in Conn : Len(out[c]) <= OutCap

\* The sink is handed a session's events in order and never one twice, across drops, resumes,
\* replays and slow sockets (gatewayclient: "in sequence order").
InOrder == \A i \in 1..(Len(seen) - 1) : seen[i] < seen[i + 1]

\* No event of a session is skipped unless one of the session's sockets overflowed its queue:
\* what is dropped with a connection, a close or a cut is replayed or the session is begun afresh.
LossOnlyWhenSlow == slow = {} => \A i \in 1..Len(seen) : seen[i] = i

\* "A client that reconnects in time and resumes loses nothing" (session.go): no event is
\* skipped, a slow client's included.
LosesNothing == \A i \in 1..Len(seen) : seen[i] = i

\* What the client sees is a reliable stream.
Reliable == INSTANCE ReliableStream WITH seen <- seen
IsReliable == Reliable!Spec

\* A client whose connection stays up is in the end READY and has been handed every event its
\* session was given.
CatchesUp ==
  <>[](cur # None /\ phase[cur] = "up" /\ closing[cur] = None)
    => <>[](sid # None /\ Len(seen) = given[sid])

\* Frames come through a bounded queue in order, and one is missing only after the
\* queue of some connection was full (conn.go enqueueFrame, session.go resume).
LossIsAccountedFor == QueueBounded /\ InOrder /\ LossOnlyWhenSlow
=============================================================================
