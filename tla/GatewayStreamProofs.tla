------------------------ MODULE GatewayStreamProofs ------------------------
(***************************************************************************)
(* The replay buffer of every session is, in every reachable state and for *)
(* every number of sockets and events and every buffer size, the newest    *)
(* frames of the session's stream without a gap.                           *)
(*                                                                         *)
(* The second part proves what the client makes of it: events are handed   *)
(* to its sink in order and skipped only when a queue was found full, and  *)
(* while none was the client sees ReliableStream. Streams are compared     *)
(* with a history of each session, E[s][n] the number of events its first  *)
(* n frames told of. The model has no such variable: the invariant says    *)
(* that some E fits, and each step gives the one that fits next.           *)
(***************************************************************************)
EXTENDS GatewayStream, TLAPS

\* What the proofs carry from step to step.
IndInv == TypeOK /\ BufferIsNewest

\* The frames of b are numbered without a gap and end at n.
EndsAt(b, n) == \A i \in 1..Len(b) : b[i].s = n - Len(b) + i

\* A trim keeps the newest frames: what is left still ends at the same number (dispatchLocked).
LEMMA TrimKeepsNewest ==
  ASSUME NEW b \in Seq(Frame), NEW n \in Nat, EndsAt(b, n), NEW kept \in Trimmed(b)
  PROVE  kept \in Seq(Frame) /\ EndsAt(kept, n)
<1>1. PICK k \in 0..(IF Len(b) < ResumeBuffer THEN Len(b) ELSE ResumeBuffer) :
        kept = SubSeq(b, Len(b) - k + 1, Len(b))
  BY DEF Trimmed
<1>2. k \in Nat /\ k <= Len(b) /\ Len(b) \in Nat
  BY StreamAssumption
<1>3. kept \in Seq(Frame) /\ Len(kept) = k
  BY <1>1, <1>2
<1>4. ASSUME NEW i \in 1..Len(kept) PROVE kept[i].s = n - Len(kept) + i
  <2>1. kept[i] = b[Len(b) - k + i] /\ (Len(b) - k + i) \in 1..Len(b)
    BY <1>1, <1>2, <1>3
  <2> QED BY <2>1, <1>2, <1>3 DEF EndsAt
<1> QED BY <1>3, <1>4 DEF EndsAt

\* Appending the next frame extends the newest frames by one.
LEMMA AppendExtends ==
  ASSUME NEW b \in Seq(Frame), NEW n \in Nat, EndsAt(b, n), NEW f \in Frame, f.s = n + 1
  PROVE  Append(b, f) \in Seq(Frame) /\ EndsAt(Append(b, f), n + 1)
<1>1. Append(b, f) \in Seq(Frame) /\ Len(Append(b, f)) = Len(b) + 1 /\ Len(b) \in Nat
  OBVIOUS
<1>2. ASSUME NEW i \in 1..Len(Append(b, f))
      PROVE  Append(b, f)[i].s = (n + 1) - Len(Append(b, f)) + i
  <2>1. CASE i = Len(b) + 1
    BY <2>1, <1>1
  <2>2. CASE i # Len(b) + 1
    <3>1. i \in 1..Len(b) /\ Append(b, f)[i] = b[i]
      BY <2>2, <1>1
    <3> QED BY <3>1, <1>1 DEF EndsAt
  <2> QED BY <2>1, <2>2
<1> QED BY <1>1, <1>2 DEF EndsAt

\* In a buffer without a gap the frames after a number are a suffix (resume).
LEMMA FramesAfterIsSuffix ==
  ASSUME NEW b \in Seq(Frame), NEW n \in Nat, EndsAt(b, n), NEW after \in Nat
  PROVE  \E k \in 0..Len(b) : /\ \A i \in 1..Len(b) : b[i].s > after <=> i > k
                             /\ FramesAfter(b, after) = SubSeq(b, k + 1, Len(b))
<1> DEFINE P(k) == \A i \in 1..Len(b) : b[i].s > after <=> i > k
           j == after - n + Len(b)
<1>0. Len(b) \in Nat /\ j \in Int
  OBVIOUS
<1>1. \A i \in 1..Len(b) : b[i].s > after <=> i > j
  BY <1>0 DEF EndsAt
<1>2. \E k \in 0..Len(b) : P(k)
  <2>1. CASE j < 0
    <3>1. P(0)
      BY <2>1, <1>0, <1>1
    <3> QED BY <3>1, <1>0
  <2>2. CASE j > Len(b)
    <3>1. Len(b) \in 0..Len(b) /\ P(Len(b))
      BY <2>2, <1>0, <1>1
    <3> HIDE DEF P
    <3> QED BY <3>1
  <2>3. CASE 0 <= j /\ j <= Len(b)
    <3>1. j \in 0..Len(b) /\ P(j)
      BY <2>3, <1>0, <1>1
    <3> HIDE DEF P, j
    <3> QED BY <3>1
  <2> QED BY <2>1, <2>2, <2>3, <1>0
<1> DEFINE m == CHOOSE k \in 0..Len(b) : P(k)
<1>3. m \in 0..Len(b) /\ P(m)
  BY <1>2
<1>4. FramesAfter(b, after) = SubSeq(b, m + 1, Len(b))
  BY DEF FramesAfter
<1> QED BY <1>3, <1>4

\* Numbering the next frame of a session keeps its buffer's invariant.
LEMMA NumberStep ==
  ASSUME IndInv, NEW s \in Session, NEW f \in Frame, f.s = seq[s] + 1, Number(s, f)
  PROVE  /\ seq' \in [Session -> Nat] /\ buf' \in [Session -> Seq(Frame)]
         /\ BufferIsNewest'
<1>0. seq \in [Session -> Nat] /\ buf \in [Session -> Seq(Frame)]
  BY DEF IndInv, TypeOK
<1>1. PICK kept \in Trimmed(Append(buf[s], f)) : buf' = [buf EXCEPT ![s] = kept]
  BY DEF Number
<1>2. buf[s] \in Seq(Frame) /\ seq[s] \in Nat /\ EndsAt(buf[s], seq[s])
  BY <1>0 DEF IndInv, BufferIsNewest, EndsAt
<1>3. Append(buf[s], f) \in Seq(Frame) /\ EndsAt(Append(buf[s], f), seq[s] + 1)
  BY <1>2, AppendExtends
<1>4. kept \in Seq(Frame) /\ EndsAt(kept, seq[s] + 1)
  <2>1. seq[s] + 1 \in Nat
    BY <1>2
  <2> QED BY <1>3, <2>1, TrimKeepsNewest
<1>5. seq' = [seq EXCEPT ![s] = seq[s] + 1]
  BY DEF Number
<1>6. seq' \in [Session -> Nat] /\ buf' \in [Session -> Seq(Frame)]
  BY <1>0, <1>1, <1>2, <1>4, <1>5
<1>7. ASSUME NEW r \in Session PROVE EndsAt(buf'[r], seq'[r])
  <2>1. CASE r = s
    BY <2>1, <1>0, <1>1, <1>4, <1>5
  <2>2. CASE r # s
    <3>1. buf'[r] = buf[r] /\ seq'[r] = seq[r]
      BY <2>2, <1>0, <1>1, <1>5
    <3> QED BY <3>1 DEF IndInv, BufferIsNewest, EndsAt
  <2> QED BY <2>1, <2>2
<1> QED BY <1>6, <1>7 DEF BufferIsNewest, EndsAt

\* A step that empties some buffers and leaves the numbers alone keeps the buffers' invariant.
LEMMA EmptyStep ==
  ASSUME IndInv, NEW gone \in SUBSET Session, UNCHANGED seq,
         buf' = [s \in Session |-> IF s \in gone THEN <<>> ELSE buf[s]]
  PROVE  /\ seq' \in [Session -> Nat] /\ buf' \in [Session -> Seq(Frame)]
         /\ BufferIsNewest'
<1>0. seq \in [Session -> Nat] /\ buf \in [Session -> Seq(Frame)]
  BY DEF IndInv, TypeOK
<1>1. seq' \in [Session -> Nat] /\ buf' \in [Session -> Seq(Frame)]
  BY <1>0
<1>2. ASSUME NEW r \in Session PROVE EndsAt(buf'[r], seq'[r])
  <2>1. CASE r \in gone
    BY <2>1 DEF EndsAt
  <2>2. CASE r \notin gone
    BY <2>2 DEF IndInv, BufferIsNewest, EndsAt
  <2> QED BY <2>1, <2>2
<1> QED BY <1>1, <1>2 DEF BufferIsNewest, EndsAt

\* IDENTIFY starts a buffer at READY and empties those of the sessions it supersedes.
LEMMA IdentifyStep ==
  ASSUME IndInv, NEW c \in Conn, HandleIdentify(c)
  PROVE  /\ seq' \in [Session -> Nat] /\ buf' \in [Session -> Seq(Frame)]
         /\ BufferIsNewest'
<1>0. seq \in [Session -> Nat] /\ buf \in [Session -> Seq(Frame)] /\ c \in Session
  BY DEF IndInv, TypeOK, Session
<1>1. PICK kept \in Trimmed(<<Ready(c)>>) :
        buf' = [s \in Session |-> IF s = c THEN kept ELSE IF s \in over' THEN <<>> ELSE buf[s]]
  BY DEF HandleIdentify
<1>2. Ready(c) \in Frame /\ Ready(c).s = 1
  BY <1>0 DEF Ready, Frame
<1>3. <<Ready(c)>> \in Seq(Frame) /\ EndsAt(<<Ready(c)>>, 1)
  BY <1>2 DEF EndsAt
<1>4. kept \in Seq(Frame) /\ EndsAt(kept, 1)
  BY <1>3, TrimKeepsNewest
<1>5. seq' = [seq EXCEPT ![c] = 1]
  BY DEF HandleIdentify
<1>6. seq' \in [Session -> Nat] /\ buf' \in [Session -> Seq(Frame)]
  BY <1>0, <1>1, <1>4, <1>5
<1>7. ASSUME NEW r \in Session PROVE EndsAt(buf'[r], seq'[r])
  <2>1. CASE r = c
    BY <2>1, <1>0, <1>1, <1>4, <1>5
  <2>2. CASE r # c /\ r \in over'
    <3>1. buf'[r] = <<>>
      BY <2>2, <1>1
    <3> QED BY <3>1 DEF EndsAt
  <2>3. CASE r # c /\ r \notin over'
    <3>1. buf'[r] = buf[r] /\ seq'[r] = seq[r]
      BY <2>3, <1>0, <1>1, <1>5
    <3> QED BY <3>1 DEF IndInv, BufferIsNewest, EndsAt
  <2> QED BY <2>1, <2>2, <2>3
<1> QED BY <1>6, <1>7 DEF BufferIsNewest, EndsAt

\* Queueing a frame keeps the queues' and closes' types.
LEMMA EnqueueTypes ==
  ASSUME TypeOK, NEW c \in Conn, NEW f \in Frame, Enqueue(c, f)
  PROVE  /\ out' \in [Conn -> Seq(Frame)] /\ slow' \subseteq Conn
         /\ closing' \in [Conn -> {None, MayResume, MustIdentify}]
<1>1. CASE Len(out[c]) < OutCap
  <2>1. out' = [out EXCEPT ![c] = Append(out[c], f)] /\ UNCHANGED <<slow, closing>>
    BY <1>1 DEF Enqueue
  <2>2. Append(out[c], f) \in Seq(Frame)
    BY DEF TypeOK
  <2>3. out' \in [Conn -> Seq(Frame)]
    BY <2>1, <2>2 DEF TypeOK
  <2> QED BY <2>1, <2>3 DEF TypeOK
<1>2. CASE ~(Len(out[c]) < OutCap)
  <2>1. slow' = slow \cup {c} /\ out' = out
    BY <1>2 DEF Enqueue
  <2>2. closing' = [closing EXCEPT ![c] = IF closing[c] = None THEN MayResume ELSE closing[c]]
    BY <1>2 DEF Enqueue
  <2>3. closing \in [Conn -> {None, MayResume, MustIdentify}]
    BY DEF TypeOK
  <2>4. closing' \in [Conn -> {None, MayResume, MustIdentify}]
    BY <2>2, <2>3
  <2>5. slow' \subseteq Conn
    BY <2>1 DEF TypeOK
  <2> QED BY <2>1, <2>4, <2>5 DEF TypeOK
<1> QED BY <1>1, <1>2

\* At first no session has a stream and no frame is on its way.
LEMMA InitStream == Init => IndInv
<1> SUFFICES ASSUME Init PROVE IndInv
  OBVIOUS
<1>1. NoReq \in Request
  BY DEF NoReq, Request
<1>2. TypeOK
  BY <1>1 DEF Init, TypeOK, None
<1>3. BufferIsNewest
  BY DEF Init, BufferIsNewest
<1> QED BY <1>2, <1>3 DEF IndInv

\* Every step of the server keeps the invariant.
LEMMA ServerStep ==
  ASSUME IndInv, NEW c \in Conn, Server(c)
  PROVE  IndInv'
<1> USE DEF IndInv
<1>0. TypeOK /\ NoReq \in Request /\ c \in Session /\ Session = Conn
  BY DEF NoReq, Request, Session
<1>1. CASE Write(c)
  <2>1. out[c] \in Seq(Frame) /\ net[c] \in Seq(Frame) /\ out[c] # <<>>
    BY <1>0, <1>1 DEF Write, TypeOK
  <2>2. Head(out[c]) \in Frame /\ Tail(out[c]) \in Seq(Frame)
    BY <2>1
  <2>3. Append(net[c], Head(out[c])) \in Seq(Frame)
    BY <2>1, <2>2
  <2>4. TypeOK'
    BY <1>0, <1>1, <2>2, <2>3 DEF Write, TypeOK, streams, client
  <2> QED BY <2>4, <1>1 DEF Write, BufferIsNewest, streams
<1>2. CASE CloseWith(c)
  <2>1. Close(closing[c]) \in Frame
    BY <1>0 DEF TypeOK, Close, Frame, None, MayResume, MustIdentify
  <2>2. Append(net[c], Close(closing[c])) \in Seq(Frame)
    BY <2>1, <1>0 DEF TypeOK
  <2>3. TypeOK'
    BY <1>0, <1>2, <2>2 DEF CloseWith, TypeOK, streams, client
  <2> QED BY <2>3, <1>2 DEF CloseWith, BufferIsNewest, streams
<1>3. CASE HandleIdentify(c)
  <2>1. /\ seq' \in [Session -> Nat] /\ buf' \in [Session -> Seq(Frame)]
        /\ BufferIsNewest'
    BY <1>3, IdentifyStep
  <2>2. Ready(c) \in Frame
    BY <1>0 DEF Ready, Frame
  <2>3. /\ out' \in [Conn -> Seq(Frame)] /\ slow' \subseteq Conn
        /\ closing' \in [Conn -> {None, MayResume, MustIdentify}]
    BY <1>0, <1>3, <2>2, EnqueueTypes DEF HandleIdentify
  <2>4. TypeOK'
    BY <1>0, <1>3, <2>1, <2>3 DEF HandleIdentify, TypeOK, client
  <2> QED BY <2>1, <2>4
<1>4. CASE HandleResume(c)
  <2> DEFINE s == req[c].session
             f == Resumed(seq[s] + 1)
             after == req[c].after
             replay == FramesAfter(buf[s], after)
  <2>1. s \in Session /\ after \in Nat
    BY <1>0, <1>4 DEF HandleResume, TypeOK, Request
  <2>2. f \in Frame /\ f.s = seq[s] + 1
    <3>1. seq[s] + 1 \in Nat
      <4>1. seq \in [Session -> Nat]
        BY <1>0 DEF TypeOK
      <4> QED BY <4>1, <2>1
    <3> QED BY <3>1 DEF Resumed, Frame
  <2>3. Number(s, f)
    BY <1>4 DEF HandleResume
  <2>4. /\ seq' \in [Session -> Nat] /\ buf' \in [Session -> Seq(Frame)]
        /\ BufferIsNewest'
    BY <2>1, <2>2, <2>3, NumberStep
  <2>5. replay \in Seq(Frame)
    <3>1. buf[s] \in Seq(Frame) /\ seq[s] \in Nat /\ EndsAt(buf[s], seq[s])
      BY <1>0, <2>1 DEF TypeOK, BufferIsNewest, EndsAt
    <3>2. PICK k \in 0..Len(buf[s]) : replay = SubSeq(buf[s], k + 1, Len(buf[s]))
      BY <3>1, <2>1, FramesAfterIsSuffix
    <3> QED BY <3>1, <3>2
  <2>6. out[c] \o Append(replay, f) \in Seq(Frame)
    <3>1. out[c] \in Seq(Frame)
      BY <1>0 DEF TypeOK
    <3>2. Append(replay, f) \in Seq(Frame)
      BY <2>2, <2>5
    <3> QED BY <3>1, <3>2
  <2>7. out' \in [Conn -> Seq(Frame)]
    <3>1. out' = [out EXCEPT ![c] = out[c] \o Append(replay, f)]
      BY <1>4 DEF HandleResume
    <3> QED BY <3>1, <2>6, <1>0 DEF TypeOK
  <2>8. closing' \in [Conn -> {None, MayResume, MustIdentify}]
    <3>1. closing' = [d \in Conn |-> IF d = attached[s] /\ d # c /\ closing[d] = None THEN MayResume ELSE closing[d]]
      BY <1>4 DEF HandleResume
    <3> QED BY <3>1, <1>0 DEF TypeOK
  <2>9. TypeOK'
    BY <1>0, <1>4, <2>1, <2>4, <2>7, <2>8 DEF HandleResume, TypeOK, client
  <2> QED BY <2>4, <2>9
<1>5. CASE RefuseResume(c)
  <2> DEFINE s == req[c].session
  <2>1. s \in Session
    BY <1>0, <1>5 DEF RefuseResume, TypeOK, Request
  <2>2. CASE s \notin over /\ req[c].after > seq[s]
    <3>1. /\ closing' = [closing EXCEPT ![c] = IF closing[c] = None THEN MustIdentify ELSE closing[c]]
          /\ UNCHANGED <<over, buf, out, slow>>
      BY <1>5, <2>2 DEF RefuseResume
    <3>2. closing' \in [Conn -> {None, MayResume, MustIdentify}]
      BY <3>1, <1>0 DEF TypeOK
    <3>3. TypeOK'
      BY <1>0, <1>5, <3>1, <3>2 DEF RefuseResume, TypeOK, client
    <3> QED BY <3>1, <3>3, <1>5 DEF RefuseResume, BufferIsNewest
  <2>3. CASE ~(s \notin over /\ req[c].after > seq[s])
    <3>1. /\ over' = over \cup {s} /\ UNCHANGED seq
          /\ buf' = [buf EXCEPT ![s] = <<>>]
          /\ Enqueue(c, InvalidSession)
      BY <1>5, <2>3 DEF RefuseResume
    <3>2. buf' = [r \in Session |-> IF r \in {s} THEN <<>> ELSE buf[r]]
      BY <3>1, <1>0 DEF TypeOK
    <3>3. /\ seq' \in [Session -> Nat] /\ buf' \in [Session -> Seq(Frame)]
          /\ BufferIsNewest'
      BY <2>1, <3>1, <3>2, EmptyStep
    <3>4. InvalidSession \in Frame
      BY DEF InvalidSession, Frame
    <3>5. /\ out' \in [Conn -> Seq(Frame)] /\ slow' \subseteq Conn
          /\ closing' \in [Conn -> {None, MayResume, MustIdentify}]
      BY <1>0, <3>1, <3>4, EnqueueTypes
    <3>6. TypeOK'
      BY <1>0, <1>5, <2>1, <3>1, <3>3, <3>5 DEF RefuseResume, TypeOK, client
    <3> QED BY <3>3, <3>6
  <2> QED BY <2>2, <2>3
<1>6. CASE ServeReturns(c)
  <2>1. TypeOK'
    BY <1>0, <1>6 DEF ServeReturns, TypeOK, client
  <2> QED BY <2>1, <1>6 DEF ServeReturns, BufferIsNewest
<1> QED BY <1>1, <1>2, <1>3, <1>4, <1>5, <1>6 DEF Server

\* So does every step of the client.
LEMMA ClientStep ==
  ASSUME IndInv, Client \/ (cur # None /\ net[cur] # <<>> /\ Panic(Head(net[cur])))
  PROVE  IndInv'
<1> USE DEF IndInv
<1>0. TypeOK /\ Session = Conn /\ Identify \in Request
  BY DEF Session, Identify, Request
<1>1. ASSUME NEW c \in Conn, Connect(c) PROVE IndInv'
  <2>1. ASSUME sid # None PROVE Resume(sid, cseq) \in Request
    BY <1>0, <2>1 DEF TypeOK, Resume, Request
  <2>2. req' \in [Conn -> Request] /\ seen' \in Seq(Nat)
    <3>1. CASE sid # None
      <4>1. req' = [req EXCEPT ![c] = Resume(sid, cseq)] /\ UNCHANGED seen
        BY <3>1, <1>1 DEF Connect, Open
      <4> QED BY <4>1, <3>1, <1>0, <2>1 DEF TypeOK
    <3>2. CASE sid = None
      <4>1. req' = [req EXCEPT ![c] = Identify] /\ seen' = <<>>
        BY <3>2, <1>1 DEF Connect, Open
      <4> QED BY <4>1, <1>0 DEF TypeOK
    <3> QED BY <3>1, <3>2
  <2>3. TypeOK'
    BY <1>0, <1>1, <2>2 DEF Connect, TypeOK, streams
  <2> QED BY <2>3, <1>1 DEF Connect, BufferIsNewest, streams
<1>2. ASSUME NEW f, Read(f) PROVE f \in Frame /\ net' \in [Conn -> Seq(Frame)] /\ cur \in Conn
  <2>1. cur \in Conn /\ net[cur] \in Seq(Frame) /\ net[cur] # <<>>
    BY <1>0, <1>2 DEF Read, TypeOK
  <2>2. Head(net[cur]) \in Frame /\ Tail(net[cur]) \in Seq(Frame)
    BY <2>1
  <2> QED BY <1>0, <1>2, <2>1, <2>2 DEF Read, TypeOK
<1>3. ASSUME NEW f, ReadDispatch(f) PROVE IndInv'
  <2>1. f \in Frame /\ net' \in [Conn -> Seq(Frame)] /\ cur \in Conn
    BY <1>2, <1>3 DEF ReadDispatch
  <2>2. cseq' \in Nat
    BY <2>1, <1>3 DEF ReadDispatch, Frame
  <2>3. sid' \in Session \cup {None}
    <3>1. CASE f.op = "READY"
      BY <3>1, <2>1, <1>3 DEF ReadDispatch, Frame
    <3>2. CASE f.op # "READY"
      BY <3>2, <1>0, <1>3 DEF ReadDispatch, TypeOK
    <3> QED BY <3>1, <3>2
  <2>4. seen' \in Seq(Nat)
    <3>1. CASE f.op = "EVENT"
      <4>1. f.ev \in Nat
        BY <3>1, <2>1 DEF Frame
      <4> QED BY <4>1, <3>1, <1>0, <1>3 DEF ReadDispatch, TypeOK
    <3>2. CASE f.op # "EVENT"
      BY <3>2, <1>0, <1>3 DEF ReadDispatch, TypeOK
    <3> QED BY <3>1, <3>2
  <2>5. TypeOK'
    BY <1>0, <1>3, <2>1, <2>2, <2>3, <2>4 DEF ReadDispatch, TypeOK, streams
  <2> QED BY <2>5, <1>3 DEF ReadDispatch, BufferIsNewest, streams
<1>4. ASSUME NEW f, ReadInvalid(f) PROVE IndInv'
  <2>1. net' \in [Conn -> Seq(Frame)] /\ cur \in Conn
    BY <1>2, <1>4 DEF ReadInvalid
  <2>2. req' \in [Conn -> Request] /\ seen' \in Seq(Nat)
    <3>1. req' = [req EXCEPT ![cur] = Identify] /\ seen' = <<>>
      BY <1>4 DEF ReadInvalid, Open
    <3> QED BY <3>1, <1>0, <2>1 DEF TypeOK
  <2>3. TypeOK'
    BY <1>0, <1>4, <2>1, <2>2 DEF ReadInvalid, TypeOK, streams
  <2> QED BY <2>3, <1>4 DEF ReadInvalid, BufferIsNewest, streams
<1>5. ASSUME NEW f, ReadReconnect(f) PROVE IndInv'
  <2>1. net' \in [Conn -> Seq(Frame)] /\ cur \in Conn
    BY <1>2, <1>5 DEF ReadReconnect
  <2>2. TypeOK'
    BY <1>0, <1>5, <2>1 DEF ReadReconnect, TypeOK, streams
  <2> QED BY <2>2, <1>5 DEF ReadReconnect, BufferIsNewest, streams
<1>6. ASSUME NEW f, ReadClose(f) PROVE IndInv'
  <2>1. net' \in [Conn -> Seq(Frame)] /\ cur \in Conn
    BY <1>2, <1>6 DEF ReadClose
  <2>2. sid' \in Session \cup {None} /\ cseq' \in Nat
    <3>1. CASE f.s = MustIdentify
      BY <3>1, <1>6 DEF ReadClose
    <3>2. CASE f.s # MustIdentify
      BY <3>2, <1>0, <1>6 DEF ReadClose, TypeOK
    <3> QED BY <3>1, <3>2
  <2>3. TypeOK'
    BY <1>0, <1>6, <2>1, <2>2 DEF ReadClose, TypeOK, streams
  <2> QED BY <2>3, <1>6 DEF ReadClose, BufferIsNewest, streams
<1>7. ASSUME NEW f, Panic(f) PROVE IndInv'
  <2>1. net' \in [Conn -> Seq(Frame)] /\ cur \in Conn
    BY <1>2, <1>7 DEF Panic
  <2>2. TypeOK'
    BY <1>0, <1>7, <2>1 DEF Panic, TypeOK, streams
  <2> QED BY <2>2, <1>7 DEF Panic, BufferIsNewest, streams
<1>8. ASSUME LinkLost PROVE IndInv'
  <2>1. TypeOK'
    BY <1>0, <1>8 DEF LinkLost, TypeOK, streams, sockets
  <2> QED BY <2>1, <1>8 DEF LinkLost, BufferIsNewest, streams
<1> QED BY <1>1, <1>3, <1>4, <1>5, <1>6, <1>7, <1>8 DEF Client

\* And every step of fan-out, of the timers, of a restart and of the network.
LEMMA OtherStep ==
  ASSUME IndInv,
         \/ \E s \in Session : Deliver(s) \/ Expire(s)
         \/ \E c \in Conn : Watchdog(c) \/ Cut(c)
         \/ Restart
  PROVE  IndInv'
<1> USE DEF IndInv
<1>0. TypeOK /\ Session = Conn
  BY DEF Session
<1>1. ASSUME NEW s \in Session, Deliver(s) PROVE IndInv'
  <2> DEFINE f == Event(seq[s] + 1, given[s] + 1)
  <2>1. f \in Frame /\ f.s = seq[s] + 1
    <3>1. seq[s] + 1 \in Nat /\ given[s] + 1 \in Nat
      <4>1. seq \in [Session -> Nat] /\ given \in [Session -> Nat]
        BY <1>0 DEF TypeOK
      <4> QED BY <4>1
    <3> QED BY <3>1 DEF Event, Frame
  <2>2. Number(s, f)
    BY <1>1 DEF Deliver
  <2>3. /\ seq' \in [Session -> Nat] /\ buf' \in [Session -> Seq(Frame)]
        /\ BufferIsNewest'
    BY <2>1, <2>2, NumberStep
  <2>4. /\ out' \in [Conn -> Seq(Frame)] /\ slow' \subseteq Conn
        /\ closing' \in [Conn -> {None, MayResume, MustIdentify}]
    <3>1. CASE attached[s] = None
      BY <3>1, <1>0, <1>1 DEF Deliver, TypeOK
    <3>2. CASE attached[s] # None
      <4>1. attached[s] \in Conn /\ Enqueue(attached[s], f)
        BY <3>2, <1>0, <1>1 DEF Deliver, TypeOK
      <4> QED BY <4>1, <1>0, <2>1, EnqueueTypes
    <3> QED BY <3>1, <3>2
  <2>5. given' \in [Session -> Nat]
    BY <1>0, <1>1 DEF Deliver, TypeOK
  <2>6. TypeOK'
    BY <1>0, <1>1, <2>3, <2>4, <2>5 DEF Deliver, TypeOK, client
  <2> QED BY <2>3, <2>6
<1>2. ASSUME NEW s \in Session, Expire(s) PROVE IndInv'
  <2>1. UNCHANGED seq /\ buf' = [r \in Session |-> IF r \in {s} THEN <<>> ELSE buf[r]]
    BY <1>0, <1>2 DEF Expire, TypeOK
  <2>2. /\ seq' \in [Session -> Nat] /\ buf' \in [Session -> Seq(Frame)]
        /\ BufferIsNewest'
    BY <2>1, EmptyStep
  <2>3. TypeOK'
    BY <1>0, <1>2, <2>2 DEF Expire, TypeOK, client, sockets
  <2> QED BY <2>2, <2>3
<1>3. ASSUME Restart PROVE IndInv'
  <2>1. UNCHANGED seq /\ buf' = [r \in Session |-> IF r \in Session THEN <<>> ELSE buf[r]]
    BY <1>3 DEF Restart
  <2>2. /\ seq' \in [Session -> Nat] /\ buf' \in [Session -> Seq(Frame)]
        /\ BufferIsNewest'
    BY <2>1, EmptyStep
  <2>3. Reconnect \in Frame
    BY DEF Reconnect, Frame
  <2>4. \A c \in Conn : out[c] \in Seq(Frame) /\ Append(out[c], Reconnect) \in Seq(Frame)
    BY <1>0, <2>3 DEF TypeOK
  <2>5. out' \in [Conn -> Seq(Frame)]
    BY <1>3, <2>4 DEF Restart
  <2>6. closing' \in [Conn -> {None, MayResume, MustIdentify}]
    BY <1>0, <1>3 DEF Restart, TypeOK
  <2>7. TypeOK'
    BY <1>0, <1>3, <2>2, <2>5, <2>6 DEF Restart, TypeOK, client
  <2> QED BY <2>2, <2>7
<1>4. ASSUME NEW c \in Conn, Watchdog(c) PROVE IndInv'
  <2>1. TypeOK'
    BY <1>0, <1>4 DEF Watchdog, TypeOK, client, streams
  <2> QED BY <2>1, <1>4 DEF Watchdog, BufferIsNewest, streams
<1>5. ASSUME NEW c \in Conn, Cut(c) PROVE IndInv'
  <2>1. TypeOK'
    <3>1. net' = [net EXCEPT ![c] = <<>>] /\ <<>> \in Seq(Frame)
      BY <1>5 DEF Cut
    <3>2. net' \in [Conn -> Seq(Frame)]
      BY <3>1, <1>0 DEF TypeOK
    <3>3. phase' \in [Conn -> {"new", "up", "shut", "cut"}]
      BY <1>0, <1>5 DEF Cut, TypeOK
    <3> QED BY <1>0, <1>5, <3>2, <3>3 DEF Cut, TypeOK, client, streams
  <2> QED BY <2>1, <1>5 DEF Cut, BufferIsNewest, streams
<1> QED BY <1>1, <1>2, <1>3, <1>4, <1>5

\* Every step of the server, of the client and of the wire keeps it.
LEMMA StreamStep == IndInv /\ [Next]_vars => IndInv'
<1> SUFFICES ASSUME IndInv, [Next]_vars PROVE IndInv'
  OBVIOUS
<1>1. CASE Next
  BY <1>1, ServerStep, ClientStep, OtherStep DEF Next
<1>2. CASE UNCHANGED vars
  BY <1>2 DEF vars, sockets, streams, client, IndInv, TypeOK, BufferIsNewest
<1> QED BY <1>1, <1>2

\* Every variable keeps its type, whatever the client, the server and the network do.
THEOREM StreamTypeCorrect == Spec => []TypeOK
BY InitStream, StreamStep, PTL DEF Spec, IndInv

\* In every reachable state a session's replay buffer is the newest frames of its stream without
\* a gap: the number a RESUME names and the oldest buffered frame decide alone whether anything
\* is missing (session.go, dispatchLocked and resume).
THEOREM ReplayHasNoGap == Spec => []BufferIsNewest
BY InitStream, StreamStep, PTL DEF Spec, IndInv

----------------------------------------------------------------------------
\* The frames that carry a number of the session's stream.
Numbered(f) == f.op \in {"READY", "RESUMED", "EVENT"}

\* A history of a stream of q frames: e[n] is how many events its first n frames told of, g in all.
Counts(e, q, g) ==
  /\ e[0] = 0 /\ e[q] = g
  /\ \A m \in 0..q : e[m] \in Nat
  /\ \A m \in 0..q : \A n \in 0..q : m <= n => e[m] <= e[n]

\* Frame f is the one that the history has at its number.
Fits(e, f) ==
  /\ f.s > 0
  /\ f.op = "EVENT" => f.ev = e[f.s] /\ e[f.s] = e[f.s - 1] + 1
  /\ f.op # "EVENT" => e[f.s] = e[f.s - 1]

\* What a session has of its stream: buffer b of a stream of q frames and g events.
Record(e, b, q, g) ==
  /\ Counts(e, q, g) /\ EndsAt(b, q) /\ Len(b) <= ResumeBuffer
  /\ \A i \in 1..Len(b) : Numbered(b[i]) /\ Fits(e, b[i])

\* Two histories agree on the first q frames.
Agree(e, d, q) == \A n \in 0..q : d[n] = e[n]

\* Frame f takes a reader at frame m of the stream to frame n; frames are skipped only before an
\* event and after a socket was slow.
Link(e, f, m, n, sl) ==
  /\ Numbered(f) => /\ n = f.s /\ Fits(e, f) /\ m < n
                    /\ (sl = {} \/ f.op # "EVENT") => n = m + 1
  /\ ~Numbered(f) => n = m

\* N tells where each frame of Q takes a reader: no further than frame q.
Links(N, Q, e, q, sl) ==
  /\ \A j \in 0..Len(Q) : N[j] \in Nat /\ N[j] <= q
  /\ \A j \in 1..Len(Q) : Link(e, Q[j], N[j - 1], N[j], sl)

\* The frames of Q follow frame n of the stream in order, reach no further than frame q and
\* at least as far as frame low.
Flow(Q, n, e, q, low, sl) ==
  \E N : N[0] = n /\ Links(N, Q, e, q, sl) /\ low <= N[Len(Q)]

\* Frames that carry nothing of the stream.
Quiet(Q) == \A i \in 1..Len(Q) : Q[i].op \in {"RECONNECT", "CLOSE"}

\* A frame has a number, which is 1 for READY.
LEMMA FrameNumbers ==
  ASSUME NEW f \in Frame
  PROVE  f.s \in Nat /\ f.ev \in Nat /\ (f.op = "READY" => f.s = 1)
BY StreamAssumption DEF Frame, Session, Conn

\* A history that is extended by one frame.
LEMMA CountsExtend ==
  ASSUME NEW e, NEW q \in Nat, NEW g \in Nat, NEW h \in Nat, Counts(e, q, g), g <= h
  PROVE  \E d : Agree(e, d, q) /\ Counts(d, q + 1, h)
<1> DEFINE d == [n \in 0..(q + 1) |-> IF n <= q THEN e[n] ELSE h]
<1>1. d[q + 1] = h /\ \A n \in 0..q : d[n] = e[n]
  OBVIOUS
<1>0. /\ e[q] = g /\ e[0] = 0 /\ (\A m \in 0..q : e[m] \in Nat)
      /\ \A m \in 0..q : \A n \in 0..q : m <= n => e[m] <= e[n]
  BY DEF Counts
<1> HIDE DEF d
<1>2. Agree(e, d, q)
  BY <1>1 DEF Agree
<1>3. d[0] = 0 /\ d[q + 1] = h /\ \A m \in 0..(q + 1) : d[m] \in Nat
  BY <1>0, <1>1
<1>4. ASSUME NEW m \in 0..(q + 1), NEW n \in 0..(q + 1), m <= n PROVE d[m] <= d[n]
  <2>1. CASE n \in 0..q
    <3>1. m \in 0..q
      BY <2>1, <1>4
    <3> QED BY <3>1, <2>1, <1>4, <1>0, <1>1
  <2>2. CASE n = q + 1 /\ m \in 0..q
    <3>1. e[m] <= e[q] /\ e[m] \in Nat
      BY <2>2, <1>0
    <3> QED BY <3>1, <2>2, <1>0, <1>1
  <2>3. CASE n = q + 1 /\ m = q + 1
    BY <2>3, <1>1
  <2> QED BY <2>1, <2>2, <2>3
<1>5. Counts(d, q + 1, h)
  BY <1>3, <1>4 DEF Counts
<1> QED BY <1>2, <1>5

\* A frame of the first q fits any history that agrees on them.
LEMMA FitsLonger ==
  ASSUME NEW e, NEW d, NEW q \in Nat, Agree(e, d, q), NEW f \in Frame, f.s <= q, Fits(e, f)
  PROVE  Fits(d, f)
<1>1. f.s \in 0..q /\ f.s - 1 \in 0..q
  BY FrameNumbers DEF Fits
<1>2. d[f.s] = e[f.s] /\ d[f.s - 1] = e[f.s - 1]
  BY <1>1 DEF Agree
<1> QED BY <1>2 DEF Fits

\* The next frame of a stream extends its record by one.
LEMMA RecordExtends ==
  ASSUME NEW e, NEW b \in Seq(Frame), NEW q \in Nat, NEW g \in Nat, NEW h \in Nat,
         Record(e, b, q, g), NEW f \in Frame, Numbered(f), f.s = q + 1,
         f.op = "EVENT" => f.ev = h /\ h = g + 1,
         f.op # "EVENT" => h = g,
         NEW kept \in Trimmed(Append(b, f))
  PROVE  \E d : Agree(e, d, q) /\ Fits(d, f) /\ Record(d, kept, q + 1, h)
<1>0. Counts(e, q, g) /\ EndsAt(b, q) /\ Len(b) <= ResumeBuffer /\ g <= h
  BY DEF Record
<1>1. PICK d : Agree(e, d, q) /\ Counts(d, q + 1, h)
  BY <1>0, CountsExtend
<1>3. Fits(d, f)
  <2>1. f.s > 0 /\ f.s - 1 = q /\ d[q] = e[q] /\ e[q] = g /\ d[f.s] = h
    BY <1>0, <1>1 DEF Agree, Counts
  <2> QED BY <2>1 DEF Fits
<1>5. Append(b, f) \in Seq(Frame) /\ EndsAt(Append(b, f), q + 1) /\ q + 1 \in Nat
  BY <1>0, AppendExtends
<1>6. kept \in Seq(Frame) /\ EndsAt(kept, q + 1)
  BY <1>5, TrimKeepsNewest
<1>7. PICK k \in 0..(IF Len(Append(b, f)) < ResumeBuffer THEN Len(Append(b, f)) ELSE ResumeBuffer) :
        kept = SubSeq(Append(b, f), Len(Append(b, f)) - k + 1, Len(Append(b, f)))
  BY DEF Trimmed
<1>8. Len(b) \in Nat /\ Len(Append(b, f)) = Len(b) + 1 /\ k \in Nat /\ k <= Len(b) + 1 /\ k <= ResumeBuffer
  BY StreamAssumption
<1>9. Len(kept) = k
  BY <1>5, <1>7, <1>8
<1>10. ASSUME NEW i \in 1..Len(kept) PROVE Numbered(kept[i]) /\ Fits(d, kept[i])
  <2> DEFINE p == Len(b) + 1 - k + i
  <2> DEFINE A == Append(b, f)
  <2>0. A \in Seq(Frame) /\ Len(A) = Len(b) + 1 /\ kept = SubSeq(A, Len(A) - k + 1, Len(A))
    BY <1>5, <1>7, <1>8
  <2> HIDE DEF A
  <2>1. p \in 1..(Len(b) + 1) /\ kept[i] = A[p]
    BY <2>0, <1>8, <1>9
  <2> USE DEF A
  <2> HIDE DEF p
  <2>2. CASE p = Len(b) + 1
    <3>1. kept[i] = f
      BY <2>1, <2>2, <1>8
    <3> QED BY <3>1, <1>3
  <2>3. CASE p # Len(b) + 1
    <3>1. p \in 1..Len(b) /\ kept[i] = b[p]
      BY <2>1, <2>3, <1>8
    <3>2. Numbered(b[p]) /\ Fits(e, b[p]) /\ b[p] \in Frame
      BY <3>1 DEF Record
    <3>3. b[p].s <= q
      BY <3>1, <1>0, <1>8 DEF EndsAt
    <3>4. Fits(d, b[p])
      BY <3>2, <3>3, <1>1, FitsLonger
    <3> QED BY <3>1, <3>2, <3>4
  <2> QED BY <2>2, <2>3
<1>11. Record(d, kept, q + 1, h)
  BY <1>1, <1>6, <1>8, <1>9, <1>10 DEF Record
<1> QED BY <1>1, <1>3, <1>11

\* A buffer that is dropped leaves the rest of the record.
LEMMA RecordEmptied ==
  ASSUME NEW e, NEW b, NEW q, NEW g, Record(e, b, q, g)
  PROVE  Record(e, <<>>, q, g)
BY StreamAssumption DEF Record, EndsAt

\* A longer history has the links of a shorter one.
LEMMA LinkLonger ==
  ASSUME NEW e, NEW d, NEW q \in Nat, Agree(e, d, q),
         NEW f \in Frame, NEW m \in Nat, NEW n \in Nat, n <= q, NEW sl, NEW sm, sm = {} => sl = {},
         Link(e, f, m, n, sl)
  PROVE  Link(d, f, m, n, sm)
<1>1. CASE ~Numbered(f)
  BY <1>1 DEF Link
<1>2. CASE Numbered(f)
  <2>1. n = f.s /\ Fits(e, f) /\ m < n /\ ((sl = {} \/ f.op # "EVENT") => n = m + 1)
    BY <1>2 DEF Link
  <2>2. Fits(d, f)
    BY <2>1, FitsLonger
  <2> QED BY <1>2, <2>1, <2>2 DEF Link
<1> QED BY <1>1, <1>2

\* Reading the first frame of a flow leaves a flow from where the reader is then.
LEMMA FlowRead ==
  ASSUME NEW e, NEW Q \in Seq(Frame), NEW n, NEW q, NEW low, NEW sl,
         Flow(Q, n, e, q, low, sl), Q # <<>>
  PROVE  \E m \in Nat : m <= q /\ Link(e, Head(Q), n, m, sl) /\ Flow(Tail(Q), m, e, q, low, sl)
<1>1. PICK N : N[0] = n /\ Links(N, Q, e, q, sl) /\ low <= N[Len(Q)]
  BY DEF Flow
<1> DEFINE T == Tail(Q)
           M == [j \in 0..Len(T) |-> N[j + 1]]
<1>2. /\ Len(Q) \in Nat /\ Len(Q) >= 1 /\ Head(Q) = Q[1] /\ T \in Seq(Frame) /\ Len(T) = Len(Q) - 1 /\ Len(T) \in Nat
      /\ \A j \in 1..Len(T) : T[j] = Q[j + 1]
  OBVIOUS
<1> HIDE DEF T
<1>3. \A j \in 0..Len(T) : M[j] = N[j + 1] /\ j + 1 \in 0..Len(Q)
  BY <1>2
<1> HIDE DEF M
<1>5. M[0] = N[1] /\ M[Len(T)] = N[Len(Q)] /\ 1 \in 1..Len(Q) /\ 1 \in 0..Len(Q)
  BY <1>2, <1>3
<1>6. ASSUME NEW j \in 1..Len(T) PROVE Link(e, T[j], M[j - 1], M[j], sl)
  <2>1. j + 1 \in 1..Len(Q) /\ T[j] = Q[j + 1] /\ M[j] = N[j + 1] /\ M[j - 1] = N[(j + 1) - 1]
    <3>1. j \in 0..Len(T) /\ j - 1 \in 0..Len(T) /\ (j - 1) + 1 = (j + 1) - 1 /\ j + 1 \in 1..Len(Q)
      BY <1>2
    <3>2. M[j] = N[j + 1] /\ M[j - 1] = N[(j - 1) + 1]
      BY <3>1, <1>3
    <3> QED BY <3>1, <3>2, <1>2
  <2>2. Link(e, Q[j + 1], N[(j + 1) - 1], N[j + 1], sl)
    BY <1>1, <2>1 DEF Links
  <2> QED BY <2>1, <2>2
<1>7. ASSUME NEW j \in 0..Len(T) PROVE M[j] \in Nat /\ M[j] <= q
  BY <1>1, <1>3 DEF Links
<1>8. Flow(T, N[1], e, q, low, sl)
  BY <1>1, <1>5, <1>6, <1>7 DEF Flow, Links
<1>9. Link(e, Head(Q), n, N[1], sl) /\ N[1] \in Nat /\ N[1] <= q
  <2>1. Link(e, Q[1], N[1 - 1], N[1], sl)
    BY <1>1, <1>5 DEF Links
  <2>2. 1 - 1 = 0
    OBVIOUS
  <2> QED BY <2>1, <2>2, <1>1, <1>2, <1>5 DEF Links
<1> QED BY <1>8, <1>9 DEF T

\* A flow starts no further than the stream has come.
LEMMA FlowStart ==
  ASSUME NEW Q \in Seq(Frame), NEW n, NEW e, NEW q, NEW low, NEW sl, Flow(Q, n, e, q, low, sl)
  PROVE  n <= q
<1>1. 0 \in 0..Len(Q)
  OBVIOUS
<1> QED BY <1>1 DEF Flow, Links

\* A frame that carries no number ends a flow where it ended before.
LEMMA FlowOther ==
  ASSUME NEW e, NEW Q \in Seq(Frame), NEW n, NEW q, NEW low, NEW sl,
         Flow(Q, n, e, q, low, sl), NEW f \in Frame, ~Numbered(f)
  PROVE  Flow(Append(Q, f), n, e, q, low, sl)
<1>1. PICK N : N[0] = n /\ Links(N, Q, e, q, sl) /\ low <= N[Len(Q)]
  BY DEF Flow
<1> DEFINE R == Append(Q, f)
           M == [j \in 0..Len(R) |-> IF j <= Len(Q) THEN N[j] ELSE N[Len(Q)]]
<1>2. Len(Q) \in Nat /\ R \in Seq(Frame) /\ Len(R) = Len(Q) + 1 /\ R[Len(Q) + 1] = f /\ \A j \in 1..Len(Q) : R[j] = Q[j]
  OBVIOUS
<1> HIDE DEF R
<1>3. M[Len(Q) + 1] = N[Len(Q)] /\ \A j \in 0..Len(Q) : M[j] = N[j]
  BY <1>2
<1> HIDE DEF M
<1>4. \A j \in 0..Len(Q) : N[j] \in Nat /\ N[j] <= q
  BY <1>1 DEF Links
<1>5. \A j \in 0..Len(R) : M[j] \in Nat /\ M[j] <= q
  BY <1>2, <1>3, <1>4
<1>6. ASSUME NEW j \in 1..Len(R) PROVE Link(e, R[j], M[j - 1], M[j], sl)
  <2>1. CASE j \in 1..Len(Q)
    <3>1. R[j] = Q[j] /\ M[j] = N[j] /\ M[j - 1] = N[j - 1]
      BY <2>1, <1>2, <1>3
    <3>2. Link(e, Q[j], N[j - 1], N[j], sl)
      BY <1>1, <2>1 DEF Links
    <3> QED BY <3>1, <3>2
  <2>2. CASE j = Len(Q) + 1
    <3>1. R[j] = f /\ M[j] = N[Len(Q)] /\ M[j - 1] = N[Len(Q)]
      BY <2>2, <1>2, <1>3
    <3> QED BY <3>1 DEF Link
  <2> QED BY <2>1, <2>2, <1>2
<1>8. M[0] = n /\ low <= M[Len(R)]
  BY <1>1, <1>2, <1>3
<1>9. Flow(R, n, e, q, low, sl)
  BY <1>5, <1>6, <1>8 DEF Flow, Links
<1> QED BY <1>9 DEF R

\* The next frame of the stream, queued behind a flow that has come as far as the stream, or an
\* event queued behind any flow once a socket was slow.
LEMMA FlowNext ==
  ASSUME NEW e, NEW d, NEW Q \in Seq(Frame), NEW n, NEW q \in Nat, NEW low, NEW sl,
         Flow(Q, n, e, q, low, sl), NEW f \in Frame, Numbered(f), f.s = q + 1, Agree(e, d, q), Fits(d, f),
         (sl = {} \/ f.op # "EVENT") => low = q
  PROVE  Flow(Append(Q, f), n, d, q + 1, q + 1, sl)
<1>1. PICK N : N[0] = n /\ Links(N, Q, e, q, sl) /\ low <= N[Len(Q)]
  BY DEF Flow
<1> DEFINE R == Append(Q, f)
           M == [j \in 0..Len(R) |-> IF j <= Len(Q) THEN N[j] ELSE q + 1]
<1>2. Len(Q) \in Nat /\ R \in Seq(Frame) /\ Len(R) = Len(Q) + 1 /\ R[Len(Q) + 1] = f /\ \A j \in 1..Len(Q) : R[j] = Q[j]
  OBVIOUS
<1> HIDE DEF R
<1>3. M[Len(Q) + 1] = q + 1 /\ \A j \in 0..Len(Q) : M[j] = N[j]
  BY <1>2
<1> HIDE DEF M
<1>4. \A j \in 0..Len(Q) : N[j] \in Nat /\ N[j] <= q
  BY <1>1 DEF Links
<1>5. \A j \in 0..Len(R) : M[j] \in Nat /\ M[j] <= q + 1
  BY <1>2, <1>3, <1>4
<1>6. ASSUME NEW j \in 1..Len(R) PROVE Link(d, R[j], M[j - 1], M[j], sl)
  <2>1. CASE j \in 1..Len(Q)
    <3>1. R[j] = Q[j] /\ M[j] = N[j] /\ M[j - 1] = N[j - 1] /\ j \in 0..Len(Q) /\ j - 1 \in 0..Len(Q) /\ Q[j] \in Frame
      BY <2>1, <1>2, <1>3
    <3>2. Link(e, Q[j], N[j - 1], N[j], sl)
      BY <1>1, <2>1 DEF Links
    <3>3. N[j] \in Nat /\ N[j - 1] \in Nat /\ N[j] <= q
      BY <3>1, <1>4
    <3>4. Link(d, Q[j], N[j - 1], N[j], sl)
      BY <3>1, <3>2, <3>3, LinkLonger
    <3> QED BY <3>1, <3>4
  <2>2. CASE j = Len(Q) + 1
    <3>1. R[j] = f /\ M[j] = q + 1 /\ M[j - 1] = N[Len(Q)] /\ Len(Q) \in 0..Len(Q)
      BY <2>2, <1>2, <1>3
    <3>2. N[Len(Q)] <= q /\ N[Len(Q)] \in Nat /\ low <= N[Len(Q)]
      BY <3>1, <1>1, <1>4
    <3>3. q + 1 = f.s /\ N[Len(Q)] < q + 1 /\ ((sl = {} \/ f.op # "EVENT") => q + 1 = N[Len(Q)] + 1)
      BY <3>2
    <3> QED BY <3>1, <3>3 DEF Link
  <2> QED BY <2>1, <2>2, <1>2
<1>8. M[0] = n /\ q + 1 <= M[Len(R)]
  BY <1>1, <1>2, <1>3
<1>9. Flow(R, n, d, q + 1, q + 1, sl)
  BY <1>5, <1>6, <1>8 DEF Flow, Links
<1> QED BY <1>9 DEF R

\* A flow stays one when its stream goes on without it, and when a socket gets slow.
LEMMA FlowWeaker ==
  ASSUME NEW e, NEW d, NEW Q \in Seq(Frame), NEW n, NEW q \in Nat, NEW p \in Nat,
         NEW low \in Nat, NEW less \in Nat, NEW sl, NEW sm,
         Flow(Q, n, e, q, low, sl), q <= p, less <= low, sm = {} => sl = {}, Agree(e, d, q)
  PROVE  Flow(Q, n, d, p, less, sm)
<1>1. PICK N : N[0] = n /\ Links(N, Q, e, q, sl) /\ low <= N[Len(Q)]
  BY DEF Flow
<1>2. Len(Q) \in Nat /\ Len(Q) \in 0..Len(Q)
  OBVIOUS
<1>3. \A j \in 0..Len(Q) : N[j] \in Nat /\ N[j] <= q /\ N[j] <= p
  BY <1>1 DEF Links
<1>4. ASSUME NEW j \in 1..Len(Q) PROVE Link(d, Q[j], N[j - 1], N[j], sm)
  <2>1. Q[j] \in Frame /\ j \in 0..Len(Q) /\ j - 1 \in 0..Len(Q)
    BY <1>2
  <2>2. Link(e, Q[j], N[j - 1], N[j], sl)
    BY <1>1 DEF Links
  <2>3. N[j] \in Nat /\ N[j - 1] \in Nat /\ N[j] <= q
    BY <2>1, <1>3
  <2> QED BY <2>1, <2>2, <2>3, LinkLonger
<1>5. less <= N[Len(Q)]
  <2>1. N[Len(Q)] \in Nat /\ low <= N[Len(Q)]
    BY <1>1, <1>2, <1>3
  <2> QED BY <2>1
<1> QED BY <1>1, <1>3, <1>4, <1>5 DEF Flow, Links

\* A flow that reaches far reaches less far.
LEMMA FlowLess ==
  ASSUME NEW e, NEW Q \in Seq(Frame), NEW n, NEW q, NEW low \in Nat, NEW less \in Nat, NEW sl,
         Flow(Q, n, e, q, low, sl), less <= low
  PROVE  Flow(Q, n, e, q, less, sl)
<1>1. PICK N : N[0] = n /\ Links(N, Q, e, q, sl) /\ low <= N[Len(Q)]
  BY DEF Flow
<1>2. Len(Q) \in 0..Len(Q)
  OBVIOUS
<1>3. N[Len(Q)] \in Nat
  BY <1>1, <1>2 DEF Links
<1>4. less <= N[Len(Q)]
  BY <1>1, <1>3
<1> QED BY <1>1, <1>4 DEF Flow

\* A flow that is cut short is one still.
LEMMA FlowCut ==
  ASSUME NEW e, NEW Q \in Seq(Frame), NEW R \in Seq(Frame), NEW n, NEW q, NEW low, NEW sl,
         Flow(Q \o R, n, e, q, low, sl)
  PROVE  Flow(Q, n, e, q, 0, sl)
<1> DEFINE S == Q \o R
<1>1. PICK N : N[0] = n /\ Links(N, S, e, q, sl)
  BY DEF Flow
<1>2. Len(Q) \in Nat /\ Len(R) \in Nat /\ Len(S) = Len(Q) + Len(R) /\ \A j \in 1..Len(Q) : S[j] = Q[j]
  OBVIOUS
<1> HIDE DEF S
<1>3. \A j \in 0..Len(Q) : j \in 0..Len(S) /\ N[j] \in Nat /\ N[j] <= q
  BY <1>1, <1>2 DEF Links
<1>4. ASSUME NEW j \in 1..Len(Q) PROVE Link(e, Q[j], N[j - 1], N[j], sl)
  <2>1. j \in 1..Len(S) /\ S[j] = Q[j]
    BY <1>2
  <2>2. Link(e, S[j], N[j - 1], N[j], sl)
    BY <2>1, <1>1 DEF Links
  <2> QED BY <2>1, <2>2
<1>5. 0 <= N[Len(Q)]
  BY <1>2, <1>3
<1> QED BY <1>1, <1>3, <1>4, <1>5 DEF Flow, Links

\* Frames that carry no number flow from anywhere.
LEMMA FlowQuiet ==
  ASSUME NEW e, NEW Q \in Seq(Frame), NEW n \in Nat, NEW q \in Nat, NEW sl,
         n <= q, \A i \in 1..Len(Q) : ~Numbered(Q[i])
  PROVE  Flow(Q, n, e, q, n, sl)
<1> DEFINE M == [j \in 0..Len(Q) |-> n]
<1>1. Len(Q) \in Nat
  OBVIOUS
<1>2. \A j \in 0..Len(Q) : M[j] = n
  OBVIOUS
<1> HIDE DEF M
<1>3. \A j \in 1..Len(Q) : M[j] = M[j - 1]
  BY <1>1, <1>2
<1>4. M[0] = n /\ n <= M[Len(Q)] /\ \A j \in 0..Len(Q) : M[j] \in Nat /\ M[j] <= q
  BY <1>1, <1>2
<1>5. \A j \in 1..Len(Q) : Link(e, Q[j], M[j - 1], M[j], sl)
  BY <1>3 DEF Link
<1> QED BY <1>4, <1>5 DEF Flow, Links

\* Nothing flows from anywhere.
LEMMA FlowEmpty ==
  ASSUME NEW e, NEW n \in Nat, NEW q \in Nat, NEW sl, n <= q
  PROVE  Flow(<<>>, n, e, q, 0, sl)
<1> DEFINE Q == <<>>
           M == [j \in {0} |-> n]
<1>1. Len(Q) = 0 /\ M[0] = n
  OBVIOUS
<1> HIDE DEF Q, M
<1>2. (\A j \in 0..Len(Q) : M[j] \in Nat /\ M[j] <= q) /\ 0 <= M[Len(Q)]
  BY <1>1
<1>3. \A j \in 1..Len(Q) : Link(e, Q[j], M[j - 1], M[j], sl)
  BY <1>1
<1>4. Flow(Q, n, e, q, 0, sl)
  BY <1>1, <1>2, <1>3 DEF Flow, Links
<1> QED BY <1>4 DEF Q

\* A replay flows from the number the client named to the end of the stream.
LEMMA FlowReplay ==
  ASSUME NEW e, NEW b \in Seq(Frame), NEW q \in Nat, NEW g, NEW n \in Nat, NEW sl,
         Record(e, b, q, g), q - Len(b) <= n, n <= q
  PROVE  /\ FramesAfter(b, n) \in Seq(Frame) /\ Len(FramesAfter(b, n)) <= ResumeBuffer
         /\ \A i \in 1..Len(FramesAfter(b, n)) : Numbered(FramesAfter(b, n)[i]) /\ FramesAfter(b, n)[i].s > n
         /\ Flow(FramesAfter(b, n), n, e, q, q, sl)
<1> DEFINE R == FramesAfter(b, n)
<1>1. EndsAt(b, q) /\ Len(b) <= ResumeBuffer /\ Len(b) \in Nat
  BY DEF Record
<1>2. PICK k \in 0..Len(b) : /\ \A i \in 1..Len(b) : b[i].s > n <=> i > k
                             /\ R = SubSeq(b, k + 1, Len(b))
  BY <1>1, FramesAfterIsSuffix
<1>3. k = n - q + Len(b)
  <2>1. \A i \in 1..Len(b) : b[i].s = q - Len(b) + i
    BY <1>1 DEF EndsAt
  <2>2. \A i \in 1..Len(b) : i > n - q + Len(b) <=> i > k
    <3> SUFFICES ASSUME NEW i \in 1..Len(b) PROVE i > n - q + Len(b) <=> i > k
      OBVIOUS
    <3>1. (b[i].s > n <=> i > k) /\ b[i].s = q - Len(b) + i
      BY <1>2, <2>1
    <3> QED BY <3>1, <1>1
  <2>3. n - q + Len(b) \in 0..Len(b)
    BY <1>1
  <2>4. CASE k < n - q + Len(b)
    <3>1. k + 1 \in 1..Len(b)
      BY <2>3, <2>4, <1>1
    <3> QED BY <3>1, <2>2, <2>4, <1>1
  <2>5. CASE k > n - q + Len(b)
    <3>1. k \in 1..Len(b)
      BY <2>3, <2>5, <1>1
    <3> QED BY <3>1, <2>2, <2>5, <1>1
  <2> QED BY <2>4, <2>5, <1>1
<1>4. R \in Seq(Frame) /\ Len(R) = Len(b) - k /\ \A i \in 1..Len(R) : R[i] = b[k + i] /\ k + i \in 1..Len(b)
  BY <1>1, <1>2
<1> HIDE DEF R
<1>5. Len(R) = q - n /\ Len(R) \in Nat
  BY <1>3, <1>4, <1>1
<1>6. ASSUME NEW i \in 1..Len(R) PROVE Numbered(R[i]) /\ Fits(e, R[i]) /\ R[i].s = n + i
  <2>1. R[i] = b[k + i] /\ k + i \in 1..Len(b)
    BY <1>4
  <2>2. Numbered(b[k + i]) /\ Fits(e, b[k + i])
    BY <2>1 DEF Record
  <2>3. b[k + i].s = q - Len(b) + (k + i)
    BY <2>1, <1>1 DEF EndsAt
  <2> QED BY <2>1, <2>2, <2>3, <1>1, <1>3
<1> DEFINE M == [j \in 0..Len(R) |-> n + j]
<1>7. /\ M[0] = n /\ M[Len(R)] = q
      /\ \A j \in 0..Len(R) : M[j] = n + j /\ M[j] \in Nat /\ M[j] <= q
      /\ \A j \in 1..Len(R) : M[j] = n + j /\ M[j - 1] = n + j - 1
  BY <1>5
<1> HIDE DEF M
<1>8. ASSUME NEW j \in 1..Len(R) PROVE Link(e, R[j], M[j - 1], M[j], sl)
  <2>1. R[j].s = M[j] /\ M[j - 1] < M[j] /\ M[j] = M[j - 1] + 1
    BY <1>5, <1>6, <1>7
  <2> QED BY <2>1, <1>6 DEF Link
<1>9. Flow(R, n, e, q, q, sl)
  BY <1>7, <1>8 DEF Flow, Links
<1>10. Len(R) <= ResumeBuffer
  BY <1>1, <1>4, StreamAssumption
<1>11. \A i \in 1..Len(R) : Numbered(R[i]) /\ R[i].s > n
  BY <1>5, <1>6
<1> QED BY <1>4, <1>9, <1>10, <1>11 DEF R

----------------------------------------------------------------------------
\* The frames still to reach the client on its socket: those on the wire and, while the socket is
\* up, those queued behind them.
Waiting == IF phase[cur] = "up" THEN out[cur] ELSE <<>>
Coming == net[cur] \o Waiting

\* The session whose frames they are.
Of == IF sid = None THEN cur ELSE sid

\* How far they reach at least: to the end of the stream, unless a socket was slow.
Owed == IF slow = {} /\ phase[cur] = "up" /\ attached[Of] = cur THEN seq[Of] ELSE 0

\* The last event the sink was handed.
Last(l) == IF l = <<>> THEN 0 ELSE l[Len(l)]

\* Socket c has no session of its own, and none is attached to it.
Fresh(c) ==
  /\ c \in over /\ seq[c] = 0 /\ c # sid
  /\ \A s \in Session : attached[s] # c

\* Every session's buffer and counts are those of a stream with history E.
Recorded(E) == \A s \in Session : Record(E[s], buf[s], seq[s], given[s])

\* What is to reach the client continues what has.
Flowing(E) == cur # None => Flow(Coming, cseq, E[Of], seq[Of], Owed, slow)

\* The client is at the frame it names, with the events up to it.
Placed(E) == sid # None => cseq >= 1 /\ cseq <= seq[sid] /\ Last(seen) = E[sid][cseq]

\* A client without a session has read nothing of one.
Unplaced == sid = None => cseq = 0 /\ (cur # None => seen = <<>>)

\* Only the client's latest socket is up.
UpIsCur == \A c \in Conn : phase[c] = "up" => c = cur

\* A socket not yet opened has nothing queued, on the wire or attached.
Unused == \A c \in Conn : phase[c] = "new" =>
  Fresh(c) /\ out[c] = <<>> /\ net[c] = <<>> /\ c # cur /\ c \notin serving

\* A request that is not yet handled speaks for the client as it is, and nothing of a stream is
\* under way on its socket.
Asking == \A c \in Conn : c = cur /\ phase[c] = "up" =>
  /\ req[c].op # "NONE" => Fresh(c) /\ Quiet(Coming)
  /\ req[c].op = "IDENTIFY" => sid = None
  /\ req[c].op = "RESUME" =>
       sid = req[c].session /\ cseq = req[c].after /\ (sid \notin over => Coming = <<>>)

\* Frame i of Q refuses the session, and the other frames are quiet.
Refuses(Q, i) ==
  Q[i].op = "INVALID" => \A j \in 1..Len(Q) : j # i => Q[j].op \in {"RECONNECT", "CLOSE"}

\* A refusal on its way is all that is, and leaves the socket without a session.
Refused == \A c \in Conn : c = cur => \A i \in 1..Len(Coming) :
  Refuses(Coming, i) /\ (Coming[i].op = "INVALID" => Fresh(c) /\ req[c].op = "NONE")

\* READY opens a stream; after a RECONNECT the client reads no further.
Opens(f) == f.op \in {"READY", "RECONNECT"}

\* Frame j of Q is not of a stream, or comes after one that opens it.
OpenedBefore(Q, j) == Q[j].op \in {"RESUMED", "EVENT"} => \E i \in 1..(j - 1) : Opens(Q[i])

\* A client without a session is told of one before it is handed anything of it.
Begins == \A c \in Conn : c = cur /\ sid = None =>
  /\ \A j \in 1..Len(Coming) : OpenedBefore(Coming, j)
  /\ attached[c] = c /\ phase[c] = "up" => \E i \in 1..Len(Coming) : Opens(Coming[i])

\* READY names the client's socket.
Named == \A j \in 1..Len(Coming) : cur # None /\ Coming[j].op = "READY" => Coming[j].ev = cur /\ Of = cur

\* A close is never queued, and is on the wire only of a socket that is closed.
Unclosed(Q) == \A i \in 1..Len(Q) : Q[i].op # "CLOSE"
NoClose == \A c \in Conn : Unclosed(out[c]) /\ (phase[c] = "up" => Unclosed(net[c]))

\* Only the client's session is attached to its socket.
BelongsTo == cur # None => \A s \in Session : s \notin over /\ attached[s] = cur => s = Of

\* The parts of the invariant that mention no history, and the property itself.
Standing ==
  /\ Unplaced /\ UpIsCur /\ Unused /\ Asking /\ Refused /\ Begins
  /\ Named /\ NoClose /\ BelongsTo /\ LossIsAccountedFor

\* The whole, for history E.
LossParts(E) == Recorded(E) /\ Flowing(E) /\ Placed(E) /\ Standing

\* Inductive: some history fits what every session and the client have.
LossInv == IndInv /\ \E E : LossParts(E)

\* What the frames to come are.
LEMMA ComingTypes ==
  ASSUME TypeOK, cur # None
  PROVE  /\ cur \in Conn /\ cur \in Session /\ Of \in Session /\ seq[Of] \in Nat /\ Owed \in Nat /\ cseq \in Nat
         /\ Waiting \in Seq(Frame) /\ net[cur] \in Seq(Frame) /\ Coming \in Seq(Frame)
<1>1. cur \in Conn /\ cur \in Session /\ Of \in Session /\ cseq \in Nat
  BY DEF TypeOK, Of, Session
<1>2. seq \in [Session -> Nat]
  BY DEF TypeOK
<1>3. seq[Of] \in Nat
  BY <1>1, <1>2
<1>4. Owed \in Nat
  BY <1>3 DEF Owed
<1>5. Waiting \in Seq(Frame) /\ net[cur] \in Seq(Frame)
  BY <1>1 DEF TypeOK, Waiting
<1>6. Coming \in Seq(Frame)
  BY <1>5 DEF Coming
<1> QED BY <1>1, <1>3, <1>4, <1>5, <1>6

\* A history agrees with itself.
LEMMA AgreeSelf == \A e, q : Agree(e, e, q)
BY DEF Agree

\* A step that leaves the client, its requests and what is to reach it alone.
LEMMA Steady ==
  ASSUME IndInv, IndInv', NEW E, LossParts(E),
         UNCHANGED <<cur, sid, cseq, seen, phase, req, seq, given>>,
         cur # None => Coming' = Coming,
         over \subseteq over', serving' \subseteq serving, slow \subseteq slow',
         \A s \in Session : attached'[s] = attached[s] \/ attached'[s] = None,
         \A s \in Session : buf'[s] = buf[s] \/ buf'[s] = <<>>,
         \A c \in Conn : Len(out'[c]) <= OutCap /\ Unclosed(out'[c]),
         \A c \in Conn : phase[c] = "up" => Unclosed(net'[c]),
         \A c \in Conn : phase[c] = "new" => out'[c] = out[c] /\ net'[c] = net[c]
  PROVE  LossParts(E)'
<1>0. TypeOK /\ TypeOK' /\ Recorded(E) /\ Flowing(E) /\ Placed(E) /\ Standing
  BY DEF IndInv, LossParts
<1>1. Recorded(E)'
  BY <1>0, RecordEmptied DEF Recorded
<1>2. Flowing(E)'
  <2> SUFFICES ASSUME cur # None PROVE Flow(Coming', cseq', E[Of'], seq'[Of'], Owed', slow')
    BY DEF Flowing
  <2>1. Of' = Of /\ Coming' = Coming /\ cseq' = cseq /\ seq' = seq
    BY DEF Of
  <2>2. /\ Of \in Session /\ seq[Of] \in Nat /\ Owed \in Nat /\ cseq \in Nat /\ Coming \in Seq(Frame)
        /\ Flow(Coming, cseq, E[Of], seq[Of], Owed, slow)
    BY <1>0, ComingTypes DEF Flowing
  <2>3. Owed' \in Nat /\ Owed' <= Owed
    <3>1. cur \in Conn /\ None \notin Conn
      BY <1>0 DEF TypeOK, Conn, None
    <3>2. CASE slow' = {} /\ phase[cur] = "up" /\ attached'[Of] = cur
      BY <3>1, <3>2, <2>1, <2>2 DEF Owed
    <3>3. CASE ~(slow' = {} /\ phase[cur] = "up" /\ attached'[Of] = cur)
      BY <3>3, <2>1, <2>2 DEF Owed
    <3> QED BY <3>2, <3>3
  <2>4. Agree(E[Of], E[Of], seq[Of]) /\ seq[Of] <= seq[Of] /\ (slow' = {} => slow = {})
    BY <2>2, AgreeSelf
  <2>5. Flow(Coming, cseq, E[Of], seq[Of], Owed', slow')
    <3> HIDE DEF Owed
    <3> QED BY <2>2, <2>3, <2>4, FlowWeaker
  <2> QED BY <2>1, <2>5
<1>3. Placed(E)'
  BY <1>0 DEF Placed
<1>4. ASSUME NEW c \in Conn, Fresh(c) PROVE Fresh(c)'
  BY <1>4 DEF Fresh, Conn, None
<1>5. Unplaced' /\ UpIsCur'
  BY <1>0 DEF Standing, Unplaced, UpIsCur
<1>6. Unused'
  BY <1>0, <1>4 DEF Standing, Unused
<1>7. Asking'
  <2> SUFFICES ASSUME NEW c \in Conn, c = cur, phase[c] = "up"
               PROVE  /\ req[c].op # "NONE" => Fresh(c)' /\ Quiet(Coming)
                      /\ req[c].op = "IDENTIFY" => sid = None
                      /\ req[c].op = "RESUME" =>
                           sid = req[c].session /\ cseq = req[c].after /\ (sid \notin over' => Coming = <<>>)
    BY <1>0 DEF Asking, TypeOK, Conn, None
  <2> QED BY <1>0, <1>4 DEF Standing, Asking
<1>8. Refused'
  <2> SUFFICES ASSUME NEW c \in Conn, c = cur, NEW i \in 1..Len(Coming)
               PROVE  Refuses(Coming, i) /\ (Coming[i].op = "INVALID" => Fresh(c)' /\ req[c].op = "NONE")
    BY <1>0 DEF Refused, TypeOK, Conn, None
  <2> QED BY <1>0, <1>4 DEF Standing, Refused
<1>9. Begins'
  <2> SUFFICES ASSUME NEW c \in Conn, c = cur, sid = None
               PROVE  /\ \A j \in 1..Len(Coming) : OpenedBefore(Coming, j)
                      /\ attached'[c] = c /\ phase[c] = "up" => \E i \in 1..Len(Coming) : Opens(Coming[i])
    BY <1>0 DEF Begins, TypeOK, Conn, None
  <2>1. attached'[c] = c => attached[c] = c
    BY DEF Conn, None, Session
  <2> QED BY <2>1, <1>0 DEF Standing, Begins
<1>10. Named'
  BY <1>0 DEF Standing, Named, Of
<1>11. NoClose'
  BY <1>0 DEF Standing, NoClose
<1>12. BelongsTo'
  <2> SUFFICES ASSUME cur # None, NEW s \in Session, s \notin over', attached'[s] = cur PROVE s = Of
    BY DEF BelongsTo, Of
  <2> QED BY <1>0 DEF Standing, BelongsTo
<1>13. LossIsAccountedFor'
  BY <1>0 DEF Standing, LossIsAccountedFor, QueueBounded, InOrder, LossOnlyWhenSlow
<1> QED BY <1>1, <1>2, <1>3, <1>5, <1>6, <1>7, <1>8, <1>9, <1>10, <1>11, <1>12, <1>13 DEF LossParts, Standing

\* A step that leaves the client without a socket.
LEMMA Away ==
  ASSUME IndInv, IndInv', NEW E, LossParts(E),
         cur' = None, UNCHANGED <<streams, out, serving, slow, seen>>,
         (sid' = sid /\ cseq' = cseq) \/ (sid' = None /\ cseq' = 0),
         \A c \in Conn : phase'[c] # "up" /\ (phase'[c] = "new" => phase[c] = "new" /\ net'[c] = net[c])
  PROVE  LossParts(E)'
<1>0. TypeOK /\ TypeOK' /\ Recorded(E) /\ Flowing(E) /\ Placed(E) /\ Standing
  BY DEF IndInv, LossParts
<1>1. UNCHANGED <<seq, buf, attached, over, given>>
  BY DEF streams
<1>2. Recorded(E)'
  BY <1>0, <1>1 DEF Recorded
<1>3. Flowing(E)' /\ BelongsTo'
  BY DEF Flowing, BelongsTo
<1>4. Placed(E)' /\ Unplaced'
  BY <1>0, <1>1 DEF Placed, Unplaced, Standing
<1>5. UpIsCur'
  BY DEF UpIsCur
<1>6. None \notin Conn
  BY DEF Conn, None
<1>7. Unused'
  BY <1>0, <1>1, <1>6 DEF Standing, Unused, Fresh
<1>8. Asking' /\ Refused' /\ Begins' /\ Named'
  BY <1>6 DEF Asking, Refused, Begins, Named
<1>9. NoClose'
  BY <1>0 DEF Standing, NoClose
<1>10. LossIsAccountedFor'
  BY <1>0 DEF Standing, LossIsAccountedFor, QueueBounded, InOrder, LossOnlyWhenSlow
<1> QED BY <1>2, <1>3, <1>4, <1>5, <1>7, <1>8, <1>9, <1>10 DEF LossParts, Standing

\* Moving a frame from the queue to the wire leaves what is to come as it was.
LEMMA CatMove ==
  ASSUME NEW a \in Seq(Frame), NEW b \in Seq(Frame), b # <<>>
  PROVE  Append(a, Head(b)) \o Tail(b) = a \o b
OBVIOUS

\* Reading a frame off the wire takes the first of what is to come.
LEMMA CatRead ==
  ASSUME NEW a \in Seq(Frame), NEW b \in Seq(Frame), a # <<>>
  PROVE  a \o b # <<>> /\ Head(a \o b) = Head(a) /\ Tail(a \o b) = Tail(a) \o b
OBVIOUS

\* Queueing a frame adds it at the end of what is to come.
LEMMA CatAppend ==
  ASSUME NEW a \in Seq(Frame), NEW b \in Seq(Frame), NEW f \in Frame
  PROVE  a \o Append(b, f) = Append(a \o b, f)
OBVIOUS

\* Where the first queued frame is among those to come.
LEMMA CatFirst ==
  ASSUME NEW a \in Seq(Frame), NEW b \in Seq(Frame), Len(b) >= 1
  PROVE  Len(a) + 1 \in 1..Len(a \o b) /\ (a \o b)[Len(a) + 1] = b[1] /\ 1 \in 1..Len(b)
OBVIOUS

\* Nothing is to come only if nothing is on the wire and nothing queued.
LEMMA CatEmpty ==
  ASSUME NEW a \in Seq(Frame), NEW b \in Seq(Frame), a \o b = <<>>
  PROVE  a = <<>> /\ b = <<>>
<1>1. Len(a \o b) = Len(a) + Len(b) /\ Len(a \o b) = 0 /\ Len(a) \in Nat /\ Len(b) \in Nat
  OBVIOUS
<1>2. Len(a) = 0 /\ Len(b) = 0
  BY <1>1
<1> QED BY <1>2

\* The writer takes the next frame to the wire: what is to come stays the same.
LEMMA WriteLoss ==
  ASSUME IndInv, IndInv', NEW E, LossParts(E), NEW c \in Conn, Write(c)
  PROVE  LossParts(E)'
<1>0. TypeOK /\ Standing
  BY DEF IndInv, LossParts
<1>1. c = cur /\ phase[c] = "up" /\ cur # None /\ UpIsCur
  BY <1>0 DEF Write, Standing, UpIsCur, Conn, None
<1>2. out[c] \in Seq(Frame) /\ net[c] \in Seq(Frame) /\ out[c] # <<>>
  BY <1>0 DEF Write, TypeOK
<1>3. out' = [out EXCEPT ![c] = Tail(out[c])] /\ net' = [net EXCEPT ![c] = Append(net[c], Head(out[c]))]
  BY DEF Write
<1>4. out'[c] = Tail(out[c]) /\ net'[c] = Append(net[c], Head(out[c]))
  BY <1>0, <1>3 DEF TypeOK
<1>5. UNCHANGED <<cur, sid, cseq, seen, phase, req, seq, given, buf, attached, over, serving, slow>>
  BY DEF Write, streams, client
<1>6. Coming' = Coming
  BY <1>1, <1>2, <1>4, <1>5, CatMove DEF Coming, Waiting
<1>7. Len(out[c]) <= OutCap /\ Unclosed(out[c]) /\ Unclosed(net[c])
  BY <1>0, <1>1 DEF Standing, LossIsAccountedFor, QueueBounded, NoClose
<1>8. Len(out'[c]) <= OutCap /\ Unclosed(out'[c])
  BY <1>2, <1>4, <1>7, StreamAssumption DEF Unclosed
<1>9. Unclosed(net'[c])
  <2>1. Head(out[c]).op # "CLOSE"
    BY <1>2, <1>7 DEF Unclosed
  <2> QED BY <2>1, <1>2, <1>4, <1>7 DEF Unclosed
<1>10. \A d \in Conn : d # c => out'[d] = out[d] /\ net'[d] = net[d]
  BY <1>0, <1>3 DEF TypeOK
<1>11. \A d \in Conn : Len(out'[d]) <= OutCap /\ Unclosed(out'[d]) /\ (phase[d] = "up" => Unclosed(net'[d]))
  BY <1>0, <1>8, <1>9, <1>10 DEF Standing, LossIsAccountedFor, QueueBounded, NoClose
<1> QED BY <1>1, <1>5, <1>6, <1>10, <1>11, Steady

\* Closing, detaching and expiring leave the client alone.
LEMMA TimersLoss ==
  ASSUME IndInv, IndInv', NEW E, LossParts(E),
         \/ \E c \in Conn : Watchdog(c) \/ ServeReturns(c)
         \/ \E s \in Session : Expire(s)
         \/ UNCHANGED vars
  PROVE  LossParts(E)'
<1>0. TypeOK /\ Standing
  BY DEF IndInv, LossParts
<1>1. \A d \in Conn : Len(out[d]) <= OutCap /\ Unclosed(out[d]) /\ (phase[d] = "up" => Unclosed(net[d]))
  BY <1>0 DEF Standing, LossIsAccountedFor, QueueBounded, NoClose
<1>2. /\ UNCHANGED <<cur, sid, cseq, seen, phase, req, out, net, seq, given, slow>>
      /\ over \subseteq over' /\ serving' \subseteq serving
      /\ \A s \in Session : attached'[s] = attached[s] \/ attached'[s] = None
      /\ \A s \in Session : buf'[s] = buf[s] \/ buf'[s] = <<>>
  <2>1. ASSUME NEW c \in Conn, Watchdog(c) PROVE <1>2!1 /\ <1>2!2 /\ <1>2!3 /\ <1>2!4
    BY <2>1 DEF Watchdog, streams, client
  <2>2. ASSUME NEW c \in Conn, ServeReturns(c) PROVE <1>2!1 /\ <1>2!2 /\ <1>2!3 /\ <1>2!4
    BY <2>2 DEF ServeReturns, client
  <2>3. ASSUME NEW s \in Session, Expire(s) PROVE <1>2!1 /\ <1>2!2 /\ <1>2!3 /\ <1>2!4
    BY <2>3, <1>0 DEF Expire, sockets, client, TypeOK
  <2>4. ASSUME UNCHANGED vars PROVE <1>2!1 /\ <1>2!2 /\ <1>2!3 /\ <1>2!4
    BY <2>4 DEF vars, sockets, streams, client
  <2> QED BY <2>1, <2>2, <2>3, <2>4
<1>3. Coming' = Coming
  BY <1>2 DEF Coming, Waiting
<1> QED BY <1>1, <1>2, <1>3, Steady

\* A client that leaves its socket keeps its place, or gives its session up.
LEMMA AwayLoss ==
  ASSUME IndInv, IndInv', NEW E, LossParts(E),
         LinkLost \/ (\E f \in Frame : ReadReconnect(f) \/ ReadClose(f) \/ Panic(f))
  PROVE  LossParts(E)'
<1>0. TypeOK /\ Standing /\ UpIsCur /\ Unused /\ NoClose
  BY DEF IndInv, LossParts, Standing
<1>1. CASE LinkLost
  <2>1. \A c \in Conn : phase[c] # "up"
    BY <1>0, <1>1 DEF LinkLost, UpIsCur
  <2> QED BY <2>1, <1>1, Away DEF LinkLost, sockets, streams
<1>2. ASSUME NEW f \in Frame, Read(f)
      PROVE  cur \in Conn /\ f = net[cur][1] /\ Len(net[cur]) >= 1 /\ \A c \in Conn : c # cur => net'[c] = net[c]
  BY <1>0, <1>2 DEF Read, TypeOK
<1>3. ASSUME NEW f \in Frame, ReadReconnect(f) \/ Panic(f) PROVE LossParts(E)'
  <2>1. Read(f) /\ cur' = None /\ phase' = [phase EXCEPT ![cur] = "cut"]
    BY <1>3 DEF ReadReconnect, Panic
  <2>2. \A c \in Conn : phase'[c] # "up" /\ (phase'[c] = "new" => phase[c] = "new" /\ net'[c] = net[c])
    BY <1>0, <1>2, <2>1 DEF UpIsCur, TypeOK
  <2> QED BY <2>1, <2>2, <1>3, Away DEF ReadReconnect, Panic
<1>4. ASSUME NEW f \in Frame, ReadClose(f) PROVE LossParts(E)'
  <2>1. Read(f) /\ f.op = "CLOSE" /\ cur' = None /\ phase' = phase
    BY <1>4 DEF ReadClose
  <2>2. phase[cur] # "up"
    <3>1. f = net[cur][1] /\ Len(net[cur]) >= 1 /\ net[cur] \in Seq(Frame)
      BY <1>2, <2>1, <1>0 DEF TypeOK
    <3>2. 1 \in 1..Len(net[cur])
      BY <3>1
    <3>3. ~Unclosed(net[cur])
      BY <2>1, <3>1, <3>2 DEF Unclosed
    <3> QED BY <3>3, <1>0, <1>2, <2>1 DEF NoClose
  <2>3. \A c \in Conn : phase'[c] # "up" /\ (phase'[c] = "new" => phase[c] = "new" /\ net'[c] = net[c])
    BY <1>0, <1>2, <2>1, <2>2 DEF UpIsCur, Unused
  <2> QED BY <2>1, <2>3, <1>4, Away DEF ReadClose
<1> QED BY <1>1, <1>3, <1>4

\* Cutting a flow of frames short leaves what its first frames say.
LEMMA PrefixFrames ==
  ASSUME NEW P \in Seq(Frame), NEW R \in Seq(Frame)
  PROVE  /\ Len(P) \in Nat /\ Len(P) <= Len(P \o R) /\ Len(P \o R) \in Nat
         /\ \A i \in 1..Len(P) : i \in 1..Len(P \o R) /\ (P \o R)[i] = P[i]
OBVIOUS

\* The server closes the socket: what was queued is lost, and a close follows what is on the wire.
LEMMA CloseWithLoss ==
  ASSUME IndInv, IndInv', NEW E, LossParts(E), NEW c \in Conn, CloseWith(c)
  PROVE  LossParts(E)'
<1>0. /\ TypeOK /\ TypeOK' /\ Recorded(E) /\ Flowing(E) /\ Placed(E)
      /\ Unplaced /\ UpIsCur /\ Unused /\ Asking /\ Refused /\ Begins
      /\ Named /\ NoClose /\ BelongsTo /\ LossIsAccountedFor
  BY DEF IndInv, LossParts, Standing
<1>1. c = cur /\ phase[c] = "up" /\ cur # None
  BY <1>0 DEF CloseWith, UpIsCur, Conn, None
<1>2. /\ phase' = [phase EXCEPT ![c] = "shut"] /\ net' = [net EXCEPT ![c] = Append(net[c], Close(closing[c]))]
      /\ UNCHANGED <<cur, sid, cseq, seen, req, seq, given, buf, attached, over, serving, slow, out>>
  BY DEF CloseWith, streams, client
<1>3. phase'[c] = "shut" /\ \A d \in Conn : d # c => phase'[d] = phase[d] /\ net'[d] = net[d]
  BY <1>0, <1>2 DEF TypeOK
<1> DEFINE P == net[c]
           f == Close(closing[c])
<1>4. f \in Frame /\ f.op = "CLOSE"
  <2>1. closing[c] \in {None, MayResume, MustIdentify}
    BY <1>0 DEF TypeOK
  <2>2. closing[c] \in Nat
    BY <2>1 DEF None, MayResume, MustIdentify
  <2> QED BY <2>2 DEF Close, Frame
<1>5. P \in Seq(Frame) /\ Waiting \in Seq(Frame) /\ Coming = P \o Waiting
  BY <1>0, <1>1, ComingTypes DEF Coming
<1>6. Coming' = Append(P, f)
  <2>1. net'[c] = Append(P, f) /\ Append(P, f) \in Seq(Frame)
    BY <1>0, <1>2, <1>4, <1>5 DEF TypeOK
  <2>2. Append(P, f) \o <<>> = Append(P, f)
    BY <2>1
  <2> QED BY <2>1, <2>2, <1>1, <1>2, <1>3 DEF Coming, Waiting
<1> HIDE DEF f, P
<1>7. /\ Len(P) \in Nat /\ Len(P) <= Len(Coming)
      /\ \A i \in 1..Len(P) : i \in 1..Len(Coming) /\ Coming[i] = P[i]
  BY <1>5, PrefixFrames
<1>8. /\ Len(Coming') = Len(P) + 1 /\ Coming'[Len(P) + 1] = f
      /\ \A i \in 1..Len(P) : Coming'[i] = P[i]
  BY <1>5, <1>6, <1>4
<1>9. ASSUME NEW i \in 1..Len(Coming')
      PROVE  (i \in 1..Len(P) /\ i \in 1..Len(Coming) /\ Coming'[i] = Coming[i]) \/ (i = Len(P) + 1 /\ Coming'[i] = f)
  BY <1>7, <1>8
<1>10. Recorded(E)' /\ Placed(E)' /\ Unplaced'
  BY <1>0, <1>2 DEF Recorded, Placed, Unplaced
<1>11. Flowing(E)'
  <2>1. Of' = Of /\ Owed' = 0
    BY <1>1, <1>2, <1>3 DEF Of, Owed
  <2>2. Flow(P \o Waiting, cseq, E[Of], seq[Of], Owed, slow)
    BY <1>0, <1>1, <1>5 DEF Flowing
  <2>3. Flow(P, cseq, E[Of], seq[Of], 0, slow)
    BY <2>2, <1>5, FlowCut
  <2>4. ~Numbered(f)
    BY <1>4 DEF Numbered
  <2>5. Flow(Append(P, f), cseq, E[Of], seq[Of], 0, slow)
    BY <2>3, <2>4, <1>4, <1>5, FlowOther
  <2> QED BY <2>1, <2>5, <1>2, <1>6 DEF Flowing
<1>12. UpIsCur' /\ Unused'
  BY <1>0, <1>1, <1>2, <1>3 DEF UpIsCur, Unused, Fresh
<1>13. Asking'
  BY <1>1, <1>2, <1>3 DEF Asking
<1>14. Refused'
  <2> SUFFICES ASSUME NEW i \in 1..Len(Coming')
               PROVE  Refuses(Coming', i) /\ (Coming'[i].op = "INVALID" => Fresh(c)' /\ req'[c].op = "NONE")
    BY <1>1, <1>2 DEF Refused
  <2>1. CASE Coming'[i].op = "INVALID"
    <3>1. i \in 1..Len(Coming) /\ Coming'[i] = Coming[i]
      BY <2>1, <1>4, <1>9
    <3>2. Refuses(Coming, i) /\ Fresh(c) /\ req[c].op = "NONE"
      BY <3>1, <2>1, <1>0, <1>1 DEF Refused
    <3>3. \A j \in 1..Len(Coming') : j # i => Coming'[j].op \in {"RECONNECT", "CLOSE"}
      BY <3>1, <3>2, <2>1, <1>4, <1>9 DEF Refuses
    <3>4. Fresh(c)'
      BY <3>2, <1>2 DEF Fresh
    <3> QED BY <3>2, <3>3, <3>4, <1>2 DEF Refuses
  <2>2. CASE Coming'[i].op # "INVALID"
    BY <2>2 DEF Refuses
  <2> QED BY <2>1, <2>2
<1>15. Begins'
  <2> SUFFICES ASSUME sid = None, NEW j \in 1..Len(Coming'), Coming'[j].op \in {"RESUMED", "EVENT"}
               PROVE  \E i \in 1..(j - 1) : Opens(Coming'[i])
    BY <1>1, <1>2, <1>3 DEF Begins, OpenedBefore
  <2>1. j \in 1..Len(P) /\ j \in 1..Len(Coming) /\ Coming'[j] = Coming[j]
    BY <1>4, <1>9
  <2>2. PICK i \in 1..(j - 1) : Opens(Coming[i])
    BY <2>1, <1>0, <1>1 DEF Begins, OpenedBefore
  <2>3. i \in 1..Len(P)
    BY <2>1, <1>7
  <2>4. Coming'[i] = Coming[i]
    BY <2>3, <1>7, <1>8
  <2> QED BY <2>2, <2>4
<1>16. Named'
  <2> SUFFICES ASSUME NEW j \in 1..Len(Coming'), Coming'[j].op = "READY" PROVE Coming'[j].ev = cur /\ Of = cur
    BY <1>1, <1>2 DEF Named, Of
  <2>1. j \in 1..Len(Coming) /\ Coming'[j] = Coming[j]
    BY <1>4, <1>9
  <2> QED BY <2>1, <1>0, <1>1 DEF Named
<1>17. NoClose' /\ BelongsTo'
  BY <1>0, <1>2, <1>3 DEF NoClose, BelongsTo, Of
<1>18. LossIsAccountedFor'
  BY <1>0, <1>2 DEF LossIsAccountedFor, QueueBounded, InOrder, LossOnlyWhenSlow
<1> QED BY <1>10, <1>11, <1>12, <1>13, <1>14, <1>15, <1>16, <1>17, <1>18 DEF LossParts, Standing

\* The network drops a socket: nothing more comes on it.
LEMMA CutLoss ==
  ASSUME IndInv, IndInv', NEW E, LossParts(E), NEW c \in Conn, Cut(c)
  PROVE  LossParts(E)'
<1>0. /\ TypeOK /\ TypeOK' /\ Recorded(E) /\ Flowing(E) /\ Placed(E)
      /\ Unplaced /\ UpIsCur /\ Unused /\ Asking /\ Refused /\ Begins
      /\ Named /\ NoClose /\ BelongsTo /\ LossIsAccountedFor
  BY DEF IndInv, LossParts, Standing
<1>2. /\ phase' = [phase EXCEPT ![c] = "cut"] /\ net' = [net EXCEPT ![c] = <<>>]
      /\ UNCHANGED <<cur, sid, cseq, seen, req, seq, given, buf, attached, over, serving, slow, out>>
  BY DEF Cut, streams, client
<1>3. phase'[c] = "cut" /\ net'[c] = <<>> /\ \A d \in Conn : d # c => phase'[d] = phase[d] /\ net'[d] = net[d]
  BY <1>0, <1>2 DEF TypeOK
<1>4. Of' = Of /\ None \notin Conn
  BY <1>2 DEF Of, Conn, None
<1>5. cur # None => (c = cur /\ Coming' = <<>> /\ Owed' = 0) \/ (c # cur /\ Coming' = Coming /\ phase'[cur] = phase[cur] /\ Owed' = Owed)
  <2>1. ASSUME c = cur PROVE Coming' = <<>> /\ Owed' = 0
    BY <2>1, <1>2, <1>3 DEF Coming, Waiting, Owed
  <2>2. ASSUME c # cur, cur # None PROVE Coming' = Coming /\ phase'[cur] = phase[cur] /\ Owed' = Owed
    <3>1. cur \in Conn /\ cur' = cur
      BY <2>2, <1>0, <1>2 DEF TypeOK
    <3>2. phase'[cur] = phase[cur] /\ net'[cur] = net[cur]
      BY <2>2, <3>1, <1>3
    <3> QED BY <3>1, <3>2, <1>2, <1>4 DEF Coming, Waiting, Owed
  <2> QED BY <2>1, <2>2
<1>6. Recorded(E)' /\ Placed(E)' /\ Unplaced'
  BY <1>0, <1>2 DEF Recorded, Placed, Unplaced
<1>7. Flowing(E)'
  <2> SUFFICES ASSUME cur # None PROVE Flow(Coming', cseq, E[Of], seq[Of], Owed', slow)
    BY <1>2, <1>4 DEF Flowing
  <2>1. Flow(Coming, cseq, E[Of], seq[Of], Owed, slow)
    BY <1>0 DEF Flowing
  <2>2. CASE c # cur
    BY <2>1, <2>2, <1>5
  <2>3. CASE c = cur
    <3>1. cseq \in Nat /\ seq[Of] \in Nat /\ Coming \in Seq(Frame)
      BY <1>0, ComingTypes
    <3>2. cseq <= seq[Of]
      BY <2>1, <3>1, FlowStart
    <3>3. Flow(<<>>, cseq, E[Of], seq[Of], 0, slow)
      BY <3>1, <3>2, FlowEmpty
    <3> QED BY <3>3, <2>3, <1>5
  <2> QED BY <2>2, <2>3
<1>8. UpIsCur' /\ Unused'
  BY <1>0, <1>2, <1>3 DEF UpIsCur, Unused, Fresh
<1>9. ASSUME NEW d \in Conn PROVE Fresh(d)' <=> Fresh(d)
  BY <1>2 DEF Fresh
<1>10. Asking'
  BY <1>0, <1>2, <1>3, <1>4, <1>5, <1>9 DEF Asking
<1>11. Refused'
  BY <1>0, <1>2, <1>4, <1>5, <1>9 DEF Refused
<1>12. Begins'
  BY <1>0, <1>2, <1>3, <1>4, <1>5 DEF Begins
<1>13. Named'
  BY <1>0, <1>2, <1>4, <1>5 DEF Named
<1>14. NoClose' /\ BelongsTo'
  BY <1>0, <1>2, <1>3, <1>4 DEF NoClose, BelongsTo
<1>15. LossIsAccountedFor'
  BY <1>0, <1>2 DEF LossIsAccountedFor, QueueBounded, InOrder, LossOnlyWhenSlow
<1> QED BY <1>6, <1>7, <1>8, <1>10, <1>11, <1>12, <1>13, <1>14, <1>15 DEF LossParts, Standing

\* The client opens a socket and asks for its session, or tells the sink and asks for a new one.
LEMMA ConnectLoss ==
  ASSUME IndInv, IndInv', NEW E, LossParts(E), NEW c \in Conn, Connect(c)
  PROVE  LossParts(E)'
<1>0. /\ TypeOK /\ TypeOK' /\ Recorded(E) /\ Flowing(E) /\ Placed(E)
      /\ Unplaced /\ UpIsCur /\ Unused /\ Asking /\ Refused /\ Begins
      /\ Named /\ NoClose /\ BelongsTo /\ LossIsAccountedFor
  BY DEF IndInv, LossParts, Standing
<1>1. /\ cur = None /\ cur' = c /\ phase[c] = "new" /\ phase' = [phase EXCEPT ![c] = "up"]
      /\ serving' = serving \cup {c} /\ Open(c, sid, cseq)
      /\ UNCHANGED <<sid, cseq, seq, given, buf, attached, over, slow, out, net>>
  BY DEF Connect, streams
<1>2. c # None /\ c \in Session /\ None \notin Conn /\ phase'[c] = "up" /\ \A d \in Conn : d # c => phase'[d] = phase[d]
  BY <1>0, <1>1 DEF Conn, None, Session, TypeOK
<1>3. Fresh(c) /\ out[c] = <<>> /\ net[c] = <<>>
  BY <1>0, <1>1 DEF Unused
<1>4. ASSUME NEW d \in Conn, Fresh(d) PROVE Fresh(d)'
  BY <1>1, <1>4 DEF Fresh
<1>5. Coming' = <<>>
  BY <1>1, <1>2, <1>3 DEF Coming, Waiting
<1>6. /\ sid # None => req' = [req EXCEPT ![c] = Resume(sid, cseq)] /\ seen' = seen
      /\ sid = None => req' = [req EXCEPT ![c] = Identify] /\ seen' = <<>>
  BY <1>1 DEF Open
<1>7. Of' \in Session /\ Of' = (IF sid = None THEN c ELSE sid) /\ attached[Of'] # c
  <2>1. Of' = (IF sid = None THEN c ELSE sid)
    BY <1>1 DEF Of
  <2>2. Of' \in Session
    BY <2>1, <1>0, <1>2 DEF TypeOK
  <2> QED BY <2>1, <2>2, <1>3 DEF Fresh
<1>8. Owed' = 0
  BY <1>1, <1>7 DEF Owed
<1>9. cseq \in Nat /\ seq[Of'] \in Nat /\ cseq <= seq[Of']
  <2>1. cseq \in Nat /\ seq \in [Session -> Nat]
    BY <1>0 DEF TypeOK
  <2>2. seq[Of'] \in Nat
    BY <2>1, <1>7
  <2>3. ASSUME sid = None PROVE cseq <= seq[Of']
    <3>1. cseq = 0
      BY <2>3, <1>0 DEF Unplaced
    <3> QED BY <3>1, <2>2
  <2>4. ASSUME sid # None PROVE cseq <= seq[Of']
    BY <2>4, <1>0, <1>7 DEF Placed
  <2> QED BY <2>1, <2>2, <2>3, <2>4
<1>10. Recorded(E)'
  BY <1>0, <1>1 DEF Recorded
<1>11. Flowing(E)'
  <2>1. Flow(<<>>, cseq, E[Of'], seq[Of'], 0, slow)
    BY <1>9, FlowEmpty
  <2> QED BY <2>1, <1>1, <1>5, <1>8 DEF Flowing
<1>12. Placed(E)' /\ Unplaced'
  BY <1>0, <1>1, <1>6 DEF Placed, Unplaced
<1>13. UpIsCur'
  BY <1>0, <1>1, <1>2 DEF UpIsCur
<1>14. Unused'
  BY <1>0, <1>1, <1>2, <1>4 DEF Unused
<1>15. Asking'
  <2> SUFFICES ASSUME TRUE
               PROVE  /\ Fresh(c)' /\ Quiet(Coming')
                      /\ req'[c].op = "IDENTIFY" => sid = None
                      /\ req'[c].op = "RESUME" => sid = req'[c].session /\ cseq = req'[c].after
    BY <1>1, <1>5 DEF Asking
  <2>1. Fresh(c)' /\ Quiet(Coming')
    BY <1>3, <1>4, <1>5 DEF Quiet
  <2>2. CASE sid # None
    <3>1. req'[c] = Resume(sid, cseq)
      BY <2>2, <1>0, <1>6 DEF TypeOK
    <3> QED BY <3>1, <2>1 DEF Resume
  <2>3. CASE sid = None
    <3>1. req'[c] = Identify
      BY <2>3, <1>0, <1>6 DEF TypeOK
    <3> QED BY <3>1, <2>1, <2>3 DEF Identify
  <2> QED BY <2>2, <2>3
<1>16. Refused' /\ Named'
  BY <1>5 DEF Refused, Named
<1>17. Begins'
  <2>1. attached'[c] # c
    BY <1>1, <1>2, <1>3 DEF Fresh
  <2> QED BY <2>1, <1>1, <1>5 DEF Begins
<1>18. NoClose'
  <2>1. Unclosed(net[c])
    BY <1>3 DEF Unclosed
  <2> QED BY <2>1, <1>0, <1>1, <1>2 DEF NoClose
<1>19. BelongsTo'
  BY <1>1, <1>3 DEF BelongsTo, Fresh
<1>20. LossIsAccountedFor'
  <2>1. QueueBounded'
    BY <1>0, <1>1 DEF LossIsAccountedFor, QueueBounded
  <2>2. InOrder' /\ LossOnlyWhenSlow'
    <3>1. CASE sid = None
      BY <3>1, <1>6 DEF InOrder, LossOnlyWhenSlow
    <3>2. CASE sid # None
      BY <3>2, <1>0, <1>1, <1>6 DEF LossIsAccountedFor, InOrder, LossOnlyWhenSlow
    <3> QED BY <3>1, <3>2
  <2> QED BY <2>1, <2>2 DEF LossIsAccountedFor
<1> QED BY <1>10, <1>11, <1>12, <1>13, <1>14, <1>15, <1>16, <1>17, <1>18, <1>19, <1>20 DEF LossParts, Standing

\* What is to come after the client has taken a frame off its socket.
LEMMA ReadComing ==
  ASSUME TypeOK, NEW f, Read(f), UNCHANGED <<cur, phase, out>>
  PROVE  /\ cur \in Conn /\ Coming \in Seq(Frame) /\ Coming # <<>> /\ f = Head(Coming) /\ f \in Frame
         /\ Coming' = Tail(Coming)
         /\ \A d \in Conn : d # cur => net'[d] = net[d]
         /\ net'[cur] = Tail(net[cur]) /\ net[cur] \in Seq(Frame) /\ net[cur] # <<>>
<1>1. /\ cur \in Conn /\ Waiting \in Seq(Frame) /\ net[cur] \in Seq(Frame) /\ Coming \in Seq(Frame)
      /\ net[cur] # <<>> /\ f = Head(net[cur]) /\ net' = [net EXCEPT ![cur] = Tail(net[cur])]
  BY ComingTypes DEF Read
<1>2. net'[cur] = Tail(net[cur]) /\ \A d \in Conn : d # cur => net'[d] = net[d]
  BY <1>1 DEF TypeOK
<1>3. Waiting' = Waiting /\ Coming' = Tail(net[cur]) \o Waiting
  BY <1>1, <1>2 DEF Coming, Waiting
<1>4. Coming # <<>> /\ Head(Coming) = Head(net[cur]) /\ Tail(Coming) = Tail(net[cur]) \o Waiting
  BY <1>1, CatRead DEF Coming
<1>5. f \in Frame
  BY <1>1
<1> QED BY <1>1, <1>2, <1>3, <1>4, <1>5

\* The frames after the first.
LEMMA TailFrames ==
  ASSUME NEW Q \in Seq(Frame), Q # <<>>
  PROVE  /\ Len(Q) \in Nat /\ Len(Q) >= 1 /\ Head(Q) = Q[1] /\ Len(Tail(Q)) = Len(Q) - 1
         /\ Tail(Q) \in Seq(Frame)
         /\ \A i \in 1..Len(Tail(Q)) : i + 1 \in 1..Len(Q) /\ Tail(Q)[i] = Q[i + 1]
OBVIOUS

\* A refused client asks for a new session on the socket it has.
LEMMA ReadInvalidLoss ==
  ASSUME IndInv, IndInv', NEW E, LossParts(E), NEW f, ReadInvalid(f)
  PROVE  LossParts(E)'
<1>0. /\ TypeOK /\ TypeOK' /\ Recorded(E) /\ Flowing(E) /\ Placed(E)
      /\ Unplaced /\ UpIsCur /\ Unused /\ Asking /\ Refused /\ Begins
      /\ Named /\ NoClose /\ BelongsTo /\ LossIsAccountedFor
  BY DEF IndInv, LossParts, Standing
<1>1. /\ Read(f) /\ f.op = "INVALID" /\ sid' = None /\ cseq' = 0
      /\ req' = [req EXCEPT ![cur] = Identify] /\ seen' = <<>>
      /\ UNCHANGED <<cur, phase, out, serving, slow, seq, given, buf, attached, over>>
  BY DEF ReadInvalid, Open, streams
<1>2. /\ cur \in Conn /\ Coming \in Seq(Frame) /\ Coming # <<>> /\ f = Head(Coming) /\ f \in Frame
      /\ Coming' = Tail(Coming) /\ net'[cur] = Tail(net[cur]) /\ net[cur] \in Seq(Frame) /\ net[cur] # <<>>
      /\ \A d \in Conn : d # cur => net'[d] = net[d]
  BY <1>0, <1>1, ReadComing
<1>3. /\ Len(Coming) \in Nat /\ Len(Coming) >= 1 /\ f = Coming[1] /\ Coming' \in Seq(Frame) /\ Len(Coming') = Len(Coming) - 1
      /\ \A i \in 1..Len(Coming') : i + 1 \in 1..Len(Coming) /\ Coming'[i] = Coming[i + 1]
  BY <1>2, TailFrames
<1>4. PICK c \in Conn : c = cur
  BY <1>2
<1>5. Fresh(c) /\ Refuses(Coming, 1)
  <2>1. 1 \in 1..Len(Coming)
    BY <1>3
  <2> QED BY <2>1, <1>0, <1>1, <1>3, <1>4 DEF Refused
<1>6. Quiet(Coming')
  <2> SUFFICES ASSUME NEW i \in 1..Len(Coming') PROVE Coming'[i].op \in {"RECONNECT", "CLOSE"}
    BY DEF Quiet
  <2>1. i + 1 \in 1..Len(Coming) /\ Coming'[i] = Coming[i + 1] /\ i + 1 # 1
    BY <1>3
  <2> QED BY <2>1, <1>1, <1>3, <1>5 DEF Refuses
<1>7. c # None /\ c \in Session /\ None \notin Conn
  BY DEF Conn, None, Session
<1>8. ASSUME NEW d \in Conn, Fresh(d) PROVE Fresh(d)'
  BY <1>1, <1>7, <1>8 DEF Fresh
<1>9. Of' = c /\ Owed' = 0
  BY <1>1, <1>4, <1>5, <1>7 DEF Of, Owed, Fresh
<1>10. Recorded(E)'
  BY <1>0, <1>1 DEF Recorded
<1>11. Flowing(E)'
  <2>1. \A i \in 1..Len(Coming') : ~Numbered(Coming'[i])
    BY <1>6 DEF Quiet, Numbered
  <2>2. Flow(Coming', 0, E[c], 0, 0, slow)
    BY <2>1, <1>3, FlowQuiet
  <2> QED BY <2>2, <1>1, <1>5, <1>9 DEF Flowing, Fresh
<1>12. Placed(E)' /\ Unplaced'
  BY <1>1 DEF Placed, Unplaced
<1>13. UpIsCur' /\ Unused'
  BY <1>0, <1>1, <1>2, <1>8 DEF UpIsCur, Unused
<1>14. Asking'
  <2>1. req'[c] = Identify
    BY <1>0, <1>1, <1>4 DEF TypeOK
  <2>2. Fresh(c)'
    BY <1>5, <1>8
  <2> QED BY <2>1, <2>2, <1>1, <1>4, <1>6 DEF Asking, Identify
<1>15. Refused'
  BY <1>6 DEF Refused, Refuses, Quiet
<1>16. Begins'
  <2>1. attached'[c] # c
    BY <1>1, <1>5, <1>7 DEF Fresh
  <2> QED BY <2>1, <1>1, <1>4, <1>6 DEF Begins, Quiet, OpenedBefore
<1>17. Named'
  BY <1>6 DEF Named, Quiet
<1>18. NoClose'
  <2>1. Unclosed(net[cur]) => Unclosed(net'[cur])
    BY <1>2 DEF Unclosed
  <2> QED BY <2>1, <1>0, <1>1, <1>2 DEF NoClose
<1>19. BelongsTo'
  BY <1>1, <1>4, <1>5 DEF BelongsTo, Fresh
<1>20. LossIsAccountedFor'
  BY <1>0, <1>1 DEF LossIsAccountedFor, QueueBounded, InOrder, LossOnlyWhenSlow
<1> QED BY <1>10, <1>11, <1>12, <1>13, <1>14, <1>15, <1>16, <1>17, <1>18, <1>19, <1>20 DEF LossParts, Standing

\* The next event of a list in order, and of one without a gap.
LEMMA SeenNext ==
  ASSUME NEW l \in Seq(Nat), NEW k \in Nat, Last(l) < k,
         \A i \in 1..(Len(l) - 1) : l[i] < l[i + 1]
  PROVE  \A i \in 1..(Len(Append(l, k)) - 1) : Append(l, k)[i] < Append(l, k)[i + 1]
<1> DEFINE A == Append(l, k)
<1>1. Len(l) \in Nat /\ Len(A) = Len(l) + 1 /\ A[Len(l) + 1] = k /\ \A i \in 1..Len(l) : A[i] = l[i]
  OBVIOUS
<1> HIDE DEF A
<1>2. ASSUME NEW i \in 1..(Len(A) - 1) PROVE A[i] < A[i + 1]
  <2>1. CASE i = Len(l)
    <3>1. l # <<>>
      BY <2>1, <1>1
    <3>2. l[Len(l)] < k
      BY <3>1 DEF Last
    <3> QED BY <3>2, <2>1, <1>1
  <2>2. CASE i # Len(l)
    <3>1. i \in 1..(Len(l) - 1) /\ i \in 1..Len(l) /\ i + 1 \in 1..Len(l)
      BY <2>2, <1>1
    <3> QED BY <3>1, <1>1
  <2> QED BY <2>1, <2>2
<1> QED BY <1>2 DEF A

\* A sink that was handed the events from the first is so after the next.
LEMMA SeenWhole ==
  ASSUME NEW l \in Seq(Nat), NEW k \in Nat, k = Last(l) + 1, \A i \in 1..Len(l) : l[i] = i
  PROVE  k = Len(l) + 1 /\ \A i \in 1..Len(Append(l, k)) : Append(l, k)[i] = i
<1>1. Last(l) = Len(l)
  <2>1. CASE l = <<>>
    BY <2>1 DEF Last
  <2>2. CASE l # <<>>
    <3>1. Len(l) \in 1..Len(l)
      BY <2>2
    <3> QED BY <3>1, <2>2 DEF Last
  <2> QED BY <2>1, <2>2
<1>2. k = Len(l) + 1
  BY <1>1
<1>3. ASSUME NEW i \in 1..Len(Append(l, k)) PROVE Append(l, k)[i] = i
  <2>1. CASE i = Len(l) + 1
    BY <2>1, <1>2
  <2>2. CASE i # Len(l) + 1
    <3>1. i \in 1..Len(l) /\ Append(l, k)[i] = l[i]
      BY <2>2
    <3> QED BY <3>1
  <2> QED BY <2>1, <2>2
<1> QED BY <1>2, <1>3

\* The client takes the next frame of its stream and hands an event on.
LEMMA ReadDispatchLoss ==
  ASSUME IndInv, IndInv', NEW E, LossParts(E), NEW f, ReadDispatch(f)
  PROVE  /\ LossParts(E)'
         /\ slow = {} => seen' = seen \/ seen' = Append(seen, Len(seen) + 1)
<1>0. /\ TypeOK /\ TypeOK' /\ Recorded(E) /\ Flowing(E) /\ Placed(E)
      /\ Unplaced /\ UpIsCur /\ Unused /\ Asking /\ Refused /\ Begins
      /\ Named /\ NoClose /\ BelongsTo /\ LossIsAccountedFor
  BY DEF IndInv, LossParts, Standing
<1>1. /\ Read(f) /\ f.op \in {"READY", "RESUMED", "EVENT"} /\ cseq' = f.s
      /\ sid' = (IF f.op = "READY" THEN f.ev ELSE sid)
      /\ seen' = (IF f.op = "EVENT" THEN Append(seen, f.ev) ELSE seen)
      /\ UNCHANGED <<cur, phase, req, out, serving, slow, seq, given, buf, attached, over>>
  BY DEF ReadDispatch, streams
<1>2. /\ cur \in Conn /\ Coming \in Seq(Frame) /\ Coming # <<>> /\ f = Head(Coming) /\ f \in Frame
      /\ Coming' = Tail(Coming) /\ net'[cur] = Tail(net[cur]) /\ net[cur] \in Seq(Frame) /\ net[cur] # <<>>
      /\ \A d \in Conn : d # cur => net'[d] = net[d]
  BY <1>0, <1>1, ReadComing
<1>3. /\ Len(Coming) \in Nat /\ Len(Coming) >= 1 /\ f = Coming[1] /\ 1 \in 1..Len(Coming)
      /\ Coming' \in Seq(Frame) /\ Len(Coming') = Len(Coming) - 1
      /\ \A i \in 1..Len(Coming') : i + 1 \in 1..Len(Coming) /\ Coming'[i] = Coming[i + 1]
  BY <1>2, TailFrames
<1>4. PICK c \in Conn : c = cur
  BY <1>2
<1>5. c # None /\ c \in Session /\ None \notin Conn /\ cur # None
  BY <1>4 DEF Conn, None, Session
<1>6. ~Quiet(Coming) /\ f.op # "INVALID"
  BY <1>1, <1>3 DEF Quiet
<1>7. f.op = "READY" => f.ev = cur /\ Of = cur
  BY <1>0, <1>3, <1>5 DEF Named
<1>8. f.op # "READY" => sid # None
  <2> SUFFICES ASSUME f.op # "READY", sid = None PROVE FALSE
    OBVIOUS
  <2>1. OpenedBefore(Coming, 1)
    BY <1>0, <1>3, <1>4 DEF Begins
  <2> QED BY <2>1, <1>1, <1>3 DEF OpenedBefore
<1>9. sid' # None /\ sid' = Of /\ Of' = Of /\ Of \in Session
  <2>1. Of \in Session
    BY <1>0, <1>5, ComingTypes
  <2> QED BY <2>1, <1>1, <1>4, <1>5, <1>7, <1>8 DEF Of
<1>10. /\ seq[Of] \in Nat /\ Owed \in Nat /\ cseq \in Nat
       /\ Flow(Coming, cseq, E[Of], seq[Of], Owed, slow)
  BY <1>0, <1>5, ComingTypes DEF Flowing
<1>11. PICK m \in Nat : m <= seq[Of] /\ Link(E[Of], f, cseq, m, slow) /\ Flow(Coming', m, E[Of], seq[Of], Owed, slow)
  BY <1>2, <1>10, FlowRead
<1>12. /\ m = f.s /\ Fits(E[Of], f) /\ cseq < f.s
       /\ (slow = {} \/ f.op # "EVENT") => f.s = cseq + 1
  BY <1>1, <1>11 DEF Link, Numbered
<1>13. Counts(E[Of], seq[Of], given[Of])
  BY <1>0, <1>9 DEF Recorded, Record
<1>14. Last(seen) = E[Of][cseq] /\ E[Of][cseq] \in Nat /\ E[Of][f.s - 1] \in Nat /\ E[Of][cseq] <= E[Of][f.s - 1]
  <2>1. cseq \in 0..seq[Of] /\ f.s - 1 \in 0..seq[Of] /\ cseq <= f.s - 1
    BY <1>10, <1>11, <1>12
  <2>2. Last(seen) = E[Of][cseq]
    <3>1. CASE sid = None
      BY <3>1, <1>0, <1>5, <1>13 DEF Unplaced, Counts, Last
    <3>2. CASE sid # None
      BY <3>2, <1>0 DEF Placed, Of
    <3> QED BY <3>1, <3>2
  <2> QED BY <2>1, <2>2, <1>13 DEF Counts
<1>15. seen \in Seq(Nat) /\ f.ev \in Nat /\ f.s \in Nat
  BY <1>0, <1>2, FrameNumbers DEF TypeOK
<1>16. f.op = "EVENT" => /\ f.ev = E[Of][f.s] /\ f.ev = E[Of][f.s - 1] + 1 /\ Last(seen) < f.ev
                         /\ slow = {} => f.ev = Last(seen) + 1
  <2> SUFFICES ASSUME f.op = "EVENT"
               PROVE  /\ f.ev = E[Of][f.s] /\ f.ev = E[Of][f.s - 1] + 1 /\ Last(seen) < f.ev
                      /\ slow = {} => f.ev = Last(seen) + 1
    OBVIOUS
  <2>1. f.ev = E[Of][f.s] /\ f.ev = E[Of][f.s - 1] + 1
    BY <1>12 DEF Fits
  <2>2. Last(seen) < f.ev
    BY <2>1, <1>14
  <2>3. slow = {} => f.s - 1 = cseq
    BY <1>10, <1>12
  <2> QED BY <2>1, <2>2, <2>3, <1>14
<1>17. Recorded(E)'
  BY <1>0, <1>1 DEF Recorded
<1>18. Flowing(E)'
  <2>1. Owed' = Owed
    BY <1>1, <1>9 DEF Owed
  <2> QED BY <2>1, <1>1, <1>9, <1>11, <1>12 DEF Flowing
<1>19. Placed(E)' /\ Unplaced'
  <2>1. cseq' >= 1 /\ cseq' <= seq'[sid']
    BY <1>1, <1>9, <1>10, <1>11, <1>12, <1>15
  <2>2. Last(seen') = E[sid'][cseq']
    <3>1. CASE f.op = "EVENT"
      <4>1. seen' = Append(seen, f.ev)
        BY <3>1, <1>1
      <4>2. Last(seen') = f.ev
        BY <4>1, <1>15 DEF Last
      <4> QED BY <4>2, <3>1, <1>1, <1>9, <1>16
    <3>2. CASE f.op # "EVENT"
      <4>1. f.s - 1 = cseq /\ E[Of][f.s] = E[Of][f.s - 1] /\ seen' = seen
        BY <3>2, <1>1, <1>10, <1>12 DEF Fits
      <4> QED BY <4>1, <1>1, <1>9, <1>14
    <3> QED BY <3>1, <3>2
  <2> QED BY <2>1, <2>2, <1>9 DEF Placed, Unplaced
<1>20. UpIsCur'
  BY <1>0, <1>1 DEF UpIsCur
<1>21. Unused'
  <2>1. \A d \in Conn : d # cur => net'[d] = net[d]
    BY <1>2
  <2>2. ASSUME NEW d \in Conn, Fresh(d), d # cur PROVE Fresh(d)'
    BY <2>2, <1>1, <1>7 DEF Fresh
  <2> QED BY <2>1, <2>2, <1>0, <1>1 DEF Unused
<1>22. phase[c] = "up" => req[c].op = "NONE"
  BY <1>0, <1>4, <1>6 DEF Asking
<1>23. Asking'
  BY <1>1, <1>4, <1>22, <1>0 DEF Asking, TypeOK, Request
<1>24. ASSUME NEW i \in 1..Len(Coming') PROVE i + 1 \in 1..Len(Coming) /\ Coming'[i] = Coming[i + 1] /\ i + 1 # 1
  BY <1>3
<1>25. Refused'
  <2>1. ASSUME NEW i \in 1..Len(Coming') PROVE Coming'[i].op # "INVALID"
    <3> SUFFICES ASSUME Coming'[i].op = "INVALID" PROVE FALSE
      OBVIOUS
    <3>1. Refuses(Coming, i + 1) /\ Coming[i + 1].op = "INVALID"
      BY <1>0, <1>4, <1>24 DEF Refused
    <3>2. f.op \in {"RECONNECT", "CLOSE"}
      BY <3>1, <1>3, <1>24 DEF Refuses
    <3> QED BY <3>2, <1>1
  <2> QED BY <2>1 DEF Refused, Refuses
<1>26. Begins'
  BY <1>9 DEF Begins
<1>27. Named'
  BY <1>0, <1>1, <1>5, <1>9, <1>24 DEF Named
<1>28. NoClose'
  <2>1. Unclosed(net[cur]) => Unclosed(net'[cur])
    BY <1>2 DEF Unclosed
  <2> QED BY <2>1, <1>0, <1>1, <1>2 DEF NoClose
<1>29. BelongsTo'
  BY <1>0, <1>1, <1>9 DEF BelongsTo
<1>30. /\ LossIsAccountedFor'
       /\ slow = {} => seen' = seen \/ seen' = Append(seen, Len(seen) + 1)
  <2>1. QueueBounded' /\ InOrder /\ LossOnlyWhenSlow
    BY <1>0, <1>1 DEF LossIsAccountedFor, QueueBounded
  <2>2. CASE f.op # "EVENT"
    BY <2>1, <2>2, <1>1 DEF LossIsAccountedFor, InOrder, LossOnlyWhenSlow
  <2>3. CASE f.op = "EVENT"
    <3>1. seen' = Append(seen, f.ev)
      BY <2>3, <1>1
    <3>2. InOrder'
      BY <3>1, <2>1, <2>3, <1>15, <1>16, SeenNext DEF InOrder
    <3>3. slow = {} => f.ev = Len(seen) + 1 /\ \A i \in 1..Len(Append(seen, f.ev)) : Append(seen, f.ev)[i] = i
      BY <2>1, <2>3, <1>15, <1>16, SeenWhole DEF LossOnlyWhenSlow
    <3>4. LossOnlyWhenSlow'
      BY <3>1, <3>3, <1>1 DEF LossOnlyWhenSlow
    <3> QED BY <2>1, <3>1, <3>2, <3>3, <3>4 DEF LossIsAccountedFor
  <2> QED BY <2>2, <2>3
<1> QED BY <1>17, <1>18, <1>19, <1>20, <1>21, <1>23, <1>25, <1>26, <1>27, <1>28, <1>29, <1>30 DEF LossParts, Standing

\* One more frame behind others.
LEMMA AppendFrames ==
  ASSUME NEW Q \in Seq(Frame), NEW f \in Frame
  PROVE  /\ Len(Q) \in Nat /\ Append(Q, f) \in Seq(Frame) /\ Len(Append(Q, f)) = Len(Q) + 1 /\ Append(Q, f)[Len(Q) + 1] = f
         /\ \A i \in 1..Len(Q) : i \in 1..Len(Append(Q, f)) /\ Append(Q, f)[i] = Q[i]
         /\ \A i \in 1..Len(Append(Q, f)) : i \in 1..Len(Q) \/ i = Len(Q) + 1
OBVIOUS

\* A frame queued behind an opened stream is opened too.
LEMMA AppendOpens ==
  ASSUME NEW Q \in Seq(Frame), NEW f \in Frame, \A j \in 1..Len(Q) : OpenedBefore(Q, j),
         f.op \in {"RESUMED", "EVENT"} => \E i \in 1..Len(Q) : Opens(Q[i])
  PROVE  \A j \in 1..Len(Append(Q, f)) : OpenedBefore(Append(Q, f), j)
<1> DEFINE A == Append(Q, f)
<1>1. /\ Len(Q) \in Nat /\ Len(A) = Len(Q) + 1 /\ A[Len(Q) + 1] = f
      /\ \A i \in 1..Len(Q) : A[i] = Q[i]
  BY AppendFrames
<1> HIDE DEF A
<1>2. ASSUME NEW j \in 1..Len(A), A[j].op \in {"RESUMED", "EVENT"} PROVE \E i \in 1..(j - 1) : Opens(A[i])
  <2>1. CASE j = Len(Q) + 1
    <3>1. PICK i \in 1..Len(Q) : Opens(Q[i])
      BY <2>1, <1>1, <1>2
    <3>2. i \in 1..(j - 1) /\ A[i] = Q[i]
      BY <2>1, <1>1
    <3> QED BY <3>1, <3>2
  <2>2. CASE j # Len(Q) + 1
    <3>1. j \in 1..Len(Q) /\ A[j] = Q[j]
      BY <2>2, <1>1
    <3>2. PICK i \in 1..(j - 1) : Opens(Q[i])
      BY <3>1, <1>2 DEF OpenedBefore
    <3>3. i \in 1..Len(Q)
      BY <3>1, <1>1
    <3>4. A[i] = Q[i]
      BY <3>3, <1>1
    <3> QED BY <3>2, <3>4
  <2> QED BY <2>1, <2>2
<1>3. \A j \in 1..Len(A) : OpenedBefore(A, j)
  BY <1>2 DEF OpenedBefore
<1> QED BY <1>3 DEF A

\* What queueing a frame does to the queues: it is put behind the others, or a socket is slow.
LEMMA EnqueueQueues ==
  ASSUME TypeOK, LossIsAccountedFor, NoClose, NEW c \in Conn, NEW f \in Frame, f.op # "CLOSE", Enqueue(c, f)
  PROVE  /\ \A d \in Conn : Len(out'[d]) <= OutCap /\ Unclosed(out'[d])
         /\ \A d \in Conn : d # c => out'[d] = out[d]
         /\ slow \subseteq slow'
         /\ \/ out'[c] = Append(out[c], f) /\ slow' = slow
            \/ out' = out /\ c \in slow' /\ Len(out[c]) >= 1
<1>0. out \in [Conn -> Seq(Frame)] /\ out[c] \in Seq(Frame) /\ OutCap \in Nat /\ Len(out[c]) \in Nat /\ OutCap >= 1
  BY StreamAssumption DEF TypeOK
<1>1. \A d \in Conn : Len(out[d]) <= OutCap /\ Unclosed(out[d])
  BY DEF LossIsAccountedFor, QueueBounded, NoClose
<1>2. CASE Len(out[c]) < OutCap
  <2>1. out' = [out EXCEPT ![c] = Append(out[c], f)] /\ slow' = slow
    BY <1>2 DEF Enqueue
  <2>2. out'[c] = Append(out[c], f) /\ \A d \in Conn : d # c => out'[d] = out[d]
    BY <2>1, <1>0
  <2>3. Len(out'[c]) <= OutCap /\ Unclosed(out'[c])
    BY <2>2, <1>0, <1>1, <1>2 DEF Unclosed
  <2> QED BY <2>1, <2>2, <2>3, <1>1
<1>3. CASE ~(Len(out[c]) < OutCap)
  <2>1. out' = out /\ slow' = slow \cup {c}
    BY <1>3 DEF Enqueue
  <2>2. Len(out[c]) >= 1
    BY <1>0, <1>3
  <2> QED BY <2>1, <2>2, <1>1
<1> QED BY <1>2, <1>3

\* A frame queued on the client's socket is the last to come.
LEMMA QueueComing ==
  ASSUME TypeOK, cur \in Conn, phase[cur] = "up", UNCHANGED <<cur, phase, net>>, NEW f \in Frame,
         out'[cur] = Append(out[cur], f)
  PROVE  Coming' = Append(Coming, f)
<1>1. net[cur] \in Seq(Frame) /\ out[cur] \in Seq(Frame)
  BY DEF TypeOK
<1>2. Coming = net[cur] \o out[cur] /\ Coming' = net[cur] \o Append(out[cur], f)
  BY DEF Coming, Waiting
<1>3. net[cur] \o Append(out[cur], f) = Append(net[cur] \o out[cur], f)
  BY <1>1, CatAppend
<1> QED BY <1>2, <1>3

\* Shutdown tells every connection to reconnect, behind what it has queued.
LEMMA RestartLoss ==
  ASSUME IndInv, IndInv', NEW E, LossParts(E), Restart
  PROVE  LossParts(E)'
<1>0. /\ TypeOK /\ TypeOK' /\ Recorded(E) /\ Flowing(E) /\ Placed(E)
      /\ Unplaced /\ UpIsCur /\ Unused /\ Asking /\ Refused /\ Begins
      /\ Named /\ NoClose /\ BelongsTo /\ LossIsAccountedFor
  BY DEF IndInv, LossParts, Standing
<1>1. /\ over' = Session /\ buf' = [s \in Session |-> <<>>]
      /\ out' = [c \in Conn |-> IF c \in serving /\ Len(out[c]) < OutCap THEN Append(out[c], Reconnect) ELSE out[c]]
      /\ UNCHANGED <<cur, sid, cseq, seen, phase, req, net, serving, slow, seq, attached, given>>
  BY DEF Restart, client
<1>2. Reconnect \in Frame /\ Reconnect.op = "RECONNECT"
  BY DEF Reconnect, Frame
<1>3. ASSUME NEW c \in Conn PROVE out'[c] = out[c] \/ (c \in serving /\ out'[c] = Append(out[c], Reconnect))
  BY <1>1
<1>4. ASSUME NEW c \in Conn PROVE Len(out'[c]) <= OutCap /\ Unclosed(out'[c])
  <2>1. out[c] \in Seq(Frame) /\ Len(out[c]) <= OutCap /\ Unclosed(out[c]) /\ OutCap \in Nat
    BY <1>0, StreamAssumption DEF TypeOK, LossIsAccountedFor, QueueBounded, NoClose
  <2>2. CASE c \in serving /\ Len(out[c]) < OutCap
    <3>1. out'[c] = Append(out[c], Reconnect)
      BY <2>2, <1>1
    <3> QED BY <3>1, <2>1, <2>2, <1>2 DEF Unclosed
  <2>3. CASE ~(c \in serving /\ Len(out[c]) < OutCap)
    BY <2>1, <2>3, <1>1
  <2> QED BY <2>2, <2>3
<1>5. \A c \in Conn : phase[c] = "new" => out'[c] = out[c]
  BY <1>0, <1>3 DEF Unused
<1>6. CASE cur # None => Coming' = Coming
  <2>1. over \subseteq over' /\ \A s \in Session : buf'[s] = <<>>
    BY <1>0, <1>1 DEF TypeOK
  <2>2. \A c \in Conn : phase[c] = "up" => Unclosed(net'[c])
    BY <1>0, <1>1 DEF NoClose
  <2> QED BY <2>1, <2>2, <1>1, <1>4, <1>5, <1>6, Steady
<1>7. CASE cur # None /\ Coming' # Coming
  <2>0. cur \in Conn /\ Coming \in Seq(Frame) /\ Owed \in Nat /\ Of \in Session
    BY <1>0, <1>7, ComingTypes
  <2>1. phase[cur] = "up" /\ out'[cur] = Append(out[cur], Reconnect)
    <3>1. phase[cur] = "up"
      BY <1>1, <1>7 DEF Coming, Waiting
    <3>2. out'[cur] # out[cur]
      BY <1>1, <1>7 DEF Coming, Waiting
    <3> QED BY <3>1, <3>2, <2>0, <1>3
  <2>2. Coming' = Append(Coming, Reconnect)
    BY <2>0, <2>1, <1>0, <1>1, <1>2, QueueComing
  <2>3. /\ Len(Coming) \in Nat /\ Len(Coming') = Len(Coming) + 1 /\ Coming'[Len(Coming) + 1] = Reconnect
        /\ \A i \in 1..Len(Coming) : i \in 1..Len(Coming') /\ Coming'[i] = Coming[i]
        /\ \A i \in 1..Len(Coming') : i \in 1..Len(Coming) \/ i = Len(Coming) + 1
    BY <2>0, <2>2, <1>2, AppendFrames
  <2>4. ASSUME NEW c \in Conn, Fresh(c) PROVE Fresh(c)'
    BY <2>4, <1>0, <1>1 DEF Fresh, Session
  <2>5. Recorded(E)'
    BY <1>0, <1>1, RecordEmptied DEF Recorded
  <2>6. Flowing(E)'
    <3>1. Flow(Coming, cseq, E[Of], seq[Of], Owed, slow)
      BY <1>0, <1>7 DEF Flowing
    <3>2. Flow(Append(Coming, Reconnect), cseq, E[Of], seq[Of], Owed, slow)
      BY <3>1, <2>0, <1>2, FlowOther DEF Numbered
    <3>3. Of' = Of /\ Owed' = Owed
      BY <1>1 DEF Of, Owed
    <3> QED BY <3>2, <3>3, <2>2, <1>1 DEF Flowing
  <2>7. Placed(E)' /\ Unplaced' /\ UpIsCur'
    BY <1>0, <1>1 DEF Placed, Unplaced, UpIsCur
  <2>8. Unused'
    BY <2>4, <1>0, <1>1, <1>5 DEF Unused
  <2>9. Asking'
    <3>1. Quiet(Coming) => Quiet(Coming')
      BY <2>3, <1>2 DEF Quiet
    <3>2. sid # None => sid \in over'
      BY <1>0, <1>1 DEF TypeOK
    <3>3. ASSUME NEW c \in Conn, c = cur, req[c].op = "RESUME" PROVE req[c].session # None
      <4>1. req[c] \in Request
        BY <1>0 DEF TypeOK
      <4> QED BY <4>1, <3>3 DEF Request, Session, Conn, None
    <3> QED BY <3>1, <3>2, <3>3, <2>4, <1>0, <1>1 DEF Asking
  <2>10. Refused'
    <3> SUFFICES ASSUME NEW c \in Conn, c = cur, NEW i \in 1..Len(Coming'), Coming'[i].op = "INVALID"
                 PROVE  /\ \A j \in 1..Len(Coming') : j # i => Coming'[j].op \in {"RECONNECT", "CLOSE"}
                        /\ Fresh(c)' /\ req[c].op = "NONE"
      BY <1>1 DEF Refused, Refuses
    <3>1. i \in 1..Len(Coming) /\ Coming'[i] = Coming[i]
      BY <2>3, <1>2
    <3>2. Refuses(Coming, i) /\ Fresh(c) /\ req[c].op = "NONE"
      BY <3>1, <1>0 DEF Refused
    <3>3. \A j \in 1..Len(Coming') : j # i => Coming'[j].op \in {"RECONNECT", "CLOSE"}
      BY <3>1, <3>2, <2>3, <1>2 DEF Refuses
    <3> QED BY <3>2, <3>3, <2>4
  <2>11. Begins'
    <3> SUFFICES ASSUME NEW c \in Conn, c = cur, sid = None
                 PROVE  /\ \A j \in 1..Len(Coming') : OpenedBefore(Coming', j)
                        /\ \E i \in 1..Len(Coming') : Opens(Coming'[i])
      BY <1>1 DEF Begins
    <3>1. \A j \in 1..Len(Coming) : OpenedBefore(Coming, j)
      BY <1>0 DEF Begins
    <3>2. \A j \in 1..Len(Append(Coming, Reconnect)) : OpenedBefore(Append(Coming, Reconnect), j)
      BY <3>1, <2>0, <1>2, AppendOpens
    <3>3. Len(Coming) + 1 \in 1..Len(Coming') /\ Opens(Coming'[Len(Coming) + 1])
      BY <2>3, <1>2 DEF Opens
    <3> QED BY <3>2, <3>3, <2>2
  <2>12. Named'
    <3> SUFFICES ASSUME NEW j \in 1..Len(Coming'), Coming'[j].op = "READY" PROVE Coming'[j].ev = cur /\ Of = cur
      BY <1>1 DEF Named, Of
    <3>1. j \in 1..Len(Coming) /\ Coming'[j] = Coming[j]
      BY <2>3, <1>2
    <3> QED BY <3>1, <1>0, <1>7 DEF Named
  <2>13. NoClose' /\ BelongsTo'
    BY <1>0, <1>1, <1>4 DEF NoClose, BelongsTo
  <2>14. LossIsAccountedFor'
    BY <1>0, <1>1, <1>4 DEF LossIsAccountedFor, QueueBounded, InOrder, LossOnlyWhenSlow
  <2> QED BY <2>5, <2>6, <2>7, <2>8, <2>9, <2>10, <2>11, <2>12, <2>13, <2>14 DEF LossParts, Standing
<1> QED BY <1>6, <1>7

\* Numbering the next frame of session s extends its history and leaves the others'.
LEMMA NumberRecords ==
  ASSUME TypeOK, NEW E, Recorded(E), NEW s \in Session, NEW f \in Frame, Number(s, f),
         Numbered(f), f.s = seq[s] + 1, NEW h \in Nat, given' = [given EXCEPT ![s] = h],
         (f.op = "EVENT" /\ f.ev = h /\ h = given[s] + 1) \/ (f.op # "EVENT" /\ h = given[s])
  PROVE  \E D : /\ \A r \in Session : Record(D[r], buf'[r], seq'[r], given'[r])
                /\ Agree(E[s], D[s], seq[s]) /\ Fits(D[s], f)
                /\ \A r \in Session : r # s => D[r] = E[r]
<1>1. PICK kept \in Trimmed(Append(buf[s], f)) : buf' = [buf EXCEPT ![s] = kept]
  BY DEF Number
<1>2. buf \in [Session -> Seq(Frame)] /\ seq \in [Session -> Nat] /\ given \in [Session -> Nat]
  BY DEF TypeOK
<1>3. buf[s] \in Seq(Frame) /\ seq[s] \in Nat /\ given[s] \in Nat /\ Record(E[s], buf[s], seq[s], given[s])
  BY <1>2 DEF Recorded
<1>4. PICK d : Agree(E[s], d, seq[s]) /\ Fits(d, f) /\ Record(d, kept, seq[s] + 1, h)
  BY <1>3, RecordExtends
<1>9. given'[s] = h
  BY <1>2
<1> DEFINE D == [r \in Session |-> IF r = s THEN d ELSE E[r]]
<1>5. D[s] = d /\ \A r \in Session : r # s => D[r] = E[r]
  OBVIOUS
<1> HIDE DEF D
<1>6. seq' = [seq EXCEPT ![s] = seq[s] + 1]
  BY DEF Number
<1>7. ASSUME NEW r \in Session PROVE Record(D[r], buf'[r], seq'[r], given'[r])
  <2>1. CASE r = s
    BY <2>1, <1>1, <1>2, <1>4, <1>5, <1>6, <1>9
  <2>2. CASE r # s
    <3>1. buf'[r] = buf[r] /\ seq'[r] = seq[r] /\ given'[r] = given[r] /\ D[r] = E[r]
      BY <2>2, <1>1, <1>2, <1>5, <1>6
    <3> QED BY <3>1 DEF Recorded
  <2> QED BY <2>1, <2>2
<1> QED BY <1>4, <1>5, <1>7

\* Fan-out gives a session its next event.
LEMMA DeliverLoss ==
  ASSUME IndInv, IndInv', NEW E, LossParts(E), NEW s \in Session, Deliver(s)
  PROVE  \E D : LossParts(D)'
<1>0. /\ TypeOK /\ TypeOK' /\ Recorded(E) /\ Flowing(E) /\ Placed(E)
      /\ Unplaced /\ UpIsCur /\ Unused /\ Asking /\ Refused /\ Begins
      /\ Named /\ NoClose /\ BelongsTo /\ LossIsAccountedFor
  BY DEF IndInv, LossParts, Standing
<1> DEFINE f == Event(seq[s] + 1, given[s] + 1)
<1>1. /\ s \notin over /\ given' = [given EXCEPT ![s] = given[s] + 1] /\ Number(s, f)
      /\ attached[s] = None => UNCHANGED <<out, slow>>
      /\ attached[s] # None => Enqueue(attached[s], f)
      /\ UNCHANGED <<cur, sid, cseq, seen, phase, req, net, serving, attached, over>>
  BY DEF Deliver, client
<1>2. seq \in [Session -> Nat] /\ given \in [Session -> Nat] /\ seq[s] \in Nat /\ given[s] \in Nat /\ attached[s] \in Conn \cup {None}
  BY <1>0 DEF TypeOK
<1>3. f \in Frame /\ f.op = "EVENT" /\ f.s = seq[s] + 1 /\ f.ev = given[s] + 1 /\ Numbered(f)
  <2>1. seq[s] + 1 \in Nat /\ given[s] + 1 \in Nat
    BY <1>2
  <2> QED BY <2>1 DEF Event, Frame, Numbered
<1> HIDE DEF f
<1>4. seq' = [seq EXCEPT ![s] = seq[s] + 1] /\ given'[s] = given[s] + 1
  BY <1>1, <1>2 DEF Number
<1>5. PICK D : /\ Recorded(D)' /\ Agree(E[s], D[s], seq[s]) /\ Fits(D[s], f)
               /\ \A r \in Session : r # s => D[r] = E[r]
  <2>1. PICK h \in Nat : h = given[s] + 1
    BY <1>2
  <2>3. TypeOK /\ Recorded(E) /\ Number(s, f) /\ given' = [given EXCEPT ![s] = h] /\ f.ev = h
    BY <2>1, <1>0, <1>1, <1>3
  <2>2. \E D : /\ \A r \in Session : Record(D[r], buf'[r], seq'[r], given'[r])
               /\ Agree(E[s], D[s], seq[s]) /\ Fits(D[s], f)
               /\ \A r \in Session : r # s => D[r] = E[r]
    BY <2>1, <2>3, <1>3, NumberRecords
  <2> QED BY <2>2 DEF Recorded
<1>6. None \notin Conn /\ Session = Conn
  BY DEF Conn, None, Session
<1>7. /\ \A d \in Conn : Len(out'[d]) <= OutCap /\ Unclosed(out'[d])
      /\ \A d \in Conn : d # attached[s] => out'[d] = out[d]
      /\ slow \subseteq slow'
      /\ \/ attached[s] = None /\ out' = out /\ slow' = slow
         \/ attached[s] \in Conn /\ out'[attached[s]] = Append(out[attached[s]], f) /\ slow' = slow
         \/ attached[s] \in Conn /\ out' = out /\ attached[s] \in slow'
  <2>1. CASE attached[s] = None
    BY <2>1, <1>0, <1>1 DEF LossIsAccountedFor, QueueBounded, NoClose
  <2>2. CASE attached[s] # None
    <3>1. attached[s] \in Conn /\ Enqueue(attached[s], f)
      BY <2>2, <1>1, <1>2
    <3>2. f.op # "CLOSE"
      BY <1>3
    <3> HIDE DEF Enqueue
    <3> QED BY <3>1, <3>2, <1>0, <1>3, EnqueueQueues
  <2> QED BY <2>1, <2>2
<1>8. ASSUME NEW d \in Conn, Fresh(d) PROVE Fresh(d)' /\ attached[s] # d
  <2>1. d # s /\ d \in Session
    BY <1>1, <1>6, <1>8 DEF Fresh
  <2> QED BY <2>1, <1>1, <1>2, <1>4, <1>8 DEF Fresh
<1>9. Of' = Of
  BY <1>1 DEF Of
<1>10. Placed(D)' /\ Unplaced' /\ UpIsCur'
  <2>1. Unplaced' /\ UpIsCur'
    BY <1>0, <1>1 DEF Unplaced, UpIsCur
  <2>2. ASSUME sid # None PROVE cseq >= 1 /\ cseq <= seq'[sid] /\ Last(seen) = D[sid][cseq]
    <3>1. sid \in Session /\ cseq \in Nat /\ cseq >= 1 /\ cseq <= seq[sid] /\ Last(seen) = E[sid][cseq]
      BY <2>2, <1>0 DEF TypeOK, Placed
    <3>2. CASE sid # s
      BY <3>1, <3>2, <1>2, <1>4, <1>5
    <3>3. CASE sid = s
      <4>1. seq'[sid] = seq[s] + 1 /\ cseq \in 0..seq[s]
        BY <3>1, <3>3, <1>2, <1>4
      <4>2. D[s][cseq] = E[s][cseq]
        BY <4>1, <1>5 DEF Agree
      <4> QED BY <3>1, <3>3, <4>1, <4>2, <1>2
    <3> QED BY <3>2, <3>3
  <2> QED BY <2>1, <2>2, <1>1 DEF Placed
<1>11. Unused'
  BY <1>0, <1>1, <1>7, <1>8 DEF Unused
<1>12. NoClose'
  BY <1>0, <1>1, <1>7 DEF NoClose
<1>13. BelongsTo'
  BY <1>0, <1>1, <1>9 DEF BelongsTo
<1>14. LossIsAccountedFor'
  <2>1. slow' = {} => slow = {}
    BY <1>7
  <2> QED BY <2>1, <1>0, <1>1, <1>7 DEF LossIsAccountedFor, QueueBounded, InOrder, LossOnlyWhenSlow
<1>15. CASE cur = None
  <2>1. Flowing(D)'
    BY <1>1, <1>15 DEF Flowing
  <2>2. Asking' /\ Refused' /\ Begins' /\ Named'
    BY <1>1, <1>6, <1>15 DEF Asking, Refused, Begins, Named
  <2> QED BY <2>1, <2>2, <1>5, <1>10, <1>11, <1>12, <1>13, <1>14 DEF LossParts, Standing
<1>16. CASE cur # None /\ attached[s] = cur /\ phase[cur] = "up" /\ out'[cur] = Append(out[cur], f) /\ slow' = slow
  <2>0. /\ cur \in Conn /\ Coming \in Seq(Frame) /\ Owed \in Nat /\ Of \in Session /\ s = Of /\ cseq \in Nat
        /\ Flow(Coming, cseq, E[s], seq[s], Owed, slow)
    <3>1. s = Of
      BY <1>0, <1>1, <1>16 DEF BelongsTo
    <3> QED BY <3>1, <1>0, <1>16, ComingTypes DEF Flowing
  <2>1. Coming' = Append(Coming, f)
    BY <2>0, <1>0, <1>1, <1>3, <1>16, QueueComing
  <2>2. /\ Len(Coming) \in Nat /\ Len(Coming') = Len(Coming) + 1 /\ Coming'[Len(Coming) + 1] = f
        /\ \A i \in 1..Len(Coming) : i \in 1..Len(Coming') /\ Coming'[i] = Coming[i]
        /\ \A i \in 1..Len(Coming') : i \in 1..Len(Coming) \/ i = Len(Coming) + 1
    BY <2>0, <2>1, <1>3, AppendFrames
  <2>3. PICK c \in Conn : c = cur
    BY <2>0
  <2>4. ~Fresh(c)
    BY <2>3, <1>16 DEF Fresh
  <2>5. Flowing(D)'
    <3>1. slow = {} => Owed = seq[s]
      BY <2>0, <1>16 DEF Owed
    <3>2. Flow(Append(Coming, f), cseq, D[s], seq[s] + 1, seq[s] + 1, slow)
      BY <3>1, <2>0, <1>2, <1>3, <1>5, FlowNext
    <3>3. seq'[s] = seq[s] + 1 /\ seq[s] + 1 \in Nat
      BY <1>2, <1>4
    <3>4. Owed' \in Nat /\ Owed' <= seq[s] + 1
      BY <3>3, <2>0, <1>9, <1>16 DEF Owed
    <3>5. Append(Coming, f) \in Seq(Frame)
      BY <2>0, <1>3, AppendFrames
    <3>6. Flow(Append(Coming, f), cseq, D[s], seq[s] + 1, Owed', slow)
      BY <3>2, <3>3, <3>4, <3>5, FlowLess
    <3> QED BY <3>3, <3>6, <2>0, <2>1, <1>1, <1>9, <1>16 DEF Flowing
  <2>6. Asking'
    <3>1. req[c].op = "NONE"
      BY <2>3, <2>4, <1>0, <1>16 DEF Asking
    <3> QED BY <3>1, <2>3, <1>1 DEF Asking
  <2>7. Refused'
    <3>1. \A i \in 1..Len(Coming') : Coming'[i].op # "INVALID"
      BY <2>2, <2>3, <2>4, <1>0, <1>3 DEF Refused
    <3> QED BY <3>1 DEF Refused, Refuses
  <2>8. Begins'
    <3> SUFFICES ASSUME sid = None
                 PROVE  /\ \A j \in 1..Len(Coming') : OpenedBefore(Coming', j)
                        /\ \E i \in 1..Len(Coming') : Opens(Coming'[i])
      BY <1>1 DEF Begins
    <3>1. /\ \A j \in 1..Len(Coming) : OpenedBefore(Coming, j)
          /\ attached[c] = c /\ phase[c] = "up" => \E i \in 1..Len(Coming) : Opens(Coming[i])
      BY <2>3, <1>0 DEF Begins
    <3>2. PICK i \in 1..Len(Coming) : Opens(Coming[i])
      BY <3>1, <2>0, <2>3, <1>16 DEF Of
    <3>3. \A j \in 1..Len(Append(Coming, f)) : OpenedBefore(Append(Coming, f), j)
      BY <3>1, <3>2, <2>0, <1>3, AppendOpens
    <3>4. i \in 1..Len(Coming') /\ Opens(Coming'[i])
      BY <3>2, <2>2
    <3> QED BY <3>3, <3>4, <2>1
  <2>9. Named'
    <3> SUFFICES ASSUME NEW j \in 1..Len(Coming'), Coming'[j].op = "READY" PROVE Coming'[j].ev = cur /\ Of = cur
      BY <1>1, <1>9 DEF Named
    <3>1. j \in 1..Len(Coming) /\ Coming'[j] = Coming[j]
      BY <2>2, <1>3
    <3> QED BY <3>1, <1>0, <1>16 DEF Named
  <2> QED BY <2>5, <2>6, <2>7, <2>8, <2>9, <1>5, <1>10, <1>11, <1>12, <1>13, <1>14 DEF LossParts, Standing
<1>17. CASE cur # None /\ ~(attached[s] = cur /\ phase[cur] = "up" /\ out'[cur] = Append(out[cur], f) /\ slow' = slow)
  <2>0. /\ cur \in Conn /\ Coming \in Seq(Frame) /\ Owed \in Nat /\ Of \in Session /\ cseq \in Nat /\ seq[Of] \in Nat
        /\ Flow(Coming, cseq, E[Of], seq[Of], Owed, slow)
    BY <1>0, <1>17, ComingTypes DEF Flowing
  <2>1. Coming' = Coming
    <3>1. phase[cur] = "up" => out'[cur] = out[cur]
      BY <2>0, <1>7, <1>17
    <3> QED BY <3>1, <1>1 DEF Coming, Waiting
  <2>2. PICK c \in Conn : c = cur
    BY <2>0
  <2>3. Flowing(D)'
    <3>1. CASE s # Of
      <4>1. D[Of] = E[Of] /\ seq'[Of] = seq[Of]
        BY <3>1, <2>0, <1>2, <1>4, <1>5
      <4>2. Owed' \in Nat /\ Owed' <= Owed
        BY <4>1, <2>0, <1>1, <1>7, <1>9 DEF Owed
      <4>3. Agree(E[Of], E[Of], seq[Of]) /\ (slow' = {} => slow = {}) /\ seq[Of] <= seq[Of]
        BY <2>0, <1>7, AgreeSelf
      <4>4. Flow(Coming, cseq, E[Of], seq[Of], Owed', slow')
        BY <4>2, <4>3, <2>0, FlowWeaker
      <4> QED BY <4>1, <4>4, <2>1, <1>1, <1>9 DEF Flowing
    <3>2. CASE s = Of
      <4>1. seq'[Of] = seq[Of] + 1 /\ seq[Of] + 1 \in Nat /\ seq[Of] <= seq[Of] + 1 /\ Agree(E[Of], D[Of], seq[Of])
        BY <3>2, <2>0, <1>2, <1>4, <1>5
      <4>2. Owed' = 0
        BY <3>2, <1>1, <1>7, <1>9, <1>17 DEF Owed
      <4>3. (slow' = {} => slow = {}) /\ 0 <= Owed /\ 0 \in Nat
        BY <2>0, <1>7
      <4>4. Flow(Coming, cseq, D[Of], seq[Of] + 1, 0, slow')
        BY <4>1, <4>3, <2>0, FlowWeaker
      <4> QED BY <4>1, <4>2, <4>4, <2>1, <1>1, <1>9 DEF Flowing
    <3> QED BY <3>1, <3>2
  <2>4. Asking'
    BY <2>1, <1>0, <1>1, <1>8 DEF Asking
  <2>5. Refused'
    BY <2>1, <1>0, <1>1, <1>8 DEF Refused
  <2>6. Begins' /\ Named'
    BY <2>1, <1>0, <1>1, <1>9 DEF Begins, Named
  <2> QED BY <2>3, <2>4, <2>5, <2>6, <1>5, <1>10, <1>11, <1>12, <1>13, <1>14 DEF LossParts, Standing
<1> QED BY <1>15, <1>16, <1>17

\* What a pending request on an open socket says.
LEMMA PendingFacts ==
  ASSUME TypeOK, UpIsCur, Asking, NEW c \in Conn, phase[c] = "up", req[c].op # "NONE"
  PROVE  /\ c = cur /\ cur # None /\ None \notin Conn /\ Session = Conn
         /\ Fresh(c) /\ Quiet(Coming) /\ attached[Of] # c /\ Owed = 0
         /\ Coming \in Seq(Frame) /\ Of \in Session /\ seq[Of] \in Nat /\ cseq \in Nat
<1>1. c = cur /\ cur # None /\ None \notin Conn /\ Session = Conn
  BY DEF UpIsCur, Conn, None, Session
<1>2. Fresh(c) /\ Quiet(Coming)
  BY <1>1 DEF Asking
<1>3. Coming \in Seq(Frame) /\ Of \in Session /\ seq[Of] \in Nat /\ cseq \in Nat
  BY <1>1, ComingTypes
<1>4. attached[Of] # c
  BY <1>2, <1>3 DEF Fresh
<1>5. Owed = 0
  BY <1>1, <1>4 DEF Owed
<1> QED BY <1>1, <1>2, <1>3, <1>4, <1>5

\* The first queued frame is one of those to come.
LEMMA FirstQueued ==
  ASSUME TypeOK, cur \in Conn, phase[cur] = "up", Len(out[cur]) >= 1, NoClose, Quiet(Coming)
  PROVE  \E i \in 1..Len(Coming) : Opens(Coming[i])
<1>1. net[cur] \in Seq(Frame) /\ out[cur] \in Seq(Frame) /\ Coming = net[cur] \o out[cur]
  BY DEF TypeOK, Coming, Waiting
<1> DEFINE i == Len(net[cur]) + 1
<1>2. i \in 1..Len(Coming) /\ Coming[i] = out[cur][1] /\ 1 \in 1..Len(out[cur])
  BY <1>1, CatFirst
<1>3. Coming[i].op \in {"RECONNECT", "CLOSE"} /\ out[cur][1].op # "CLOSE"
  BY <1>2 DEF Quiet, NoClose, Unclosed
<1> QED BY <1>2, <1>3 DEF Opens

\* A session that ends on RESUME, and the refusal that says so.
LEMMA RefuseResumeLoss ==
  ASSUME IndInv, IndInv', NEW E, LossParts(E), NEW c \in Conn, RefuseResume(c)
  PROVE  LossParts(E)'
<1>0. /\ TypeOK /\ TypeOK' /\ Recorded(E) /\ Flowing(E) /\ Placed(E)
      /\ Unplaced /\ UpIsCur /\ Unused /\ Asking /\ Refused /\ Begins
      /\ Named /\ NoClose /\ BelongsTo /\ LossIsAccountedFor
  BY DEF IndInv, LossParts, Standing
<1> DEFINE s == req[c].session
<1>1. /\ phase[c] = "up" /\ req[c].op = "RESUME" /\ req' = [req EXCEPT ![c] = NoReq]
      /\ UNCHANGED <<cur, sid, cseq, seen, phase, net, serving, seq, attached, given>>
      /\ \/ UNCHANGED <<over, buf, out, slow>>
         \/ over' = over \cup {s} /\ buf' = [buf EXCEPT ![s] = <<>>] /\ Enqueue(c, InvalidSession)
  BY DEF RefuseResume, client
<1>2. /\ c = cur /\ cur # None /\ None \notin Conn /\ Session = Conn
      /\ Fresh(c) /\ Quiet(Coming) /\ attached[Of] # c /\ Owed = 0
      /\ Coming \in Seq(Frame) /\ Of \in Session /\ seq[Of] \in Nat /\ cseq \in Nat
  BY <1>0, <1>1, PendingFacts
<1>3. InvalidSession \in Frame /\ InvalidSession.op = "INVALID" /\ ~Numbered(InvalidSession)
  BY DEF InvalidSession, Frame, Numbered
<1>4. req'[c].op = "NONE" /\ \A d \in Conn : d # c => req'[d] = req[d]
  BY <1>0, <1>1 DEF TypeOK, NoReq
<1>5. /\ over \subseteq over'
      /\ \A r \in Session : buf'[r] = buf[r] \/ buf'[r] = <<>>
      /\ \A d \in Conn : Len(out'[d]) <= OutCap /\ Unclosed(out'[d])
      /\ \A d \in Conn : d # c => out'[d] = out[d]
      /\ slow \subseteq slow'
      /\ \/ out'[c] = Append(out[c], InvalidSession) /\ slow' = slow
         \/ out' = out
  <2>1. CASE UNCHANGED <<over, buf, out, slow>>
    BY <2>1, <1>0 DEF LossIsAccountedFor, QueueBounded, NoClose
  <2>2. CASE over' = over \cup {s} /\ buf' = [buf EXCEPT ![s] = <<>>] /\ Enqueue(c, InvalidSession)
    <3>1. InvalidSession.op # "CLOSE" /\ Enqueue(c, InvalidSession)
      BY <2>2, <1>3
    <3>2. \A r \in Session : buf'[r] = buf[r] \/ buf'[r] = <<>>
      BY <2>2, <1>0 DEF TypeOK
    <3>3. /\ \A d \in Conn : Len(out'[d]) <= OutCap /\ Unclosed(out'[d])
          /\ \A d \in Conn : d # c => out'[d] = out[d]
          /\ slow \subseteq slow'
          /\ \/ out'[c] = Append(out[c], InvalidSession) /\ slow' = slow
             \/ out' = out /\ c \in slow' /\ Len(out[c]) >= 1
      BY <3>1, <1>0, <1>3, EnqueueQueues
    <3> QED BY <2>2, <3>2, <3>3
  <2> QED BY <2>1, <2>2, <1>1
<1>6. Coming' = Coming \/ (Coming' = Append(Coming, InvalidSession) /\ slow' = slow)
  <2>1. CASE out' = out
    BY <2>1, <1>1 DEF Coming, Waiting
  <2>2. CASE out'[c] = Append(out[c], InvalidSession) /\ slow' = slow
    BY <2>2, <1>0, <1>1, <1>2, <1>3, QueueComing
  <2> QED BY <2>1, <2>2, <1>5
<1>7. ASSUME NEW d \in Conn, Fresh(d) PROVE Fresh(d)'
  BY <1>1, <1>5, <1>7 DEF Fresh
<1>8. Of' = Of /\ Owed' = 0
  BY <1>1, <1>2 DEF Of, Owed
<1>9. Recorded(E)'
  BY <1>0, <1>1, <1>5, RecordEmptied DEF Recorded
<1>10. Flowing(E)'
  <2>1. Flow(Coming, cseq, E[Of], seq[Of], 0, slow)
    BY <1>0, <1>2 DEF Flowing
  <2>2. CASE Coming' = Coming
    <3>1. Agree(E[Of], E[Of], seq[Of]) /\ seq[Of] <= seq[Of] /\ (slow' = {} => slow = {}) /\ 0 \in Nat /\ 0 <= 0
      BY <1>2, <1>5, AgreeSelf
    <3>2. Flow(Coming, cseq, E[Of], seq[Of], 0, slow')
      BY <2>1, <3>1, <1>2, FlowWeaker
    <3> QED BY <3>2, <2>2, <1>1, <1>8 DEF Flowing
  <2>3. CASE Coming' = Append(Coming, InvalidSession) /\ slow' = slow
    <3>1. Flow(Append(Coming, InvalidSession), cseq, E[Of], seq[Of], 0, slow)
      BY <2>1, <1>2, <1>3, FlowOther
    <3> QED BY <3>1, <2>3, <1>1, <1>8 DEF Flowing
  <2> QED BY <2>2, <2>3, <1>6
<1>11. Placed(E)' /\ Unplaced' /\ UpIsCur'
  BY <1>0, <1>1 DEF Placed, Unplaced, UpIsCur
<1>12. Unused'
  BY <1>0, <1>1, <1>5, <1>7 DEF Unused
<1>13. Asking'
  BY <1>1, <1>2, <1>4 DEF Asking
<1>14. ASSUME NEW i \in 1..Len(Coming')
       PROVE  \/ Coming'[i].op \in {"RECONNECT", "CLOSE"}
              \/ Coming'[i] = InvalidSession /\ \A j \in 1..Len(Coming') : j # i => Coming'[j].op \in {"RECONNECT", "CLOSE"}
  <2>1. CASE Coming' = Coming
    BY <2>1, <1>2 DEF Quiet
  <2>2. CASE Coming' = Append(Coming, InvalidSession)
    <3>1. /\ Len(Coming') = Len(Coming) + 1 /\ Coming'[Len(Coming) + 1] = InvalidSession
          /\ \A k \in 1..Len(Coming) : k \in 1..Len(Coming') /\ Coming'[k] = Coming[k]
          /\ \A k \in 1..Len(Coming') : k \in 1..Len(Coming) \/ k = Len(Coming) + 1
      BY <2>2, <1>2, <1>3, AppendFrames
    <3> QED BY <3>1, <1>2 DEF Quiet
  <2> QED BY <2>1, <2>2, <1>6
<1>15. Refused'
  <2>1. Fresh(c)'
    BY <1>2, <1>7
  <2> QED BY <2>1, <1>1, <1>2, <1>4, <1>14 DEF Refused, Refuses
<1>16. Begins'
  <2>1. attached'[c] # c
    BY <1>1, <1>2 DEF Fresh
  <2> QED BY <2>1, <1>1, <1>2, <1>3, <1>14 DEF Begins, OpenedBefore
<1>17. Named'
  BY <1>3, <1>14 DEF Named
<1>18. NoClose'
  BY <1>0, <1>1, <1>5 DEF NoClose
<1>19. BelongsTo'
  BY <1>1, <1>2 DEF BelongsTo, Fresh
<1>20. LossIsAccountedFor'
  <2>1. slow' = {} => slow = {}
    BY <1>5
  <2> QED BY <2>1, <1>0, <1>1, <1>5 DEF LossIsAccountedFor, QueueBounded, InOrder, LossOnlyWhenSlow
<1> QED BY <1>9, <1>10, <1>11, <1>12, <1>13, <1>15, <1>16, <1>17, <1>18, <1>19, <1>20 DEF LossParts, Standing

\* IDENTIFY begins a stream at READY.
LEMMA HandleIdentifyLoss ==
  ASSUME IndInv, IndInv', NEW E, LossParts(E), NEW c \in Conn, HandleIdentify(c)
  PROVE  \E D : LossParts(D)'
<1>0. /\ TypeOK /\ TypeOK' /\ Recorded(E) /\ Flowing(E) /\ Placed(E)
      /\ Unplaced /\ UpIsCur /\ Unused /\ Asking /\ Refused /\ Begins
      /\ Named /\ NoClose /\ BelongsTo /\ LossIsAccountedFor
  BY DEF IndInv, LossParts, Standing
<1> DEFINE f == Ready(c)
<1>1. /\ phase[c] = "up" /\ req[c].op = "IDENTIFY" /\ req' = [req EXCEPT ![c] = NoReq]
      /\ over' = (over \cup {r \in Session : attached[r] = None}) \ {c}
      /\ attached' = [attached EXCEPT ![c] = c] /\ seq' = [seq EXCEPT ![c] = 1]
      /\ \E kept \in Trimmed(<<f>>) :
           buf' = [r \in Session |-> IF r = c THEN kept ELSE IF r \in over' THEN <<>> ELSE buf[r]]
      /\ Enqueue(c, f)
      /\ UNCHANGED <<cur, sid, cseq, seen, phase, net, serving, given>>
  BY DEF HandleIdentify, client
<1>2. /\ c = cur /\ cur # None /\ None \notin Conn /\ Session = Conn
      /\ Fresh(c) /\ Quiet(Coming) /\ attached[Of] # c /\ Owed = 0
      /\ Coming \in Seq(Frame) /\ Of \in Session /\ seq[Of] \in Nat /\ cseq \in Nat
  BY <1>0, <1>1, PendingFacts
<1>3. sid = None /\ cseq = 0 /\ seen = <<>> /\ Of = c /\ c \in Session
  BY <1>0, <1>1, <1>2 DEF Asking, Unplaced, Of
<1>4. f \in Frame /\ f.op = "READY" /\ f.s = 1 /\ f.ev = c /\ Numbered(f)
  BY <1>3 DEF Ready, Frame, Numbered
<1> HIDE DEF f
<1>5. req'[c].op = "NONE" /\ \A d \in Conn : d # c => req'[d] = req[d]
  BY <1>0, <1>1 DEF TypeOK, NoReq
<1>6. seq'[c] = 1 /\ attached'[c] = c /\ \A r \in Session : r # c => seq'[r] = seq[r] /\ attached'[r] = attached[r]
  BY <1>0, <1>1, <1>3 DEF TypeOK
<1>7. PICK kept \in Trimmed(<<f>>) :
        buf' = [r \in Session |-> IF r = c THEN kept ELSE IF r \in over' THEN <<>> ELSE buf[r]]
  BY <1>1
<1>8. Record(E[c], <<>>, 0, 0) /\ given[c] = 0
  <2>1. Record(E[c], buf[c], 0, given[c])
    BY <1>0, <1>2, <1>3 DEF Recorded, Fresh
  <2>2. given[c] = 0
    BY <2>1 DEF Record, Counts
  <2>3. Record(E[c], <<>>, 0, given[c])
    BY <2>1, RecordEmptied
  <2> QED BY <2>2, <2>3
<1>9. PICK e : Agree(E[c], e, 0) /\ Fits(e, f) /\ Record(e, kept, 1, 0)
  <2>1. <<>> \in Seq(Frame) /\ Append(<<>>, f) = <<f>> /\ 0 \in Nat /\ 0 + 1 = 1
    BY <1>4
  <2>2. kept \in Trimmed(Append(<<>>, f)) /\ f.s = 0 + 1 /\ f.op # "EVENT"
    BY <2>1, <1>4
  <2>3. \E d : Agree(E[c], d, 0) /\ Fits(d, f) /\ Record(d, kept, 0 + 1, 0)
    BY <2>1, <2>2, <1>4, <1>8, RecordExtends
  <2> QED BY <2>1, <2>3
<1> DEFINE D == [r \in Session |-> IF r = c THEN e ELSE E[r]]
<1>10. D[c] = e /\ \A r \in Session : r # c => D[r] = E[r]
  BY <1>3
<1> HIDE DEF D
<1>11. Recorded(D)'
  <2> SUFFICES ASSUME NEW r \in Session PROVE Record(D[r], buf'[r], seq'[r], given[r])
    BY <1>1 DEF Recorded
  <2>1. CASE r = c
    BY <2>1, <1>6, <1>7, <1>8, <1>9, <1>10
  <2>2. CASE r # c
    <3>1. D[r] = E[r] /\ seq'[r] = seq[r] /\ (buf'[r] = buf[r] \/ buf'[r] = <<>>)
      BY <2>2, <1>6, <1>7, <1>10
    <3>2. Record(E[r], buf[r], seq[r], given[r])
      BY <1>0 DEF Recorded
    <3> QED BY <3>1, <3>2, RecordEmptied
  <2> QED BY <2>1, <2>2
<1>12. /\ \A d \in Conn : Len(out'[d]) <= OutCap /\ Unclosed(out'[d])
       /\ \A d \in Conn : d # c => out'[d] = out[d]
       /\ slow \subseteq slow'
       /\ \/ out'[c] = Append(out[c], f) /\ slow' = slow
          \/ out' = out /\ c \in slow' /\ Len(out[c]) >= 1
  <2>1. f.op # "CLOSE" /\ Enqueue(c, f)
    BY <1>1, <1>4
  <2> QED BY <2>1, <1>0, <1>4, EnqueueQueues
<1>13. \/ Coming' = Append(Coming, f) /\ slow' = slow
       \/ Coming' = Coming /\ c \in slow' /\ Len(out[c]) >= 1
  <2>1. CASE out' = out /\ c \in slow' /\ Len(out[c]) >= 1
    BY <2>1, <1>1 DEF Coming, Waiting
  <2>2. CASE out'[c] = Append(out[c], f) /\ slow' = slow
    BY <2>2, <1>0, <1>1, <1>2, <1>4, QueueComing
  <2> QED BY <2>1, <2>2, <1>12
<1>14. Of' = c
  BY <1>1, <1>2, <1>3 DEF Of
<1>15. Flowing(D)'
  <2>1. Flow(Coming, 0, E[c], 0, 0, slow)
    BY <1>0, <1>2, <1>3 DEF Flowing, Fresh
  <2>2. CASE Coming' = Append(Coming, f) /\ slow' = slow
    <3>1. Flow(Append(Coming, f), 0, e, 0 + 1, 0 + 1, slow)
      <4>1. f.s = 0 + 1 /\ 0 \in Nat
        BY <1>4
      <4> QED BY <2>1, <4>1, <1>2, <1>4, <1>9, FlowNext
    <3>2. Owed' \in Nat /\ Owed' <= 1 /\ 0 + 1 = 1 /\ 1 \in Nat
      BY <1>6, <1>14 DEF Owed
    <3>3. Append(Coming, f) \in Seq(Frame)
      BY <1>2, <1>4, AppendFrames
    <3>4. Flow(Append(Coming, f), 0, e, 1, Owed', slow)
      BY <3>1, <3>2, <3>3, FlowLess
    <3> QED BY <3>4, <2>2, <1>1, <1>3, <1>6, <1>10, <1>14 DEF Flowing
  <2>3. CASE Coming' = Coming /\ c \in slow'
    <3>1. Owed' = 0
      BY <2>3 DEF Owed
    <3>2. (slow' = {} => slow = {}) /\ 0 <= 1 /\ 0 <= 0 /\ 0 \in Nat /\ 1 \in Nat
      BY <1>12
    <3>3. Flow(Coming, 0, e, 1, 0, slow')
      BY <2>1, <3>2, <1>2, <1>9, FlowWeaker
    <3> QED BY <3>1, <3>3, <2>3, <1>1, <1>3, <1>6, <1>10, <1>14 DEF Flowing
  <2> QED BY <2>2, <2>3, <1>13
<1>16. Placed(D)' /\ Unplaced' /\ UpIsCur'
  BY <1>0, <1>1, <1>3 DEF Placed, Unplaced, UpIsCur
<1>17. Unused'
  <2>1. ASSUME NEW d \in Conn, Fresh(d), d # c PROVE Fresh(d)'
    BY <2>1, <1>1, <1>2, <1>6 DEF Fresh
  <2> QED BY <2>1, <1>0, <1>1, <1>12 DEF Unused
<1>18. Asking'
  BY <1>1, <1>2, <1>5 DEF Asking
<1>19. ASSUME NEW i \in 1..Len(Coming') PROVE Coming'[i].op \in {"RECONNECT", "CLOSE"} \/ Coming'[i] = f
  <2>1. CASE Coming' = Coming
    BY <2>1, <1>2 DEF Quiet
  <2>2. CASE Coming' = Append(Coming, f)
    <3>1. /\ Coming'[Len(Coming) + 1] = f
          /\ \A k \in 1..Len(Coming) : Coming'[k] = Coming[k]
          /\ \A k \in 1..Len(Coming') : k \in 1..Len(Coming) \/ k = Len(Coming) + 1
      BY <2>2, <1>2, <1>4, AppendFrames
    <3> QED BY <3>1, <1>2 DEF Quiet
  <2> QED BY <2>1, <2>2, <1>13
<1>20. Refused'
  BY <1>4, <1>19 DEF Refused, Refuses
<1>21. Begins'
  <2>1. \A j \in 1..Len(Coming') : OpenedBefore(Coming', j)
    BY <1>4, <1>19 DEF OpenedBefore
  <2>2. \E i \in 1..Len(Coming') : Opens(Coming'[i])
    <3>1. CASE Coming' = Coming /\ Len(out[c]) >= 1
      <4>1. cur \in Conn /\ phase[cur] = "up" /\ Len(out[cur]) >= 1
        BY <3>1, <1>1, <1>2
      <4>2. \E i \in 1..Len(Coming) : Opens(Coming[i])
        BY <4>1, <1>0, <1>2, FirstQueued
      <4> QED BY <3>1, <4>2
    <3>2. CASE Coming' = Append(Coming, f)
      <4>1. Len(Coming) + 1 \in 1..Len(Coming') /\ Coming'[Len(Coming) + 1] = f
        BY <3>2, <1>2, <1>4, AppendFrames
      <4> QED BY <4>1, <1>4 DEF Opens
    <3> QED BY <3>1, <3>2, <1>13
  <2> QED BY <2>1, <2>2 DEF Begins
<1>22. Named'
  BY <1>1, <1>2, <1>4, <1>14, <1>19 DEF Named
<1>23. NoClose'
  BY <1>0, <1>1, <1>12 DEF NoClose
<1>24. BelongsTo'
  BY <1>1, <1>2, <1>6, <1>14 DEF BelongsTo, Fresh
<1>25. LossIsAccountedFor'
  <2>1. slow' = {} => slow = {}
    BY <1>12
  <2> QED BY <2>1, <1>0, <1>1, <1>12 DEF LossIsAccountedFor, QueueBounded, InOrder, LossOnlyWhenSlow
<1> QED BY <1>11, <1>15, <1>16, <1>17, <1>18, <1>20, <1>21, <1>22, <1>23, <1>24, <1>25 DEF LossParts, Standing

\* RESUME replays what the client lacks and numbers the RESUMED that ends the replay.
LEMMA HandleResumeLoss ==
  ASSUME IndInv, IndInv', NEW E, LossParts(E), NEW c \in Conn, HandleResume(c)
  PROVE  \E D : LossParts(D)'
<1>0. /\ TypeOK /\ TypeOK' /\ Recorded(E) /\ Flowing(E) /\ Placed(E)
      /\ Unplaced /\ UpIsCur /\ Unused /\ Asking /\ Refused /\ Begins
      /\ Named /\ NoClose /\ BelongsTo /\ LossIsAccountedFor
  BY DEF IndInv, LossParts, Standing
<1>1. PICK s : s = req[c].session
  OBVIOUS
<1> DEFINE f == Resumed(seq[s] + 1)
           replay == FramesAfter(buf[s], cseq)
<1>2. phase[c] = "up" /\ req[c].op = "RESUME" /\ s \notin over
  BY <1>1 DEF HandleResume
<1>3. /\ c = cur /\ cur # None /\ None \notin Conn /\ Session = Conn
      /\ Fresh(c) /\ Quiet(Coming) /\ attached[Of] # c /\ Owed = 0
      /\ Coming \in Seq(Frame) /\ Of \in Session /\ seq[Of] \in Nat /\ cseq \in Nat
  BY <1>0, <1>2, PendingFacts
<1>4. s = sid /\ cseq = req[c].after /\ Coming = <<>>
  BY <1>0, <1>1, <1>2, <1>3 DEF Asking
<1>5. s \in Session /\ s # None /\ Of = s /\ s # c
  <2>1. req[c] \in Request
    BY <1>0 DEF TypeOK
  <2>2. s \in Session
    BY <2>1, <1>1, <1>2 DEF Request
  <2> QED BY <2>2, <1>2, <1>3, <1>4 DEF Of, Fresh
<1>6. /\ Oldest(s) - 1 <= cseq /\ cseq <= seq[s]
      /\ req' = [req EXCEPT ![c] = NoReq] /\ attached' = [attached EXCEPT ![s] = c]
      /\ Number(s, f) /\ out' = [out EXCEPT ![c] = out[c] \o Append(replay, f)]
      /\ UNCHANGED <<cur, sid, cseq, seen, phase, net, serving, slow, over, given>>
  BY <1>1, <1>4 DEF HandleResume, client
<1>7. seq \in [Session -> Nat] /\ seq[s] \in Nat /\ buf[s] \in Seq(Frame) /\ given \in [Session -> Nat] /\ given[s] \in Nat
  BY <1>0, <1>5 DEF TypeOK
<1>8. f \in Frame /\ f.op = "RESUMED" /\ f.s = seq[s] + 1 /\ Numbered(f)
  <2>1. seq[s] + 1 \in Nat
    BY <1>7
  <2> QED BY <2>1 DEF Resumed, Frame, Numbered
<1>9. Record(E[s], buf[s], seq[s], given[s])
  BY <1>0, <1>5 DEF Recorded
<1>10. seq[s] - Len(buf[s]) <= cseq
  <2>1. CASE buf[s] = <<>>
    BY <2>1, <1>3, <1>6, <1>7 DEF Oldest
  <2>2. CASE buf[s] # <<>>
    <3>1. 1 \in 1..Len(buf[s]) /\ Len(buf[s]) \in Nat
      BY <2>2, <1>7
    <3>2. buf[s][1].s = seq[s] - Len(buf[s]) + 1
      BY <3>1, <1>9 DEF Record, EndsAt
    <3> QED BY <3>1, <3>2, <2>2, <1>3, <1>6, <1>7 DEF Oldest
  <2> QED BY <2>1, <2>2
<1>11. /\ replay \in Seq(Frame) /\ Len(replay) <= ResumeBuffer
       /\ \A i \in 1..Len(replay) : Numbered(replay[i]) /\ replay[i].s > cseq
       /\ Flow(replay, cseq, E[s], seq[s], seq[s], slow)
  BY <1>3, <1>6, <1>7, <1>9, <1>10, FlowReplay
<1> HIDE DEF f, replay
<1>12. net[c] = <<>> /\ out[c] = <<>>
  <2>1. net[c] \in Seq(Frame) /\ out[c] \in Seq(Frame) /\ net[c] \o out[c] = <<>>
    BY <1>0, <1>2, <1>3, <1>4 DEF TypeOK, Coming, Waiting
  <2> QED BY <2>1, CatEmpty
<1> DEFINE A == Append(replay, f)
<1>13. /\ A \in Seq(Frame) /\ Len(A) = Len(replay) + 1 /\ A[Len(replay) + 1] = f /\ Len(replay) \in Nat
       /\ \A i \in 1..Len(replay) : A[i] = replay[i]
       /\ \A i \in 1..Len(A) : i \in 1..Len(replay) \/ i = Len(replay) + 1
  BY <1>8, <1>11, AppendFrames
<1> HIDE DEF A
<1>14. out'[c] = A /\ \A d \in Conn : d # c => out'[d] = out[d]
  <2>1. out'[c] = <<>> \o A /\ \A d \in Conn : d # c => out'[d] = out[d]
    BY <1>0, <1>6, <1>12 DEF TypeOK, A
  <2> QED BY <2>1, <1>13
<1>15. Coming' = A
  <2>1. Coming' = <<>> \o A
    BY <1>2, <1>3, <1>6, <1>12, <1>14 DEF Coming, Waiting
  <2> QED BY <2>1, <1>13
<1>16. ASSUME NEW i \in 1..Len(A) PROVE Numbered(A[i]) /\ (A[i].op = "READY" => A[i].s > cseq) /\ A[i] \in Frame
  BY <1>8, <1>11, <1>13
<1>17. PICK D : /\ Recorded(D)' /\ Agree(E[s], D[s], seq[s]) /\ Fits(D[s], f)
                /\ \A r \in Session : r # s => D[r] = E[r]
  <2>1. PICK h \in Nat : h = given[s]
    BY <1>7
  <2>2. given' = [given EXCEPT ![s] = h]
    BY <2>1, <1>6, <1>7
  <2>3. TypeOK /\ Recorded(E) /\ Number(s, f) /\ f.op # "EVENT"
    BY <1>0, <1>6, <1>8
  <2>4. \E D : /\ \A r \in Session : Record(D[r], buf'[r], seq'[r], given'[r])
               /\ Agree(E[s], D[s], seq[s]) /\ Fits(D[s], f)
               /\ \A r \in Session : r # s => D[r] = E[r]
    BY <2>1, <2>2, <2>3, <1>5, <1>8, NumberRecords
  <2> QED BY <2>4 DEF Recorded
<1>18. seq' = [seq EXCEPT ![s] = seq[s] + 1] /\ seq'[s] = seq[s] + 1 /\ \A r \in Session : r # s => seq'[r] = seq[r]
  BY <1>5, <1>6, <1>7 DEF Number
<1>19. attached'[s] = c /\ \A r \in Session : r # s => attached'[r] = attached[r]
  BY <1>0, <1>5, <1>6 DEF TypeOK
<1>20. req'[c].op = "NONE" /\ \A d \in Conn : d # c => req'[d] = req[d]
  BY <1>0, <1>6 DEF TypeOK, NoReq
<1>21. Of' = s
  BY <1>4, <1>5, <1>6 DEF Of
<1>22. Flowing(D)'
  <2>1. Flow(A, cseq, D[s], seq[s] + 1, seq[s] + 1, slow)
    BY <1>7, <1>8, <1>11, <1>17, FlowNext DEF A
  <2>2. Owed' \in Nat /\ Owed' <= seq[s] + 1 /\ seq[s] + 1 \in Nat
    BY <1>7, <1>18, <1>21 DEF Owed
  <2>3. Flow(A, cseq, D[s], seq[s] + 1, Owed', slow)
    BY <2>1, <2>2, <1>13, FlowLess
  <2> QED BY <2>3, <1>6, <1>15, <1>18, <1>21 DEF Flowing
<1>23. Placed(D)' /\ Unplaced' /\ UpIsCur'
  <2>1. cseq \in 0..seq[s] /\ cseq >= 1 /\ Last(seen) = E[s][cseq]
    BY <1>0, <1>3, <1>4, <1>5, <1>6, <1>7 DEF Placed
  <2>2. D[s][cseq] = E[s][cseq] /\ cseq <= seq'[s]
    BY <2>1, <1>7, <1>17, <1>18 DEF Agree
  <2> QED BY <2>1, <2>2, <1>0, <1>4, <1>5, <1>6 DEF Placed, Unplaced, UpIsCur
<1>24. Unused'
  <2>1. ASSUME NEW d \in Conn, Fresh(d), d # c PROVE Fresh(d)'
    <3>1. d # s
      BY <2>1, <1>2 DEF Fresh
    <3> QED BY <3>1, <2>1, <1>3, <1>6, <1>18, <1>19 DEF Fresh
  <2> QED BY <2>1, <1>0, <1>2, <1>6, <1>14 DEF Unused
<1>25. Asking'
  BY <1>3, <1>6, <1>20 DEF Asking
<1>26. Refused'
  BY <1>15, <1>16 DEF Refused, Refuses, Numbered
<1>27. Begins'
  BY <1>4, <1>5, <1>6 DEF Begins
<1>28. Named'
  <2>1. \A i \in 1..Len(A) : A[i].op # "READY"
    <3> SUFFICES ASSUME NEW i \in 1..Len(A), A[i].op = "READY" PROVE FALSE
      OBVIOUS
    <3>1. A[i].s = 1 /\ A[i].s > cseq
      BY <1>16, FrameNumbers
    <3>2. cseq >= 1 /\ cseq \in Nat
      BY <1>0, <1>3, <1>4, <1>5 DEF Placed
    <3> QED BY <3>1, <3>2
  <2> QED BY <2>1, <1>15 DEF Named
<1>29. NoClose'
  <2>1. Unclosed(A)
    BY <1>16 DEF Unclosed, Numbered
  <2> QED BY <2>1, <1>0, <1>6, <1>14 DEF NoClose
<1>30. BelongsTo'
  BY <1>3, <1>6, <1>19, <1>21 DEF BelongsTo, Fresh
<1>31. LossIsAccountedFor'
  <2>1. Len(A) <= OutCap
    BY <1>11, <1>13, StreamAssumption
  <2> QED BY <2>1, <1>0, <1>6, <1>14 DEF LossIsAccountedFor, QueueBounded, InOrder, LossOnlyWhenSlow
<1> QED BY <1>17, <1>22, <1>23, <1>24, <1>25, <1>26, <1>27, <1>28, <1>29, <1>30, <1>31 DEF LossParts, Standing

\* At first the client has no socket and every history is empty.
LEMMA InitLoss == Init => LossInv
<1> SUFFICES ASSUME Init PROVE LossInv
  OBVIOUS
<1>1. IndInv
  BY InitStream
<1> DEFINE E == [s \in Session |-> [n \in {0} |-> 0]]
<1>2. ASSUME NEW s \in Session PROVE Record(E[s], buf[s], seq[s], given[s])
  <2>1. E[s][0] = 0 /\ buf[s] = <<>> /\ seq[s] = 0 /\ given[s] = 0
    BY DEF Init
  <2> HIDE DEF E
  <2>2. Counts(E[s], 0, 0)
    BY <2>1 DEF Counts
  <2>3. EndsAt(<<>>, 0) /\ Len(<<>>) <= ResumeBuffer
    BY StreamAssumption DEF EndsAt
  <2> QED BY <2>1, <2>2, <2>3 DEF Record
<1> HIDE DEF E
<1>3. Recorded(E)
  BY <1>2 DEF Recorded
<1>4. None \notin Conn /\ Session = Conn
  BY DEF Conn, None, Session
<1>5. Flowing(E) /\ Placed(E) /\ Unplaced /\ UpIsCur
  BY DEF Init, Flowing, Placed, Unplaced, UpIsCur
<1>6. Unused
  BY <1>4 DEF Init, Unused, Fresh
<1>7. Asking /\ Refused /\ Begins /\ Named /\ BelongsTo
  BY <1>4 DEF Init, Asking, Refused, Begins, Named, BelongsTo
<1>8. NoClose
  BY DEF Init, NoClose, Unclosed
<1>9. LossIsAccountedFor
  BY StreamAssumption DEF Init, LossIsAccountedFor, QueueBounded, InOrder, LossOnlyWhenSlow
<1> QED BY <1>1, <1>3, <1>5, <1>6, <1>7, <1>8, <1>9 DEF LossInv, LossParts, Standing

\* Every step of the server, of the client and of the network keeps the invariant.
LEMMA LossStep == LossInv /\ [Next]_vars => LossInv'
<1> SUFFICES ASSUME LossInv, [Next]_vars PROVE LossInv'
  OBVIOUS
<1>1. IndInv /\ IndInv'
  BY StreamStep DEF LossInv
<1>2. PICK E : LossParts(E)
  BY DEF LossInv
<1>3. \E D : LossParts(D)'
  <2>1. ASSUME NEW s \in Session, Deliver(s) PROVE \E D : LossParts(D)'
    BY <2>1, <1>1, <1>2, DeliverLoss
  <2>2. ASSUME NEW s \in Session, Expire(s) PROVE \E D : LossParts(D)'
    BY <2>2, <1>1, <1>2, TimersLoss
  <2>3. ASSUME NEW c \in Conn, Server(c) PROVE \E D : LossParts(D)'
    <3>1. CASE Write(c)
      BY <3>1, <1>1, <1>2, WriteLoss
    <3>2. CASE CloseWith(c)
      BY <3>2, <1>1, <1>2, CloseWithLoss
    <3>3. CASE HandleIdentify(c)
      BY <3>3, <1>1, <1>2, HandleIdentifyLoss
    <3>4. CASE HandleResume(c)
      BY <3>4, <1>1, <1>2, HandleResumeLoss
    <3>5. CASE RefuseResume(c)
      BY <3>5, <1>1, <1>2, RefuseResumeLoss
    <3>6. CASE ServeReturns(c)
      BY <3>6, <1>1, <1>2, TimersLoss
    <3> QED BY <2>3, <3>1, <3>2, <3>3, <3>4, <3>5, <3>6 DEF Server
  <2>4. ASSUME NEW c \in Conn, Watchdog(c) PROVE \E D : LossParts(D)'
    BY <2>4, <1>1, <1>2, TimersLoss
  <2>5. ASSUME NEW c \in Conn, Cut(c) PROVE \E D : LossParts(D)'
    BY <2>5, <1>1, <1>2, CutLoss
  <2>6. ASSUME Restart PROVE \E D : LossParts(D)'
    BY <2>6, <1>1, <1>2, RestartLoss
  <2>7. ASSUME NEW c \in Conn, Connect(c) PROVE \E D : LossParts(D)'
    BY <2>7, <1>1, <1>2, ConnectLoss
  <2>8. ASSUME NEW f, ReadDispatch(f) PROVE \E D : LossParts(D)'
    BY <2>8, <1>1, <1>2, ReadDispatchLoss
  <2>9. ASSUME NEW f, ReadInvalid(f) PROVE \E D : LossParts(D)'
    BY <2>9, <1>1, <1>2, ReadInvalidLoss
  <2>10. ASSUME NEW f, ReadReconnect(f) \/ ReadClose(f) \/ Panic(f) PROVE \E D : LossParts(D)'
    <3>1. f \in Frame
      BY <2>10, <1>1 DEF ReadReconnect, ReadClose, Panic, Read, IndInv, TypeOK
    <3> QED BY <3>1, <2>10, <1>1, <1>2, AwayLoss
  <2>11. ASSUME LinkLost PROVE \E D : LossParts(D)'
    BY <2>11, <1>1, <1>2, AwayLoss
  <2>12. ASSUME UNCHANGED vars PROVE \E D : LossParts(D)'
    BY <2>12, <1>1, <1>2, TimersLoss
  <2> QED BY <2>1, <2>2, <2>3, <2>4, <2>5, <2>6, <2>7, <2>8, <2>9, <2>10, <2>11, <2>12 DEF Next, Client
<1> QED BY <1>1, <1>3 DEF LossInv

\* For every number of sockets and events and every size of buffer and queue: no queue passes its
\* bound, a replay and its RESUMED included; the sink is handed a session's events in order and none
\* twice; and none is skipped unless a frame found a queue full, across cuts, closes, resumes,
\* refusals, expiries and restarts.
THEOREM LossAccountedForEver == Spec => []LossIsAccountedFor
<1>1. LossInv => LossIsAccountedFor
  BY DEF LossInv, LossParts, Standing
<1> QED BY <1>1, InitLoss, LossStep, PTL DEF Spec

\* While no queue has been full, what the sink is handed is a reliable stream: every step hands on
\* the session's next event, begins afresh, or changes nothing.
LEMMA ReliableStep ==
  ASSUME LossInv, LossInv', [Next]_vars, slow = {}
  PROVE  [Reliable!Next]_seen
<1>1. IndInv /\ IndInv'
  BY DEF LossInv
<1>2. PICK E : LossParts(E)
  BY DEF LossInv
<1>3. ASSUME NEW f, ReadDispatch(f) PROVE seen' = seen \/ seen' = Append(seen, Len(seen) + 1)
  BY <1>3, <1>1, <1>2, ReadDispatchLoss
<1>4. ASSUME NEW c \in Conn, Connect(c) PROVE seen' = seen \/ seen' = <<>>
  BY <1>4 DEF Connect, Open
<1>5. ASSUME NEW f, ReadInvalid(f) PROVE seen' = <<>>
  BY <1>5 DEF ReadInvalid, Open
<1>6. ASSUME NEW f, ReadReconnect(f) \/ ReadClose(f) \/ Panic(f) \/ LinkLost PROVE seen' = seen
  BY <1>6 DEF ReadReconnect, ReadClose, Panic, LinkLost
<1>7. ASSUME NEW s \in Session, Deliver(s) \/ Expire(s) PROVE seen' = seen
  BY <1>7 DEF Deliver, Expire, client
<1>8. ASSUME NEW c \in Conn, Server(c) \/ Watchdog(c) \/ Cut(c) PROVE seen' = seen
  BY <1>8 DEF Server, Write, CloseWith, HandleIdentify, HandleResume, RefuseResume, ServeReturns, Watchdog, Cut, client
<1>9. ASSUME Restart \/ UNCHANGED vars PROVE seen' = seen
  BY <1>9 DEF Restart, vars, client
<1>10. seen' = seen \/ seen' = <<>> \/ seen' = Append(seen, Len(seen) + 1)
  BY <1>3, <1>4, <1>5, <1>6, <1>7, <1>8, <1>9 DEF Next, Client
<1> QED BY <1>10 DEF Reliable!Next, Reliable!Receive, Reliable!Begin

\* The gateway and its client implement the reliable stream for as long as no queue is found full:
\* the session's events from the first, in order and without a gap, or a fresh beginning.
THEOREM ReliableWhileNotSlow == Spec /\ [](slow = {}) => IsReliable
<1>1. Init => Reliable!Init
  BY DEF Init, Reliable!Init
<1>2. LossInv /\ LossInv' /\ [Next]_vars /\ slow = {} => [Reliable!Next]_seen
  BY ReliableStep
<1> QED BY <1>1, <1>2, InitLoss, LossStep, PTL DEF Spec, IsReliable, Reliable!Spec
=============================================================================
