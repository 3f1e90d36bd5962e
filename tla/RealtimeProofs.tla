----------------------------- MODULE RealtimeProofs ----------------------------
(***************************************************************************)
(* What reaches a connected client, for any number of accounts, guilds,    *)
(* sessions, rooms, connections, nodes and sockets.  Each part of          *)
(* MCRealtime has an inductive invariant that its own steps keep; the      *)
(* theorems at the end put the parts together.                             *)
(***************************************************************************)
EXTENDS MCRealtime, FiniteSetTheorems, WellFoundedInduction, TLAPS

--------------------------------------------------------------------------------
(* Induction over the natural numbers, stated of a set.                    *)

\* A set of naturals that is not empty has a least member.
LEMMA LeastNat ==
  ASSUME NEW T, T \subseteq Nat, T # {} PROVE \E n \in T : \A m \in T : n <= m
<1> DEFINE R == {p \in Nat \X Nat : p[1] < p[2]}
<1>1. IsWellFoundedOn(R, Nat)
  BY NatLessThanWellFounded, Zenon DEF OpToRel
<1>2. PICK n \in T : \A m \in T : ~(<<m, n>> \in R)
  <2> HIDE DEF R
  <2> QED BY <1>1, WFMin
<1>3. ASSUME NEW m \in T PROVE n <= m
  <2>1. m \in Nat /\ n \in Nat /\ <<m, n>> \notin R
    BY <1>2
  <2>2. ~(m < n)
    BY <2>1
  <2> HIDE DEF R
  <2> QED BY <2>1, <2>2
<1> QED BY <1>3

\* A set that holds 0 and with every natural its successor holds them all.
LEMMA SetInduction ==
  ASSUME NEW P, 0 \in P, \A n \in Nat : n \in P => n + 1 \in P PROVE Nat \subseteq P
<1> SUFFICES ASSUME Nat \ P # {} PROVE FALSE
  OBVIOUS
<1>1. PICK n \in Nat \ P : \A m \in Nat \ P : n <= m
  BY LeastNat
<1>2. n # 0 /\ n - 1 \in Nat
  BY <1>1
<1>3. n - 1 \in P
  BY <1>1, <1>2
<1> QED BY <1>1, <1>2, <1>3, (n - 1) + 1 = n

--------------------------------------------------------------------------------
(* Fan-out of guild events.                                                *)


\* The domains of the functions the index is about.
IndexTypes ==
  /\ state \in [Sess -> {"new", "open", "ready", "ended"}]
  /\ sguilds = [s \in Sess |-> sguilds[s]]
  /\ byGuild = [g \in Guild |-> byGuild[g]]

\* What the proof carries from step to step.
IndInv == IndexTypes /\ IndexIsExact

\* No session is in the index at first, and none is ready.
LEMMA InitIndex == Init => IndInv
BY DEF Init, IndInv, IndexTypes, IndexIsExact

\* A step that leaves the index and the sessions' states and sets alone keeps it.
LEMMA SameIndex ==
  ASSUME IndInv, UNCHANGED <<index, state, sguilds>>
  PROVE  IndInv'
BY DEF IndInv, IndexTypes, IndexIsExact, index

\* Applying events to a session that is, or becomes, READY moves its set and its entries
\* together (applyLocked, joined and left).
LEMMA ApplyKeepsIndex ==
  ASSUME IndInv, NEW s \in Sess, NEW set, NEW events, ApplyAll(s, set, events),
         state' = [state EXCEPT ![s] = "ready"], state[s] \in {"open", "ready"},
         byUser' = byUser, unready' = unready \ {s}
  PROVE  IndInv'
<1>1. PICK new :
        /\ sguilds' = [sguilds EXCEPT ![s] = new]
        /\ byGuild' = [g \in Guild |-> IF g \in new THEN byGuild[g] \cup {s} ELSE byGuild[g] \ {s}]
  BY DEF ApplyAll
<1>2. IndexTypes'
  BY <1>1 DEF IndInv, IndexTypes
<1>3. sguilds'[s] = new /\ \A r \in Sess \ {s} : sguilds'[r] = sguilds[r]
  BY <1>1 DEF IndInv, IndexTypes
<1>4. state'[s] = "ready" /\ \A r \in Sess \ {s} : state'[r] = state[r]
  BY DEF IndInv, IndexTypes
<1>5. byUser' = {r \in Sess : state'[r] \in {"open", "ready"}}
  BY <1>4 DEF IndInv, IndexIsExact
<1>6. unready' = {r \in Sess : state'[r] = "open"}
  BY <1>4 DEF IndInv, IndexIsExact
<1>7. ASSUME NEW g \in Guild
      PROVE  byGuild'[g] = {r \in Sess : state'[r] = "ready" /\ g \in sguilds'[r]}
  <2>1. byGuild[g] = {r \in Sess : state[r] = "ready" /\ g \in sguilds[r]}
    BY DEF IndInv, IndexIsExact
  <2>2. CASE g \in new
    <3>1. byGuild'[g] = byGuild[g] \cup {s}
      BY <1>1, <2>2
    <3> QED BY <3>1, <2>1, <2>2, <1>3, <1>4
  <2>3. CASE g \notin new
    <3>1. byGuild'[g] = byGuild[g] \ {s}
      BY <1>1, <2>3
    <3> QED BY <3>1, <2>1, <2>3, <1>3, <1>4
  <2> QED BY <2>2, <2>3
<1> QED BY <1>2, <1>5, <1>6, <1>7 DEF IndInv, IndexIsExact

\* Every step of the fan-out keeps the index exact.
LEMMA IndexStep == IndInv /\ [Next]_vars => IndInv'
<1> SUFFICES ASSUME IndInv, [Next]_vars PROVE IndInv'
  OBVIOUS
<1>1. CASE Transaction
  <2>1. UNCHANGED <<index, state, sguilds>>
    BY <1>1 DEF Transaction, Join, RemoveMember, DeleteGuild, Post, Commit, sessions
  <2> QED BY <2>1, SameIndex
<1>2. ASSUME NEW o \in Op, Publish(o) PROVE IndInv'
  BY <1>2, SameIndex DEF Publish, sessions
<1>3. CASE OnEvent
  BY <1>3, SameIndex DEF OnEvent, sessions
<1>4. ASSUME NEW l \in Lane, Pick(l) \/ Check(l) PROVE IndInv'
  BY <1>4, SameIndex DEF Pick, Check, sessions
<1>5. ASSUME NEW l \in Lane, NEW s \in Sess, Deliver(l, s) PROVE IndInv'
  <2>1. CASE UNCHANGED <<stream, sguilds, byGuild>>
    BY <2>1, <1>5, SameIndex DEF Deliver, index
  <2>2. CASE state[s] = "ready" /\ ApplyAll(s, sguilds[s], <<work[l].ev>>)
    <3>1. state' = [state EXCEPT ![s] = "ready"] /\ unready' = unready \ {s} /\ byUser' = byUser
      <4>1. s \notin unready
        BY <2>2 DEF IndInv, IndexIsExact
      <4>2. UNCHANGED <<byUser, unready, state>>
        BY <1>5 DEF Deliver
      <4> QED BY <4>1, <4>2, <2>2 DEF IndInv, IndexTypes
    <3> QED BY <2>2, <3>1, ApplyKeepsIndex
  <2> QED BY <1>5, <2>1, <2>2 DEF Deliver
<1>6. ASSUME NEW s \in Sess, Register(s) PROVE IndInv'
  <2>1. /\ state[s] = "new" /\ state' = [state EXCEPT ![s] = "open"]
        /\ byUser' = byUser \cup {s} /\ unready' = unready \cup {s}
        /\ UNCHANGED <<byGuild, sguilds>>
    BY <1>6 DEF Register
  <2>2. state'[s] = "open" /\ \A r \in Sess \ {s} : state'[r] = state[r]
    BY <2>1 DEF IndInv, IndexTypes
  <2>3. IndexTypes'
    BY <2>1 DEF IndInv, IndexTypes
  <2>4. byUser' = {r \in Sess : state'[r] \in {"open", "ready"}}
    BY <2>1, <2>2 DEF IndInv, IndexIsExact
  <2>5. unready' = {r \in Sess : state'[r] = "open"}
    BY <2>1, <2>2 DEF IndInv, IndexIsExact
  <2>6. ASSUME NEW g \in Guild
        PROVE  byGuild'[g] = {r \in Sess : state'[r] = "ready" /\ g \in sguilds'[r]}
    BY <2>1, <2>2 DEF IndInv, IndexIsExact
  <2> QED BY <2>3, <2>4, <2>5, <2>6 DEF IndInv, IndexIsExact
<1>7. ASSUME NEW s \in Sess, ReadGuilds(s) PROVE IndInv'
  BY <1>7, SameIndex DEF ReadGuilds
<1>8. ASSUME NEW s \in Sess, BecomeReady(s) PROVE IndInv'
  <2>1. /\ ApplyAll(s, read[s].guilds, pending[s])
        /\ state' = [state EXCEPT ![s] = "ready"] /\ state[s] \in {"open", "ready"}
        /\ byUser' = byUser /\ unready' = unready \ {s}
    BY <1>8 DEF BecomeReady
  <2> QED BY <2>1, ApplyKeepsIndex
<1>9. ASSUME NEW s \in Sess, Stop(s) PROVE IndInv'
  <2>1. /\ state' = [state EXCEPT ![s] = "ended"]
        /\ byUser' = byUser \ {s} /\ unready' = unready \ {s}
        /\ byGuild' = [g \in Guild |-> IF g \in sguilds[s] THEN byGuild[g] \ {s} ELSE byGuild[g]]
        /\ UNCHANGED sguilds
    BY <1>9 DEF Stop
  <2>2. state'[s] = "ended" /\ \A r \in Sess \ {s} : state'[r] = state[r]
    BY <2>1 DEF IndInv, IndexTypes
  <2>3. IndexTypes'
    BY <2>1 DEF IndInv, IndexTypes
  <2>4. byUser' = {r \in Sess : state'[r] \in {"open", "ready"}}
    BY <2>1, <2>2 DEF IndInv, IndexIsExact
  <2>5. unready' = {r \in Sess : state'[r] = "open"}
    BY <2>1, <2>2 DEF IndInv, IndexIsExact
  <2>6. ASSUME NEW g \in Guild
        PROVE  byGuild'[g] = {r \in Sess : state'[r] = "ready" /\ g \in sguilds'[r]}
    <3>1. byGuild[g] = {r \in Sess : state[r] = "ready" /\ g \in sguilds[r]}
      BY DEF IndInv, IndexIsExact
    <3>2. byGuild'[g] = byGuild[g] \ {s}
      <4>1. CASE g \in sguilds[s]
        BY <4>1, <2>1
      <4>2. CASE g \notin sguilds[s]
        BY <4>2, <2>1, <3>1
      <4> QED BY <4>1, <4>2
    <3> QED BY <3>1, <3>2, <2>1, <2>2
  <2> QED BY <2>3, <2>4, <2>5, <2>6 DEF IndInv, IndexIsExact
<1>10. CASE UNCHANGED vars
  BY <1>10, SameIndex DEF vars, sessions
<1> QED BY <1>1, <1>2, <1>3, <1>4, <1>5, <1>6, <1>7, <1>8, <1>9, <1>10 DEF Next, FanOut

\* In every reachable state the index is exact: fan-out never misses a session for want of an
\* entry, and a dropped session is never a candidate again (index.go; session.go, deliver, stop).
THEOREM IndexAlwaysExact == Spec => []IndexIsExact
BY InitIndex, IndexStep, PTL DEF Spec, IndInv

\* The values that events applied in turn go through.
Runs(f, base, events) ==
  /\ f[0] = base /\ \A i \in 1..Len(events) : f[i] = Apply(f[i - 1], events[i])
  /\ Applied(base, events) = f[Len(events)]

\* There are such values, in any set that is closed under the events.
LEMMA AppliedRun ==
  ASSUME NEW base, NEW events, Len(events) \in Nat, NEW P, base \in P,
         \A a \in P : \A n \in 1..Len(events) : Apply(a, events[n]) \in P
  PROVE  \E f \in [0..Len(events) -> P] : Runs(f, base, events)
<1> DEFINE N == Len(events)
<1> DEFINE Def(f) == [n \in 0..N |-> IF n = 0 THEN base ELSE Apply(f[n - 1], events[n])]
<1> DEFINE acc == CHOOSE f : f = Def(f)
<1> DEFINE Goes(n, f) == f[0] = base /\ \A i \in 1..n : f[i] = Apply(f[i - 1], events[i])
<1> DEFINE Q == {n \in Nat : n <= N => \E f \in [0..n -> P] : Goes(n, f)}
<1>1. 0 \in Q
  <2> DEFINE f == [i \in 0..0 |-> base]
  <2>1. f \in [0..0 -> P] /\ Goes(0, f)
    OBVIOUS
  <2> QED BY <2>1
<1>2. ASSUME NEW n \in Nat, n \in Q PROVE n + 1 \in Q
  <2> SUFFICES ASSUME n + 1 <= N PROVE \E f \in [0..(n + 1) -> P] : Goes(n + 1, f)
    OBVIOUS
  <2>1. PICK f \in [0..n -> P] : Goes(n, f)
    BY <1>2
  <2> DEFINE g == [i \in 0..(n + 1) |-> IF i = n + 1 THEN Apply(f[n], events[n + 1]) ELSE f[i]]
  <2>2. f[n] \in P /\ n + 1 \in 1..N
    OBVIOUS
  <2>3. g \in [0..(n + 1) -> P]
    BY <2>2
  <2>4. g[0] = base
    BY <2>1
  <2>5. ASSUME NEW i \in 1..(n + 1) PROVE g[i] = Apply(g[i - 1], events[i])
    <3>1. i - 1 \in 0..n /\ g[i - 1] = f[i - 1]
      OBVIOUS
    <3>2. CASE i = n + 1
      BY <3>1, <3>2
    <3>3. CASE i # n + 1
      <4>1. i \in 1..n /\ g[i] = f[i]
        BY <3>3
      <4> QED BY <2>1, <3>1, <4>1
    <3> QED BY <3>2, <3>3
  <2> QED BY <2>3, <2>4, <2>5
<1>3. N \in Q
  <2> HIDE DEF Q
  <2>1. Nat \subseteq Q
    BY <1>1, <1>2, SetInduction
  <2> QED BY <2>1
<1>4. PICK f \in [0..N -> P] : Goes(N, f)
  BY <1>3
<1>5. f = Def(f)
  BY <1>4
<1>6. acc = Def(acc)
  <2> HIDE DEF Def
  <2> QED BY <1>5
<1> HIDE DEF acc
<1> DEFINE R == {n \in Nat : n <= N => acc[n] \in P}
<1>7. 0 \in R
  BY <1>6
<1>8. ASSUME NEW n \in Nat, n \in R PROVE n + 1 \in R
  <2> SUFFICES ASSUME n + 1 <= N PROVE acc[n + 1] \in P
    OBVIOUS
  <2>1. acc[n + 1] = Apply(acc[n], events[n + 1])
    BY <1>6
  <2> QED BY <1>8, <2>1
<1>9. \A n \in 0..N : acc[n] \in P
  <2> HIDE DEF R
  <2>1. Nat \subseteq R
    BY <1>7, <1>8, SetInduction
  <2> QED BY <2>1 DEF R
<1>10. acc \in [0..N -> P]
  BY <1>6, <1>9
<1>11. Applied(base, events) = acc[N]
  BY DEF Applied, acc
<1>12. Goes(N, acc)
  BY <1>6
<1> QED BY <1>10, <1>11, <1>12 DEF Runs

\* What holds of a session's set and stream, and is kept by each event applied, holds of
\* what all of them make (becomeReady, applyLocked).
LEMMA AppliedStays ==
  ASSUME NEW base, NEW events, Len(events) \in Nat, NEW P, base \in P,
         \A a \in P : \A n \in 1..Len(events) : Apply(a, events[n]) \in P
  PROVE  Applied(base, events) \in P
<1>1. PICK f \in [0..Len(events) -> P] : Runs(f, base, events)
  BY AppliedRun
<1> QED BY <1>1 DEF Runs

--------------------------------------------------------------------------------
(* Counting.                                                               *)

\* A set that gains a member counts one more.
LEMMA OneMore ==
  ASSUME NEW S, IsFiniteSet(S), NEW x, x \notin S
  PROVE  /\ IsFiniteSet(S \cup {x}) /\ Cardinality(S) \in Nat
         /\ Cardinality(S \cup {x}) = Cardinality(S) + 1
BY FS_AddElement, FS_CardinalityType

\* A set that loses a member counts one less.
LEMMA OneLess ==
  ASSUME NEW S, IsFiniteSet(S), NEW x, x \in S
  PROVE  /\ IsFiniteSet(S \ {x}) /\ Cardinality(S) \in Nat \ {0}
         /\ Cardinality(S \ {x}) = Cardinality(S) - 1
<1>1. IsFiniteSet(S \ {x}) /\ Cardinality(S \ {x}) = Cardinality(S) - 1
  BY FS_RemoveElement
<1>2. Cardinality(S) \in Nat /\ Cardinality(S) # 0
  BY FS_CardinalityType, FS_EmptySet
<1> QED BY <1>1, <1>2

\* A count that follows the one member its set gains or loses stays its count.
LEMMA Recounted ==
  ASSUME NEW S, NEW T, NEW n, NEW m, IsFiniteSet(S), n = Cardinality(S),
         \/ T = S /\ m = n
         \/ \E x \in S : T = S \ {x} /\ m = n - 1
         \/ \E x : x \notin S /\ T = S \cup {x} /\ m = n + 1
  PROVE  IsFiniteSet(T) /\ m = Cardinality(T) /\ m \in Nat
<1>1. CASE T = S /\ m = n
  BY <1>1, FS_CardinalityType
<1>2. ASSUME NEW x \in S, T = S \ {x}, m = n - 1 PROVE IsFiniteSet(T) /\ m = Cardinality(T) /\ m \in Nat
  BY <1>2, OneLess
<1>3. ASSUME NEW x, x \notin S, T = S \cup {x}, m = n + 1
      PROVE  IsFiniteSet(T) /\ m = Cardinality(T) /\ m \in Nat
  BY <1>3, OneMore
<1> QED BY <1>1, <1>2, <1>3

--------------------------------------------------------------------------------
(* The TURN server's counters.                                             *)

RelaysHeld == {a \in Asks : ask[a] = "reserved" \/ socket[a] = "open"}
AllocationsHeld == {a \in Asks : ask[a] = "held"}
StreamsHeld == {t \in Streams : turnStream[t] \in {"live", "closing"}}

\* What is counted is finite, and an allocation has no socket before its relay is bound,
\* so that binding one neither adds to the count nor takes from it.
RelayInv ==
  /\ TurnTypeOK /\ RelaysCounted
  /\ IsFiniteSet(RelaysHeld) /\ IsFiniteSet(AllocationsHeld) /\ IsFiniteSet(StreamsHeld)
  /\ \A a \in Asks : ask[a] \in {"none", "asked", "reserved"} => socket[a] = "none"

\* Nothing is held at first.
LEMMA RelayInitInv == TurnInit => RelayInv
<1> SUFFICES ASSUME TurnInit PROVE RelayInv
  OBVIOUS
<1>1. RelaysHeld = {} /\ AllocationsHeld = {} /\ StreamsHeld = {}
  BY DEF TurnInit, RelaysHeld, AllocationsHeld, StreamsHeld
<1>2. RelaysCounted /\ IsFiniteSet(RelaysHeld) /\ IsFiniteSet(AllocationsHeld) /\ IsFiniteSet(StreamsHeld)
  BY <1>1, FS_EmptySet DEF TurnInit, RelaysCounted, RelaysHeld, AllocationsHeld, StreamsHeld
<1>3. TurnTypeOK
  <2>1. {streamCount, total, sourceCount} \subseteq Nat
    BY DEF TurnInit
  <2>6. turnClosed \in BOOLEAN
    BY DEF TurnInit
  <2>2. turnStream \in [Streams -> {"out", "live", "closing", "closed"}]
    BY DEF TurnInit
  <2>3. via \in [Asks -> Streams \cup {UDPPort}]
    BY DEF TurnInit
  <2>4. ask \in [Asks -> {"none", "asked", "reserved", "bound", "held", "ended"}]
    BY DEF TurnInit
  <2>5. socket \in [Asks -> {"none", "open", "closed"}]
    BY DEF TurnInit
  <2> QED BY <2>1, <2>2, <2>3, <2>4, <2>5, <2>6 DEF TurnTypeOK
<1> QED BY <1>2, <1>3 DEF TurnInit, RelayInv

\* What a step must do to the three counts and the sets they count.
LEMMA RelayCounts ==
  ASSUME RelayInv,
         \/ RelaysHeld' = RelaysHeld /\ total' = total
         \/ \E a \in RelaysHeld : RelaysHeld' = RelaysHeld \ {a} /\ total' = total - 1
         \/ \E a \in Asks \ RelaysHeld : RelaysHeld' = RelaysHeld \cup {a} /\ total' = total + 1,
         \/ AllocationsHeld' = AllocationsHeld /\ sourceCount' = sourceCount
         \/ \E a \in AllocationsHeld :
              AllocationsHeld' = AllocationsHeld \ {a} /\ sourceCount' = sourceCount - 1
         \/ \E a \in Asks \ AllocationsHeld :
              AllocationsHeld' = AllocationsHeld \cup {a} /\ sourceCount' = sourceCount + 1,
         \/ StreamsHeld' = StreamsHeld /\ streamCount' = streamCount
         \/ \E t \in StreamsHeld : StreamsHeld' = StreamsHeld \ {t} /\ streamCount' = streamCount - 1
         \/ \E t \in Streams \ StreamsHeld :
              StreamsHeld' = StreamsHeld \cup {t} /\ streamCount' = streamCount + 1
  PROVE  /\ RelaysCounted' /\ {streamCount, total, sourceCount}' \subseteq Nat
         /\ (IsFiniteSet(RelaysHeld) /\ IsFiniteSet(AllocationsHeld) /\ IsFiniteSet(StreamsHeld))'
<1>0. /\ IsFiniteSet(RelaysHeld) /\ total = Cardinality(RelaysHeld) /\ total \in Nat
      /\ IsFiniteSet(AllocationsHeld) /\ sourceCount = Cardinality(AllocationsHeld) /\ sourceCount \in Nat
      /\ IsFiniteSet(StreamsHeld) /\ streamCount = Cardinality(StreamsHeld) /\ streamCount \in Nat
  BY DEF RelayInv, RelaysCounted, RelaysHeld, AllocationsHeld, StreamsHeld, TurnTypeOK
<1>1. IsFiniteSet(RelaysHeld') /\ total' = Cardinality(RelaysHeld') /\ total' \in Nat
  BY <1>0, Recounted
<1>2. IsFiniteSet(AllocationsHeld') /\ sourceCount' = Cardinality(AllocationsHeld') /\ sourceCount' \in Nat
  BY <1>0, Recounted
<1>3. IsFiniteSet(StreamsHeld') /\ streamCount' = Cardinality(StreamsHeld') /\ streamCount' \in Nat
  BY <1>0, Recounted
<1> QED BY <1>1, <1>2, <1>3 DEF RelaysCounted, RelaysHeld, AllocationsHeld, StreamsHeld

\* Each step takes on or gives up at most one of each thing counted, with its counter.
LEMMA RelayStepInv == RelayInv /\ TurnNext => RelayInv'
<1> SUFFICES ASSUME RelayInv, TurnNext PROVE RelayInv'
  OBVIOUS
<1> DEFINE Rest == /\ turnStream' \in [Streams -> {"out", "live", "closing", "closed"}]
                   /\ ask' \in [Asks -> {"none", "asked", "reserved", "bound", "held", "ended"}]
                   /\ via' \in [Asks -> Streams \cup {UDPPort}]
                   /\ socket' \in [Asks -> {"none", "open", "closed"}] /\ turnClosed' \in BOOLEAN
                   /\ \A a \in Asks : ask'[a] \in {"none", "asked", "reserved"} => socket'[a] = "none"
<1>0. /\ TurnTypeOK
      /\ \A a \in Asks : ask[a] \in {"none", "asked", "reserved"} => socket[a] = "none"
  BY DEF RelayInv
<1>s. UNCHANGED turnStream => StreamsHeld' = StreamsHeld
  BY DEF StreamsHeld
<1>a. UNCHANGED ask => AllocationsHeld' = AllocationsHeld
  BY DEF AllocationsHeld
<1>r. UNCHANGED <<ask, socket>> => RelaysHeld' = RelaysHeld
  BY DEF RelaysHeld
<1>q. ASSUME Rest, RelaysCounted', {streamCount, total, sourceCount}' \subseteq Nat,
             (IsFiniteSet(RelaysHeld) /\ IsFiniteSet(AllocationsHeld) /\ IsFiniteSet(StreamsHeld))'
      PROVE  RelayInv'
  BY <1>q DEF RelayInv, TurnTypeOK
<1>1. CASE CloseServer
  <2>1. Rest
    BY <1>0, <1>1 DEF CloseServer, TurnTypeOK
  <2> HIDE DEF Rest
  <2> QED BY <1>1, <1>s, <1>a, <1>r, <1>q, <2>1, RelayCounts DEF CloseServer
<1>2. ASSUME NEW t \in Streams, AdmitStream(t) PROVE RelayInv'
  <2>1. Rest
    BY <1>0, <1>2 DEF AdmitStream, TurnTypeOK
  <2>2. t \notin StreamsHeld /\ StreamsHeld' = StreamsHeld \cup {t}
    BY <1>0, <1>2 DEF AdmitStream, TurnTypeOK, StreamsHeld
  <2> HIDE DEF Rest
  <2> QED BY <1>2, <1>a, <1>r, <1>q, <2>1, <2>2, RelayCounts DEF AdmitStream
<1>3. ASSUME NEW t \in Streams, CloseStream(t) PROVE RelayInv'
  <2>1. Rest
    BY <1>0, <1>3 DEF CloseStream, TurnTypeOK
  <2>2. StreamsHeld' = StreamsHeld
    BY <1>0, <1>3 DEF CloseStream, TurnTypeOK, StreamsHeld
  <2> HIDE DEF Rest
  <2> QED BY <1>3, <1>a, <1>r, <1>q, <2>1, <2>2, RelayCounts DEF CloseStream
<1>4. ASSUME NEW t \in Streams, ReleaseStream(t) PROVE RelayInv'
  <2>1. Rest
    BY <1>0, <1>4 DEF ReleaseStream, TurnTypeOK
  <2>2. t \in StreamsHeld /\ StreamsHeld' = StreamsHeld \ {t}
    BY <1>0, <1>4 DEF ReleaseStream, TurnTypeOK, StreamsHeld
  <2> HIDE DEF Rest
  <2> QED BY <1>4, <1>a, <1>r, <1>q, <2>1, <2>2, RelayCounts DEF ReleaseStream
<1>5. ASSUME NEW a \in Asks, NEW g \in Streams \cup {UDPPort}, Quota(a, g) PROVE RelayInv'
  <2>1. Rest
    BY <1>0, <1>5 DEF Quota, TurnTypeOK
  <2>2. RelaysHeld' = RelaysHeld /\ AllocationsHeld' = AllocationsHeld
    BY <1>0, <1>5 DEF Quota, TurnTypeOK, RelaysHeld, AllocationsHeld
  <2> HIDE DEF Rest
  <2> QED BY <1>5, <1>s, <1>q, <2>1, <2>2, RelayCounts DEF Quota
<1>6. ASSUME NEW a \in Asks, ReserveRelay(a) PROVE RelayInv'
  <2>1. Rest
    BY <1>0, <1>6 DEF ReserveRelay, TurnTypeOK
  <2>2. AllocationsHeld' = AllocationsHeld
    BY <1>0, <1>6 DEF ReserveRelay, TurnTypeOK, AllocationsHeld
  <2>3. \/ RelaysHeld' = RelaysHeld /\ total' = total
        \/ a \in Asks \ RelaysHeld /\ RelaysHeld' = RelaysHeld \cup {a} /\ total' = total + 1
    BY <1>0, <1>6 DEF ReserveRelay, TurnTypeOK, RelaysHeld
  <2> HIDE DEF Rest
  <2> QED BY <1>6, <1>s, <1>q, <2>1, <2>2, <2>3, RelayCounts DEF ReserveRelay
<1>7. ASSUME NEW a \in Asks, BindRelay(a) PROVE RelayInv'
  <2>1. Rest
    BY <1>0, <1>7 DEF BindRelay, TurnTypeOK
  <2>2. AllocationsHeld' = AllocationsHeld
    BY <1>0, <1>7 DEF BindRelay, TurnTypeOK, AllocationsHeld
  <2>3. \/ RelaysHeld' = RelaysHeld /\ total' = total
        \/ a \in RelaysHeld /\ RelaysHeld' = RelaysHeld \ {a} /\ total' = total - 1
    BY <1>0, <1>7 DEF BindRelay, TurnTypeOK, RelaysHeld
  <2> HIDE DEF Rest
  <2> QED BY <1>7, <1>s, <1>q, <2>1, <2>2, <2>3, RelayCounts DEF BindRelay
<1>8. ASSUME NEW a \in Asks, Created(a) PROVE RelayInv'
  <2>1. Rest
    BY <1>0, <1>8 DEF Created, TurnTypeOK
  <2>2. a \in Asks \ AllocationsHeld /\ AllocationsHeld' = AllocationsHeld \cup {a}
    BY <1>0, <1>8 DEF Created, TurnTypeOK, AllocationsHeld
  <2>3. RelaysHeld' = RelaysHeld
    BY <1>0, <1>8 DEF Created, TurnTypeOK, RelaysHeld
  <2> HIDE DEF Rest
  <2> QED BY <1>8, <1>s, <1>q, <2>1, <2>2, <2>3, RelayCounts DEF Created
<1>9. ASSUME NEW a \in Asks, CloseRelay(a) PROVE RelayInv'
  <2>1. Rest
    BY <1>0, <1>9 DEF CloseRelay, TurnTypeOK
  <2>2. a \in RelaysHeld /\ RelaysHeld' = RelaysHeld \ {a}
    BY <1>0, <1>9 DEF CloseRelay, TurnTypeOK, RelaysHeld
  <2> HIDE DEF Rest
  <2> QED BY <1>9, <1>s, <1>a, <1>q, <2>1, <2>2, RelayCounts DEF CloseRelay
<1>10. ASSUME NEW a \in Asks, Deleted(a) PROVE RelayInv'
  <2>1. Rest
    BY <1>0, <1>10 DEF Deleted, TurnTypeOK
  <2>2. a \in AllocationsHeld /\ AllocationsHeld' = AllocationsHeld \ {a}
    BY <1>0, <1>10 DEF Deleted, TurnTypeOK, AllocationsHeld
  <2>3. RelaysHeld' = RelaysHeld
    BY <1>0, <1>10 DEF Deleted, TurnTypeOK, RelaysHeld
  <2> HIDE DEF Rest
  <2> QED BY <1>10, <1>s, <1>q, <2>1, <2>2, <2>3, RelayCounts DEF Deleted
<1> HIDE DEF Rest
<1> QED BY <1>1, <1>2, <1>3, <1>4, <1>5, <1>6, <1>7, <1>8, <1>9, <1>10 DEF TurnNext

\* Steps of the other parts change nothing here.
LEMMA RelayStutterInv == RelayInv /\ UNCHANGED turnVars => RelayInv'
BY DEF RelayInv, TurnTypeOK, RelaysCounted, RelaysHeld, AllocationsHeld, StreamsHeld, turnVars

--------------------------------------------------------------------------------
(* The gateway's sockets.                                                  *)

SlotsTaken == {c \in Sockets : handler[c] \notin {"none", "gone"} /\ c \notin slotReleased}
Running == {c \in Sockets : handler[c] \in Serving \cup {"leaving", "untrack", "done"}}

\* A socket gives its slot back only once it is tracked; Server.conns and the wait
\* group follow the handlers, the one until untrack and the other until the return.
AdmissionInv ==
  /\ AdmissionTypeOK /\ SlotsGivenBack /\ ShutdownReachesAll
  /\ IsFiniteSet(SlotsTaken) /\ IsFiniteSet(Running) /\ active = Cardinality(Running)
  /\ \A c \in slotReleased : handler[c] \notin {"none", "upgrade"}
  /\ \A c \in Sockets : handler[c] \in {"untrack", "done"} => c \in slotReleased
  /\ tracked = {c \in Sockets : handler[c] \in Serving \cup {"leaving", "untrack"}}

\* No socket at first.
LEMMA AdmissionInitInv == AdmissionInit => AdmissionInv
<1> SUFFICES ASSUME AdmissionInit PROVE AdmissionInv
  OBVIOUS
<1>1. SlotsTaken = {} /\ Running = {}
  BY DEF AdmissionInit, SlotsTaken, Running, Serving
<1>2. SlotsGivenBack /\ IsFiniteSet(SlotsTaken) /\ IsFiniteSet(Running) /\ active = Cardinality(Running)
  BY <1>1, FS_EmptySet DEF AdmissionInit, SlotsGivenBack, SlotsTaken
<1>3. handler \in [Sockets -> Serving \cup {"none", "upgrade", "leaving", "untrack", "done", "gone"}]
  BY DEF AdmissionInit, Serving
<1>4. AdmissionTypeOK
  BY <1>3, AdmissionAssumption DEF AdmissionInit, AdmissionTypeOK
<1>5. ShutdownReachesAll /\ tracked = {c \in Sockets : handler[c] \in Serving \cup {"leaving", "untrack"}}
  BY DEF AdmissionInit, ShutdownReachesAll, Serving
<1> QED BY <1>2, <1>4, <1>5 DEF AdmissionInit, AdmissionInv

\* What a step must do to the two counts and the sets they count.
LEMMA AdmissionCounts ==
  ASSUME AdmissionInv,
         \/ SlotsTaken' = SlotsTaken /\ unidentified' = unidentified
         \/ \E c \in SlotsTaken : SlotsTaken' = SlotsTaken \ {c} /\ unidentified' = unidentified - 1
         \/ \E c : /\ c \notin SlotsTaken /\ SlotsTaken' = SlotsTaken \cup {c}
                   /\ unidentified < MaxUnidentifiedPerAddress /\ unidentified' = unidentified + 1,
         \/ Running' = Running /\ active' = active
         \/ \E c \in Running : Running' = Running \ {c} /\ active' = active - 1
         \/ \E c : c \notin Running /\ Running' = Running \cup {c} /\ active' = active + 1
  PROVE  /\ SlotsGivenBack' /\ IsFiniteSet(SlotsTaken') /\ IsFiniteSet(Running')
         /\ active' = Cardinality(Running') /\ active' \in Nat
         /\ unidentified' \in 0..MaxUnidentifiedPerAddress
<1>0. /\ IsFiniteSet(SlotsTaken) /\ unidentified = Cardinality(SlotsTaken)
      /\ IsFiniteSet(Running) /\ active = Cardinality(Running)
      /\ unidentified \in 0..MaxUnidentifiedPerAddress
  BY DEF AdmissionInv, AdmissionTypeOK, SlotsGivenBack, SlotsTaken
<1>1. IsFiniteSet(SlotsTaken') /\ unidentified' = Cardinality(SlotsTaken') /\ unidentified' \in Nat
  BY <1>0, Recounted
<1>2. IsFiniteSet(Running') /\ active' = Cardinality(Running') /\ active' \in Nat
  BY <1>0, Recounted
<1>3. unidentified' <= MaxUnidentifiedPerAddress
  BY <1>0, AdmissionAssumption
<1> QED BY <1>1, <1>2, <1>3, AdmissionAssumption DEF SlotsGivenBack, SlotsTaken

\* Each step moves at most one handler on, with its slot and its place in the wait group.
LEMMA AdmissionStepInv == AdmissionInv /\ AdmissionNext => AdmissionInv'
<1> SUFFICES ASSUME AdmissionInv, AdmissionNext PROVE AdmissionInv'
  OBVIOUS
<1> DEFINE Rest ==
      /\ handler' \in [Sockets -> Serving \cup {"none", "upgrade", "leaving", "untrack", "done", "gone"}]
      /\ slotReleased' \subseteq Sockets /\ closedSockets' \subseteq Sockets /\ tracked' \subseteq Sockets
      /\ shutdown' \in {"no", "told", "returned", "gave up"} /\ collected' \subseteq Sockets
      /\ \A c \in slotReleased' : handler'[c] \notin {"none", "upgrade"}
      /\ \A c \in Sockets : handler'[c] \in {"untrack", "done"} => c \in slotReleased'
      /\ tracked' = {c \in Sockets : handler'[c] \in Serving \cup {"leaving", "untrack"}}
      /\ ShutdownReachesAll'
<1>0. /\ AdmissionTypeOK /\ ShutdownReachesAll
      /\ \A c \in slotReleased : handler[c] \notin {"none", "upgrade"}
      /\ \A c \in Sockets : handler[c] \in {"untrack", "done"} => c \in slotReleased
      /\ tracked = {c \in Sockets : handler[c] \in Serving \cup {"leaving", "untrack"}}
  BY DEF AdmissionInv
<1>u. UNCHANGED <<handler, slotReleased>> => SlotsTaken' = SlotsTaken /\ Running' = Running
  BY DEF SlotsTaken, Running
<1>q. ASSUME Rest, SlotsGivenBack', IsFiniteSet(SlotsTaken'), IsFiniteSet(Running'),
             active' = Cardinality(Running'), active' \in Nat,
             unidentified' \in 0..MaxUnidentifiedPerAddress
      PROVE  AdmissionInv'
  BY <1>q DEF AdmissionInv, AdmissionTypeOK
<1>n. unidentified \in Nat
  <2>1. unidentified \in 0..MaxUnidentifiedPerAddress
    BY <1>0 DEF AdmissionTypeOK
  <2> QED BY <2>1, AdmissionAssumption
<1> USE DEF Serving, At, MarkIdentified, Identified
<1>1. CASE BeginShutdown
  <2>1. Rest
    BY <1>0, <1>1 DEF BeginShutdown, AdmissionTypeOK, ShutdownReachesAll
  <2> HIDE DEF Rest
  <2> QED BY <1>1, <1>u, <1>q, <2>1, AdmissionCounts DEF BeginShutdown
<1>2. CASE ShutdownReturns
  <2>0. active = 0 => Running = {}
    BY FS_EmptySet DEF AdmissionInv
  <2>1. Rest
    BY <1>0, <1>2, <2>0 DEF ShutdownReturns, AdmissionTypeOK, ShutdownReachesAll, Running
  <2> HIDE DEF Rest
  <2> QED BY <1>2, <1>u, <1>q, <2>1, AdmissionCounts DEF ShutdownReturns
<1>3. ASSUME NEW c \in Sockets, AdmitSocket(c) PROVE AdmissionInv'
  <2>1. Rest
    BY <1>0, <1>3 DEF AdmitSocket, AdmissionTypeOK, ShutdownReachesAll
  <2>2. c \notin SlotsTaken /\ SlotsTaken' = SlotsTaken \cup {c} /\ Running' = Running
    BY <1>0, <1>3 DEF AdmitSocket, AdmissionTypeOK, SlotsTaken, Running
  <2> HIDE DEF Rest
  <2> QED BY <1>3, <1>q, <2>1, <2>2, AdmissionCounts DEF AdmitSocket
<1>4. ASSUME NEW c \in Sockets, UpgradeFails(c) PROVE AdmissionInv'
  <2>1. Rest
    BY <1>0, <1>4 DEF UpgradeFails, AdmissionTypeOK, ShutdownReachesAll
  <2>2. c \in SlotsTaken /\ SlotsTaken' = SlotsTaken \ {c} /\ Running' = Running
    BY <1>0, <1>4 DEF UpgradeFails, AdmissionTypeOK, SlotsTaken, Running
  <2> HIDE DEF Rest
  <2> QED BY <1>4, <1>q, <2>1, <2>2, AdmissionCounts DEF UpgradeFails
<1>5. ASSUME NEW c \in Sockets, TrackSocket(c) PROVE AdmissionInv'
  <2>1. Rest
    BY <1>0, <1>5 DEF TrackSocket, AdmissionTypeOK, ShutdownReachesAll
  <2>2. c \notin Running /\ SlotsTaken' = SlotsTaken /\ Running' = Running \cup {c}
    BY <1>0, <1>5 DEF TrackSocket, AdmissionTypeOK, SlotsTaken, Running
  <2> HIDE DEF Rest
  <2> QED BY <1>5, <1>q, <2>1, <2>2, AdmissionCounts DEF TrackSocket
<1>6. ASSUME NEW c \in Sockets, TrackRefused(c) PROVE AdmissionInv'
  <2>1. Rest
    BY <1>0, <1>6 DEF TrackRefused, AdmissionTypeOK, ShutdownReachesAll
  <2>2. c \in SlotsTaken /\ SlotsTaken' = SlotsTaken \ {c} /\ Running' = Running
    BY <1>0, <1>6 DEF TrackRefused, AdmissionTypeOK, SlotsTaken, Running
  <2>3. unidentified' = unidentified - 1
    BY <1>0, <1>6 DEF TrackRefused, AdmissionTypeOK
  <2> HIDE DEF Rest
  <2> QED BY <1>6, <1>q, <2>1, <2>2, <2>3, AdmissionCounts DEF TrackRefused
<1>7. ASSUME NEW c \in Sockets, AttachSession(c) PROVE AdmissionInv'
  <2>1. Rest
    BY <1>0, <1>7 DEF AttachSession, AdmissionTypeOK, ShutdownReachesAll
  <2>2. SlotsTaken' = SlotsTaken /\ Running' = Running
    BY <1>0, <1>7 DEF AttachSession, AdmissionTypeOK, SlotsTaken, Running
  <2> HIDE DEF Rest
  <2> QED BY <1>7, <1>q, <2>1, <2>2, AdmissionCounts DEF AttachSession
<1>8. ASSUME NEW c \in Sockets, MarkSocket(c) PROVE AdmissionInv'
  <2>1. Rest
    BY <1>0, <1>8 DEF MarkSocket, AdmissionTypeOK, ShutdownReachesAll
  <2>2. Running' = Running /\ SlotsTaken' = SlotsTaken \ {c} /\ (c \in SlotsTaken <=> c \notin slotReleased)
    BY <1>0, <1>8 DEF MarkSocket, AdmissionTypeOK, SlotsTaken, Running
  <2>4. \/ c \in slotReleased /\ unidentified' = unidentified
        \/ c \notin slotReleased /\ unidentified' = unidentified - 1
    BY <1>8, <1>n DEF MarkSocket
  <2>5. c \in slotReleased => SlotsTaken' = SlotsTaken
    BY <2>2
  <2> HIDE DEF Rest
  <2> QED BY <1>8, <1>q, <2>1, <2>2, <2>4, <2>5, AdmissionCounts DEF MarkSocket
<1>9. ASSUME NEW c \in Sockets, WatchdogFires(c) \/ Reconnect(c) PROVE AdmissionInv'
  <2>1. Rest
    BY <1>0, <1>9 DEF WatchdogFires, Reconnect, AdmissionTypeOK, ShutdownReachesAll
  <2> HIDE DEF Rest
  <2> QED BY <1>9, <1>u, <1>q, <2>1, AdmissionCounts DEF WatchdogFires, Reconnect
<1>10. ASSUME NEW c \in Sockets, LeaveLoop(c) PROVE AdmissionInv'
  <2>1. Rest
    BY <1>0, <1>10 DEF LeaveLoop, AdmissionTypeOK, ShutdownReachesAll
  <2>2. SlotsTaken' = SlotsTaken /\ Running' = Running
    BY <1>0, <1>10 DEF LeaveLoop, AdmissionTypeOK, SlotsTaken, Running
  <2> HIDE DEF Rest
  <2> QED BY <1>10, <1>q, <2>1, <2>2, AdmissionCounts DEF LeaveLoop
<1>11. ASSUME NEW c \in Sockets, GiveSlotBack(c) PROVE AdmissionInv'
  <2>1. Rest
    BY <1>0, <1>11 DEF GiveSlotBack, AdmissionTypeOK, ShutdownReachesAll
  <2>2. Running' = Running /\ SlotsTaken' = SlotsTaken \ {c} /\ (c \in SlotsTaken <=> c \notin slotReleased)
    BY <1>0, <1>11 DEF GiveSlotBack, AdmissionTypeOK, SlotsTaken, Running
  <2>4. \/ c \in slotReleased /\ unidentified' = unidentified
        \/ c \notin slotReleased /\ unidentified' = unidentified - 1
    BY <1>11, <1>n DEF GiveSlotBack
  <2>5. c \in slotReleased => SlotsTaken' = SlotsTaken
    BY <2>2
  <2> HIDE DEF Rest
  <2> QED BY <1>11, <1>q, <2>1, <2>2, <2>4, <2>5, AdmissionCounts DEF GiveSlotBack
<1>12. ASSUME NEW c \in Sockets, Untrack(c) PROVE AdmissionInv'
  <2>1. Rest
    BY <1>0, <1>12 DEF Untrack, AdmissionTypeOK, ShutdownReachesAll
  <2>2. SlotsTaken' = SlotsTaken /\ Running' = Running
    BY <1>0, <1>12 DEF Untrack, AdmissionTypeOK, SlotsTaken, Running
  <2> HIDE DEF Rest
  <2> QED BY <1>12, <1>q, <2>1, <2>2, AdmissionCounts DEF Untrack
<1>13. ASSUME NEW c \in Sockets, HandlerDone(c) PROVE AdmissionInv'
  <2>1. Rest
    BY <1>0, <1>13 DEF HandlerDone, AdmissionTypeOK, ShutdownReachesAll
  <2>2. c \in Running /\ Running' = Running \ {c}
    BY <1>0, <1>13 DEF HandlerDone, AdmissionTypeOK, Running
  <2>3. SlotsTaken' = SlotsTaken
    BY <1>0, <1>13 DEF HandlerDone, AdmissionTypeOK, SlotsTaken
  <2> HIDE DEF Rest
  <2> QED BY <1>13, <1>q, <2>1, <2>2, <2>3, AdmissionCounts DEF HandlerDone
<1> HIDE DEF Rest
<1> QED BY <1>1, <1>2, <1>3, <1>4, <1>5, <1>6, <1>7, <1>8, <1>9, <1>10, <1>11, <1>12, <1>13
        DEF AdmissionNext

\* Steps of the other parts change nothing here.
LEMMA AdmissionStutterInv == AdmissionInv /\ UNCHANGED admissionVars => AdmissionInv'
BY DEF AdmissionInv, AdmissionTypeOK, SlotsGivenBack, ShutdownReachesAll, SlotsTaken, Running, admissionVars

--------------------------------------------------------------------------------
(* Voice rooms.                                                            *)

\* The instant of an id is the whole number of ticks' worth of ids below it.
LEMMA TimeOfBounds ==
  ASSUME NEW id \in Nat
  PROVE  /\ TimeOf(id) \in Nat
         /\ TimeOf(id) * IdsPerTick <= id /\ id < (TimeOf(id) + 1) * IdsPerTick
BY VoiceRoomsAssumption DEF TimeOf

\* Later ids have instants no earlier.
LEMMA TimeOfMonotone ==
  ASSUME NEW a \in Nat, NEW b \in Nat, a <= b PROVE TimeOf(a) <= TimeOf(b)
<1> DEFINE x == TimeOf(a) y == TimeOf(b)
<1>1. x \in Nat /\ y \in Nat /\ x * IdsPerTick <= a /\ b < (y + 1) * IdsPerTick
  BY TimeOfBounds
<1> HIDE DEF x, y
<1>2. SUFFICES ASSUME y + 1 <= x PROVE FALSE
  BY <1>1 DEF x, y
<1>3. (y + 1) * IdsPerTick <= x * IdsPerTick
  BY <1>1, <1>2, VoiceRoomsAssumption
<1> QED
  <2> DEFINE p == x * IdsPerTick q == (y + 1) * IdsPerTick
  <2>1. p \in Int /\ q \in Int /\ p <= a /\ b < q /\ q <= p
    BY <1>1, <1>3, VoiceRoomsAssumption
  <2> HIDE DEF p, q
  <2> QED BY <2>1

\* An entry that refuses what was issued up to cut for as long as its age does not.
Holds(entry, cut) == cut <= entry.id /\ TimeOf(cut) + ProvisionTimeout <= entry.until

\* Why a provision of user u issued up to cut is refused: by its age, or by an entry.
Refused(r, u, cut) ==
  \/ TimeOf(cut) + ProvisionTimeout <= clock
  \/ Holds(cutoffs[<<r, u>>], cut)
  \/ Holds(closedRooms[r], cut)

\* Every eviction made is still enforced, and can be, since no id is from the future; the
\* connections of a room that was let go of are among those the close has collected.
RoomsInv ==
  /\ VoiceTypeOK /\ EvictedStayOut
  /\ TimeOf(lastMinted) <= clock
  /\ \A c \in Conns : ticket[c].issued <= lastMinted
  /\ \A c \in Conns : conn[c] # "none" => ticket[c] # NoTicket
  /\ shut \subseteq doomed
  /\ \A b \in barred : b.cut <= lastMinted
  /\ \A b \in barred : \A u \in b.users : Refused(b.room, u, b.cut)

\* Ids are numbers, and the first tick's last id is one.
LEMMA IdsAreNaturals ==
  /\ (Horizon + 1) * IdsPerTick \in Nat /\ SnowflakeIds \subseteq Nat
  /\ IdsPerTick - 1 \in SnowflakeIds
<1>1. (Horizon + 1) * IdsPerTick \in Nat /\ IdsPerTick <= (Horizon + 1) * IdsPerTick
  BY VoiceRoomsAssumption
<1> DEFINE top == (Horizon + 1) * IdsPerTick
<1>2. top \in Nat /\ IdsPerTick <= top
  BY <1>1
<1> HIDE DEF top
<1>3. 0..top \subseteq Nat /\ IdsPerTick - 1 \in 0..top
  BY <1>2, VoiceRoomsAssumption
<1> QED BY <1>1, <1>3 DEF top, SnowflakeIds

\* Nobody is in a room.
LEMMA RoomsInitInv == VoiceInit => RoomsInv
<1> SUFFICES ASSUME VoiceInit PROVE RoomsInv
  OBVIOUS
<1>0. NoTicket \in {NoTicket} \cup [room: Rooms, user: Users, issued: SnowflakeIds] /\ 0 \in SnowflakeIds
  BY IdsAreNaturals, VoiceRoomsAssumption DEF SnowflakeIds
<1>1. clock \in 1..Horizon /\ lastMinted \in SnowflakeIds /\ evictedConns \in [Conns -> Nat]
  BY IdsAreNaturals, VoiceRoomsAssumption DEF VoiceInit
<1>1a. stopped \in BOOLEAN
  BY DEF VoiceInit
<1>2. ticket \in [Conns -> {NoTicket} \cup [room: Rooms, user: Users, issued: SnowflakeIds]]
  BY <1>0 DEF VoiceInit
<1>3. cutoffs \in [Rooms \X Users -> [id: SnowflakeIds, until: Nat]]
  BY <1>0 DEF VoiceInit, NoCutoff
<1>4. closedRooms \in [Rooms -> [id: SnowflakeIds, until: Nat]]
  BY <1>0 DEF VoiceInit, NoCutoff
<1>5. VoiceTypeOK
  BY <1>1, <1>1a, <1>2, <1>3, <1>4 DEF VoiceInit, VoiceTypeOK
<1>6. TimeOf(lastMinted) <= clock
  <2>1. lastMinted \in Nat /\ lastMinted < IdsPerTick
    BY VoiceRoomsAssumption DEF VoiceInit
  <2>2. IdsPerTick \in Nat /\ TimeOf(IdsPerTick) = 1
    BY VoiceRoomsAssumption DEF TimeOf
  <2>3. TimeOf(lastMinted) <= TimeOf(IdsPerTick)
    BY <2>1, <2>2, TimeOfMonotone
  <2> QED BY <2>2, <2>3 DEF VoiceInit
<1>7. \A c \in Conns : ticket[c].issued <= lastMinted
  BY VoiceRoomsAssumption DEF VoiceInit, NoTicket
<1> QED BY <1>5, <1>6, <1>7 DEF VoiceInit, RoomsInv, EvictedStayOut

\* The next id is newer than the last, and of this instant.
LEMMA NextIdIsNewer ==
  ASSUME RoomsInv, CanMint
  PROVE  NextId \in SnowflakeIds /\ lastMinted <= NextId /\ TimeOf(NextId) = clock
<1>1. clock \in Nat /\ clock <= Horizon /\ lastMinted \in Nat
  BY IdsAreNaturals, VoiceRoomsAssumption DEF RoomsInv, VoiceTypeOK
<1>2. clock * IdsPerTick \in Nat
  BY <1>1, VoiceRoomsAssumption
<1>3. NextId \in Nat /\ lastMinted <= NextId
  <2> DEFINE start == clock * IdsPerTick
  <2>1. start \in Nat
    BY <1>2
  <2>2. NextId = IF lastMinted < start THEN start ELSE lastMinted + 1
    BY DEF NextId
  <2> HIDE DEF start
  <2> QED BY <1>1, <2>1, <2>2
<1>4. NextId < (clock + 1) * IdsPerTick
  BY <1>3, TimeOfBounds DEF CanMint
<1>5. (clock + 1) * IdsPerTick <= (Horizon + 1) * IdsPerTick
  BY <1>1, VoiceRoomsAssumption
<1> DEFINE top == (Horizon + 1) * IdsPerTick
<1> DEFINE after == (clock + 1) * IdsPerTick
<1> DEFINE next == NextId
<1>6. next \in Nat /\ next < after /\ after <= top /\ top \in Nat /\ after \in Int
  BY <1>1, <1>3, <1>4, <1>5, IdsAreNaturals, VoiceRoomsAssumption
<1> HIDE DEF top, after, next
<1>7. next \in 0..top
  BY <1>6
<1> QED BY <1>3, <1>7 DEF CanMint, SnowflakeIds, top, next

\* Raising an entry keeps what it already held back and holds back the new cutoff.
LEMMA RaiseHolds ==
  ASSUME RoomsInv, NEW entry \in [id: SnowflakeIds, until: Nat], NEW cut \in 1..lastMinted
  PROVE  /\ Raise(entry, cut) \in [id: SnowflakeIds, until: Nat]
         /\ Holds(Raise(entry, cut), cut)
         /\ \A old \in SnowflakeIds : old <= lastMinted /\ Holds(entry, old) => Holds(Raise(entry, cut), old)
<1> DEFINE horizon == clock + ProvisionTimeout
<1> DEFINE id == IF cut > entry.id THEN cut ELSE entry.id
<1>1. lastMinted \in Nat /\ TimeOf(lastMinted) <= clock /\ clock \in Nat /\ TimeOf(lastMinted) \in Nat
  BY IdsAreNaturals, VoiceRoomsAssumption, TimeOfBounds DEF RoomsInv, VoiceTypeOK
<1>2. cut \in SnowflakeIds /\ entry.id \in Nat /\ id \in SnowflakeIds /\ entry.id <= id /\ cut <= id
  BY <1>1, IdsAreNaturals DEF RoomsInv, VoiceTypeOK, SnowflakeIds
<1>3. Raise(entry, cut).id = id /\ Raise(entry, cut).until = horizon
  BY DEF Raise
<1>4. ASSUME NEW old \in Nat, old <= lastMinted PROVE TimeOf(old) + ProvisionTimeout <= horizon
  <2>1. TimeOf(old) <= TimeOf(lastMinted) /\ TimeOf(old) \in Nat
    BY <1>1, <1>4, TimeOfMonotone, TimeOfBounds
  <2> QED BY <1>1, <2>1, VoiceRoomsAssumption
<1>5. horizon \in Nat
  BY <1>1, VoiceRoomsAssumption
<1> HIDE DEF id, horizon
<1>6. Raise(entry, cut) \in [id: SnowflakeIds, until: Nat]
  BY <1>2, <1>5 DEF Raise, id, horizon
<1>7. Holds(Raise(entry, cut), cut)
  BY <1>2, <1>3, <1>4, IdsAreNaturals DEF Holds
<1>8. ASSUME NEW old \in SnowflakeIds, old <= lastMinted, Holds(entry, old)
      PROVE  Holds(Raise(entry, cut), old)
  <2>1. old \in Nat /\ old <= entry.id /\ id \in Nat
    BY <1>2, <1>8, IdsAreNaturals DEF Holds
  <2> QED BY <1>2, <1>3, <1>4, <1>8, <2>1 DEF Holds
<1> QED BY <1>6, <1>7, <1>8

\* reserve lets nobody in whom an eviction made before is about.
LEMMA ReserveRefuses ==
  ASSUME RoomsInv, NEW c \in Conns, Reserve(c), NEW b \in barred,
         ticket[c].room = b.room, ticket[c].user \in b.users
  PROVE  ~(ticket[c].issued <= b.cut)
<1> SUFFICES ASSUME ticket[c].issued <= b.cut PROVE FALSE
  OBVIOUS
<1> DEFINE t == ticket[c]
<1>1. t \in [room: Rooms, user: Users, issued: SnowflakeIds]
  BY DEF RoomsInv, VoiceTypeOK, Reserve
<1>2. /\ Fresh(t.issued)
      /\ ~InForce(cutoffs[<<t.room, t.user>>], t.issued) /\ ~InForce(closedRooms[t.room], t.issued)
  BY DEF Reserve
<1>3. Refused(t.room, t.user, b.cut) /\ b.cut \in Nat /\ t.issued \in Nat /\ clock \in Nat
  <2>1. Refused(b.room, t.user, b.cut)
    BY DEF RoomsInv
  <2>2. b.cut \in SnowflakeIds /\ clock \in 1..Horizon
    BY DEF RoomsInv, VoiceTypeOK
  <2>3. t.issued \in SnowflakeIds
    BY <1>1
  <2> HIDE DEF t
  <2>4. b.cut \in Nat /\ t.issued \in Nat /\ clock \in Nat
    <3>1. SnowflakeIds \subseteq Nat
      BY IdsAreNaturals
    <3>2. b.cut \in Nat /\ t.issued \in Nat
      BY <2>2, <2>3, <3>1
    <3> QED BY <2>2, <3>2, VoiceRoomsAssumption
  <2> QED BY <2>1, <2>4 DEF t
<1>4. TimeOf(t.issued) <= TimeOf(b.cut) /\ TimeOf(t.issued) \in Nat /\ TimeOf(b.cut) \in Nat
  BY <1>3, TimeOfMonotone, TimeOfBounds
<1>5. clock < TimeOf(b.cut) + ProvisionTimeout
  BY <1>2, <1>3, <1>4, VoiceRoomsAssumption DEF Fresh
<1>6. ASSUME NEW entry \in [id: SnowflakeIds, until: Nat], Holds(entry, b.cut)
      PROVE  InForce(entry, t.issued)
  <2>1. entry.id \in Nat /\ entry.until \in Nat
    BY IdsAreNaturals
  <2> QED BY <1>3, <1>4, <1>5, <1>6, <2>1, VoiceRoomsAssumption DEF Holds, InForce
<1>7. /\ cutoffs[<<t.room, t.user>>] \in [id: SnowflakeIds, until: Nat]
      /\ closedRooms[t.room] \in [id: SnowflakeIds, until: Nat]
  BY <1>1 DEF RoomsInv, VoiceTypeOK
<1>8. ~(TimeOf(b.cut) + ProvisionTimeout <= clock)
  BY <1>3, <1>4, <1>5, VoiceRoomsAssumption
<1> HIDE DEF t
<1> QED BY <1>2, <1>3, <1>6, <1>7, <1>8 DEF Refused

\* A step that makes no eviction, takes no id back, and leaves who holds what alone keeps
\* every eviction enforced: entries only go once the age check does their work.
LEMMA RoomsStepInv == RoomsInv /\ VoiceNext => RoomsInv'
<1> SUFFICES ASSUME RoomsInv, VoiceNext PROVE RoomsInv'
  OBVIOUS
<1> DEFINE Entries == [id: SnowflakeIds, until: Nat]
<1> DEFINE Tickets == {NoTicket} \cup [room: Rooms, user: Users, issued: SnowflakeIds]
<1> DEFINE States == {"none", "negotiating", "open", "closing"}
<1> DEFINE Bars == [room: Rooms, users: {{u} : u \in Users} \cup {Users}, cut: SnowflakeIds]
<1> DEFINE Enforced == \A b \in barred : \A u \in b.users : Refused(b.room, u, b.cut)
<1>0. /\ VoiceTypeOK /\ EvictedStayOut /\ shut \subseteq doomed /\ Enforced
      /\ \A b \in barred : b.cut <= lastMinted
  BY DEF RoomsInv
<1>t. /\ clock \in 1..Horizon /\ lastMinted \in SnowflakeIds /\ stopped \in BOOLEAN
      /\ ticket \in [Conns -> Tickets] /\ conn \in [Conns -> States]
      /\ doomed \subseteq Conns /\ shut \subseteq Conns /\ \A c \in doomed \cup shut : conn[c] # "none"
      /\ cutoffs \in [Rooms \X Users -> Entries] /\ closedRooms \in [Rooms -> Entries]
      /\ evictedConns \in [Conns -> Nat] /\ barred \subseteq Bars
  BY <1>0 DEF VoiceTypeOK
<1>m. /\ TimeOf(lastMinted) <= clock /\ \A c \in Conns : ticket[c].issued <= lastMinted
      /\ \A c \in Conns : conn[c] # "none" => ticket[c] # NoTicket
  BY DEF RoomsInv
<1>n. /\ clock \in Nat /\ lastMinted \in Nat /\ clock + ProvisionTimeout \in Nat
      /\ \A b \in barred : b.cut \in Nat /\ TimeOf(b.cut) \in Nat /\ TimeOf(b.cut) + ProvisionTimeout \in Nat
  <2>1. clock \in Nat /\ lastMinted \in Nat /\ clock + ProvisionTimeout \in Nat
    BY <1>t, IdsAreNaturals, VoiceRoomsAssumption
  <2>2. ASSUME NEW b \in barred PROVE b.cut \in Nat
    <3>1. b.cut \in SnowflakeIds
      BY <1>t
    <3> QED BY <3>1, IdsAreNaturals
  <2>3. ASSUME NEW b \in barred PROVE TimeOf(b.cut) \in Nat /\ TimeOf(b.cut) + ProvisionTimeout \in Nat
    BY <2>2, TimeOfBounds, VoiceRoomsAssumption
  <2> QED BY <2>1, <2>2, <2>3
<1>q. ASSUME /\ clock' \in 1..Horizon /\ lastMinted' \in SnowflakeIds /\ stopped' \in BOOLEAN
             /\ ticket' \in [Conns -> Tickets] /\ conn' \in [Conns -> States]
             /\ doomed' \subseteq Conns /\ shut' \subseteq Conns /\ \A c \in doomed' \cup shut' : conn'[c] # "none"
             /\ cutoffs' \in [Rooms \X Users -> Entries] /\ closedRooms' \in [Rooms -> Entries]
             /\ evictedConns' \in [Conns -> Nat] /\ barred' \subseteq Bars,
             EvictedStayOut', shut' \subseteq doomed', Enforced', \A b \in barred' : b.cut <= lastMinted',
             TimeOf(lastMinted') <= clock',
             \A c \in Conns : ticket'[c].issued <= lastMinted',
             \A c \in Conns : conn'[c] # "none" => ticket'[c] # NoTicket
      PROVE  RoomsInv'
  BY <1>q DEF RoomsInv, VoiceTypeOK, TimeOf
<1>e. ASSUME UNCHANGED <<clock, lastMinted, cutoffs, closedRooms, barred>> PROVE Enforced'
  BY <1>0, <1>e DEF Refused, Holds, TimeOf
<1> HIDE DEF Entries, Tickets, States, Bars
<1>1. CASE Tick
  <2>1. Enforced'
    <3> SUFFICES ASSUME NEW b \in barred, NEW u \in b.users
                 PROVE  Refused(b.room, u, b.cut)'
      BY <1>1 DEF Tick
    <3>1. b.cut <= lastMinted /\ Refused(b.room, u, b.cut)
      BY <1>0
    <3>2. clock' = clock + 1 /\ UNCHANGED <<lastMinted, cutoffs, closedRooms>>
      BY <1>1 DEF Tick
    <3>3. TimeOf(b.cut) + ProvisionTimeout <= clock => TimeOf(b.cut) + ProvisionTimeout <= clock'
      BY <1>n, <3>2
    <3> QED BY <3>1, <3>2, <3>3 DEF Refused, Holds, TimeOf
  <2>2. TimeOf(lastMinted') <= clock' /\ clock' \in 1..Horizon
    <3>1. TimeOf(lastMinted) \in Nat /\ UNCHANGED lastMinted /\ clock' = clock + 1 /\ clock < Horizon
      BY <1>n, <1>1, TimeOfBounds DEF Tick
    <3> QED BY <1>n, <1>m, <3>1, VoiceRoomsAssumption
  <2> HIDE DEF Enforced
  <2> QED BY <1>0, <1>1, <1>t, <1>m, <1>q, <2>1, <2>2 DEF Tick, EvictedStayOut
<1>2. CASE Sweep
  <2>1. cutoffs' \in [Rooms \X Users -> Entries] /\ closedRooms' \in [Rooms -> Entries]
        /\ evictedConns' \in [Conns -> Nat]
    <3>1. NoCutoff \in Entries
      BY IdsAreNaturals, VoiceRoomsAssumption DEF Entries, NoCutoff, SnowflakeIds
    <3>2. cutoffs' \in [Rooms \X Users -> Entries]
      BY <1>t, <1>2, <3>1 DEF Sweep
    <3>3. closedRooms' \in [Rooms -> Entries]
      BY <1>t, <1>2, <3>1 DEF Sweep
    <3>4. evictedConns' \in [Conns -> Nat]
      BY <1>t, <1>2 DEF Sweep
    <3> QED BY <3>2, <3>3, <3>4
  <2>2. Enforced'
    <3> SUFFICES ASSUME NEW b \in barred, NEW u \in b.users
                 PROVE  Refused(b.room, u, b.cut)'
      BY <1>2 DEF Sweep
    <3>1. b.cut <= lastMinted /\ Refused(b.room, u, b.cut)
      BY <1>0
    <3>2. UNCHANGED <<lastMinted, clock>>
      BY <1>2 DEF Sweep
    <3>3. b.room \in Rooms /\ u \in Users
      BY <1>t DEF Bars
    <3>4. /\ cutoffs'[<<b.room, u>>] = IF Kept(cutoffs[<<b.room, u>>].until) THEN cutoffs[<<b.room, u>>] ELSE NoCutoff
          /\ closedRooms'[b.room] = IF Kept(closedRooms[b.room].until) THEN closedRooms[b.room] ELSE NoCutoff
      BY <1>2, <3>3 DEF Sweep
    <3>5. ASSUME NEW entry \in Entries, Holds(entry, b.cut), ~Kept(entry.until)
          PROVE  TimeOf(b.cut) + ProvisionTimeout <= clock
      <4>1. entry.until \in Nat
        BY DEF Entries
      <4> QED BY <1>n, <3>5, <4>1 DEF Kept, Holds
    <3>6. cutoffs[<<b.room, u>>] \in Entries /\ closedRooms[b.room] \in Entries
      BY <1>t, <3>3
    <3>7. \/ TimeOf(b.cut) + ProvisionTimeout <= clock
          \/ Holds(cutoffs'[<<b.room, u>>], b.cut)
          \/ Holds(closedRooms'[b.room], b.cut)
      BY <3>1, <3>4, <3>5, <3>6 DEF Refused
    <3> QED BY <3>1, <3>2, <3>7 DEF Refused, Holds, TimeOf
  <2> HIDE DEF Enforced
  <2> QED BY <1>0, <1>2, <1>t, <1>m, <1>q, <2>1, <2>2 DEF Sweep, EvictedStayOut
<1>3. CASE StopSFU
  <2>1. doomed' \subseteq Conns /\ shut' \subseteq doomed' /\ (\A c \in doomed' \cup shut' : conn'[c] # "none")
    BY <1>t, <1>3 DEF StopSFU
  <2>2. EvictedStayOut'
    BY <1>3 DEF StopSFU, EvictedStayOut
  <2>3. Enforced'
    BY <1>3, <1>e DEF StopSFU
  <2> HIDE DEF Enforced
  <2> QED BY <1>0, <1>3, <1>t, <1>m, <1>q, <2>1, <2>2, <2>3 DEF StopSFU
<1>4. ASSUME NEW c \in Conns, Reserve(c) PROVE RoomsInv'
  <2>1. Enforced'
    BY <1>4, <1>e DEF Reserve
  <2>2. conn' \in [Conns -> States] /\ \A d \in doomed' \cup shut' : conn'[d] # "none"
    BY <1>t, <1>4 DEF Reserve, States
  <2>3. EvictedStayOut'
    <3> SUFFICES ASSUME NEW d \in Conns, NEW b \in barred, conn'[d] \in {"negotiating", "open"},
                        ticket[d].room = b.room, ticket[d].user \in b.users, ticket[d].issued <= b.cut
                 PROVE  d \in doomed
      BY <1>4 DEF Reserve, EvictedStayOut
    <3>1. CASE d = c
      BY <1>4, <3>1, ReserveRefuses
    <3>2. CASE d # c
      BY <1>0, <1>t, <1>4, <3>2 DEF Reserve, EvictedStayOut
    <3> QED BY <3>1, <3>2
  <2>4. \A d \in Conns : conn'[d] # "none" => ticket'[d] # NoTicket
    BY <1>t, <1>m, <1>4 DEF Reserve
  <2> HIDE DEF Enforced
  <2> QED BY <1>0, <1>4, <1>t, <1>m, <1>q, <2>1, <2>2, <2>3, <2>4 DEF Reserve
<1>5. ASSUME NEW c \in Conns, Negotiate(c) \/ CloseFor(c) PROVE RoomsInv'
  <2>1. Enforced'
    BY <1>5, <1>e DEF Negotiate, CloseFor
  <2>2. conn' \in [Conns -> States] /\ \A d \in doomed' \cup shut' : conn'[d] # "none"
    BY <1>t, <1>5 DEF Negotiate, CloseFor, States
  <2>3. EvictedStayOut'
    BY <1>0, <1>t, <1>5 DEF Negotiate, CloseFor, EvictedStayOut
  <2>4. \A d \in Conns : conn'[d] # "none" => ticket'[d] # NoTicket
    BY <1>t, <1>m, <1>5 DEF Negotiate, CloseFor
  <2> HIDE DEF Enforced
  <2> QED BY <1>0, <1>5, <1>t, <1>m, <1>q, <2>1, <2>2, <2>3, <2>4 DEF Negotiate, CloseFor
<1>6. ASSUME NEW c \in Conns, Forget(c) PROVE RoomsInv'
  <2>1. Enforced'
    BY <1>6, <1>e DEF Forget
  <2>2. conn' \in [Conns -> States] /\ \A d \in doomed' \cup shut' : conn'[d] # "none"
    BY <1>t, <1>6 DEF Forget, States
  <2>3. EvictedStayOut'
    BY <1>0, <1>t, <1>6 DEF Forget, EvictedStayOut
  <2>4. \A d \in Conns : conn'[d] # "none" => ticket'[d] # NoTicket
    BY <1>t, <1>m, <1>6 DEF Forget
  <2>5. shut' \subseteq doomed'
    BY <1>0, <1>6 DEF Forget
  <2> HIDE DEF Enforced
  <2> QED BY <1>0, <1>6, <1>t, <1>m, <1>q, <2>1, <2>2, <2>3, <2>4, <2>5 DEF Forget
<1>7. ASSUME NEW c \in Conns, EvictConnection(c) PROVE RoomsInv'
  <2>1. Enforced'
    BY <1>7, <1>e DEF EvictConnection
  <2>2. doomed \subseteq doomed' /\ doomed' \subseteq Conns /\ \A d \in doomed' \cup shut' : conn'[d] # "none"
    BY <1>t, <1>7 DEF EvictConnection
  <2>3. evictedConns' \in [Conns -> Nat]
    BY <1>t, <1>n, <1>7 DEF EvictConnection
  <2>4. EvictedStayOut' /\ shut' \subseteq doomed'
    BY <1>0, <1>7, <2>2 DEF EvictConnection, EvictedStayOut
  <2> HIDE DEF Enforced
  <2> QED BY <1>0, <1>7, <1>t, <1>m, <1>q, <2>1, <2>2, <2>3, <2>4 DEF EvictConnection
<1>8. ASSUME NEW c \in Conns, NEW r \in Rooms, NEW u \in Users, Issue(c, r, u) PROVE RoomsInv'
  <2>1. lastMinted' \in SnowflakeIds /\ lastMinted <= lastMinted' /\ TimeOf(lastMinted') = clock
    BY <1>8, NextIdIsNewer DEF Issue, TimeOf
  <2>2. ticket' = [ticket EXCEPT ![c] = [room |-> r, user |-> u, issued |-> lastMinted']]
    BY <1>8 DEF Issue
  <2>3. ticket' \in [Conns -> Tickets]
    BY <1>t, <2>1, <2>2 DEF Tickets
  <2>4. lastMinted' \in Nat
    BY <2>1, IdsAreNaturals
  <2>5. \A d \in Conns : ticket'[d].issued <= lastMinted'
    <3> SUFFICES ASSUME NEW d \in Conns PROVE ticket'[d].issued <= lastMinted'
      OBVIOUS
    <3>1. CASE d = c
      BY <1>t, <2>2, <2>4, <3>1
    <3>2. CASE d # c
      <4>1. ticket'[d] = ticket[d] /\ ticket[d].issued <= lastMinted /\ ticket[d] \in Tickets
        BY <1>t, <1>m, <2>2, <3>2
      <4>2. ticket[d].issued \in Nat
        <5>1. CASE ticket[d] = NoTicket
          BY <5>1 DEF NoTicket
        <5>2. CASE ticket[d] \in [room: Rooms, user: Users, issued: SnowflakeIds]
          <6>1. ticket[d].issued \in SnowflakeIds
            BY <5>2
          <6> QED BY <6>1, IdsAreNaturals
        <5> QED BY <4>1, <5>1, <5>2 DEF Tickets
      <4> QED BY <1>n, <2>1, <2>4, <4>1, <4>2
    <3> QED BY <3>1, <3>2
  <2>6. Enforced'
    <3> SUFFICES ASSUME NEW b \in barred, NEW v \in b.users
                 PROVE  Refused(b.room, v, b.cut)'
      BY <1>8 DEF Issue
    <3>1. b.cut <= lastMinted /\ Refused(b.room, v, b.cut)
      BY <1>0
    <3> QED BY <1>8, <3>1 DEF Issue, Refused, Holds, TimeOf
  <2>11. \A b \in barred' : b.cut <= lastMinted'
    BY <1>0, <1>n, <1>8, <2>1, <2>4 DEF Issue
  <2>7. conn[c] = "none"
    BY <1>8, <1>m DEF Issue
  <2>8. EvictedStayOut'
    <3> SUFFICES ASSUME NEW d \in Conns, NEW b \in barred, conn[d] \in {"negotiating", "open"},
                        ticket'[d].room = b.room, ticket'[d].user \in b.users, ticket'[d].issued <= b.cut
                 PROVE  d \in doomed
      BY <1>8 DEF Issue, EvictedStayOut
    <3>1. ticket'[d] = ticket[d]
      BY <1>t, <2>2, <2>7
    <3> QED BY <1>0, <3>1 DEF EvictedStayOut
  <2>9. \A d \in Conns : conn'[d] # "none" => ticket'[d] # NoTicket
    <3> SUFFICES ASSUME NEW d \in Conns, conn[d] # "none" PROVE ticket'[d] # NoTicket
      BY <1>8 DEF Issue
    <3>1. ticket'[d] = ticket[d]
      BY <1>t, <2>2, <2>7
    <3> QED BY <1>m, <3>1
  <2>10. TimeOf(lastMinted') <= clock'
    BY <1>8, <1>n, <2>1 DEF Issue
  <2> HIDE DEF Enforced
  <2> QED BY <1>0, <1>8, <1>t, <1>q, <2>1, <2>3, <2>5, <2>6, <2>8, <2>9, <2>10, <2>11 DEF Issue
<1>9. ASSUME NEW r \in Rooms, NEW u \in Users, NEW cut, Evict(r, u, cut) PROVE RoomsInv'
  <2> DEFINE entry == cutoffs[<<r, u>>]
  <2> DEFINE new == [room |-> r, users |-> {u}, cut |-> cut]
  <2>0. cut \in 1..lastMinted /\ cut \in SnowflakeIds /\ entry \in Entries
    BY <1>9, <1>t, IdsAreNaturals DEF Evict, SnowflakeIds
  <2>1. cutoffs' = [cutoffs EXCEPT ![<<r, u>>] = Raise(entry, cut)]
    BY <1>9 DEF Evict
  <2>2. UNCHANGED <<clock, lastMinted, ticket, conn, shut, closedRooms, evictedConns, stopped>>
    BY <1>9 DEF Evict
  <2>3. barred' = barred \cup {new}
    BY <1>9 DEF Evict
  <2>4. /\ Raise(entry, cut) \in Entries /\ Holds(Raise(entry, cut), cut)
        /\ \A old \in SnowflakeIds : old <= lastMinted /\ Holds(entry, old) => Holds(Raise(entry, cut), old)
    BY <2>0, RaiseHolds DEF Entries
  <2>5. cutoffs' \in [Rooms \X Users -> Entries] /\ cutoffs'[<<r, u>>] = Raise(entry, cut)
        /\ \A k \in Rooms \X Users : k # <<r, u>> => cutoffs'[k] = cutoffs[k]
    BY <1>t, <2>1, <2>4
  <2>6. new \in Bars
    BY <2>0 DEF Bars
  <2>7. Enforced'
    <3> SUFFICES ASSUME NEW b \in barred', NEW v \in b.users
                 PROVE  Refused(b.room, v, b.cut)'
      OBVIOUS
    <3>1. CASE b = new
      <4>1. b.room = r /\ v = u /\ b.cut = cut
        BY <3>1
      <4>2. Holds(cutoffs'[<<b.room, v>>], b.cut) /\ b.cut <= lastMinted'
        BY <2>0, <2>2, <2>4, <2>5, <4>1
      <4> QED BY <4>2 DEF Refused, Holds, TimeOf
    <3>2. CASE b \in barred
      <4>1. b.cut <= lastMinted /\ Refused(b.room, v, b.cut)
        BY <1>0, <3>2
      <4>2. b.room \in Rooms /\ v \in Users /\ b.cut \in SnowflakeIds
        BY <1>t, <3>2 DEF Bars
      <4>3. Holds(cutoffs[<<b.room, v>>], b.cut) => Holds(cutoffs'[<<b.room, v>>], b.cut)
        <5>1. CASE b.room = r /\ v = u
          BY <2>4, <2>5, <4>1, <4>2, <5>1
        <5>2. CASE ~(b.room = r /\ v = u)
          <6>1. cutoffs'[<<b.room, v>>] = cutoffs[<<b.room, v>>]
            BY <2>5, <4>2, <5>2
          <6> QED BY <6>1
        <5> QED BY <5>1, <5>2
      <4>4. \/ TimeOf(b.cut) + ProvisionTimeout <= clock
            \/ Holds(cutoffs'[<<b.room, v>>], b.cut)
            \/ Holds(closedRooms[b.room], b.cut)
        BY <4>1, <4>3 DEF Refused
      <4> QED BY <2>2, <4>1, <4>4 DEF Refused, Holds, TimeOf
    <3> QED BY <2>3, <3>1, <3>2
  <2>8. /\ doomed \subseteq doomed' /\ doomed' \subseteq Conns
        /\ \A d \in doomed' \cup shut' : conn'[d] # "none"
    BY <1>9, <1>t, <2>2 DEF Evict, Members
  <2>9. EvictedStayOut'
    <3> SUFFICES ASSUME NEW d \in Conns, NEW b \in barred', conn[d] \in {"negotiating", "open"},
                        ticket[d].room = b.room, ticket[d].user \in b.users, ticket[d].issued <= b.cut
                 PROVE  d \in doomed'
      BY <2>2 DEF EvictedStayOut
    <3>1. CASE b \in barred
      BY <1>0, <2>8, <3>1 DEF EvictedStayOut
    <3>2. CASE b = new
      <4>1. ticket[d].room = r /\ ticket[d].user = u /\ ticket[d].issued <= cut
        BY <3>2
      <4>2. CASE d \in shut
        BY <1>0, <2>8, <4>2
      <4>3. CASE d \notin shut
        BY <1>9, <4>1, <4>3 DEF Evict, Members
      <4> QED BY <4>2, <4>3
    <3> QED BY <2>3, <3>1, <3>2
  <2>10. barred' \subseteq Bars
    BY <1>t, <2>3, <2>6
  <2>11. \A b \in barred' : b.cut <= lastMinted'
    BY <1>0, <2>0, <2>2, <2>3
  <2> HIDE DEF Enforced
  <2> QED BY <1>0, <1>t, <1>m, <1>q, <2>2, <2>5, <2>7, <2>8, <2>9, <2>10, <2>11
<1>10. ASSUME NEW r \in Rooms, NEW cut, CloseRoom(r, cut) PROVE RoomsInv'
  <2> DEFINE entry == closedRooms[r]
  <2> DEFINE new == [room |-> r, users |-> Users, cut |-> cut]
  <2>0. cut \in 1..lastMinted /\ cut \in SnowflakeIds /\ entry \in Entries
    BY <1>10, <1>t, IdsAreNaturals DEF CloseRoom, SnowflakeIds
  <2>1. closedRooms' = [closedRooms EXCEPT ![r] = Raise(entry, cut)]
    BY <1>10 DEF CloseRoom
  <2>2. UNCHANGED <<clock, lastMinted, ticket, conn, cutoffs, evictedConns, stopped>>
    BY <1>10 DEF CloseRoom
  <2>3. barred' = barred \cup {new}
    BY <1>10 DEF CloseRoom
  <2>4. /\ Raise(entry, cut) \in Entries /\ Holds(Raise(entry, cut), cut)
        /\ \A old \in SnowflakeIds : old <= lastMinted /\ Holds(entry, old) => Holds(Raise(entry, cut), old)
    BY <2>0, RaiseHolds DEF Entries
  <2>5. closedRooms' \in [Rooms -> Entries] /\ closedRooms'[r] = Raise(entry, cut)
        /\ \A k \in Rooms : k # r => closedRooms'[k] = closedRooms[k]
    BY <1>t, <2>1, <2>4
  <2>6. new \in Bars
    BY <2>0 DEF Bars
  <2>7. Enforced'
    <3> SUFFICES ASSUME NEW b \in barred', NEW v \in b.users
                 PROVE  Refused(b.room, v, b.cut)'
      OBVIOUS
    <3>1. CASE b = new
      <4>1. b.room = r /\ b.cut = cut
        BY <3>1
      <4>2. Holds(closedRooms'[b.room], b.cut) /\ b.cut <= lastMinted'
        BY <2>0, <2>2, <2>4, <2>5, <4>1
      <4> QED BY <4>2 DEF Refused, Holds, TimeOf
    <3>2. CASE b \in barred
      <4>1. b.cut <= lastMinted /\ Refused(b.room, v, b.cut)
        BY <1>0, <3>2
      <4>2. b.room \in Rooms /\ b.cut \in SnowflakeIds
        BY <1>t, <3>2 DEF Bars
      <4>3. Holds(closedRooms[b.room], b.cut) => Holds(closedRooms'[b.room], b.cut)
        <5>1. CASE b.room = r
          BY <2>4, <2>5, <4>1, <4>2, <5>1
        <5>2. CASE b.room # r
          <6>1. closedRooms'[b.room] = closedRooms[b.room]
            BY <2>5, <4>2, <5>2
          <6> QED BY <6>1
        <5> QED BY <5>1, <5>2
      <4>4. \/ TimeOf(b.cut) + ProvisionTimeout <= clock
            \/ Holds(cutoffs[<<b.room, v>>], b.cut)
            \/ Holds(closedRooms'[b.room], b.cut)
        BY <4>1, <4>3 DEF Refused
      <4> QED BY <2>2, <4>1, <4>4 DEF Refused, Holds, TimeOf
    <3> QED BY <2>3, <3>1, <3>2
  <2>8. /\ doomed \subseteq doomed' /\ doomed' \subseteq Conns /\ shut' \subseteq doomed' /\ shut' \subseteq Conns
        /\ \A d \in doomed' \cup shut' : conn'[d] # "none"
    BY <1>0, <1>10, <1>t, <2>2 DEF CloseRoom, Members
  <2>9. EvictedStayOut'
    <3> SUFFICES ASSUME NEW d \in Conns, NEW b \in barred', conn[d] \in {"negotiating", "open"},
                        ticket[d].room = b.room, ticket[d].user \in b.users, ticket[d].issued <= b.cut
                 PROVE  d \in doomed'
      BY <2>2 DEF EvictedStayOut
    <3>1. CASE b \in barred
      BY <1>0, <2>8, <3>1 DEF EvictedStayOut
    <3>2. CASE b = new
      <4>1. ticket[d].room = r
        BY <3>2
      <4>2. CASE d \in shut
        BY <1>0, <2>8, <4>2
      <4>3. CASE d \notin shut
        BY <1>10, <4>1, <4>3 DEF CloseRoom, Members
      <4> QED BY <4>2, <4>3
    <3> QED BY <2>3, <3>1, <3>2
  <2>10. barred' \subseteq Bars
    BY <1>t, <2>3, <2>6
  <2>11. \A b \in barred' : b.cut <= lastMinted'
    BY <1>0, <2>0, <2>2, <2>3
  <2> HIDE DEF Enforced
  <2> QED BY <1>0, <1>t, <1>m, <1>q, <2>2, <2>5, <2>7, <2>8, <2>9, <2>10, <2>11
<1> QED BY <1>1, <1>2, <1>3, <1>4, <1>5, <1>6, <1>7, <1>8, <1>9, <1>10 DEF VoiceNext

\* Steps of the other parts change nothing here.
LEMMA RoomsStutterInv == RoomsInv /\ UNCHANGED voiceVars => RoomsInv'
<1> SUFFICES ASSUME RoomsInv, UNCHANGED voiceVars PROVE RoomsInv'
  OBVIOUS
<1>1. VoiceTypeOK' /\ EvictedStayOut'
  BY DEF RoomsInv, VoiceTypeOK, EvictedStayOut, voiceVars
<1>2. (\A b \in barred : \A u \in b.users : Refused(b.room, u, b.cut))'
  BY DEF RoomsInv, Refused, Holds, TimeOf, voiceVars
<1> QED BY <1>1, <1>2 DEF RoomsInv, TimeOf, voiceVars

--------------------------------------------------------------------------------
(* Snowflake ids.                                                          *)

\* Of two numbers packed with a low digit below base, the one with the larger high part is larger.
LEMMA DigitOrder ==
  ASSUME NEW base \in Nat, NEW x \in Nat, NEW y \in Nat, NEW s \in Nat, NEW t \in Nat,
         s < base, x < y
  PROVE  x * base + s < y * base + t
<1>1. (x + 1) * base <= y * base
  OBVIOUS
<1>2. (x + 1) * base = x * base + base
  OBVIOUS
<1> DEFINE p == x * base q == y * base
<1>3. p \in Int /\ q \in Int /\ p + base <= q
  BY <1>1, <1>2
<1> HIDE DEF p, q
<1>4. p + s < q + t
  BY <1>3
<1> QED BY <1>4 DEF p, q

\* Packed numbers are equal only digit by digit.
LEMMA DigitsUnique ==
  ASSUME NEW base \in Nat, NEW x \in Nat, NEW y \in Nat, NEW s \in Nat, NEW t \in Nat,
         s < base, t < base, x * base + s = y * base + t
  PROVE  x = y /\ s = t
<1>1. x * base + s \in Int /\ y * base + t \in Int /\ x * base \in Int
  OBVIOUS
<1>2. ~(x < y)
  <2> SUFFICES ASSUME x < y PROVE FALSE
    OBVIOUS
  <2>1. x * base + s < y * base + t
    BY DigitOrder
  <2> QED BY <1>1, <2>1
<1>3. ~(y < x)
  <2> SUFFICES ASSUME y < x PROVE FALSE
    OBVIOUS
  <2>1. y * base + t < x * base + s
    BY DigitOrder
  <2> QED BY <1>1, <2>1
<1>4. x = y
  BY <1>2, <1>3
<1> DEFINE p == x * base
<1>5. p \in Int /\ p + s = p + t
  BY <1>1, <1>4
<1> HIDE DEF p
<1>6. s = t
  BY <1>5
<1> QED BY <1>4, <1>6

\* An id tells its instant, node and sequence number, in this order.
LEMMA PackedFacts ==
  ASSUME NEW ms \in Nat, NEW n \in Nodes, NEW seq \in 0..maxSequence,
         NEW ms2 \in Nat, NEW n2 \in Nodes, NEW seq2 \in 0..maxSequence
  PROVE  /\ Packed(ms, n, seq) \in Nat
         /\ (ms < ms2 => Packed(ms, n, seq) < Packed(ms2, n, seq2))
         /\ (seq < seq2 => Packed(ms, n, seq) < Packed(ms, n, seq2))
         /\ (Packed(ms, n, seq) = Packed(ms2, n2, seq2) => n = n2)
<1> DEFINE wide == maxNode + 1 base == maxSequence + 1
<1> DEFINE hi == ms * wide + n hi2 == ms2 * wide + n mid2 == ms2 * wide + n2
<1>0. /\ wide \in Nat /\ base \in Nat /\ n \in Nat /\ n2 \in Nat /\ n < wide /\ n2 < wide
      /\ seq \in Nat /\ seq2 \in Nat /\ seq < base /\ seq2 < base
  BY SnowflakeAssumption DEF Nodes
<1>1. hi \in Nat /\ hi2 \in Nat /\ mid2 \in Nat
  BY <1>0
<1>2. /\ Packed(ms, n, seq) = hi * base + seq /\ Packed(ms, n, seq2) = hi * base + seq2
      /\ Packed(ms2, n, seq2) = hi2 * base + seq2 /\ Packed(ms2, n2, seq2) = mid2 * base + seq2
  BY DEF Packed
<1>3. ms < ms2 => hi < hi2
  <2> HIDE DEF wide
  <2> QED BY <1>0, DigitOrder
<1>4. hi = mid2 => n = n2
  <2> HIDE DEF wide
  <2> QED BY <1>0, DigitsUnique
<1> HIDE DEF wide, base, hi, hi2, mid2
<1>5. Packed(ms, n, seq) \in Nat
  BY <1>0, <1>1, <1>2
<1>6. ms < ms2 => Packed(ms, n, seq) < Packed(ms2, n, seq2)
  BY <1>0, <1>1, <1>2, <1>3, DigitOrder
<1>7. seq < seq2 => Packed(ms, n, seq) < Packed(ms, n, seq2)
  <2> DEFINE p == hi * base
  <2>1. p \in Int
    BY <1>0, <1>1
  <2>2. Packed(ms, n, seq) = p + seq /\ Packed(ms, n, seq2) = p + seq2
    BY <1>2
  <2> HIDE DEF p
  <2> QED BY <1>0, <2>1, <2>2
<1>8. Packed(ms, n, seq) = Packed(ms2, n2, seq2) => n = n2
  BY <1>0, <1>1, <1>2, <1>4, DigitsUnique
<1> QED BY <1>5, <1>6, <1>7, <1>8

\* What a generator would mint if it minted again at once.
Reached(n) == Packed(lastMS[n], n, sequence[n])

\* Every id is some node's, and none of a node's is beyond what its generator has reached.
FlakeInv ==
  /\ FlakeTypeOK
  /\ \A n \in Nodes : newest[n] <= Reached(n)
  /\ \A id \in ids : \E n \in Nodes : \E ms \in Nat : \E seq \in 0..maxSequence :
       id = Packed(ms, n, seq) /\ id <= Reached(n)

\* No id is minted at first.
LEMMA FlakeInitInv == FlakeInit => FlakeInv
<1> SUFFICES ASSUME FlakeInit PROVE FlakeInv
  OBVIOUS
<1>1. FlakeTypeOK
  BY SnowflakeAssumption DEF FlakeInit, FlakeTypeOK
<1>2. ASSUME NEW n \in Nodes PROVE newest[n] <= Reached(n)
  <2>1. Packed(0, n, 0) \in Nat
    BY PackedFacts, SnowflakeAssumption
  <2> QED BY <2>1 DEF FlakeInit, Reached
<1> QED BY <1>1, <1>2 DEF FlakeInit, FlakeInv

\* A generator that mints reaches further, and the id it mints is where it got.
LEMMA MintReaches ==
  ASSUME FlakeInv, NEW n \in Nodes, MintId(n)
  PROVE  /\ Reached(n)' \in Nat /\ Reached(n) \in Nat /\ Reached(n) < Reached(n)'
         /\ FlakeTypeOK'
         /\ \A m \in Nodes \ {n} : Reached(m)' = Reached(m) /\ newest'[m] = newest[m]
         /\ \/ lastMS'[n] > maxTimestamp /\ UNCHANGED <<ids, newest>>
            \/ newest'[n] = Reached(n)' /\ ids' = ids \cup {Reached(n)'}
         /\ lastMS'[n] \in Nat /\ sequence'[n] \in 0..maxSequence
<1> DEFINE ms == Steps(n)[1] seq == Steps(n)[2]
<1>0. /\ wall \in [Nodes -> 0..MaxInstant] /\ lastMS \in [Nodes -> 0..MaxInstant]
      /\ sequence \in [Nodes -> 0..maxSequence] /\ ids \subseteq Nat /\ newest \in [Nodes -> Nat]
  BY DEF FlakeInv, FlakeTypeOK
<1>1. /\ ms \in 0..MaxInstant /\ seq \in 0..maxSequence
      /\ lastMS[n] < ms \/ (ms = lastMS[n] /\ sequence[n] < seq)
  <2>1. CASE wall[n] > lastMS[n]
    BY <1>0, <2>1, SnowflakeAssumption DEF Steps
  <2>2. CASE ~(wall[n] > lastMS[n])
    <3>1. ms = lastMS[n] /\ seq = sequence[n] + 1 /\ seq <= maxSequence
      BY <2>2 DEF Steps, MintId
    <3> QED BY <1>0, <3>1, SnowflakeAssumption
  <2> QED BY <2>1, <2>2
<1>2. lastMS' = [lastMS EXCEPT ![n] = ms] /\ sequence' = [sequence EXCEPT ![n] = seq] /\ UNCHANGED wall
  BY DEF MintId
<1>3. \/ ms > maxTimestamp /\ UNCHANGED <<ids, newest>>
      \/ ids' = ids \cup {Packed(ms, n, seq)} /\ newest' = [newest EXCEPT ![n] = Packed(ms, n, seq)]
  BY DEF MintId
<1> HIDE DEF ms, seq
<1>4. lastMS'[n] = ms /\ sequence'[n] = seq
  BY <1>0, <1>2
<1>5. Reached(n)' = Packed(ms, n, seq)
  BY <1>4 DEF Reached, Packed
<1>6. ms \in Nat /\ lastMS[n] \in Nat /\ sequence[n] \in 0..maxSequence
  BY <1>0, <1>1, SnowflakeAssumption
<1>7. Packed(ms, n, seq) \in Nat /\ Reached(n) \in Nat /\ Reached(n) < Packed(ms, n, seq)
  BY <1>1, <1>6, PackedFacts DEF Reached
<1>8. lastMS' \in [Nodes -> 0..MaxInstant] /\ sequence' \in [Nodes -> 0..maxSequence]
  BY <1>0, <1>1, <1>2
<1>9. ids' \subseteq Nat /\ newest' \in [Nodes -> Nat]
  BY <1>0, <1>3, <1>7
<1>10. \A m \in Nodes \ {n} : Reached(m)' = Reached(m) /\ newest'[m] = newest[m]
  BY <1>0, <1>2, <1>3 DEF Reached, Packed
<1>11. newest' = [newest EXCEPT ![n] = Packed(ms, n, seq)] => newest'[n] = Packed(ms, n, seq)
  BY <1>0
<1> QED BY <1>0, <1>1, <1>2, <1>3, <1>4, <1>5, <1>6, <1>7, <1>8, <1>9, <1>10, <1>11 DEF FlakeTypeOK

\* Every step of the generator keeps its ids ordered.
LEMMA FlakeStepInv == FlakeInv /\ FlakeNext => FlakeInv'
<1> SUFFICES ASSUME FlakeInv, FlakeNext PROVE FlakeInv'
  OBVIOUS
<1>0. FlakeTypeOK
  BY DEF FlakeInv
<1>1. ASSUME NEW n \in Nodes, MintId(n) PROVE FlakeInv'
  <2>0. FlakeTypeOK' /\ Reached(n)' \in Nat /\ Reached(n) \in Nat /\ Reached(n) < Reached(n)'
    BY <1>1, MintReaches
  <2>1. ASSUME NEW m \in Nodes PROVE (newest[m] <= Reached(m))'
    <3>1. newest[m] <= Reached(m) /\ newest[m] \in Nat
      BY <1>0 DEF FlakeInv, FlakeTypeOK
    <3>2. CASE m = n
      <4>1. newest'[n] = newest[n] \/ newest'[n] = Reached(n)'
        BY <1>1, MintReaches
      <4> QED BY <2>0, <3>1, <3>2, <4>1
    <3>3. CASE m # n
      BY <1>1, <3>1, <3>3, MintReaches
    <3> QED BY <3>2, <3>3
  <2>2. ASSUME NEW id \in ids', NEW m \in Nodes, NEW ms \in Nat, NEW seq \in 0..maxSequence,
               id = Packed(ms, m, seq), id <= Reached(m)
        PROVE  id <= Reached(m)'
    <3>1. id \in Nat
      BY <2>0 DEF FlakeTypeOK
    <3>2. CASE m = n
      BY <2>0, <2>2, <3>1, <3>2
    <3>3. CASE m # n
      BY <1>1, <2>2, <3>3, MintReaches
    <3> QED BY <3>2, <3>3
  <2>3. ASSUME NEW id \in ids'
        PROVE  \E m \in Nodes : \E ms \in Nat : \E seq \in 0..maxSequence :
                 id = Packed(ms, m, seq) /\ id <= Reached(m)'
    <3>1. CASE id \in ids
      <4>1. PICK m \in Nodes, ms \in Nat, seq \in 0..maxSequence :
              id = Packed(ms, m, seq) /\ id <= Reached(m)
        BY <3>1 DEF FlakeInv
      <4> QED BY <2>2, <4>1
    <3>2. CASE id \notin ids
      <4>1. id = Reached(n)' /\ lastMS'[n] \in Nat /\ sequence'[n] \in 0..maxSequence
        BY <1>1, <3>2, MintReaches
      <4>2. id = Packed(lastMS'[n], n, sequence'[n]) /\ id <= Reached(n)'
        BY <2>0, <4>1 DEF Reached, Packed
      <4> QED BY <4>1, <4>2
    <3> QED BY <3>1, <3>2
  <2> QED BY <2>0, <2>1, <2>3 DEF FlakeInv, Packed
<1>2. ASSUME NEW n \in Nodes, NEW t \in 0..MaxInstant, Clock(n, t) PROVE FlakeInv'
  <2>1. FlakeTypeOK'
    BY <1>0, <1>2 DEF Clock, FlakeTypeOK
  <2> QED BY <1>2, <2>1 DEF Clock, FlakeInv, Reached, Packed
<1> QED BY <1>1, <1>2 DEF FlakeNext

\* Steps of the other parts change nothing here.
LEMMA FlakeStutterInv == FlakeInv /\ UNCHANGED flakeVars => FlakeInv'
BY DEF FlakeInv, FlakeTypeOK, Reached, Packed, flakeVars

\* A step of IdsIncrease.
IdsIncreaseStep ==
  \A n \in Nodes : sequence'[n] # sequence[n] \/ lastMS'[n] # lastMS[n] =>
    \/ lastMS'[n] > maxTimestamp
    \/ newest'[n] > newest[n] /\ newest'[n] \notin ids

\* What is minted is beyond what the node had reached, and no other node's id.
LEMMA FlakeStepIncreases == FlakeInv /\ FlakeNext => IdsIncreaseStep
<1> SUFFICES ASSUME FlakeInv, FlakeNext, NEW n \in Nodes,
                    sequence'[n] # sequence[n] \/ lastMS'[n] # lastMS[n], ~(lastMS'[n] > maxTimestamp)
             PROVE  newest'[n] > newest[n] /\ newest'[n] \notin ids
  BY DEF IdsIncreaseStep
<1>1. MintId(n)
  <2>1. PICK m \in Nodes : MintId(m) \/ \E t \in 0..MaxInstant : Clock(m, t)
    BY DEF FlakeNext
  <2>2. MintId(m)
    BY <2>1 DEF Clock
  <2>3. CASE m = n
    BY <2>2, <2>3
  <2>4. CASE m # n
    BY <2>2, <2>4 DEF MintId, FlakeInv, FlakeTypeOK
  <2> QED BY <2>3, <2>4
<1>2. /\ newest'[n] = Reached(n)' /\ Reached(n)' \in Nat /\ Reached(n) \in Nat /\ Reached(n) < Reached(n)'
      /\ lastMS'[n] \in Nat /\ sequence'[n] \in 0..maxSequence
  BY <1>1, MintReaches
<1>3. newest[n] <= Reached(n) /\ newest[n] \in Nat
  BY DEF FlakeInv, FlakeTypeOK
<1>4. ASSUME newest'[n] \in ids PROVE FALSE
  <2>1. PICK m \in Nodes, ms \in Nat, seq \in 0..maxSequence :
          newest'[n] = Packed(ms, m, seq) /\ newest'[n] <= Reached(m)
    BY <1>4 DEF FlakeInv
  <2>2. newest'[n] = Packed(lastMS'[n], n, sequence'[n])
    BY <1>2 DEF Reached, Packed
  <2>3. m = n
    BY <1>2, <2>1, <2>2, PackedFacts
  <2> QED BY <1>2, <2>1, <2>3
<1> QED BY <1>2, <1>3, <1>4

--------------------------------------------------------------------------------
(* Voice slots.                                                            *)

\* Whoever is in a slot is somebody its listener may hear, by the exclusions in force when
\* the slots were last chosen.
SlotsAllowed ==
  \A p \in Listeners : \A i \in 1..SlotCount : slots[p][i] # NoPeer =>
    UserOf(slots[p][i]) # UserOf(p) /\ UserOf(slots[p][i]) \notin applied[UserOf(p)]

SlotsInv == SlotsTypeOK /\ SlotsAllowed /\ ExcludedIsNotForwarded /\ MapIsKnown

\* Every slot is empty.
LEMMA SlotsInitInv == SlotsInit => SlotsInv
<1> SUFFICES ASSUME SlotsInit PROVE SlotsInv
  OBVIOUS
<1> USE NoPeerIsNone, SlotsAssumption
<1>1. loud \in [Talkers -> Loudness] /\ stage \in [Peers -> {"silent", "in", "ready", "done"}]
  BY DEF SlotsInit
<1>2. excluded \in [VoiceUsers -> SUBSET VoiceUsers] /\ applied \in [VoiceUsers -> SUBSET VoiceUsers]
  BY DEF SlotsInit
<1>3. sub \in [Listeners -> [pin: SUBSET VoiceUsers, drop: SUBSET VoiceUsers, cap: 0..SlotCount]]
  <2>1. NoSub \in [pin: SUBSET VoiceUsers, drop: SUBSET VoiceUsers, cap: 0..SlotCount]
    BY DEF NoSub
  <2> QED BY <2>1 DEF SlotsInit
<1>4. slots \in [Listeners -> [1..SlotCount -> Talkers \cup {NoPeer}]] /\ slotMap = slots
  BY DEF SlotsInit, Empty
<1>5. fills \in [Talkers -> SUBSET AllSlots] /\ loaded \in [Talkers -> SUBSET AllSlots]
  BY DEF SlotsInit
<1>6. sentMap \in [Listeners -> {<<>>} \cup [1..SlotCount -> Talkers \cup {NoPeer}]]
  BY DEF SlotsInit
<1>7. SlotsTypeOK
  BY <1>1, <1>2, <1>3, <1>4, <1>5, <1>6 DEF SlotsInit, SlotsTypeOK
<1>8. SlotsAllowed
  BY DEF SlotsInit, SlotsAllowed, Empty
<1>9. ExcludedIsNotForwarded
  BY DEF SlotsInit, ExcludedIsNotForwarded
<1>10. MapIsKnown
  BY DEF SlotsInit, MapIsKnown
<1> QED BY <1>7, <1>8, <1>9, <1>10 DEF SlotsInv

\* place fills a slot with its source or with a newcomer, and both are chosen.
LEMMA PlacedIsChosen ==
  ASSUME NEW p \in Listeners, NEW i \in 1..SlotCount
  PROVE  Place(p)[i] = NoPeer \/ Place(p)[i] \in Chosen(p)
<1> DEFINE free == {j \in 1..SlotCount : ~(slots[p][j] \in Chosen(p))}
<1> DEFINE new == {s \in Chosen(p) : ~Holding(p, s)}
<1> DEFINE takes == {s \in new : Cardinality({t \in new \ {s} : Preferred(p, t, s)})
                                 = Cardinality({j \in free : j < i})}
<1>1. Place(p)[i] = IF slots[p][i] \in Chosen(p) THEN slots[p][i]
                    ELSE IF takes = {} THEN NoPeer ELSE CHOOSE s \in takes : TRUE
  BY DEF Place
<1>2. takes \subseteq Chosen(p)
  OBVIOUS
<1> HIDE DEF takes
<1>3. takes # {} => (CHOOSE s \in takes : TRUE) \in takes
  OBVIOUS
<1> QED BY <1>1, <1>2, <1>3

\* choose takes only sources the listener may receive.
LEMMA ChosenIsAllowed ==
  ASSUME NEW p \in Listeners, NEW s \in Chosen(p) PROVE s \in Talkers /\ MayReceive(p, s)
BY DEF Chosen

\* Every step of the room keeps its slots.
LEMMA SlotsStepInv == SlotsInv /\ SlotsNext => SlotsInv'
<1> SUFFICES ASSUME SlotsInv, SlotsNext PROVE SlotsInv'
  OBVIOUS
<1> USE NoPeerIsNone, SlotsAssumption
<1> DEFINE Maps == [1..SlotCount -> Talkers \cup {NoPeer}]
<1> DEFINE Subs == [pin: SUBSET VoiceUsers, drop: SUBSET VoiceUsers, cap: 0..SlotCount]
<1>0. SlotsTypeOK /\ SlotsAllowed /\ ExcludedIsNotForwarded /\ MapIsKnown
  BY DEF SlotsInv
<1>t. /\ stage \in [Peers -> {"silent", "in", "ready", "done"}]
      /\ loud \in [Talkers -> Loudness] /\ excluded \in [VoiceUsers -> SUBSET VoiceUsers]
      /\ sub \in [Listeners -> Subs] /\ slots \in [Listeners -> Maps]
      /\ fills \in [Talkers -> SUBSET AllSlots] /\ loaded \in [Talkers -> SUBSET AllSlots]
      /\ slotMap = slots /\ sentMap \in [Listeners -> {<<>>} \cup Maps]
      /\ owed \subseteq Listeners /\ wrote \in (Listeners \X Talkers) \cup {Nobody}
      /\ applied \in [VoiceUsers -> SUBSET VoiceUsers]
  BY <1>0 DEF SlotsTypeOK
<1>q. ASSUME /\ stage' \in [Peers -> {"silent", "in", "ready", "done"}]
             /\ loud' \in [Talkers -> Loudness] /\ excluded' \in [VoiceUsers -> SUBSET VoiceUsers]
             /\ sub' \in [Listeners -> Subs] /\ slots' \in [Listeners -> Maps]
             /\ fills' \in [Talkers -> SUBSET AllSlots] /\ loaded' \in [Talkers -> SUBSET AllSlots]
             /\ slotMap' = slots' /\ sentMap' \in [Listeners -> {<<>>} \cup Maps]
             /\ owed' \subseteq Listeners /\ wrote' \in (Listeners \X Talkers) \cup {Nobody}
             /\ applied' \in [VoiceUsers -> SUBSET VoiceUsers],
             SlotsAllowed', ExcludedIsNotForwarded', MapIsKnown'
      PROVE  SlotsInv'
  BY <1>q DEF SlotsInv, SlotsTypeOK
<1>a. UNCHANGED <<slots, applied>> => SlotsAllowed'
  BY <1>0 DEF SlotsAllowed
<1>w. wrote' = Nobody => ExcludedIsNotForwarded'
  BY DEF ExcludedIsNotForwarded
<1>k. UNCHANGED <<stage, owed, sentMap, slotMap>> => MapIsKnown'
  BY <1>0 DEF MapIsKnown
<1>u. \A p \in Peers : UserOf(p) \in VoiceUsers
  BY DEF VoiceUsers
<1>s. NoSub \in Subs
  BY DEF NoSub
<1> HIDE DEF Maps, Subs
<1>1. CASE Changed
  <2> DEFINE placed == [p \in Listeners |-> Place(p)]
  <2>1. /\ slots' = placed /\ slotMap' = placed /\ applied' = excluded /\ wrote' = Nobody
        /\ fills' = [s \in Talkers |-> {x \in AllSlots : placed[x[1]][x[2]] = s}]
        /\ owed' = owed \cup {p \in Listeners : slotMap[p] # placed[p]}
        /\ UNCHANGED <<stage, loud, excluded, sub, loaded, sentMap>>
    BY <1>1 DEF Changed, Assign
  <2>2. ASSUME NEW p \in Listeners PROVE Place(p) \in Maps
    <3>1. Place(p) = [i \in 1..SlotCount |-> Place(p)[i]]
      BY DEF Place
    <3>2. \A i \in 1..SlotCount : Place(p)[i] \in Talkers \cup {NoPeer}
      BY PlacedIsChosen, ChosenIsAllowed
    <3> QED BY <3>1, <3>2 DEF Maps
  <2>3. placed \in [Listeners -> Maps]
    BY <2>2
  <2>4. SlotsAllowed'
    <3> SUFFICES ASSUME NEW p \in Listeners, NEW i \in 1..SlotCount, Place(p)[i] # NoPeer
                 PROVE  /\ UserOf(Place(p)[i]) # UserOf(p)
                        /\ UserOf(Place(p)[i]) \notin excluded[UserOf(p)]
      BY <2>1 DEF SlotsAllowed
    <3>1. Place(p)[i] \in Chosen(p)
      BY PlacedIsChosen
    <3> QED BY <3>1, ChosenIsAllowed DEF MayReceive
  <2>5. MapIsKnown'
    <3> SUFFICES ASSUME NEW p \in Listeners, stage[p] = "done", p \notin owed'
                 PROVE  sentMap[p] = placed[p]
      BY <2>1 DEF MapIsKnown
    <3>1. p \notin owed /\ slotMap[p] = placed[p]
      BY <2>1
    <3> QED BY <1>0, <3>1 DEF MapIsKnown
  <2> HIDE DEF placed
  <2>6. fills' \in [Talkers -> SUBSET AllSlots]
    BY <2>1
  <2> QED BY <1>t, <1>q, <1>w, <2>1, <2>3, <2>4, <2>5, <2>6
<1>2. ASSUME NEW p \in Peers, HelloIn(p) PROVE SlotsInv'
  <2>1. stage' \in [Peers -> {"silent", "in", "ready", "done"}]
    BY <1>t, <1>2 DEF HelloIn
  <2>2. MapIsKnown'
    BY <1>0, <1>t, <1>2 DEF HelloIn, MapIsKnown
  <2> QED BY <1>t, <1>q, <1>a, <1>w, <1>2, <2>1, <2>2 DEF HelloIn
<1>3. ASSUME NEW p \in Listeners, HelloReady(p) PROVE SlotsInv'
  <2>1. stage' \in [Peers -> {"silent", "in", "ready", "done"}]
    BY <1>t, <1>3 DEF HelloReady
  <2>2. MapIsKnown'
    BY <1>0, <1>t, <1>3 DEF HelloReady, MapIsKnown
  <2> QED BY <1>t, <1>q, <1>a, <1>w, <1>3, <2>1, <2>2 DEF HelloReady
<1>4. ASSUME NEW p \in Listeners, HelloFlush(p) PROVE SlotsInv'
  <2>1. stage' \in [Peers -> {"silent", "in", "ready", "done"}]
    BY <1>t, <1>4 DEF HelloFlush
  <2>2. sentMap' = [sentMap EXCEPT ![p] = slotMap[p]]
    BY <1>4 DEF HelloFlush, FlushSlots
  <2>3. sentMap' \in [Listeners -> {<<>>} \cup Maps]
    BY <1>t, <2>2
  <2>4. MapIsKnown'
    BY <1>0, <1>t, <1>4, <2>2 DEF HelloFlush, MapIsKnown
  <2> QED BY <1>t, <1>q, <1>a, <1>w, <1>4, <2>1, <2>3, <2>4 DEF HelloFlush
<1>5. ASSUME NEW p \in Listeners, Flush(p) PROVE SlotsInv'
  <2>1. sentMap' \in [Listeners -> {<<>>} \cup Maps]
    BY <1>t, <1>5 DEF Flush, FlushSlots
  <2>2. owed' = owed \ {p} /\ UNCHANGED <<stage, slotMap>>
    BY <1>5 DEF Flush
  <2>3. MapIsKnown'
    <3> SUFFICES ASSUME NEW r \in Listeners, stage[r] = "done", r \notin owed'
                 PROVE  sentMap'[r] = slotMap[r]
      BY <2>2 DEF MapIsKnown
    <3>1. CASE r = p
      BY <1>t, <1>5, <3>1 DEF Flush, FlushSlots
    <3>2. CASE r # p
      <4>1. sentMap'[r] = sentMap[r]
        BY <1>t, <1>5, <3>2 DEF Flush, FlushSlots
      <4> QED BY <1>0, <2>2, <3>2, <4>1 DEF MapIsKnown
    <3> QED BY <3>1, <3>2
  <2> QED BY <1>t, <1>q, <1>a, <1>w, <1>5, <2>1, <2>2, <2>3 DEF Flush
<1>6. ASSUME NEW p \in Listeners, NEW s \in Subs, OnSubscribe(p, s) PROVE SlotsInv'
  <2>1. sub' \in [Listeners -> Subs]
    BY <1>t, <1>6 DEF OnSubscribe
  <2> QED BY <1>t, <1>q, <1>a, <1>w, <1>k, <1>6, <2>1 DEF OnSubscribe
<1>7. ASSUME NEW p \in Listeners, NEW others \in SUBSET VoiceUsers, Exclude(UserOf(p), others)
      PROVE  SlotsInv'
  <2>1. excluded' \in [VoiceUsers -> SUBSET VoiceUsers]
    BY <1>t, <1>u, <1>7 DEF Exclude
  <2> QED BY <1>t, <1>q, <1>a, <1>w, <1>k, <1>7, <2>1 DEF Exclude
<1>8. ASSUME NEW p \in Talkers, NEW l \in Loudness, Hear(p, l) PROVE SlotsInv'
  <2>1. loud' \in [Talkers -> Loudness]
    BY <1>t, <1>8 DEF Hear
  <2> QED BY <1>t, <1>q, <1>a, <1>w, <1>k, <1>8, <2>1 DEF Hear
<1>9. ASSUME NEW p \in Talkers, LoadSlots(p) PROVE SlotsInv'
  <2>1. loaded' \in [Talkers -> SUBSET AllSlots]
    BY <1>t, <1>9 DEF LoadSlots
  <2> QED BY <1>t, <1>q, <1>a, <1>w, <1>k, <1>9, <2>1 DEF LoadSlots
<1>10. ASSUME NEW p \in Talkers, NEW x \in AllSlots, Write(p, x) PROVE SlotsInv'
  <2>1. loaded' \in [Talkers -> SUBSET AllSlots]
    BY <1>t, <1>10 DEF Write
  <2>2. x[1] \in Listeners /\ x[2] \in 1..SlotCount
    BY DEF AllSlots
  <2>3. (wrote' = <<x[1], p>> /\ StillInSlot(p, x)) \/ wrote' = Nobody
    BY <1>10 DEF Write
  <2>4. wrote' \in (Listeners \X Talkers) \cup {Nobody}
    BY <2>2, <2>3
  <2>5. ExcludedIsNotForwarded'
    <3>1. CASE wrote' = Nobody
      BY <1>w, <3>1
    <3>2. CASE wrote' = <<x[1], p>> /\ StillInSlot(p, x)
      <4>1. slots[x[1]][x[2]] = p /\ p # NoPeer
        BY <3>2 DEF StillInSlot
      <4>2. UserOf(p) # UserOf(x[1]) /\ UserOf(p) \notin applied[UserOf(x[1])]
        BY <1>0, <2>2, <4>1 DEF SlotsAllowed
      <4>3. wrote'[1] = x[1] /\ wrote'[2] = p /\ applied' = applied
        BY <1>10, <3>2 DEF Write
      <4> QED BY <4>2, <4>3 DEF ExcludedIsNotForwarded
    <3> QED BY <2>3, <3>1, <3>2
  <2> QED BY <1>t, <1>q, <1>a, <1>k, <1>10, <2>1, <2>4, <2>5 DEF Write
<1>11. \A s \in Talkers : UserOf(s) \in VoiceUsers
  BY <1>u
<1>12. /\ [NoSub EXCEPT !.cap = 0] \in Subs
       /\ \A s \in Talkers : [NoSub EXCEPT !.pin = {UserOf(s)}] \in Subs /\ [NoSub EXCEPT !.drop = {UserOf(s)}] \in Subs
  BY <1>11, <1>s DEF Subs, NoSub
<1>13. {} \in SUBSET VoiceUsers /\ \A s \in Talkers : {UserOf(s)} \in SUBSET VoiceUsers
  BY <1>11
<1> QED BY <1>1, <1>2, <1>3, <1>4, <1>5, <1>6, <1>7, <1>8, <1>9, <1>10, <1>s, <1>12, <1>13 DEF SlotsNext

\* Steps of the other parts change nothing here.
LEMMA SlotsStutterInv == SlotsInv /\ UNCHANGED slotVars => SlotsInv'
<1> SUFFICES ASSUME SlotsInv, UNCHANGED slotVars PROVE SlotsInv'
  OBVIOUS
<1>1. SlotsTypeOK'
  BY DEF SlotsInv, SlotsTypeOK, slotVars
<1>2. SlotsAllowed' /\ ExcludedIsNotForwarded' /\ MapIsKnown'
  BY DEF SlotsInv, SlotsAllowed, ExcludedIsNotForwarded, MapIsKnown, slotVars
<1> QED BY <1>1, <1>2 DEF SlotsInv

--------------------------------------------------------------------------------
(* What sessions are told.                                                 *)

\* The guilds an account is, or has been, a member of.
WasIn(u) == {g \in Guild : <<u, g>> \in members \/ until[<<u, g>>] # Never}

\* The account was a member at some moment after transaction n was committed.
MemberSince(u, g, n) == <<u, g>> \in members \/ until[<<u, g>>] >= n

\* The events of transactions committed: those for named accounts name members.
SoundEvents ==
  {ev \in Event : ev.op <= ops /\ (ev.aud = "users" => \A u \in ev.users : ev.guild \in WasIn(u))}

\* Those that may be handed to session s, which decides itself about a guild that is gone.
DueEvents(s) ==
  {ev \in SoundEvents : /\ ev.aud = "guild" => MemberSince(Owner[s], ev.guild, ev.op)
                        /\ ev.aud = "users" => ev.guild \in WasIn(Owner[s])}

\* Those that may be in its stream.
FineEvents(s) == {ev \in DueEvents(s) : ev.guild \in WasIn(Owner[s])}

\* A lane at work: on events of transactions committed, for the sessions they are for.
WorkOk(w) ==
  \/ w = Idle
  \/ /\ w.stage = "check" /\ w.ev \in SoundEvents /\ w.to \in SUBSET Sess
     /\ w.ev.aud = "users" => \A s \in w.to : Owner[s] \in w.ev.users
  \/ /\ w.stage = "deliver" /\ w.ev \in SoundEvents /\ w.to \in SUBSET Sess
     /\ \A s \in w.to : w.ev \in DueEvents(s)

DbOk ==
  /\ guilds \subseteq Guild /\ members \subseteq User \X guilds
  /\ log \in Seq(Guild) /\ ops <= MaxOps /\ until \in [User \X Guild -> -1..MaxOps]

PathOk ==
  /\ hooks \in [Op -> Seq(SoundEvents)]
  /\ bus \in Seq(SoundEvents) /\ Len(bus) <= BusCap
  /\ lanes \in [Lane -> Seq(SoundEvents)] /\ (\A l \in Lane : Len(lanes[l]) <= LaneDepth)
  /\ DOMAIN work = Lane /\ work = [l \in Lane |-> work[l]] /\ (\A l \in Lane : WorkOk(work[l]))
  /\ amiss \subseteq {"lost", "swapped"}

IndexOk ==
  /\ byUser \subseteq Sess /\ unready \subseteq Sess /\ byGuild \in [Guild -> SUBSET Sess]
  /\ state \in [Sess -> {"new", "open", "ready", "ended"}]

\* What a session knows: only guilds that its account is or was in.
SessionOk(s) ==
  /\ read[s] \in [guilds : SUBSET WasIn(Owner[s]), at : -1..MaxOps]
  /\ sguilds[s] \subseteq WasIn(Owner[s])
  /\ pending[s] \in Seq(DueEvents(s))
  /\ stream[s] \in Seq(FineEvents(s))

SessionsOk ==
  /\ read = [s \in Sess |-> read[s]] /\ sguilds = [s \in Sess |-> sguilds[s]]
  /\ pending = [s \in Sess |-> pending[s]] /\ stream = [s \in Sess |-> stream[s]]
  /\ \A s \in Sess : SessionOk(s)

FanInv == DbOk /\ PathOk /\ IndexOk /\ SessionsOk

\* A sequence over a set is one over any larger set.
LEMMA SeqLarger == ASSUME NEW A, NEW B, A \subseteq B, NEW q \in Seq(A) PROVE q \in Seq(B)
OBVIOUS

\* The number of transactions is a natural.
LEMMA OpsIsNat == DbOk => ops \in Nat
BY DEF DbOk, ops

\* No transaction, no event.
LEMMA FanInitInv == Init => FanInv
<1> SUFFICES ASSUME Init PROVE FanInv
  OBVIOUS
<1>1. DbOk
  BY FanoutAssumption DEF Init, DbOk, ops, Never
<1>2. PathOk
  <2>1. hooks \in [Op -> Seq(SoundEvents)] /\ bus \in Seq(SoundEvents) /\ lanes \in [Lane -> Seq(SoundEvents)]
    BY DEF Init
  <2>2. Len(bus) <= BusCap /\ (\A l \in Lane : Len(lanes[l]) <= LaneDepth)
    BY FanoutAssumption DEF Init
  <2>3. DOMAIN work = Lane /\ work = [l \in Lane |-> work[l]] /\ (\A l \in Lane : WorkOk(work[l]))
    BY DEF Init, WorkOk
  <2> QED BY <2>1, <2>2, <2>3 DEF Init, PathOk
<1>3. IndexOk
  BY DEF Init, IndexOk
<1>4. ASSUME NEW s \in Sess PROVE SessionOk(s)
  <2>1. read[s] = NotRead /\ sguilds[s] = {} /\ pending[s] = <<>> /\ stream[s] = <<>>
    BY DEF Init
  <2>2. NotRead \in [guilds : SUBSET WasIn(Owner[s]), at : -1..MaxOps]
    BY FanoutAssumption DEF NotRead
  <2> QED BY <2>1, <2>2 DEF SessionOk
<1>5. SessionsOk
  BY <1>4 DEF Init, SessionsOk
<1> QED BY <1>1, <1>2, <1>3, <1>5 DEF FanInv

\* A step that changes no row keeps what is known of events and accounts.
LEMMA SameRows ==
  ASSUME UNCHANGED db
  PROVE  /\ DbOk => DbOk'
         /\ SoundEvents' = SoundEvents /\ (\A w : WorkOk(w)' = WorkOk(w))
         /\ \A s : DueEvents(s)' = DueEvents(s) /\ FineEvents(s)' = FineEvents(s)
         /\ \A u : WasIn(u)' = WasIn(u)
<1> USE DEF db
<1>1. ASSUME NEW u PROVE WasIn(u)' = WasIn(u)
  BY DEF WasIn
<1>2. SoundEvents' = SoundEvents
  BY <1>1 DEF SoundEvents, ops
<1>3. ASSUME NEW s PROVE DueEvents(s)' = DueEvents(s)
  BY <1>1, <1>2 DEF DueEvents, MemberSince
<1>4. ASSUME NEW s PROVE FineEvents(s)' = FineEvents(s)
  BY <1>1, <1>3 DEF FineEvents
<1>5. ASSUME NEW w PROVE WorkOk(w)' = WorkOk(w)
  BY <1>2, <1>3 DEF WorkOk
<1>6. DbOk => DbOk'
  BY DEF DbOk, ops
<1> QED BY <1>1, <1>2, <1>3, <1>4, <1>5, <1>6

\* What was true of an event, an account and a lane's work stays true as transactions commit.
LEMMA RowsMove ==
  ASSUME DbOk, DbOk', ops' = ops + 1,
         \A m \in User \X Guild : m \in members => m \in members' \/ until'[m] = ops,
         \A m \in User \X Guild : m \notin members => until'[m] = until[m]
  PROVE  /\ SoundEvents \subseteq SoundEvents' /\ (\A w : WorkOk(w) => WorkOk(w)')
         /\ \A s \in Sess : /\ DueEvents(s) \subseteq DueEvents(s)' /\ FineEvents(s) \subseteq FineEvents(s)'
                            /\ WasIn(Owner[s]) \subseteq WasIn(Owner[s])'
<1>0. ops \in Nat
  BY OpsIsNat
<1>1. ASSUME NEW u \in User PROVE WasIn(u) \subseteq WasIn(u)'
  <2> SUFFICES ASSUME NEW g \in Guild, <<u, g>> \in members \/ until[<<u, g>>] # Never
               PROVE  <<u, g>> \in members' \/ until'[<<u, g>>] # Never
    BY DEF WasIn
  <2>1. <<u, g>> \in User \X Guild
    OBVIOUS
  <2> QED BY <1>0, <2>1 DEF Never
<1>2. SoundEvents \subseteq SoundEvents'
  <2> SUFFICES ASSUME NEW ev \in SoundEvents PROVE ev \in SoundEvents'
    OBVIOUS
  <2>1. ev \in Event /\ ev.op <= ops /\ (ev.aud = "users" => \A u \in ev.users : ev.guild \in WasIn(u))
    BY DEF SoundEvents
  <2>2. ev.users \subseteq User /\ ev.op \in Nat
    BY <2>1, FanoutAssumption DEF Event, Op
  <2>3. ev.op <= ops'
    BY <1>0, <2>1, <2>2
  <2>4. ev.aud = "users" => \A u \in ev.users : ev.guild \in WasIn(u)'
    BY <1>1, <2>1, <2>2
  <2> QED BY <2>1, <2>3, <2>4 DEF SoundEvents
<1>3. ASSUME NEW s \in Sess PROVE DueEvents(s) \subseteq DueEvents(s)'
  <2> SUFFICES ASSUME NEW ev \in DueEvents(s) PROVE ev \in DueEvents(s)'
    OBVIOUS
  <2> DEFINE m == <<Owner[s], ev.guild>>
  <2>1. /\ ev \in SoundEvents /\ (ev.aud = "guild" => MemberSince(Owner[s], ev.guild, ev.op))
        /\ (ev.aud = "users" => ev.guild \in WasIn(Owner[s]))
    BY DEF DueEvents
  <2>2. Owner[s] \in User /\ m \in User \X Guild /\ ev.op \in Nat /\ ev.op <= ops
    BY <2>1, FanoutAssumption DEF SoundEvents, Event, Op
  <2>3. ev.aud = "guild" => MemberSince(Owner[s], ev.guild, ev.op)'
    <3> SUFFICES ASSUME m \in members \/ until[m] >= ev.op PROVE m \in members' \/ until'[m] >= ev.op
      BY <2>1 DEF MemberSince
    <3> HIDE DEF m
    <3> QED BY <1>0, <2>2
  <2> QED BY <1>1, <1>2, <2>1, <2>2, <2>3 DEF DueEvents
<1>4. ASSUME NEW s \in Sess
      PROVE  FineEvents(s) \subseteq FineEvents(s)' /\ WasIn(Owner[s]) \subseteq WasIn(Owner[s])'
  <2>1. Owner[s] \in User
    BY FanoutAssumption
  <2> QED BY <1>1, <1>3, <2>1 DEF FineEvents
<1>5. ASSUME NEW w, WorkOk(w) PROVE WorkOk(w)'
  BY <1>2, <1>3, <1>5 DEF WorkOk
<1> QED BY <1>2, <1>3, <1>4, <1>5

\* A session that does not move stays well informed as its account's guilds grow.
LEMMA SessionStays ==
  ASSUME NEW s \in Sess, SessionOk(s),
         UNCHANGED <<read[s], sguilds[s], pending[s], stream[s]>>,
         DueEvents(s) \subseteq DueEvents(s)', FineEvents(s) \subseteq FineEvents(s)',
         WasIn(Owner[s]) \subseteq WasIn(Owner[s])'
  PROVE  SessionOk(s)'
<1>1. pending'[s] \in Seq(DueEvents(s)') /\ stream'[s] \in Seq(FineEvents(s)')
  BY SeqLarger DEF SessionOk
<1>2. read'[s] \in [guilds : SUBSET (WasIn(Owner[s])'), at : -1..MaxOps] /\ sguilds'[s] \subseteq WasIn(Owner[s])'
  BY DEF SessionOk
<1> QED BY <1>1, <1>2 DEF SessionOk

\* A transaction whose events are sound keeps everything: what is on its way, and what
\* the sessions know.
LEMMA CommitKeeps ==
  ASSUME FanInv, DbOk', NEW g, NEW events, Commit(g, events), events \in Seq(SoundEvents'),
         \A m \in User \X Guild : m \in members => m \in members' \/ until'[m] = ops,
         \A m \in User \X Guild : m \notin members => until'[m] = until[m]
  PROVE  FanInv'
<1>0. DbOk /\ PathOk /\ IndexOk /\ SessionsOk /\ ops \in Nat
  BY OpsIsNat DEF FanInv
<1>1. ops' = ops + 1 /\ ops + 1 \in Op
  <2>1. ops' = ops + 1 /\ ops < MaxOps
    BY <1>0 DEF Commit, ops, DbOk
  <2> QED BY <1>0, <2>1, FanoutAssumption DEF Op
<1>2. /\ SoundEvents \subseteq SoundEvents' /\ (\A w : WorkOk(w) => WorkOk(w)')
      /\ \A s \in Sess : /\ DueEvents(s) \subseteq DueEvents(s)' /\ FineEvents(s) \subseteq FineEvents(s)'
                         /\ WasIn(Owner[s]) \subseteq WasIn(Owner[s])'
  BY <1>0, <1>1, RowsMove
<1>3. UNCHANGED <<bus, lanes, work, amiss, byUser, byGuild, unready, state, read, sguilds, pending, stream>>
      /\ hooks' = [hooks EXCEPT ![ops + 1] = events]
  BY DEF Commit, index, sessions
<1>4. PathOk'
  <2>1. ASSUME NEW q \in Seq(SoundEvents) PROVE q \in Seq(SoundEvents')
    BY <1>2, SeqLarger
  <2>2. hooks' \in [Op -> Seq(SoundEvents')]
    <3>1. \A o \in Op : hooks[o] \in Seq(SoundEvents')
      BY <1>0, <2>1 DEF PathOk
    <3>2. hooks \in [Op -> Seq(SoundEvents')]
      BY <1>0, <3>1 DEF PathOk
    <3> QED BY <1>1, <1>3, <3>2
  <2>3. lanes' \in [Lane -> Seq(SoundEvents')]
    BY <1>0, <1>3, <2>1 DEF PathOk
  <2>4. bus' \in Seq(SoundEvents')
    BY <1>0, <1>3, <2>1 DEF PathOk
  <2>5. \A l \in Lane : WorkOk(work[l])'
    <3> SUFFICES ASSUME NEW l \in Lane PROVE WorkOk(work[l])'
      OBVIOUS
    <3>1. PICK w : w = work[l]
      OBVIOUS
    <3>2. WorkOk(w) /\ work'[l] = w
      BY <1>0, <1>3, <3>1 DEF PathOk
    <3>3. WorkOk(w)'
      BY <1>2, <3>2
    <3> QED BY <3>2, <3>3
  <2> QED BY <1>0, <1>3, <2>2, <2>3, <2>4, <2>5 DEF PathOk
<1>5. SessionsOk'
  <2>1. ASSUME NEW s \in Sess PROVE SessionOk(s)'
    BY <1>0, <1>2, <1>3, SessionStays DEF SessionsOk
  <2> QED BY <1>0, <1>3, <2>1 DEF SessionsOk
<1> QED BY <1>0, <1>3, <1>4, <1>5 DEF FanInv, IndexOk

\* The rows a transaction leaves are well formed.
LEMMA CommittedRows ==
  ASSUME DbOk, NEW g \in Guild, NEW events, Commit(g, events)
  PROVE  /\ log' \in Seq(Guild) /\ (ops <= MaxOps)' /\ ops' = ops + 1 /\ ops \in -1..MaxOps
         /\ ops + 1 \in Op
<1>1. ops \in Nat /\ ops < MaxOps /\ log' = Append(log, g) /\ log \in Seq(Guild)
  BY OpsIsNat DEF Commit, DbOk
<1>2. log' \in Seq(Guild) /\ ops' = ops + 1
  BY <1>1 DEF ops
<1> QED BY <1>1, <1>2, FanoutAssumption DEF Op

\* Every transaction of the guilds keeps the invariant.
LEMMA TransactionKeeps == FanInv /\ Transaction => FanInv'
<1> SUFFICES ASSUME FanInv, Transaction PROVE FanInv'
  OBVIOUS
<1>0. DbOk /\ ops \in Nat
  BY OpsIsNat DEF FanInv
<1>1. ASSUME NEW u \in User, NEW g \in Guild, Join(u, g) PROVE FanInv'
  <2> DEFINE events == <<ToUser("CREATE", u, g), ToGuild(g)>>
  <2>1. /\ g \in guilds /\ members' = members \cup {<<u, g>>} /\ Commit(g, events)
        /\ UNCHANGED <<guilds, until>>
    BY <1>1 DEF Join
  <2>2. /\ log' \in Seq(Guild) /\ (ops <= MaxOps)' /\ ops' = ops + 1 /\ ops \in -1..MaxOps /\ ops + 1 \in Op
    BY <1>0, <2>1, CommittedRows
  <2>3. DbOk'
    BY <1>0, <2>1, <2>2 DEF DbOk
  <2>4. ToUser("CREATE", u, g) \in SoundEvents' /\ ToGuild(g) \in SoundEvents'
    BY <1>0, <2>1, <2>2 DEF ToUser, ToGuild, SoundEvents, Event, WasIn
  <2>5. events \in Seq(SoundEvents')
    BY <2>4
  <2> HIDE DEF events
  <2> QED BY <2>1, <2>3, <2>5, CommitKeeps
<1>2. ASSUME NEW u \in User, NEW g \in Guild, RemoveMember(u, g) PROVE FanInv'
  <2> DEFINE events == <<ToUser("DELETE", u, g), ToGuild(g)>>
  <2>1. /\ <<u, g>> \in members /\ members' = members \ {<<u, g>>} /\ Commit(g, events)
        /\ until' = [until EXCEPT ![<<u, g>>] = ops] /\ UNCHANGED guilds
    BY <1>2 DEF RemoveMember
  <2>2. /\ log' \in Seq(Guild) /\ (ops <= MaxOps)' /\ ops' = ops + 1 /\ ops \in -1..MaxOps /\ ops + 1 \in Op
    BY <1>0, <2>1, CommittedRows
  <2>3. until' \in [User \X Guild -> -1..MaxOps] /\ until'[<<u, g>>] = ops
        /\ \A m \in User \X Guild : m # <<u, g>> => until'[m] = until[m]
    BY <1>0, <2>1, <2>2 DEF DbOk
  <2>4. DbOk'
    BY <1>0, <2>1, <2>2, <2>3 DEF DbOk
  <2>5. ToUser("DELETE", u, g) \in SoundEvents' /\ ToGuild(g) \in SoundEvents'
    <3>1. g \in WasIn(u)'
      BY <1>0, <2>3 DEF WasIn, Never
    <3>2. ToUser("DELETE", u, g) \in SoundEvents'
      BY <1>0, <2>2, <3>1 DEF ToUser, SoundEvents, Event
    <3>3. ToGuild(g) \in SoundEvents'
      BY <1>0, <2>2 DEF ToGuild, SoundEvents, Event
    <3> QED BY <3>2, <3>3
  <2>6. events \in Seq(SoundEvents')
    BY <2>5
  <2>7. /\ \A m \in User \X Guild : m \in members => m \in members' \/ until'[m] = ops
        /\ \A m \in User \X Guild : m \notin members => until'[m] = until[m]
    BY <2>1, <2>3
  <2> HIDE DEF events
  <2> QED BY <2>1, <2>4, <2>6, <2>7, CommitKeeps
<1>3. ASSUME NEW g \in Guild, DeleteGuild(g) PROVE FanInv'
  <2> DEFINE events == <<ToFormer(g)>>
  <2>1. /\ guilds' = guilds \ {g} /\ members' = {m \in members : m[2] # g} /\ Commit(g, events)
        /\ until' = [m \in User \X Guild |-> IF m \in members /\ m[2] = g THEN ops ELSE until[m]]
    BY <1>3 DEF DeleteGuild
  <2>2. /\ log' \in Seq(Guild) /\ (ops <= MaxOps)' /\ ops' = ops + 1 /\ ops \in -1..MaxOps /\ ops + 1 \in Op
    BY <1>0, <2>1, CommittedRows
  <2>3. until' \in [User \X Guild -> -1..MaxOps]
    BY <1>0, <2>1, <2>2 DEF DbOk
  <2>4. members' \subseteq User \X guilds'
    BY <1>0, <2>1 DEF DbOk
  <2>5. DbOk'
    BY <1>0, <2>1, <2>2, <2>3, <2>4 DEF DbOk
  <2>6. ToFormer(g) \in SoundEvents'
    BY <1>0, <2>2 DEF ToFormer, SoundEvents, Event
  <2>7. events \in Seq(SoundEvents')
    BY <2>6
  <2>8. /\ \A m \in User \X Guild : m \in members => m \in members' \/ until'[m] = ops
        /\ \A m \in User \X Guild : m \notin members => until'[m] = until[m]
    BY <2>1
  <2> HIDE DEF events
  <2> QED BY <2>1, <2>5, <2>7, <2>8, CommitKeeps
<1>4. ASSUME NEW g \in Guild, Post(g) PROVE FanInv'
  <2> DEFINE events == <<ToGuild(g)>>
  <2>1. Commit(g, events) /\ UNCHANGED <<guilds, members, until>>
    BY <1>4 DEF Post
  <2>2. /\ log' \in Seq(Guild) /\ (ops <= MaxOps)' /\ ops' = ops + 1 /\ ops \in -1..MaxOps /\ ops + 1 \in Op
    BY <1>0, <2>1, CommittedRows
  <2>3. DbOk'
    BY <1>0, <2>1, <2>2 DEF DbOk
  <2>4. ToGuild(g) \in SoundEvents'
    BY <1>0, <2>2 DEF ToGuild, SoundEvents, Event
  <2>5. events \in Seq(SoundEvents')
    BY <2>4
  <2> HIDE DEF events
  <2> QED BY <2>1, <2>3, <2>5, CommitKeeps
<1> QED BY <1>1, <1>2, <1>3, <1>4 DEF Transaction

\* Sessions that do not move, and rows that do not change.
LEMMA SessionsStay ==
  ASSUME FanInv, UNCHANGED <<db, sessions>> PROVE SessionsOk'
<1>1. ASSUME NEW s \in Sess PROVE SessionOk(s)'
  BY SameRows, SessionStays DEF FanInv, SessionsOk, sessions
<1> QED BY <1>1 DEF FanInv, SessionsOk, sessions

\* The way of an event from its hook to the sessions it may go to.
LEMMA PathKeeps ==
  FanInv /\ ((\E o \in Op : Publish(o)) \/ OnEvent \/ (\E l \in Lane : Pick(l) \/ Check(l))) => FanInv'
<1> SUFFICES ASSUME FanInv, (\E o \in Op : Publish(o)) \/ OnEvent \/ (\E l \in Lane : Pick(l) \/ Check(l))
             PROVE  FanInv'
  OBVIOUS
<1>0. DbOk /\ PathOk /\ IndexOk /\ SessionsOk
  BY DEF FanInv
<1>1. UNCHANGED <<db, index, sessions>>
  BY DEF Publish, OnEvent, Pick, Check
<1>2. DbOk' /\ IndexOk' /\ SessionsOk'
  BY <1>0, <1>1, SameRows, SessionsStay DEF IndexOk, index, sessions
<1>3. SoundEvents' = SoundEvents /\ (\A w : WorkOk(w)' = WorkOk(w))
  BY <1>1, SameRows
<1>4. SUFFICES /\ hooks' \in [Op -> Seq(SoundEvents)]
               /\ bus' \in Seq(SoundEvents) /\ Len(bus') <= BusCap
               /\ lanes' \in [Lane -> Seq(SoundEvents)] /\ (\A l \in Lane : Len(lanes'[l]) <= LaneDepth)
               /\ DOMAIN work' = Lane /\ work' = [l \in Lane |-> work'[l]]
               /\ (\A l \in Lane : \E w : w = work'[l] /\ WorkOk(w))
               /\ amiss' \subseteq {"lost", "swapped"}
  <2>1. ASSUME NEW l \in Lane, NEW w, w = work'[l], WorkOk(w) PROVE WorkOk(work[l])'
    <3>1. WorkOk(w)'
      BY <1>3, <2>1
    <3> QED BY <2>1, <3>1
  <2> QED BY <1>2, <1>3, <2>1 DEF FanInv, PathOk
<1>s. /\ hooks \in [Op -> Seq(SoundEvents)]
      /\ bus \in Seq(SoundEvents) /\ Len(bus) <= BusCap
      /\ lanes \in [Lane -> Seq(SoundEvents)] /\ (\A l \in Lane : Len(lanes[l]) <= LaneDepth)
      /\ DOMAIN work = Lane /\ work = [l \in Lane |-> work[l]]
      /\ (\A l \in Lane : \E w : w = work[l] /\ WorkOk(w))
      /\ amiss \subseteq {"lost", "swapped"}
  BY <1>0 DEF PathOk
<1> DEFINE Sounds == SoundEvents
<1>5. ASSUME NEW o \in Op, Publish(o)
      PROVE  /\ hooks' \in [Op -> Seq(Sounds)] /\ bus' \in Seq(Sounds) /\ Len(bus') <= BusCap
             /\ UNCHANGED <<lanes, work>> /\ amiss' \subseteq {"lost", "swapped"}
  <2> HIDE DEF Sounds
  <2>1. hooks[o] \in Seq(Sounds) /\ hooks[o] # <<>> /\ bus \in Seq(Sounds)
    BY <1>s, <1>5 DEF Publish, Sounds
  <2>2. Head(hooks[o]) \in Sounds /\ Tail(hooks[o]) \in Seq(Sounds)
    BY <2>1
  <2>3. bus' = IF Len(bus) < BusCap THEN Append(bus, Head(hooks[o])) ELSE bus
    BY <1>5 DEF Publish
  <2>4. bus' \in Seq(Sounds) /\ Len(bus') <= BusCap
    BY <1>s, <2>1, <2>2, <2>3, FanoutAssumption
  <2>5. hooks' \in [Op -> Seq(Sounds)]
    <3>1. hooks' = [hooks EXCEPT ![o] = Tail(hooks[o])]
      BY <1>5 DEF Publish
    <3> QED BY <1>s, <2>2, <3>1 DEF Sounds
  <2> QED BY <1>s, <1>5, <2>4, <2>5 DEF Publish
<1>6. ASSUME OnEvent
      PROVE  /\ bus' \in Seq(Sounds) /\ Len(bus') <= BusCap /\ UNCHANGED <<hooks, work, amiss>>
             /\ lanes' \in [Lane -> Seq(Sounds)] /\ (\A l \in Lane : Len(lanes'[l]) <= LaneDepth)
  <2> DEFINE l == LaneOf[Head(bus).guild]
  <2>1. bus # <<>> /\ Len(lanes[l]) < LaneDepth /\ bus' = Tail(bus)
        /\ lanes' = [lanes EXCEPT ![l] = Append(lanes[l], Head(bus))]
    BY <1>6 DEF OnEvent
  <2>2. Head(bus) \in SoundEvents
    BY <1>s, <2>1
  <2>3. l \in Lane
    BY <2>2, FanoutAssumption DEF SoundEvents, Event
  <2> HIDE DEF Sounds, l
  <2>4. bus \in Seq(Sounds) /\ lanes \in [Lane -> Seq(Sounds)] /\ Head(bus) \in Sounds
    BY <1>s, <2>2 DEF Sounds
  <2>5. bus' \in Seq(Sounds) /\ Len(bus') <= BusCap
    BY <1>s, <2>1, <2>4, FanoutAssumption
  <2>6. lanes[l] \in Seq(Sounds) /\ Append(lanes[l], Head(bus)) \in Seq(Sounds)
        /\ Len(Append(lanes[l], Head(bus))) = Len(lanes[l]) + 1
    BY <2>3, <2>4
  <2>7. Len(lanes[l]) + 1 <= LaneDepth
    BY <2>1, <2>6, FanoutAssumption
  <2>8. lanes' \in [Lane -> Seq(Sounds)] /\ (\A k \in Lane : Len(lanes'[k]) <= LaneDepth)
    BY <1>s, <2>1, <2>3, <2>4, <2>6, <2>7
  <2> QED BY <1>6, <2>5, <2>8 DEF OnEvent
<1>7. ASSUME NEW l \in Lane, Pick(l)
      PROVE  /\ lanes' \in [Lane -> Seq(Sounds)] /\ (\A k \in Lane : Len(lanes'[k]) <= LaneDepth)
             /\ DOMAIN work' = Lane /\ work' = [k \in Lane |-> work'[k]]
             /\ (\A k \in Lane : \E w : w = work'[k] /\ WorkOk(w))
             /\ UNCHANGED <<hooks, bus, amiss>>
  <2> DEFINE ev == Head(lanes[l])
  <2> DEFINE new == IF Candidates(ev) = {} THEN Idle ELSE [stage |-> "check", ev |-> ev, to |-> Candidates(ev)]
  <2>1. lanes[l] # <<>> /\ lanes' = [lanes EXCEPT ![l] = Tail(lanes[l])] /\ work' = [work EXCEPT ![l] = new]
    BY <1>7 DEF Pick
  <2>2. ev \in SoundEvents /\ Tail(lanes[l]) \in Seq(SoundEvents) /\ Len(Tail(lanes[l])) = Len(lanes[l]) - 1
        /\ Len(lanes[l]) \in Nat
    <3> HIDE DEF Sounds
    <3>1. lanes[l] \in Seq(Sounds) /\ lanes[l] # <<>>
      BY <1>s, <2>1 DEF Sounds
    <3>2. Head(lanes[l]) \in Sounds /\ Tail(lanes[l]) \in Seq(Sounds) /\ Len(Tail(lanes[l])) = Len(lanes[l]) - 1
          /\ Len(lanes[l]) \in Nat
      BY <3>1
    <3> QED BY <3>2 DEF Sounds
  <2>3. Candidates(ev) \in SUBSET Sess /\ (ev.aud = "users" => \A s \in Candidates(ev) : Owner[s] \in ev.users)
    <3>1. ev.guild \in Guild
      BY <2>2 DEF SoundEvents, Event
    <3> HIDE DEF ev
    <3> QED BY <1>0, <3>1 DEF Candidates, IndexOk
  <2>4. WorkOk(new)
    <3> HIDE DEF ev
    <3> QED BY <2>2, <2>3 DEF WorkOk
  <2> HIDE DEF new, Sounds
  <2>5. lanes' \in [Lane -> Seq(Sounds)] /\ (\A k \in Lane : Len(lanes'[k]) <= LaneDepth)
    <3>1. lanes \in [Lane -> Seq(Sounds)] /\ Tail(lanes[l]) \in Seq(Sounds)
      BY <1>s, <2>2 DEF Sounds
    <3>2. Len(Tail(lanes[l])) <= LaneDepth
      BY <1>s, <2>2, FanoutAssumption
    <3> QED BY <1>s, <2>1, <3>1, <3>2
  <2>6. DOMAIN work' = Lane /\ work' = [k \in Lane |-> work'[k]] /\ work'[l] = new
        /\ \A k \in Lane \ {l} : work'[k] = work[k]
    BY <1>s, <2>1
  <2> QED BY <1>s, <1>7, <2>4, <2>5, <2>6 DEF Pick
<1>8. ASSUME NEW l \in Lane, Check(l)
      PROVE  /\ DOMAIN work' = Lane /\ work' = [k \in Lane |-> work'[k]]
             /\ (\A k \in Lane : \E w : w = work'[k] /\ WorkOk(w))
             /\ UNCHANGED <<hooks, bus, lanes>> /\ amiss' \subseteq {"lost", "swapped"}
  <2>1. PICK w : w = work[l] /\ WorkOk(w)
    BY <1>s
  <2>2. /\ w.stage = "check" /\ w.ev \in SoundEvents /\ w.to \in SUBSET Sess
        /\ (w.ev.aud = "users" => \A s \in w.to : Owner[s] \in w.ev.users)
    BY <1>8, <2>1 DEF Check, WorkOk, Idle
  <2> DEFINE to == Allowed(w.ev, w.to)
  <2>3. to \subseteq w.to /\ \A s \in to : w.ev \in DueEvents(s)
    <3>1. to \subseteq w.to /\ (w.ev.aud = "guild" => \A s \in to : <<Owner[s], w.ev.guild>> \in members)
      BY DEF Allowed
    <3>2. ASSUME NEW s \in to PROVE w.ev \in DueEvents(s)
      <4>1. w.ev.aud = "guild" => MemberSince(Owner[s], w.ev.guild, w.ev.op)
        BY <3>1 DEF MemberSince
      <4>2. w.ev.aud = "users" => w.ev.guild \in WasIn(Owner[s])
        BY <2>2, <3>1 DEF SoundEvents
      <4> QED BY <2>2, <4>1, <4>2 DEF DueEvents
    <3> QED BY <3>1, <3>2
  <2> DEFINE new == IF to = {} THEN Idle ELSE [stage |-> "deliver", ev |-> w.ev, to |-> to]
  <2>4. WorkOk(new) /\ WorkOk(Idle)
    <3> HIDE DEF to
    <3> QED BY <2>2, <2>3 DEF WorkOk
  <2>5. work' = [work EXCEPT ![l] = new] \/ work' = [work EXCEPT ![l] = Idle]
    BY <1>8, <2>1 DEF Check
  <2>6. amiss' \subseteq {"lost", "swapped"}
    BY <1>s, <1>8 DEF Check
  <2> HIDE DEF new
  <2>7. DOMAIN work' = Lane /\ work' = [k \in Lane |-> work'[k]] /\ (work'[l] = new \/ work'[l] = Idle)
        /\ \A k \in Lane \ {l} : work'[k] = work[k]
    BY <1>s, <2>5
  <2>8. \A k \in Lane : \E v : v = work'[k] /\ WorkOk(v)
    BY <1>s, <2>4, <2>7
  <2> QED BY <1>8, <2>6, <2>7, <2>8 DEF Check
<1> QED BY <1>s, <1>5, <1>6, <1>7, <1>8

\* Applying events that are due to a session leaves it with guilds of its account's and a
\* stream it may be sent.
LEMMA AppliedIsFine ==
  ASSUME FanInv, NEW s \in Sess, NEW known \in SUBSET WasIn(Owner[s]), NEW events \in Seq(DueEvents(s))
  PROVE  Applied([set |-> known, out |-> stream[s]], events)
           \in [set : SUBSET WasIn(Owner[s]), out : Seq(FineEvents(s))]
<1> DEFINE P == [set : SUBSET WasIn(Owner[s]), out : Seq(FineEvents(s))]
<1>1. [set |-> known, out |-> stream[s]] \in P
  BY DEF FanInv, SessionsOk, SessionOk
<1>2. ASSUME NEW a \in P, NEW n \in 1..Len(events) PROVE Apply(a, events[n]) \in P
  <2>1. PICK ev : ev = events[n]
    OBVIOUS
  <2>2. ev \in DueEvents(s)
    BY <2>1
  <2>3. /\ ev \in Event /\ ev.aud \in {"guild", "users", "former"} /\ ev.guild \in Guild /\ ev.op \in Nat \ {0}
        /\ (ev.aud = "guild" => MemberSince(Owner[s], ev.guild, ev.op))
        /\ (ev.aud = "users" => ev.guild \in WasIn(Owner[s]))
    BY <2>2, FanoutAssumption DEF DueEvents, SoundEvents, Event, Op
  <2>4. ev.aud = "guild" => ev.guild \in WasIn(Owner[s])
    <3>1. Owner[s] \in User
      BY FanoutAssumption
    <3>2. until[<<Owner[s], ev.guild>>] >= ev.op => until[<<Owner[s], ev.guild>>] # Never
      BY <2>3 DEF Never
    <3> QED BY <2>3, <3>2 DEF MemberSince, WasIn
  <2>5. CASE ev.aud = "former" /\ ev.guild \notin a.set
    BY <2>1, <2>5 DEF Apply
  <2>6. CASE ~(ev.aud = "former" /\ ev.guild \notin a.set)
    <3>1. ev.guild \in WasIn(Owner[s]) /\ ev \in FineEvents(s)
      BY <2>2, <2>3, <2>4, <2>6 DEF FineEvents
    <3> DEFINE set == CASE ev.type = "CREATE" -> a.set \cup {ev.guild}
                        [] ev.type = "DELETE" -> a.set \ {ev.guild}
                        [] OTHER -> a.set
    <3>2. Apply(a, ev) = [set |-> set, out |-> Append(a.out, ev)]
      BY <2>6 DEF Apply
    <3>3. set \in SUBSET WasIn(Owner[s])
      <4>1. ev.type \in {"CREATE", "DELETE", "OTHER"}
        BY <2>3 DEF Event
      <4>2. CASE ev.type = "CREATE"
        BY <3>1, <4>2
      <4>3. CASE ev.type = "DELETE"
        BY <4>3
      <4>4. CASE ev.type = "OTHER"
        BY <4>4
      <4> QED BY <4>1, <4>2, <4>3, <4>4
    <3>4. Append(a.out, ev) \in Seq(FineEvents(s))
      BY <3>1
    <3> HIDE DEF set
    <3> QED BY <2>1, <3>2, <3>3, <3>4
  <2> QED BY <2>5, <2>6
<1> HIDE DEF P
<1>3. Len(events) \in Nat
  OBVIOUS
<1>4. Applied([set |-> known, out |-> stream[s]], events) \in P
  BY <1>1, <1>2, <1>3, AppliedStays
<1> QED BY <1>4 DEF P

\* Of a step of one session that changes no row, what is left to show.
LEMMA OneSessionMoves ==
  ASSUME FanInv, NEW s \in Sess, UNCHANGED db,
         \A r \in Sess \ {s} : UNCHANGED <<read[r], sguilds[r], pending[r], stream[r]>>,
         read' = [r \in Sess |-> read'[r]], sguilds' = [r \in Sess |-> sguilds'[r]],
         pending' = [r \in Sess |-> pending'[r]], stream' = [r \in Sess |-> stream'[r]],
         read'[s] \in [guilds : SUBSET WasIn(Owner[s]), at : -1..MaxOps],
         sguilds'[s] \subseteq WasIn(Owner[s]),
         pending'[s] \in Seq(DueEvents(s)), stream'[s] \in Seq(FineEvents(s))
  PROVE  SessionsOk'
<1>1. ASSUME NEW r \in Sess \ {s} PROVE SessionOk(r)'
  BY SameRows, SessionStays DEF FanInv, SessionsOk
<1>2. SessionOk(s)'
  BY SameRows DEF SessionOk
<1> QED BY <1>1, <1>2 DEF SessionsOk

\* The sessions' own steps, and the last one of fanOut.
LEMMA SessionKeeps ==
  ASSUME FanInv, NEW s \in Sess,
         (\E l \in Lane : Deliver(l, s)) \/ Register(s) \/ ReadGuilds(s) \/ BecomeReady(s) \/ Stop(s)
  PROVE  FanInv'
<1>0. DbOk /\ PathOk /\ IndexOk /\ SessionsOk /\ SessionOk(s) /\ ops \in Nat
  BY OpsIsNat DEF FanInv, SessionsOk
<1>1. UNCHANGED db
  BY DEF Deliver, Register, ReadGuilds, BecomeReady, Stop
<1>2. DbOk' /\ SoundEvents' = SoundEvents /\ (\A w : WorkOk(w)' = WorkOk(w))
  BY <1>0, <1>1, SameRows
<1>p. ASSUME UNCHANGED path PROVE PathOk'
  <2>1. ASSUME NEW l \in Lane PROVE WorkOk(work[l])'
    <3>1. PICK w : w = work[l]
      OBVIOUS
    <3>2. WorkOk(w) /\ work'[l] = w
      BY <1>0, <1>p, <3>1 DEF PathOk, path
    <3>3. WorkOk(w)'
      BY <1>2, <3>2
    <3> QED BY <3>2, <3>3
  <2> QED BY <1>0, <1>2, <1>p, <2>1 DEF PathOk, path
<1>f. /\ read = [r \in Sess |-> read[r]] /\ sguilds = [r \in Sess |-> sguilds[r]]
      /\ pending = [r \in Sess |-> pending[r]] /\ stream = [r \in Sess |-> stream[r]]
  BY <1>0 DEF SessionsOk
<1>o. /\ read[s] \in [guilds : SUBSET WasIn(Owner[s]), at : -1..MaxOps]
      /\ sguilds[s] \subseteq WasIn(Owner[s])
      /\ pending[s] \in Seq(DueEvents(s)) /\ stream[s] \in Seq(FineEvents(s))
  BY <1>0 DEF SessionOk
<1>a. ASSUME NEW known \in SUBSET WasIn(Owner[s]), NEW events \in Seq(DueEvents(s)), ApplyAll(s, known, events)
      PROVE  /\ sguilds' = [r \in Sess |-> sguilds'[r]] /\ stream' = [r \in Sess |-> stream'[r]]
             /\ (\A r \in Sess \ {s} : sguilds'[r] = sguilds[r] /\ stream'[r] = stream[r])
             /\ sguilds'[s] \subseteq WasIn(Owner[s]) /\ stream'[s] \in Seq(FineEvents(s))
             /\ byGuild' \in [Guild -> SUBSET Sess]
  <2> DEFINE end == Applied([set |-> known, out |-> stream[s]], events)
  <2>1. end.set \subseteq WasIn(Owner[s]) /\ end.out \in Seq(FineEvents(s))
    BY AppliedIsFine
  <2>2. /\ sguilds' = [sguilds EXCEPT ![s] = end.set] /\ stream' = [stream EXCEPT ![s] = end.out]
        /\ byGuild' = [g \in Guild |-> IF g \in end.set THEN byGuild[g] \cup {s} ELSE byGuild[g] \ {s}]
    BY <1>a DEF ApplyAll
  <2> HIDE DEF end
  <2>3. byGuild' \in [Guild -> SUBSET Sess]
    BY <1>0, <2>2 DEF IndexOk
  <2> QED BY <1>f, <2>1, <2>2, <2>3
<1>3. ASSUME NEW l \in Lane, Deliver(l, s) PROVE FanInv'
  <2>1. PICK w : w = work[l] /\ WorkOk(w)
    BY <1>0 DEF PathOk
  <2>2. /\ w.stage = "deliver" /\ w.ev \in SoundEvents /\ w.to \in SUBSET Sess /\ s \in w.to
        /\ \A r \in w.to : w.ev \in DueEvents(r)
    BY <1>3, <2>1 DEF Deliver, WorkOk, Idle
  <2> DEFINE new == IF w.to = {s} THEN Idle ELSE [w EXCEPT !.to = w.to \ {s}]
  <2>3. work' = [work EXCEPT ![l] = new]
    BY <1>3, <2>1 DEF Deliver, Handed
  <2>4. WorkOk(new)
    <3>1. CASE w.to = {s}
      BY <3>1 DEF WorkOk
    <3>2. CASE w.to # {s}
      <4>1. new.stage = "deliver" /\ new.ev = w.ev /\ new.to = w.to \ {s}
        BY <2>2, <3>2
      <4> HIDE DEF new
      <4> QED BY <2>2, <4>1 DEF WorkOk
    <3> QED BY <3>1, <3>2
  <2> HIDE DEF new
  <2>5. PathOk'
    <3>1. DOMAIN work' = Lane /\ work' = [k \in Lane |-> work'[k]] /\ work'[l] = new
          /\ \A k \in Lane \ {l} : work'[k] = work[k]
      BY <1>0, <2>3 DEF PathOk
    <3>2. ASSUME NEW k \in Lane PROVE WorkOk(work[k])'
      <4>1. PICK v : v = work'[k] /\ WorkOk(v)
        BY <1>0, <2>4, <3>1 DEF PathOk
      <4>2. WorkOk(v)'
        BY <1>2, <4>1
      <4> QED BY <4>1, <4>2
    <3>3. UNCHANGED <<hooks, bus, lanes, amiss>>
      BY <1>3 DEF Deliver
    <3> QED BY <1>0, <1>2, <3>1, <3>2, <3>3 DEF PathOk
  <2>6. UNCHANGED <<byUser, unready, state, read>>
    BY <1>3 DEF Deliver
  <2>7. CASE UNCHANGED <<pending, stream, sguilds, byGuild>>
    <3>1. SessionsOk'
      BY <1>1, <2>6, <2>7, SessionsStay DEF sessions
    <3> QED BY <1>0, <1>2, <2>5, <2>6, <2>7, <3>1 DEF FanInv, IndexOk
  <2>8. CASE /\ pending' = [pending EXCEPT ![s] = Append(pending[s], w.ev)]
             /\ UNCHANGED <<stream, sguilds, byGuild>>
    <3>1. Append(pending[s], w.ev) \in Seq(DueEvents(s))
      BY <1>o, <2>2
    <3>2. /\ pending' = [r \in Sess |-> pending'[r]] /\ pending'[s] \in Seq(DueEvents(s))
          /\ \A r \in Sess \ {s} : pending'[r] = pending[r]
      BY <1>f, <2>8, <3>1
    <3>3. SessionsOk'
      BY <1>1, <1>f, <1>o, <2>6, <2>8, <3>2, OneSessionMoves
    <3> QED BY <1>0, <1>2, <2>5, <2>6, <2>8, <3>3 DEF FanInv, IndexOk
  <2>9. CASE ApplyAll(s, sguilds[s], <<w.ev>>) /\ UNCHANGED pending
    <3>1. <<w.ev>> \in Seq(DueEvents(s))
      BY <2>2
    <3>2. /\ sguilds' = [r \in Sess |-> sguilds'[r]] /\ stream' = [r \in Sess |-> stream'[r]]
          /\ (\A r \in Sess \ {s} : sguilds'[r] = sguilds[r] /\ stream'[r] = stream[r])
          /\ sguilds'[s] \subseteq WasIn(Owner[s]) /\ stream'[s] \in Seq(FineEvents(s))
          /\ byGuild' \in [Guild -> SUBSET Sess]
      BY <1>a, <1>o, <2>9, <3>1
    <3>3. SessionsOk'
      BY <1>1, <1>f, <1>o, <2>6, <2>9, <3>2, OneSessionMoves
    <3> QED BY <1>0, <1>2, <2>5, <2>6, <3>2, <3>3 DEF FanInv, IndexOk
  <2> QED BY <1>3, <2>1, <2>7, <2>8, <2>9 DEF Deliver
<1>4. CASE Register(s)
  <2>1. UNCHANGED <<path, read, sguilds, pending, stream>> /\ IndexOk'
    BY <1>0, <1>4 DEF Register, IndexOk
  <2>2. SessionsOk'
    BY <1>1, <1>f, <1>o, <2>1, OneSessionMoves
  <2> QED BY <1>2, <1>p, <2>1, <2>2 DEF FanInv
<1>5. CASE ReadGuilds(s)
  <2> DEFINE new == [guilds |-> GuildsOf(Owner[s]), at |-> ops]
  <2>1. UNCHANGED <<path, index, state, sguilds, pending, stream>> /\ read' = [read EXCEPT ![s] = new]
    BY <1>5 DEF ReadGuilds
  <2>2. new \in [guilds : SUBSET WasIn(Owner[s]), at : -1..MaxOps]
    <3>1. GuildsOf(Owner[s]) \subseteq WasIn(Owner[s])
      BY DEF GuildsOf, WasIn
    <3>2. ops \in -1..MaxOps
      BY <1>0, FanoutAssumption DEF DbOk
    <3> QED BY <3>1, <3>2
  <2> HIDE DEF new
  <2>3. /\ read' = [r \in Sess |-> read'[r]] /\ read'[s] \in [guilds : SUBSET WasIn(Owner[s]), at : -1..MaxOps]
        /\ \A r \in Sess \ {s} : read'[r] = read[r]
    BY <1>f, <2>1, <2>2
  <2>4. SessionsOk'
    BY <1>1, <1>f, <1>o, <2>1, <2>3, OneSessionMoves
  <2>5. IndexOk'
    BY <1>0, <2>1 DEF IndexOk, index
  <2> QED BY <1>2, <1>p, <2>1, <2>4, <2>5 DEF FanInv
<1>6. CASE BecomeReady(s)
  <2>1. /\ UNCHANGED <<path, byUser, read>> /\ ApplyAll(s, read[s].guilds, pending[s])
        /\ pending' = [pending EXCEPT ![s] = <<>>] /\ unready' = unready \ {s}
        /\ state' = [state EXCEPT ![s] = "ready"]
    BY <1>6 DEF BecomeReady
  <2>2. read[s].guilds \in SUBSET WasIn(Owner[s])
    BY <1>o
  <2>3. /\ sguilds' = [r \in Sess |-> sguilds'[r]] /\ stream' = [r \in Sess |-> stream'[r]]
        /\ (\A r \in Sess \ {s} : sguilds'[r] = sguilds[r] /\ stream'[r] = stream[r])
        /\ sguilds'[s] \subseteq WasIn(Owner[s]) /\ stream'[s] \in Seq(FineEvents(s))
        /\ byGuild' \in [Guild -> SUBSET Sess]
    BY <1>a, <1>o, <2>1, <2>2
  <2>4. /\ pending' = [r \in Sess |-> pending'[r]] /\ pending'[s] = <<>>
        /\ \A r \in Sess \ {s} : pending'[r] = pending[r]
    BY <1>f, <2>1
  <2>5. SessionsOk'
    BY <1>1, <1>f, <1>o, <2>1, <2>3, <2>4, OneSessionMoves
  <2>6. IndexOk'
    BY <1>0, <2>1, <2>3 DEF IndexOk
  <2> QED BY <1>2, <1>p, <2>1, <2>5, <2>6 DEF FanInv
<1>7. CASE Stop(s)
  <2>1. /\ UNCHANGED <<path, read, sguilds, stream>> /\ pending' = [pending EXCEPT ![s] = <<>>]
        /\ state' = [state EXCEPT ![s] = "ended"] /\ byUser' = byUser \ {s} /\ unready' = unready \ {s}
        /\ byGuild' = [g \in Guild |-> IF g \in sguilds[s] THEN byGuild[g] \ {s} ELSE byGuild[g]]
    BY <1>7 DEF Stop
  <2>2. IndexOk'
    BY <1>0, <2>1 DEF IndexOk
  <2>3. /\ pending' = [r \in Sess |-> pending'[r]] /\ pending'[s] = <<>>
        /\ \A r \in Sess \ {s} : pending'[r] = pending[r]
    BY <1>f, <2>1
  <2>4. SessionsOk'
    BY <1>1, <1>f, <1>o, <2>1, <2>3, OneSessionMoves
  <2> QED BY <1>2, <1>p, <2>1, <2>2, <2>4 DEF FanInv
<1> QED BY <1>3, <1>4, <1>5, <1>6, <1>7

\* Every step of the fan-out keeps what it has told.
LEMMA FanStepInv == FanInv /\ Next => FanInv'
BY TransactionKeeps, PathKeeps, SessionKeeps DEF Next, FanOut

\* Steps of the other parts change nothing here.
LEMMA FanStutterInv == FanInv /\ UNCHANGED vars => FanInv'
<1> SUFFICES ASSUME FanInv, UNCHANGED vars PROVE FanInv'
  OBVIOUS
<1>1. UNCHANGED <<db, path, index, sessions>>
  BY DEF vars
<1>2. DbOk' /\ SessionsOk' /\ SoundEvents' = SoundEvents /\ (\A w : WorkOk(w)' = WorkOk(w))
  BY <1>1, SameRows, SessionsStay DEF FanInv
<1>3. ASSUME NEW l \in Lane PROVE WorkOk(work[l])'
  <2>1. PICK w : w = work[l]
    OBVIOUS
  <2>2. WorkOk(w) /\ work'[l] = w
    BY <1>1, <2>1 DEF FanInv, PathOk, path
  <2>3. WorkOk(w)'
    BY <1>2, <2>2
  <2> QED BY <2>2, <2>3
<1>4. PathOk'
  BY <1>1, <1>2, <1>3 DEF FanInv, PathOk, path
<1> QED BY <1>1, <1>2, <1>4 DEF FanInv, IndexOk, index, sessions

\* What the invariant says of what sessions are told.
LEMMA FanSafe == FanInv => TypeOK /\ ToldOfOwnOnly
<1> SUFFICES ASSUME FanInv PROVE TypeOK /\ ToldOfOwnOnly
  OBVIOUS
<1>0. DbOk /\ PathOk /\ IndexOk /\ SessionsOk
  BY DEF FanInv
<1>1. SoundEvents \subseteq Event /\ \A s : DueEvents(s) \subseteq Event /\ FineEvents(s) \subseteq Event
  BY DEF SoundEvents, DueEvents, FineEvents
<1>2. TypeOK
  <2>1. hooks \in [Op -> Seq(Event)] /\ bus \in Seq(Event) /\ lanes \in [Lane -> Seq(Event)]
    <3>1. ASSUME NEW q \in Seq(SoundEvents) PROVE q \in Seq(Event)
      BY <1>1, SeqLarger
    <3>2. hooks \in [Op -> Seq(Event)]
      BY <1>0, <3>1 DEF PathOk
    <3>3. lanes \in [Lane -> Seq(Event)]
      BY <1>0, <3>1 DEF PathOk
    <3> QED BY <1>0, <3>1, <3>2, <3>3 DEF PathOk
  <2>2. ASSUME NEW l \in Lane
        PROVE  \/ work[l] = Idle
               \/ work[l].stage \in {"check", "deliver"} /\ work[l].ev \in Event /\ work[l].to \in SUBSET Sess
    BY <1>0, <1>1 DEF PathOk, WorkOk
  <2>3. ASSUME NEW s \in Sess
        PROVE  /\ read[s] \in [guilds : SUBSET Guild, at : -1..MaxOps] /\ sguilds[s] \in SUBSET Guild
               /\ pending[s] \in Seq(Event) /\ stream[s] \in Seq(Event)
    <3>1. WasIn(Owner[s]) \subseteq Guild /\ SessionOk(s)
      BY <1>0 DEF WasIn, SessionsOk
    <3>2. pending[s] \in Seq(Event) /\ stream[s] \in Seq(Event)
      BY <1>1, <3>1, SeqLarger DEF SessionOk
    <3> QED BY <3>1, <3>2 DEF SessionOk
  <2>4. read \in [Sess -> [guilds : SUBSET Guild, at : -1..MaxOps]]
    BY <1>0, <2>3 DEF SessionsOk
  <2>5. sguilds \in [Sess -> SUBSET Guild]
    BY <1>0, <2>3 DEF SessionsOk
  <2>6. pending \in [Sess -> Seq(Event)]
    BY <1>0, <2>3 DEF SessionsOk
  <2>7. stream \in [Sess -> Seq(Event)]
    BY <1>0, <2>3 DEF SessionsOk
  <2> QED BY <1>0, <2>1, <2>2, <2>4, <2>5, <2>6, <2>7 DEF TypeOK, DbOk, PathOk, IndexOk
<1>3. ASSUME NEW s \in Sess, NEW ev \in Told(s)
      PROVE  /\ ev.aud = "guild" => <<Owner[s], ev.guild>> \in members \/ until[<<Owner[s], ev.guild>>] >= ev.op
             /\ <<Owner[s], ev.guild>> \in members \/ until[<<Owner[s], ev.guild>>] # Never
  <2>1. stream[s] \in Seq(FineEvents(s))
    BY <1>0 DEF SessionsOk, SessionOk
  <2>2. ev \in FineEvents(s)
    BY <2>1 DEF Told, Range
  <2> QED BY <2>2 DEF FineEvents, DueEvents, MemberSince, WasIn
<1>4. ToldOfOwnOnly
  BY <1>3 DEF ToldOfOwnOnly, OnlyToMembers, OnlyOwnGuilds
<1> QED BY <1>2, <1>4

--------------------------------------------------------------------------------
(* What sessions are told is complete, and in order.                       *)

\* The events on their way: queued with a transaction, published, in a lane or at work there.
Hooked == UNION {Range(hooks[o]) : o \in Op}
Laned == UNION {Range(lanes[l]) : l \in Lane}
Worked == {work[l].ev : l \in {k \in Lane : work[k] # Idle}}
Waiting == Hooked \cup Range(bus) \cup Laned
Upstream == Waiting \cup Worked

\* Those that may still come to session s.
AtWork(s) == {work[l].ev : l \in {k \in Lane : work[k] # Idle /\ s \in work[k].to}}
Coming(s) == Waiting \cup AtWork(s)

\* Those of them that tell session s whether its account is in guild g.
Relevant(s, ev) == ev.aud = "former" \/ (ev.aud = "users" /\ Owner[s] \in ev.users)
News(s, g) == {ev \in Coming(s) : ev.guild = g /\ Relevant(s, ev)}

\* No event of A was committed after one of B that is of its guild.
Precede(A, B) == \A a \in A, b \in B : a.guild = b.guild => a.op <= b.op
InOrder(q) == \A i, j \in DOMAIN q : i < j /\ q[i].guild = q[j].guild => q[i].op <= q[j].op

\* What a kind of event is for.
Shaped(ev) ==
  /\ ev.aud = "guild" => ev.type = "OTHER"
  /\ ev.aud = "former" => ev.type = "DELETE"
  /\ ev.aud = "users" => ev.type \in {"CREATE", "DELETE"}

\* The guild set and stream of session s once its pending events are applied, should READY list B.
View(s, B) ==
  Applied([set |-> IF state[s] = "ready" THEN sguilds[s] ELSE B, out |-> stream[s]], pending[s])

\* The lanes: each has the events of its guilds, and works for the sessions an event is for.
LanesOk ==
  /\ \A ev \in Upstream : Shaped(ev)
  /\ \A o \in Op : \A ev \in Range(hooks[o]) : ev.op = o
  /\ \A l \in Lane : \A ev \in Range(lanes[l]) : LaneOf[ev.guild] = l
  /\ \A l \in Lane : work[l] # Idle =>
       /\ LaneOf[work[l].ev.guild] = l
       /\ work[l].ev.aud = "users" => \A s \in work[l].to : Owner[s] \in work[l].ev.users

\* The order of what is on its way.
PathOrder ==
  /\ InOrder(bus) /\ Precede(Range(bus), Hooked)
  /\ (\A l \in Lane : InOrder(lanes[l])) /\ Precede(Laned, Hooked \cup Range(bus))
  /\ Precede(Worked, Waiting)

\* What a session keeps in each of its states.
PhaseOk(s) ==
  /\ state[s] # "open" => pending[s] = <<>>
  /\ state[s] \in {"new", "open"} => stream[s] = <<>>
  /\ state[s] = "new" => read[s] = NotRead
  /\ state[s] = "ready" => read[s] # NotRead
  /\ read[s] # NotRead => read[s].at \in 0..ops

\* A session's stream is in order, and so is what may follow it.
ViewOrder(s) ==
  \A B \in SUBSET Guild : InOrder(View(s, B).out) /\ Precede(Range(View(s, B).out), Upstream)

\* The last news of a guild on its way says whether the account is in it.
NewsTrue(s, g) ==
  \A ev \in News(s, g) : (\A f \in News(s, g) : f.op <= ev.op)
                            => (ev.type = "CREATE" <=> <<Owner[s], g>> \in members)

\* READY may list B as far as guild g goes.
MayList(s, g, B) ==
  \/ state[s] = "ready"
  \/ read[s] # NotRead /\ B = read[s].guilds
  \/ read[s] = NotRead /\ (g \in B <=> <<Owner[s], g>> \in members)

\* With no news on its way the session is, or will be when READY, up to date.
ViewTrue(s, g) ==
  \A B \in SUBSET Guild : News(s, g) = {} /\ MayList(s, g, B)
                             => (g \in View(s, B).set <=> <<Owner[s], g>> \in members)

\* The account was a member when READY's data was read, and has been since.
Stayed(s, g) == read[s] # NotRead /\ g \in read[s].guilds /\ until[<<Owner[s], g>>] < read[s].at

\* The guild's event of transaction n has come or will.
Reaches(s, B, g, n) ==
  \E ev \in Coming(s) \cup Range(View(s, B).out) : ev.guild = g /\ ev.op = n /\ ev.aud = "guild"

\* Then nothing more is told of its membership, and everything that happened in the guild is.
AllTold(s, g) ==
  Stayed(s, g) =>
    /\ <<Owner[s], g>> \in members
    /\ \A ev \in News(s, g) : ev.op <= read[s].at
    /\ \A B \in SUBSET Guild, n \in (read[s].at + 1)..ops :
         B = read[s].guilds /\ log[n] = g => Reaches(s, B, g, n)

Live(s) == state[s] \in {"open", "ready"}

Informed(s) ==
  \A g \in Guild : NewsTrue(s, g) /\ (Live(s) => ViewTrue(s, g) /\ AllTold(s, g))

FlowInv ==
  /\ LanesOk /\ \A s \in Sess : PhaseOk(s)
  /\ "swapped" \notin amiss => PathOrder /\ \A s \in Sess : ViewOrder(s)
  /\ amiss = {} => \A s \in Sess : Informed(s)

\* A session's set and stream.
Accs == [set : SUBSET Guild, out : Seq(Event)]

\* An event applied leaves a set and a stream.
LEMMA ApplyAcc ==
  ASSUME NEW a \in Accs, NEW ev \in Event
  PROVE  Apply(a, ev) \in Accs
<1>1. a.set \in SUBSET Guild /\ a.out \in Seq(Event) /\ ev.guild \in Guild
  BY DEF Accs, Event
<1>2. CASE ev.aud = "former" /\ ev.guild \notin a.set
  BY <1>2 DEF Apply
<1>3. CASE ~(ev.aud = "former" /\ ev.guild \notin a.set)
  <2> DEFINE S == CASE ev.type = "CREATE" -> a.set \cup {ev.guild}
                    [] ev.type = "DELETE" -> a.set \ {ev.guild}
                    [] OTHER -> a.set
  <2>1. Apply(a, ev) = [set |-> S, out |-> Append(a.out, ev)]
    BY <1>3 DEF Apply
  <2>2. S \in SUBSET Guild
    BY <1>1
  <2>3. Append(a.out, ev) \in Seq(Event)
    BY <1>1
  <2> HIDE DEF S
  <2> QED BY <2>1, <2>2, <2>3 DEF Accs
<1> QED BY <1>2, <1>3

\* Nothing is applied: nothing changes.
LEMMA AppliedNone ==
  ASSUME NEW base \in Accs PROVE Applied(base, <<>>) = base
<1> DEFINE z == Len(<<>>)
<1>1. z = 0
  OBVIOUS
<1>2. \A a \in Accs : \A n \in 1..z : Apply(a, <<>>[n]) \in Accs
  BY <1>1
<1>3. PICK f \in [0..z -> Accs] : Runs(f, base, <<>>)
  BY <1>1, <1>2, AppliedRun
<1> QED BY <1>1, <1>3 DEF Runs

\* One more event is applied to what the others made.
LEMMA AppliedMore ==
  ASSUME NEW base \in Accs, NEW events \in Seq(Event), NEW ev \in Event
  PROVE  Applied(base, Append(events, ev)) = Apply(Applied(base, events), ev)
<1> DEFINE N == Len(events)
<1> DEFINE more == Append(events, ev)
<1>1. N \in Nat /\ Len(more) = N + 1 /\ Len(more) \in Nat /\ more[N + 1] = ev /\ (\A n \in 1..N : more[n] = events[n])
      /\ (\A n \in 1..N : events[n] \in Event) /\ \A n \in 1..(N + 1) : more[n] \in Event
  OBVIOUS
<1> HIDE DEF more, N
<1>2. \A a \in Accs : \A n \in 1..N : Apply(a, events[n]) \in Accs
  BY <1>1, ApplyAcc
<1>3. \A a \in Accs : \A n \in 1..Len(more) : Apply(a, more[n]) \in Accs
  BY <1>1, ApplyAcc
<1>4. PICK f \in [0..N -> Accs] : Runs(f, base, events)
  BY <1>1, <1>2, AppliedRun DEF N
<1>5. PICK h \in [0..Len(more) -> Accs] : Runs(h, base, more)
  BY <1>1, <1>3, AppliedRun
<1> USE DEF Runs
<1> DEFINE Q == {n \in Nat : n <= N => h[n] = f[n]}
<1>6. 0 \in Q
  BY <1>4, <1>5
<1>7. ASSUME NEW n \in Nat, n \in Q PROVE n + 1 \in Q
  <2> SUFFICES ASSUME n + 1 <= N PROVE h[n + 1] = f[n + 1]
    OBVIOUS
  <2>1. n + 1 \in 1..N /\ n + 1 \in 1..Len(more) /\ (n + 1) - 1 = n
    BY <1>1
  <2>2. h[n] = f[n]
    BY <1>1, <1>7
  <2>3. h[n + 1] = Apply(h[n], more[n + 1]) /\ f[n + 1] = Apply(f[n], events[n + 1])
    BY <1>4, <1>5, <2>1 DEF N
  <2> QED BY <1>1, <2>1, <2>2, <2>3
<1>8. h[N] = f[N]
  <2> HIDE DEF Q
  <2>1. Nat \subseteq Q
    BY <1>6, <1>7, SetInduction
  <2> QED BY <1>1, <2>1 DEF Q
<1>9. Applied(base, more) = Apply(h[N], ev)
  <2>1. N + 1 \in 1..Len(more) /\ (N + 1) - 1 = N
    BY <1>1
  <2>2. h[N + 1] = Apply(h[N], more[N + 1])
    BY <1>5, <2>1
  <2> QED BY <1>1, <1>5, <2>2
<1> QED BY <1>4, <1>8, <1>9 DEF more, N

\* The first event of a queue and the others.
LEMMA HeadAndTail ==
  ASSUME NEW S, NEW q \in Seq(S), q # <<>>
  PROVE  /\ Range(q) = {Head(q)} \cup Range(Tail(q)) /\ Head(q) \in S
         /\ InOrder(q) => InOrder(Tail(q)) /\ Precede({Head(q)}, Range(Tail(q)))
<1>1. /\ Len(q) \in Nat \ {0} /\ DOMAIN q = 1..Len(q) /\ Tail(q) \in Seq(S) /\ Len(Tail(q)) = Len(q) - 1
      /\ DOMAIN Tail(q) = 1..(Len(q) - 1) /\ Head(q) = q[1] /\ 1 \in DOMAIN q
  OBVIOUS
<1>2. \A i \in 1..(Len(q) - 1) : Tail(q)[i] = q[i + 1] /\ i + 1 \in DOMAIN q
  BY <1>1
<1>3. \A i \in DOMAIN q : i = 1 \/ (i - 1 \in DOMAIN Tail(q) /\ Tail(q)[i - 1] = q[i])
  <2> TAKE i \in DOMAIN q
  <2>1. CASE i = 1
    BY <2>1
  <2>2. CASE i # 1
    <3>1. i - 1 \in 1..(Len(q) - 1) /\ (i - 1) + 1 = i
      BY <1>1, <2>2
    <3> QED BY <1>1, <1>2, <3>1
  <2> QED BY <2>1, <2>2
<1>4. Range(q) = {Head(q)} \cup Range(Tail(q))
  <2>1. Range(q) \subseteq {Head(q)} \cup Range(Tail(q))
    BY <1>1, <1>3 DEF Range
  <2>2. {Head(q)} \cup Range(Tail(q)) \subseteq Range(q)
    BY <1>1, <1>2 DEF Range
  <2> QED BY <2>1, <2>2
<1>5. ASSUME InOrder(q) PROVE InOrder(Tail(q))
  <2> SUFFICES ASSUME NEW i \in 1..(Len(q) - 1), NEW j \in 1..(Len(q) - 1), i < j,
                      Tail(q)[i].guild = Tail(q)[j].guild
               PROVE  Tail(q)[i].op <= Tail(q)[j].op
    BY <1>1 DEF InOrder
  <2>1. i + 1 < j + 1
    BY <1>1
  <2> QED BY <1>2, <1>5, <2>1 DEF InOrder
<1>6. ASSUME InOrder(q) PROVE Precede({Head(q)}, Range(Tail(q)))
  <2> SUFFICES ASSUME NEW j \in 1..(Len(q) - 1), Head(q).guild = Tail(q)[j].guild
               PROVE  Head(q).op <= Tail(q)[j].op
    BY <1>1 DEF Precede, Range
  <2>1. 1 < j + 1
    BY <1>1
  <2> QED BY <1>1, <1>2, <1>6, <2>1 DEF InOrder
<1> QED BY <1>1, <1>4, <1>5, <1>6

\* A queue with one event more.
LEMMA OneAppended ==
  ASSUME NEW S, NEW q \in Seq(S), NEW ev
  PROVE  /\ Range(Append(q, ev)) = Range(q) \cup {ev}
         /\ InOrder(q) /\ Precede(Range(q), {ev}) => InOrder(Append(q, ev))
<1> DEFINE r == Append(q, ev)
<1>1. /\ Len(q) \in Nat /\ DOMAIN q = 1..Len(q) /\ DOMAIN r = 1..(Len(q) + 1) /\ r[Len(q) + 1] = ev
      /\ \A i \in DOMAIN q : r[i] = q[i] /\ i \in DOMAIN r
  OBVIOUS
<1>2. \A i \in DOMAIN r : i \in DOMAIN q \/ i = Len(q) + 1
  BY <1>1
<1> HIDE DEF r
<1>3. Range(r) = Range(q) \cup {ev}
  <2>1. Range(r) \subseteq Range(q) \cup {ev}
    BY <1>1, <1>2 DEF Range
  <2>2. Range(q) \cup {ev} \subseteq Range(r)
    BY <1>1 DEF Range
  <2> QED BY <2>1, <2>2
<1>4. ASSUME InOrder(q), Precede(Range(q), {ev}) PROVE InOrder(r)
  <2> SUFFICES ASSUME NEW i \in DOMAIN r, NEW j \in DOMAIN r, i < j, r[i].guild = r[j].guild
               PROVE  r[i].op <= r[j].op
    BY DEF InOrder
  <2>1. i \in DOMAIN q
    BY <1>1, <1>2
  <2>2. CASE j \in DOMAIN q
    BY <1>1, <1>4, <2>1, <2>2 DEF InOrder
  <2>3. CASE j = Len(q) + 1
    <3>1. q[i] \in Range(q) /\ r[j] = ev /\ r[i] = q[i]
      BY <1>1, <2>1, <2>3 DEF Range
    <3> QED BY <1>4, <3>1 DEF Precede
  <2> QED BY <1>2, <2>2, <2>3
<1> QED BY <1>3, <1>4 DEF r

\* An empty queue.
LEMMA NoneQueued == Range(<<>>) = {} /\ InOrder(<<>>)
BY DEF Range, InOrder

\* What an event applied does to the stream and to the place of a guild in the set.
LEMMA ApplyDoes ==
  ASSUME NEW a \in Accs, NEW ev \in Event, Shaped(ev)
  PROVE  /\ Apply(a, ev).out = Append(a.out, ev) \/ (ev.aud = "former" /\ Apply(a, ev).out = a.out)
         /\ \A g : ev.guild # g \/ ev.aud = "guild" => (g \in Apply(a, ev).set <=> g \in a.set)
         /\ ev.aud # "guild" => (ev.guild \in Apply(a, ev).set <=> ev.type = "CREATE")
<1>1. ev.aud \in {"guild", "users", "former"} /\ ev.type \in {"CREATE", "DELETE", "OTHER"}
  BY DEF Event
<1>2. CASE ev.aud = "former" /\ ev.guild \notin a.set
  <2>1. Apply(a, ev) = a
    BY <1>2 DEF Apply
  <2> QED BY <1>2, <2>1 DEF Shaped
<1>3. CASE ~(ev.aud = "former" /\ ev.guild \notin a.set)
  <2> DEFINE S == CASE ev.type = "CREATE" -> a.set \cup {ev.guild}
                    [] ev.type = "DELETE" -> a.set \ {ev.guild}
                    [] OTHER -> a.set
  <2>1. Apply(a, ev) = [set |-> S, out |-> Append(a.out, ev)]
    BY <1>3 DEF Apply
  <2>2. Apply(a, ev).set = S /\ Apply(a, ev).out = Append(a.out, ev)
    BY <2>1
  <2>3. CASE ev.type = "CREATE"
    <3>1. S = a.set \cup {ev.guild} /\ ev.aud = "users"
      BY <1>1, <2>3 DEF Shaped
    <3> HIDE DEF S
    <3> QED BY <2>2, <2>3, <3>1
  <2>4. CASE ev.type = "DELETE"
    <3>1. S = a.set \ {ev.guild} /\ ev.aud # "guild"
      BY <2>4 DEF Shaped
    <3> HIDE DEF S
    <3> QED BY <2>2, <2>4, <3>1
  <2>5. CASE ev.type = "OTHER"
    <3>1. S = a.set /\ ev.aud = "guild"
      BY <1>1, <2>5 DEF Shaped
    <3> HIDE DEF S
    <3> QED BY <2>2, <2>5, <3>1
  <2> QED BY <1>1, <2>3, <2>4, <2>5
<1> QED BY <1>2, <1>3

\* The view of a session is well formed,
LEMMA ViewIsAcc ==
  ASSUME TypeOK, NEW s \in Sess, NEW B \in SUBSET Guild
  PROVE  View(s, B) \in Accs
<1> DEFINE base == [set |-> IF state[s] = "ready" THEN sguilds[s] ELSE B, out |-> stream[s]]
<1>1. base \in Accs
  <2>1. sguilds[s] \in SUBSET Guild /\ stream[s] \in Seq(Event)
    BY DEF TypeOK
  <2> QED BY <2>1 DEF Accs
<1>2. Len(pending[s]) \in Nat /\ \A n \in 1..Len(pending[s]) : pending[s][n] \in Event
  BY DEF TypeOK
<1>3. \A a \in Accs : \A n \in 1..Len(pending[s]) : Apply(a, pending[s][n]) \in Accs
  BY <1>2, ApplyAcc
<1> HIDE DEF base
<1>4. Applied(base, pending[s]) \in Accs
  BY <1>1, <1>2, <1>3, AppliedStays
<1> QED BY <1>4 DEF View, base

\* and when nothing is pending it is what the session has.
LEMMA ViewPlain ==
  ASSUME TypeOK, NEW s \in Sess, NEW B \in SUBSET Guild, pending[s] = <<>>
  PROVE  View(s, B) = [set |-> IF state[s] = "ready" THEN sguilds[s] ELSE B, out |-> stream[s]]
<1> DEFINE base == [set |-> IF state[s] = "ready" THEN sguilds[s] ELSE B, out |-> stream[s]]
<1>1. base \in Accs
  <2>1. sguilds[s] \in SUBSET Guild /\ stream[s] \in Seq(Event)
    BY DEF TypeOK
  <2> QED BY <2>1 DEF Accs
<1> HIDE DEF base
<1>2. Applied(base, <<>>) = base
  BY <1>1, AppliedNone
<1> QED BY <1>2 DEF View, base

\* A session's stream stays in order while what may follow it only gets less,
LEMMA OrderStays ==
  ASSUME NEW s \in Sess, ViewOrder(s), Upstream' \subseteq Upstream,
         \A B \in SUBSET Guild : View(s, B)' = View(s, B)
  PROVE  ViewOrder(s)'
<1> SUFFICES ASSUME NEW B \in SUBSET Guild
             PROVE  InOrder(View(s, B).out)' /\ Precede(Range(View(s, B).out), Upstream)'
  BY DEF ViewOrder
<1>1. InOrder(View(s, B).out) /\ Precede(Range(View(s, B).out), Upstream) /\ View(s, B)' = View(s, B)
  BY DEF ViewOrder
<1>2. InOrder(View(s, B).out)'
  BY <1>1 DEF InOrder
<1>3. Precede(Range(View(s, B).out), Upstream)'
  BY <1>1 DEF Precede, Range
<1> QED BY <1>2, <1>3

\* and when the next event is applied.
LEMMA OrderGrows ==
  ASSUME TypeOK, NEW s \in Sess, ViewOrder(s), NEW e \in Event, Shaped(e), e \in Upstream,
         Upstream' \subseteq Upstream, Precede({e}, Upstream'),
         \A B \in SUBSET Guild : View(s, B)' = Apply(View(s, B), e)
  PROVE  ViewOrder(s)'
<1> SUFFICES ASSUME NEW B \in SUBSET Guild
             PROVE  InOrder(View(s, B).out)' /\ Precede(Range(View(s, B).out), Upstream)'
  BY DEF ViewOrder
<1>1. PICK a \in Accs : a = View(s, B)
  BY ViewIsAcc
<1>2. PICK b : b = View(s, B)' /\ b = Apply(a, e)
  BY <1>1
<1>3. InOrder(a.out) /\ Precede(Range(a.out), Upstream) /\ a.out \in Seq(Event)
  BY <1>1 DEF ViewOrder, Accs
<1>4. b.out = Append(a.out, e) \/ b.out = a.out
  BY <1>2, ApplyDoes
<1>5. Precede(Range(a.out), {e})
  BY <1>3 DEF Precede
<1>6. InOrder(b.out) /\ Range(b.out) \subseteq Range(a.out) \cup {e}
  BY <1>3, <1>4, <1>5, OneAppended
<1>7. Precede(Range(b.out), Upstream')
  BY <1>3, <1>6 DEF Precede
<1>8. InOrder(View(s, B).out)'
  BY <1>2, <1>6 DEF InOrder
<1>9. Precede(Range(View(s, B).out), Upstream)'
  BY <1>2, <1>7 DEF Precede, Range
<1> QED BY <1>8, <1>9

\* A session to which nothing happens stays informed.
LEMMA InformedStays ==
  ASSUME NEW s \in Sess, Informed(s), UNCHANGED <<db, state[s], read[s]>>, Coming(s)' = Coming(s),
         \A B \in SUBSET Guild : View(s, B)' = View(s, B)
  PROVE  Informed(s)'
<1> SUFFICES ASSUME NEW g \in Guild
             PROVE  NewsTrue(s, g)' /\ (Live(s)' => ViewTrue(s, g)' /\ AllTold(s, g)')
  BY DEF Informed
<1>1. News(s, g)' = News(s, g) /\ members' = members /\ ops' = ops /\ log' = log /\ until' = until
      /\ Stayed(s, g)' = Stayed(s, g) /\ Live(s)' = Live(s)
  BY DEF News, db, ops, Stayed, Live
<1>2. NewsTrue(s, g)'
  BY <1>1 DEF NewsTrue, Informed
<1>3. ASSUME Live(s) PROVE ViewTrue(s, g)'
  <2> SUFFICES ASSUME NEW B \in SUBSET Guild, News(s, g)' = {}, MayList(s, g, B)'
               PROVE  g \in View(s, B)'.set <=> <<Owner[s], g>> \in members'
    BY DEF ViewTrue
  <2>1. MayList(s, g, B)
    BY <1>1 DEF MayList
  <2> QED BY <1>1, <1>3, <2>1 DEF ViewTrue, Informed
<1>4. ASSUME Live(s) PROVE AllTold(s, g)'
  <2> SUFFICES ASSUME Stayed(s, g)'
               PROVE  /\ <<Owner[s], g>> \in members' /\ (\A ev \in News(s, g)' : ev.op <= read'[s].at)
                      /\ \A B \in SUBSET Guild, n \in (read'[s].at + 1)..ops' :
                           B = read'[s].guilds /\ log'[n] = g => Reaches(s, B, g, n)'
    BY DEF AllTold
  <2>1. AllTold(s, g)
    BY <1>4 DEF Informed
  <2>2. ASSUME NEW B \in SUBSET Guild, NEW n \in (read'[s].at + 1)..ops', B = read'[s].guilds, log'[n] = g
        PROVE  Reaches(s, B, g, n)'
    <3>1. Reaches(s, B, g, n)
      BY <1>1, <2>1, <2>2 DEF AllTold
    <3> QED BY <3>1 DEF Reaches
  <2> QED BY <1>1, <2>1, <2>2 DEF AllTold
<1> QED BY <1>1, <1>2, <1>3, <1>4

\* The last news stays true when an earlier event is no longer on its way.
LEMMA NewsLess ==
  ASSUME NEW s \in Sess, NEW g \in Guild, NewsTrue(s, g), UNCHANGED members, NEW e,
         Coming(s)' \subseteq Coming(s), Coming(s) \subseteq Coming(s)' \cup {e}, Precede({e}, Coming(s)')
  PROVE  /\ NewsTrue(s, g)' /\ News(s, g)' \subseteq News(s, g)
         /\ News(s, g) \subseteq News(s, g)' \cup {e}
<1>1. News(s, g)' \subseteq News(s, g) /\ News(s, g) \subseteq News(s, g)' \cup {e}
  BY DEF News, Relevant
<1>2. ASSUME NEW ev \in News(s, g)', \A f \in News(s, g)' : f.op <= ev.op
      PROVE  ev.type = "CREATE" <=> <<Owner[s], g>> \in members'
  <2>1. ASSUME NEW f \in News(s, g) PROVE f.op <= ev.op
    <3>1. CASE f \in News(s, g)'
      BY <1>2, <3>1
    <3>2. CASE f = e
      <4>1. f.guild = g /\ ev.guild = g /\ ev \in Coming(s)'
        BY <1>2 DEF News
      <4> QED BY <3>2, <4>1 DEF Precede
    <3> QED BY <1>1, <3>1, <3>2
  <2> QED BY <1>1, <1>2, <2>1 DEF NewsTrue
<1>3. NewsTrue(s, g)'
  BY <1>2 DEF NewsTrue
<1> QED BY <1>1, <1>3

\* An event may pass session s by: it tells it nothing it has to know.
MayPass(s, e) ==
  /\ e.aud = "former" => \A B \in SUBSET Guild : e.guild \notin View(s, B).set
  /\ e.aud = "users" => Owner[s] \notin e.users
  /\ e.aud = "guild" /\ Stayed(s, e.guild) => e.op <= read[s].at

\* A session stays informed when the next event is applied, or may pass it by.
LEMMA InformedNext ==
  ASSUME TypeOK, NEW s \in Sess, Informed(s), UNCHANGED <<db, state[s], read[s]>>,
         NEW e \in Event, Shaped(e), e \in Coming(s),
         Coming(s)' \subseteq Coming(s), Coming(s) \subseteq Coming(s)' \cup {e}, Precede({e}, Coming(s)'),
         \/ ~Live(s)
         \/ /\ \A B \in SUBSET Guild : View(s, B)' = Apply(View(s, B), e)
            /\ e.aud = "users" => Owner[s] \in e.users
         \/ /\ \A B \in SUBSET Guild : View(s, B)' = View(s, B)
            /\ MayPass(s, e)
  PROVE  Informed(s)'
<1> DEFINE Taken == /\ \A B \in SUBSET Guild : View(s, B)' = Apply(View(s, B), e)
                    /\ e.aud = "users" => Owner[s] \in e.users
           Passed == /\ \A B \in SUBSET Guild : View(s, B)' = View(s, B)
                     /\ MayPass(s, e)
<1>0. ~Live(s) \/ Taken \/ Passed
  OBVIOUS
<1> HIDE DEF Taken, Passed
<1> SUFFICES ASSUME NEW g \in Guild
             PROVE  NewsTrue(s, g)' /\ (Live(s)' => ViewTrue(s, g)' /\ AllTold(s, g)')
  BY DEF Informed
<1>1. members' = members /\ ops' = ops /\ log' = log /\ until' = until
      /\ Stayed(s, g)' = Stayed(s, g) /\ Live(s)' = Live(s)
  BY DEF db, ops, Stayed, Live
<1>2. NewsTrue(s, g)' /\ News(s, g)' \subseteq News(s, g) /\ News(s, g) \subseteq News(s, g)' \cup {e}
  BY <1>1, NewsLess DEF Informed
<1>a. e.aud \in {"guild", "users", "former"} /\ e.op \in Nat /\ e.op <= e.op
  BY FanoutAssumption DEF Event, Op
<1>3. ASSUME Live(s), NEW B \in SUBSET Guild, News(s, g)' = {}, MayList(s, g, B)'
      PROVE  g \in View(s, B)'.set <=> <<Owner[s], g>> \in members'
  <2>1. MayList(s, g, B)
    BY <1>1, <1>3 DEF MayList
  <2>2. PICK a \in Accs : a = View(s, B)
    BY ViewIsAcc
  <2>3. CASE e \notin News(s, g)
    <3>1. News(s, g) = {}
      BY <1>2, <1>3, <2>3
    <3>2. g \in a.set <=> <<Owner[s], g>> \in members
      BY <1>3, <2>1, <2>2, <3>1 DEF Informed, ViewTrue
    <3>3. CASE Taken
      <4>1. e.guild # g \/ e.aud = "guild"
        BY <1>a, <2>3, <3>3 DEF News, Relevant, Taken
      <4>2. g \in Apply(a, e).set <=> g \in a.set
        BY <4>1, ApplyDoes
      <4> QED BY <1>1, <2>2, <3>2, <3>3, <4>2 DEF Taken
    <3>4. CASE Passed
      BY <1>1, <2>2, <3>2, <3>4 DEF Passed
    <3> QED BY <1>0, <1>3, <3>3, <3>4
  <2>4. CASE e \in News(s, g)
    <3>1. \A f \in News(s, g) : f.op <= e.op
      BY <1>2, <1>3, <1>a
    <3>2. e.type = "CREATE" <=> <<Owner[s], g>> \in members
      BY <2>4, <3>1 DEF Informed, NewsTrue
    <3>3. e.guild = g /\ Relevant(s, e)
      BY <2>4 DEF News
    <3>4. CASE Taken
      <4>1. g \in Apply(a, e).set <=> e.type = "CREATE"
        BY <3>3, ApplyDoes DEF Relevant
      <4> QED BY <1>1, <2>2, <3>2, <3>4, <4>1 DEF Taken
    <3>5. CASE Passed
      <4>1. e.aud = "former"
        BY <3>3, <3>5 DEF Passed, MayPass, Relevant
      <4>2. g \notin a.set /\ e.type # "CREATE"
        BY <2>2, <3>3, <3>5, <4>1 DEF Passed, MayPass, Shaped
      <4> QED BY <1>1, <2>2, <3>2, <3>5, <4>2 DEF Passed
    <3> QED BY <1>0, <1>3, <3>4, <3>5
  <2> QED BY <2>3, <2>4
<1>4. ASSUME Live(s) PROVE AllTold(s, g)'
  <2> SUFFICES ASSUME Stayed(s, g)'
               PROVE  /\ <<Owner[s], g>> \in members' /\ (\A ev \in News(s, g)' : ev.op <= read'[s].at)
                      /\ \A B \in SUBSET Guild, n \in (read'[s].at + 1)..ops' :
                           B = read'[s].guilds /\ log'[n] = g => Reaches(s, B, g, n)'
    BY DEF AllTold
  <2>1. AllTold(s, g)
    BY <1>4 DEF Informed
  <2>2. ASSUME NEW B \in SUBSET Guild, NEW n \in (read'[s].at + 1)..ops', B = read'[s].guilds, log'[n] = g
        PROVE  Reaches(s, B, g, n)'
    <3>1. PICK ev \in Coming(s) \cup Range(View(s, B).out) : ev.guild = g /\ ev.op = n /\ ev.aud = "guild"
      BY <1>1, <2>1, <2>2 DEF AllTold, Reaches
    <3>2. PICK a \in Accs : a = View(s, B)
      BY ViewIsAcc
    <3>3. ev \in Coming(s)' \/ ev \in Range(View(s, B)'.out)
      <4>1. CASE ev \in Coming(s)'
        BY <4>1
      <4>2. CASE ev \notin Coming(s)' /\ Taken
        <5>1. a.out \in Seq(Event)
          BY DEF Accs
        <5>2. ev = e \/ ev \in Range(a.out)
          BY <3>1, <3>2, <4>2
        <5>3. Apply(a, e).out = Append(a.out, e) \/ (e.aud = "former" /\ Apply(a, e).out = a.out)
          BY ApplyDoes
        <5>4. Range(Append(a.out, e)) = Range(a.out) \cup {e}
          BY <5>1, OneAppended
        <5>5. ev \in Range(Apply(a, e).out)
          BY <3>1, <5>2, <5>3, <5>4
        <5>6. View(s, B)' = Apply(a, e)
          BY <3>2, <4>2 DEF Taken
        <5> QED BY <5>5, <5>6
      <4>3. CASE ev \notin Coming(s)' /\ Passed
        <5>1. ev # e
          <6>1. read[s].at \in Int /\ n \in Int /\ n > read[s].at
            BY <1>1, <2>2 DEF TypeOK
          <6> QED BY <1>1, <3>1, <4>3, <6>1 DEF Passed, MayPass
        <5> QED BY <3>1, <4>3, <5>1 DEF Passed
      <4> QED BY <1>0, <1>4, <4>1, <4>2, <4>3
    <3> QED BY <3>1, <3>3 DEF Reaches
  <2> QED BY <1>1, <1>2, <2>1, <2>2 DEF AllTold
<1>5. Live(s) => ViewTrue(s, g)'
  BY <1>3 DEF ViewTrue
<1> QED BY <1>1, <1>2, <1>4, <1>5

\* What is on its way are events of transactions committed.
LEMMA UpstreamKnown ==
  ASSUME FanInv, NEW ev \in Upstream
  PROVE  ev \in Event /\ ev.op \in Nat /\ ev.op <= ops
<1>0. PathOk
  BY DEF FanInv
<1>1. ev \in SoundEvents
  <2>1. CASE ev \in Hooked
    <3>1. PICK o \in Op : ev \in Range(hooks[o])
      BY <2>1 DEF Hooked
    <3>2. hooks[o] \in Seq(SoundEvents)
      BY <1>0 DEF PathOk
    <3> QED BY <3>1, <3>2 DEF Range
  <2>2. CASE ev \in Range(bus)
    BY <1>0, <2>2 DEF PathOk, Range
  <2>3. CASE ev \in Laned
    <3>1. PICK l \in Lane : ev \in Range(lanes[l])
      BY <2>3 DEF Laned
    <3>2. lanes[l] \in Seq(SoundEvents)
      BY <1>0 DEF PathOk
    <3> QED BY <3>1, <3>2 DEF Range
  <2>4. CASE ev \in Worked
    BY <1>0, <2>4 DEF Worked, PathOk, WorkOk
  <2> QED BY <2>1, <2>2, <2>3, <2>4 DEF Upstream, Waiting
<1>2. ev \in Event /\ ev.op <= ops
  BY <1>1 DEF SoundEvents
<1> QED BY <1>2, FanoutAssumption DEF Event, Op

\* What may come to a session is on its way.
LEMMA ComingIsUpstream == \A s : Coming(s) \subseteq Upstream /\ AtWork(s) \subseteq Worked
BY DEF Coming, Upstream, AtWork, Worked

\* The sessions see nothing of a step that leaves them alone.
LEMMA SameViews ==
  ASSUME UNCHANGED sessions PROVE \A s, B : View(s, B)' = View(s, B)
BY DEF sessions, View

\* Of a step of the path, what is left to show.
LEMMA FlowPath ==
  ASSUME FlowInv, UNCHANGED <<db, sessions>>, LanesOk', amiss \subseteq amiss', Upstream' \subseteq Upstream,
         "swapped" \notin amiss' => PathOrder',
         amiss' = {} => \A s \in Sess : Informed(s)'
  PROVE  FlowInv'
<1>1. ASSUME NEW s \in Sess PROVE PhaseOk(s)'
  BY DEF FlowInv, PhaseOk, sessions, db, ops
<1>2. ASSUME "swapped" \notin amiss', NEW s \in Sess PROVE ViewOrder(s)'
  <2>1. ViewOrder(s)
    BY <1>2 DEF FlowInv
  <2>2. \A B \in SUBSET Guild : View(s, B)' = View(s, B)
    BY SameViews
  <2> QED BY <2>1, <2>2, OrderStays
<1> QED BY <1>1, <1>2 DEF FlowInv

\* A hook publishes.
LEMMA FlowPublish ==
  ASSUME FanInv, FlowInv, NEW o \in Op, Publish(o)
  PROVE  FlowInv'
<1> DEFINE e == Head(hooks[o])
<1>1. /\ hooks[o] # <<>> /\ hooks' = [hooks EXCEPT ![o] = Tail(hooks[o])]
      /\ bus' = IF Len(bus) < BusCap THEN Append(bus, e) ELSE bus
      /\ amiss' = amiss \cup (IF Overtakes(o) THEN {"swapped"} ELSE {})
                        \cup (IF Len(bus) < BusCap THEN {} ELSE {"lost"})
      /\ UNCHANGED <<db, lanes, work, index, sessions>>
  BY DEF Publish
<1>2. hooks \in [Op -> Seq(SoundEvents)] /\ bus \in Seq(SoundEvents)
  BY DEF FanInv, PathOk
<1>3. Range(hooks[o]) = {e} \cup Range(hooks'[o]) /\ \A p \in Op \ {o} : hooks'[p] = hooks[p]
  BY <1>1, <1>2, HeadAndTail
<1> HIDE DEF e
<1>4. Hooked = Hooked' \cup {e}
  <2>1. Hooked' \subseteq Hooked /\ e \in Hooked
    BY <1>3 DEF Hooked
  <2>2. ASSUME NEW f \in Hooked PROVE f \in Hooked' \cup {e}
    <3>1. PICK p \in Op : f \in Range(hooks[p])
      BY DEF Hooked
    <3>2. f = e \/ f \in Range(hooks'[p])
      BY <1>3, <3>1
    <3> QED BY <3>2 DEF Hooked
  <2> QED BY <2>1, <2>2
<1>5. /\ Range(bus') \subseteq Range(bus) \cup {e}
      /\ Len(bus) < BusCap => Range(bus') = Range(bus) \cup {e}
  BY <1>1, <1>2, OneAppended
<1>6. Laned' = Laned /\ Worked' = Worked /\ \A s : AtWork(s)' = AtWork(s)
  BY <1>1 DEF Laned, Worked, AtWork
<1>7. Waiting' \subseteq Waiting /\ Upstream' \subseteq Upstream /\ (Len(bus) < BusCap => Waiting' = Waiting)
  BY <1>4, <1>5, <1>6 DEF Waiting, Upstream
<1>8. LanesOk'
  <2>1. LanesOk
    BY DEF FlowInv
  <2>2. \A ev \in Upstream' : Shaped(ev)
    BY <1>7, <2>1 DEF LanesOk
  <2>3. \A p \in Op : \A ev \in Range(hooks'[p]) : ev.op = p
    BY <1>3, <2>1 DEF LanesOk
  <2> QED BY <1>1, <2>1, <2>2, <2>3 DEF LanesOk, Shaped
<1>9. ASSUME "swapped" \notin amiss' PROVE PathOrder'
  <2>1. PathOrder /\ ~Overtakes(o) /\ LanesOk
    BY <1>1, <1>9 DEF FlowInv
  <2>2. Precede({e}, Hooked')
    <3> SUFFICES ASSUME NEW f \in Hooked' PROVE e.op <= f.op
      BY DEF Precede
    <3>1. PICK p \in Op : f \in Range(hooks'[p])
      BY DEF Hooked
    <3>2. f \in Range(hooks[p]) /\ e \in Range(hooks[o])
      BY <1>3, <3>1
    <3>3. f.op = p /\ e.op = o /\ hooks[p] # <<>>
      BY <2>1, <3>2, NoneQueued DEF LanesOk
    <3>4. ~(p < o) /\ p \in Nat /\ o \in Nat
      BY <2>1, <3>3, FanoutAssumption DEF Overtakes, Op
    <3> QED BY <3>3, <3>4
  <2>3. Precede(Range(bus), {e}) /\ InOrder(bus) /\ Precede(Range(bus), Hooked)
    BY <1>4, <2>1 DEF PathOrder, Precede
  <2>4. InOrder(bus')
    BY <1>1, <1>2, <2>3, OneAppended
  <2>5. Precede(Range(bus'), Hooked')
    BY <1>4, <1>5, <2>2, <2>3 DEF Precede
  <2>6. Precede(Laned, Hooked' \cup Range(bus')) /\ Precede(Worked, Waiting')
    BY <1>4, <1>5, <1>7, <2>1 DEF PathOrder, Precede
  <2>7. \A l \in Lane : InOrder(lanes[l])'
    BY <1>1, <2>1 DEF PathOrder, InOrder
  <2> QED BY <1>6, <2>4, <2>5, <2>6, <2>7 DEF PathOrder, InOrder, Precede, Range
<1>10. ASSUME amiss' = {}, NEW s \in Sess PROVE Informed(s)'
  <2>1. Informed(s) /\ Len(bus) < BusCap
    BY <1>1, <1>10 DEF FlowInv
  <2>2. Coming(s)' = Coming(s)
    BY <1>6, <1>7, <2>1 DEF Coming
  <2>3. \A B \in SUBSET Guild : View(s, B)' = View(s, B)
    BY <1>1, SameViews
  <2>4. UNCHANGED <<db, state[s], read[s]>>
    BY <1>1 DEF sessions
  <2> QED BY <2>1, <2>2, <2>3, <2>4, InformedStays
<1>11. amiss \subseteq amiss'
  BY <1>1
<1> QED BY <1>1, <1>7, <1>8, <1>9, <1>10, <1>11, FlowPath

\* An event goes from the bus to its lane.
LEMMA FlowOnEvent ==
  ASSUME FanInv, FlowInv, OnEvent
  PROVE  FlowInv'
<1> DEFINE e == Head(bus)
           l == LaneOf[e.guild]
<1>1. /\ bus # <<>> /\ lanes' = [lanes EXCEPT ![l] = Append(lanes[l], e)] /\ bus' = Tail(bus)
      /\ UNCHANGED <<db, hooks, work, amiss, index, sessions>>
  BY DEF OnEvent
<1>2. lanes \in [Lane -> Seq(SoundEvents)] /\ bus \in Seq(SoundEvents)
  BY DEF FanInv, PathOk
<1>3. Range(bus) = {e} \cup Range(bus') /\ e \in SoundEvents
  BY <1>1, <1>2, HeadAndTail
<1>4. l \in Lane
  BY <1>3, FanoutAssumption DEF SoundEvents, Event
<1>5. InOrder(bus) => InOrder(bus') /\ Precede({e}, Range(bus'))
  BY <1>1, <1>2, HeadAndTail
<1> HIDE DEF e
<1>a. l = LaneOf[e.guild]
  OBVIOUS
<1> HIDE DEF l
<1>6. /\ Range(lanes'[l]) = Range(lanes[l]) \cup {e} /\ (\A k \in Lane \ {l} : lanes'[k] = lanes[k])
      /\ InOrder(lanes[l]) /\ Precede(Range(lanes[l]), {e}) => InOrder(lanes'[l])
  BY <1>1, <1>2, <1>4, OneAppended
<1>7. Laned' = Laned \cup {e}
  <2>1. Laned \cup {e} \subseteq Laned'
    BY <1>4, <1>6 DEF Laned
  <2>2. Laned' \subseteq Laned \cup {e}
    BY <1>4, <1>6 DEF Laned
  <2> QED BY <2>1, <2>2
<1>8. Hooked' = Hooked /\ Worked' = Worked /\ \A s : AtWork(s)' = AtWork(s)
  BY <1>1 DEF Hooked, Worked, AtWork
<1>9. Waiting' = Waiting /\ Upstream' = Upstream
  BY <1>3, <1>7, <1>8 DEF Waiting, Upstream
<1>10. LanesOk'
  <2>1. LanesOk
    BY DEF FlowInv
  <2>2. \A ev \in Upstream' : Shaped(ev)
    BY <1>9, <2>1 DEF LanesOk
  <2>3. \A k \in Lane : \A ev \in Range(lanes'[k]) : LaneOf[ev.guild] = k
    BY <1>6, <1>a, <2>1 DEF LanesOk
  <2> QED BY <1>1, <2>1, <2>2, <2>3 DEF LanesOk, Shaped
<1>11. ASSUME "swapped" \notin amiss' PROVE PathOrder'
  <2>1. PathOrder
    BY <1>1, <1>11 DEF FlowInv
  <2>2. InOrder(bus') /\ Precede({e}, Range(bus')) /\ Precede({e}, Hooked)
    BY <1>3, <1>5, <2>1 DEF PathOrder, Precede
  <2>3. Precede(Range(lanes[l]), {e})
    <3>1. Range(lanes[l]) \subseteq Laned /\ e \in Range(bus)
      BY <1>3, <1>4 DEF Laned
    <3> QED BY <2>1, <3>1 DEF PathOrder, Precede
  <2>4. ASSUME NEW k \in Lane PROVE InOrder(lanes'[k])
    BY <1>6, <2>1, <2>3 DEF PathOrder
  <2>5. Precede(Range(bus'), Hooked)
    BY <1>3, <2>1 DEF PathOrder, Precede
  <2>6. Precede(Laned', Hooked \cup Range(bus'))
    <3>1. Precede(Laned, Hooked \cup Range(bus'))
      BY <1>3, <2>1 DEF PathOrder, Precede
    <3> QED BY <1>7, <2>2, <3>1 DEF Precede
  <2>7. Precede(Worked, Waiting)
    BY <2>1 DEF PathOrder
  <2> QED BY <1>8, <1>9, <2>2, <2>4, <2>5, <2>6, <2>7 DEF PathOrder, InOrder, Precede, Range
<1>12. ASSUME amiss' = {}, NEW s \in Sess PROVE Informed(s)'
  <2>1. Informed(s)
    BY <1>1, <1>12 DEF FlowInv
  <2>2. Coming(s)' = Coming(s)
    BY <1>8, <1>9 DEF Coming
  <2>3. \A B \in SUBSET Guild : View(s, B)' = View(s, B)
    BY <1>1, SameViews
  <2>4. UNCHANGED <<db, state[s], read[s]>>
    BY <1>1 DEF sessions
  <2> QED BY <2>1, <2>2, <2>3, <2>4, InformedStays
<1> QED BY <1>1, <1>9, <1>10, <1>11, <1>12, FlowPath

\* A lane that becomes idle, or works for other sessions on the event it had.
LEMMA LaneMoves ==
  ASSUME NEW l \in Lane, work = [k \in Lane |-> work[k]], NEW new, work' = [work EXCEPT ![l] = new]
  PROVE  /\ work'[l] = new /\ (\A k \in Lane \ {l} : work'[k] = work[k])
         /\ Worked' \subseteq Worked \cup (IF new = Idle THEN {} ELSE {new.ev})
         /\ \A s : /\ AtWork(s)' \subseteq AtWork(s) \cup (IF new # Idle /\ s \in new.to THEN {new.ev} ELSE {})
                   /\ AtWork(s) \subseteq AtWork(s)' \cup (IF work[l] # Idle /\ s \in work[l].to
                                                             THEN {work[l].ev} ELSE {})
                   /\ new # Idle /\ s \in new.to => new.ev \in AtWork(s)'
                   /\ work[l] # Idle /\ s \in work[l].to => work[l].ev \in AtWork(s)
<1>1. work'[l] = new /\ \A k \in Lane \ {l} : work'[k] = work[k]
  OBVIOUS
<1>2. Worked' \subseteq Worked \cup (IF new = Idle THEN {} ELSE {new.ev})
  BY <1>1 DEF Worked
<1>3. ASSUME NEW s
      PROVE  /\ AtWork(s)' \subseteq AtWork(s) \cup (IF new # Idle /\ s \in new.to THEN {new.ev} ELSE {})
             /\ AtWork(s) \subseteq AtWork(s)' \cup (IF work[l] # Idle /\ s \in work[l].to
                                                       THEN {work[l].ev} ELSE {})
             /\ new # Idle /\ s \in new.to => new.ev \in AtWork(s)'
             /\ work[l] # Idle /\ s \in work[l].to => work[l].ev \in AtWork(s)
  <2>1. AtWork(s)' \subseteq AtWork(s) \cup (IF new # Idle /\ s \in new.to THEN {new.ev} ELSE {})
    BY <1>1 DEF AtWork
  <2>2. AtWork(s) \subseteq AtWork(s)' \cup (IF work[l] # Idle /\ s \in work[l].to THEN {work[l].ev} ELSE {})
    BY <1>1 DEF AtWork
  <2>3. new # Idle /\ s \in new.to => new.ev \in AtWork(s)'
    BY <1>1 DEF AtWork
  <2>4. work[l] # Idle /\ s \in work[l].to => work[l].ev \in AtWork(s)
    BY DEF AtWork
  <2> QED BY <2>1, <2>2, <2>3, <2>4
<1> QED BY <1>1, <1>2, <1>3

\* A lane takes its next event.
LEMMA FlowPick ==
  ASSUME FanInv, IndInv, FlowInv, NEW l \in Lane, Pick(l)
  PROVE  FlowInv'
<1> DEFINE e == Head(lanes[l])
           new == IF Candidates(e) = {} THEN Idle ELSE [stage |-> "check", ev |-> e, to |-> Candidates(e)]
<1>1. /\ work[l].stage = "idle" /\ lanes[l] # <<>>
      /\ lanes' = [lanes EXCEPT ![l] = Tail(lanes[l])] /\ work' = [work EXCEPT ![l] = new]
      /\ UNCHANGED <<db, hooks, bus, amiss, index, sessions>>
  BY DEF Pick
<1>2. lanes \in [Lane -> Seq(SoundEvents)] /\ work = [k \in Lane |-> work[k]] /\ WorkOk(work[l])
  BY DEF FanInv, PathOk
<1>3. work[l] = Idle
  BY <1>1, <1>2 DEF WorkOk
<1>4. /\ Range(lanes[l]) = {e} \cup Range(lanes'[l]) /\ (\A k \in Lane \ {l} : lanes'[k] = lanes[k])
      /\ InOrder(lanes[l]) => InOrder(lanes'[l]) /\ Precede({e}, Range(lanes'[l]))
  BY <1>1, <1>2, HeadAndTail
<1>5. /\ new # Idle => new.ev = e /\ new.to = Candidates(e)
      /\ new = Idle => Candidates(e) = {}
  BY DEF Idle
<1> HIDE DEF e, new
<1>6. Laned = Laned' \cup {e}
  <2>1. Laned' \cup {e} \subseteq Laned
    BY <1>4 DEF Laned
  <2>2. Laned \subseteq Laned' \cup {e}
    BY <1>4 DEF Laned
  <2> QED BY <2>1, <2>2
<1>7. Hooked' = Hooked /\ bus' = bus
  BY <1>1 DEF Hooked
<1>8. /\ work'[l] = new /\ (\A k \in Lane \ {l} : work'[k] = work[k])
      /\ Worked' \subseteq Worked \cup {e}
      /\ \A s \in Sess : /\ s \in Candidates(e) => AtWork(s)' = AtWork(s) \cup {e}
                         /\ s \notin Candidates(e) => AtWork(s)' = AtWork(s)
  <2>1. /\ work'[l] = new /\ (\A k \in Lane \ {l} : work'[k] = work[k])
        /\ Worked' \subseteq Worked \cup (IF new = Idle THEN {} ELSE {new.ev})
        /\ \A s : /\ AtWork(s)' \subseteq AtWork(s) \cup (IF new # Idle /\ s \in new.to THEN {new.ev} ELSE {})
                  /\ AtWork(s) \subseteq AtWork(s)' \cup (IF work[l] # Idle /\ s \in work[l].to
                                                            THEN {work[l].ev} ELSE {})
                  /\ new # Idle /\ s \in new.to => new.ev \in AtWork(s)'
    BY <1>1, <1>2, LaneMoves
  <2>2. ASSUME NEW s \in Sess PROVE AtWork(s) \subseteq AtWork(s)'
    BY <1>3, <2>1
  <2>3. ASSUME NEW s \in Sess, s \in Candidates(e) PROVE AtWork(s)' = AtWork(s) \cup {e}
    <3>1. new # Idle /\ new.ev = e /\ s \in new.to
      BY <1>5, <2>3
    <3> QED BY <2>1, <2>2, <3>1
  <2>4. ASSUME NEW s \in Sess, s \notin Candidates(e) PROVE AtWork(s)' = AtWork(s)
    <3>1. AtWork(s)' \subseteq AtWork(s)
      BY <1>5, <2>1, <2>4
    <3> QED BY <2>2, <3>1
  <2>5. Worked' \subseteq Worked \cup {e}
    BY <1>5, <2>1
  <2> QED BY <2>1, <2>3, <2>4, <2>5
<1>9. Waiting = Waiting' \cup {e} /\ Upstream' \subseteq Upstream /\ e \in Upstream
  BY <1>6, <1>7, <1>8 DEF Waiting, Upstream
<1>10. LanesOk /\ LaneOf[e.guild] = l /\ Shaped(e) /\ e \in Event /\ e.op \in Nat
  BY <1>4, <1>9, UpstreamKnown DEF FlowInv, LanesOk
<1>11. LanesOk'
  <2>1. \A ev \in Upstream' : Shaped(ev)
    BY <1>9, <1>10 DEF LanesOk
  <2>2. \A k \in Lane : \A ev \in Range(lanes'[k]) : LaneOf[ev.guild] = k
    BY <1>4, <1>10 DEF LanesOk
  <2>3. \A k \in Lane : work'[k] # Idle =>
          /\ LaneOf[work'[k].ev.guild] = k
          /\ work'[k].ev.aud = "users" => \A s \in work'[k].to : Owner[s] \in work'[k].ev.users
    BY <1>5, <1>8, <1>10 DEF LanesOk, Candidates
  <2> QED BY <1>1, <1>10, <2>1, <2>2, <2>3 DEF LanesOk, Shaped
<1>12. ASSUME "swapped" \notin amiss' PROVE PathOrder /\ Precede({e}, Waiting')
  <2>1. PathOrder
    BY <1>1, <1>12 DEF FlowInv
  <2>2. Precede({e}, Hooked \cup Range(bus))
    BY <1>6, <2>1 DEF PathOrder, Precede
  <2>3. Precede({e}, Laned')
    <3> SUFFICES ASSUME NEW f \in Laned', f.guild = e.guild PROVE e.op <= f.op
      BY DEF Precede
    <3>1. PICK k \in Lane : f \in Range(lanes'[k])
      BY DEF Laned
    <3>2. f \in Range(lanes[k])
      BY <1>4, <3>1
    <3>3. k = l
      BY <1>10, <3>2 DEF LanesOk
    <3> QED BY <1>4, <2>1, <3>1, <3>3 DEF PathOrder, Precede
  <2> QED BY <1>7, <2>1, <2>2, <2>3 DEF Waiting, Precede
<1>13. ASSUME "swapped" \notin amiss' PROVE PathOrder'
  <2>1. PathOrder /\ Precede({e}, Waiting')
    BY <1>12, <1>13
  <2>2. \A k \in Lane : InOrder(lanes'[k])
    BY <1>4, <2>1 DEF PathOrder
  <2>3. Precede(Laned', Hooked \cup Range(bus)) /\ Precede(Worked', Waiting')
    BY <1>6, <1>8, <1>9, <2>1 DEF PathOrder, Precede
  <2>4. InOrder(bus) /\ Precede(Range(bus), Hooked)
    BY <2>1 DEF PathOrder
  <2> QED BY <1>7, <2>2, <2>3, <2>4 DEF PathOrder, InOrder, Precede, Range
<1>14. ASSUME amiss' = {}, NEW s \in Sess PROVE Informed(s)'
  <2>1. Informed(s) /\ PhaseOk(s) /\ TypeOK
    BY <1>1, <1>14, FanSafe DEF FlowInv
  <2>2. \A B \in SUBSET Guild : View(s, B)' = View(s, B)
    BY <1>1, SameViews
  <2>3. UNCHANGED <<db, state[s], read[s]>>
    BY <1>1 DEF sessions
  <2>4. CASE s \in Candidates(e)
    <3>1. Coming(s)' = Coming(s)
      BY <1>8, <1>9, <2>4 DEF Coming
    <3> QED BY <2>1, <2>2, <2>3, <3>1, InformedStays
  <2>5. CASE s \notin Candidates(e)
    <3>1. Coming(s)' \subseteq Coming(s) /\ Coming(s) \subseteq Coming(s)' \cup {e} /\ e \in Coming(s)
      BY <1>8, <1>9, <2>5 DEF Coming
    <3>2. Precede({e}, Coming(s)')
      <4>1. ASSUME NEW f \in AtWork(s) PROVE f.guild # e.guild
        <5>1. PICK k \in Lane : work[k] # Idle /\ f = work[k].ev
          BY DEF AtWork
        <5> QED BY <1>3, <1>10, <5>1 DEF LanesOk
      <4>2. Precede({e}, Waiting')
        BY <1>12, <1>14
      <4>3. AtWork(s)' = AtWork(s)
        BY <1>8, <2>5
      <4> QED BY <4>1, <4>2, <4>3 DEF Precede, Coming
    <3>3. ASSUME Live(s) PROVE MayPass(s, e)
      <4>1. s \in byUser /\ (s \notin unready => state[s] = "ready")
            /\ (e.guild \in Guild => (s \notin byGuild[e.guild] => state[s] # "ready" \/ e.guild \notin sguilds[s]))
        BY <3>3 DEF Live, IndInv, IndexIsExact
      <4>2. e.aud = "users" => Owner[s] \notin e.users
        BY <2>5, <4>1 DEF Candidates
      <4>3. e.guild \in Guild
        BY <1>10 DEF Event
      <4>4. ASSUME e.aud # "users"
            PROVE  state[s] = "ready" /\ \A B \in SUBSET Guild : e.guild \notin View(s, B).set
        <5>1. state[s] = "ready" /\ e.guild \notin sguilds[s]
          BY <2>5, <4>1, <4>3, <4>4 DEF Candidates
        <5>2. pending[s] = <<>>
          BY <2>1, <5>1 DEF PhaseOk
        <5>3. \A B \in SUBSET Guild : View(s, B).set = sguilds[s]
          BY <2>1, <5>1, <5>2, ViewPlain
        <5> QED BY <5>1, <5>3
      <4>5. ASSUME e.aud = "guild", Stayed(s, e.guild) PROVE e.op <= read[s].at
        <5> SUFFICES ASSUME ~(e.op <= read[s].at) PROVE FALSE
          OBVIOUS
        <5>1. AllTold(s, e.guild) /\ ViewTrue(s, e.guild)
          BY <2>1, <3>3, <4>3 DEF Informed
        <5>2. ASSUME NEW f \in News(s, e.guild) PROVE FALSE
          <6>1. f.op <= read[s].at /\ f.guild = e.guild /\ f \in Coming(s) /\ f # e
            BY <4>5, <5>1, <5>2 DEF AllTold, News, Relevant
          <6>2. f \in Coming(s)' /\ e.op <= f.op
            BY <3>1, <3>2, <6>1 DEF Precede
          <6>3. f.op \in Nat /\ read[s].at \in Int
            BY <2>1, <6>1, ComingIsUpstream, UpstreamKnown DEF TypeOK
          <6> QED BY <1>10, <6>1, <6>2, <6>3
        <5>3. News(s, e.guild) = {} /\ <<Owner[s], e.guild>> \in members
          BY <4>5, <5>1, <5>2 DEF AllTold
        <5>4. PICK B \in SUBSET Guild : B = {}
          OBVIOUS
        <5>5. state[s] = "ready" /\ e.guild \notin View(s, B).set
          BY <4>4, <4>5
        <5>6. MayList(s, e.guild, B)
          BY <5>5 DEF MayList
        <5> QED BY <5>1, <5>3, <5>5, <5>6 DEF ViewTrue
      <4> QED BY <4>2, <4>4, <4>5 DEF MayPass
    <3> QED BY <1>10, <2>1, <2>2, <2>3, <3>1, <3>2, <3>3, InformedNext
  <2> QED BY <2>4, <2>5
<1> QED BY <1>1, <1>9, <1>11, <1>13, <1>14, FlowPath

\* The event a lane works on is the next of its guild,
LEMMA WorkedFirst ==
  ASSUME FanInv, LanesOk, PathOrder, NEW l \in Lane, work[l] # Idle
  PROVE  Precede({work[l].ev}, Upstream)
<1> SUFFICES ASSUME NEW f \in Upstream, f.guild = work[l].ev.guild PROVE work[l].ev.op <= f.op
  BY DEF Precede
<1>1. work[l].ev \in Worked
  BY DEF Worked
<1>2. CASE f \in Waiting
  BY <1>1, <1>2 DEF PathOrder, Precede
<1>3. CASE f \in Worked
  <2>1. PICK k \in Lane : work[k] # Idle /\ f = work[k].ev
    BY <1>3 DEF Worked
  <2>2. k = l
    BY <2>1 DEF LanesOk
  <2>3. f.op \in Nat
    BY UpstreamKnown
  <2> QED BY <2>1, <2>2, <2>3
<1> QED BY <1>2, <1>3 DEF Upstream

\* and its lane keeps to its own events when it goes on with fewer sessions.
LEMMA LaneGoesOn ==
  ASSUME FanInv, FlowInv, NEW l \in Lane, work[l] # Idle, NEW new, work' = [work EXCEPT ![l] = new],
         new = Idle \/ (new.ev = work[l].ev /\ new.to \subseteq work[l].to),
         UNCHANGED <<hooks, bus, lanes>>
  PROVE  /\ LanesOk' /\ Upstream' \subseteq Upstream /\ (PathOrder => PathOrder') /\ Waiting' = Waiting
         /\ \A s : /\ AtWork(s)' \subseteq AtWork(s) /\ AtWork(s) \subseteq AtWork(s)' \cup {work[l].ev}
                   /\ ((s \in work[l].to => new # Idle /\ s \in new.to) => AtWork(s)' = AtWork(s))
                   /\ (s \in work[l].to => work[l].ev \in AtWork(s))
<1>0. work = [k \in Lane |-> work[k]]
  BY DEF FanInv, PathOk
<1>1. /\ work'[l] = new /\ (\A k \in Lane \ {l} : work'[k] = work[k])
      /\ Worked' \subseteq Worked \cup (IF new = Idle THEN {} ELSE {new.ev})
      /\ \A s : /\ AtWork(s)' \subseteq AtWork(s) \cup (IF new # Idle /\ s \in new.to THEN {new.ev} ELSE {})
                /\ AtWork(s) \subseteq AtWork(s)' \cup (IF work[l] # Idle /\ s \in work[l].to
                                                          THEN {work[l].ev} ELSE {})
                /\ new # Idle /\ s \in new.to => new.ev \in AtWork(s)'
                /\ work[l] # Idle /\ s \in work[l].to => work[l].ev \in AtWork(s)
  BY <1>0, LaneMoves
<1>2. Hooked' = Hooked /\ Laned' = Laned /\ bus' = bus /\ Waiting' = Waiting
  BY DEF Hooked, Laned, Waiting
<1>3. work[l].ev \in Worked
  BY DEF Worked
<1>4. Worked' \subseteq Worked
  BY <1>1, <1>3
<1>5. Upstream' \subseteq Upstream
  BY <1>2, <1>4 DEF Upstream
<1>6. LanesOk'
  <2>1. LanesOk
    BY DEF FlowInv
  <2>2. \A ev \in Upstream' : Shaped(ev)
    BY <1>5, <2>1 DEF LanesOk
  <2>3. ASSUME NEW k \in Lane, work'[k] # Idle
        PROVE  /\ LaneOf[work'[k].ev.guild] = k
               /\ work'[k].ev.aud = "users" => \A s \in work'[k].to : Owner[s] \in work'[k].ev.users
    <3>1. CASE k = l
      <4>1. work'[k].ev = work[l].ev /\ work'[k].to \subseteq work[l].to
        BY <1>1, <2>3, <3>1
      <4> QED BY <2>1, <3>1, <4>1 DEF LanesOk
    <3>2. CASE k # l
      BY <1>1, <2>1, <2>3, <3>2 DEF LanesOk
    <3> QED BY <3>1, <3>2
  <2> QED BY <2>1, <2>2, <2>3 DEF LanesOk, Shaped
<1>7. ASSUME PathOrder PROVE PathOrder'
  <2>1. Precede(Worked', Waiting')
    BY <1>2, <1>4, <1>7 DEF PathOrder, Precede
  <2> QED BY <1>2, <1>7, <2>1 DEF PathOrder, InOrder, Precede, Range
<1>8. ASSUME NEW s
      PROVE  /\ AtWork(s)' \subseteq AtWork(s) /\ AtWork(s) \subseteq AtWork(s)' \cup {work[l].ev}
             /\ ((s \in work[l].to => new # Idle /\ s \in new.to) => AtWork(s)' = AtWork(s))
             /\ (s \in work[l].to => work[l].ev \in AtWork(s))
  <2>1. AtWork(s)' \subseteq AtWork(s)
    <3>1. CASE new # Idle /\ s \in new.to
      BY <1>1, <3>1
    <3>2. CASE ~(new # Idle /\ s \in new.to)
      BY <1>1, <3>2
    <3> QED BY <3>1, <3>2
  <2>2. AtWork(s) \subseteq AtWork(s)' \cup {work[l].ev}
    BY <1>1
  <2>3. ASSUME s \in work[l].to => new # Idle /\ s \in new.to PROVE AtWork(s)' = AtWork(s)
    <3>1. CASE s \in work[l].to
      <4>1. work[l].ev \in AtWork(s)'
        BY <1>1, <2>3, <3>1
      <4> QED BY <2>1, <2>2, <4>1
    <3>2. CASE s \notin work[l].to
      BY <1>1, <2>1, <3>2
    <3> QED BY <3>1, <3>2
  <2> QED BY <1>1, <2>1, <2>2, <2>3
<1> QED BY <1>2, <1>5, <1>6, <1>7, <1>8

\* The rows decide, or do not answer.
LEMMA FlowCheck ==
  ASSUME FanInv, FlowInv, NEW l \in Lane, Check(l)
  PROVE  FlowInv'
<1> DEFINE e == work[l].ev
           some == Allowed(e, work[l].to)
           new == IF some = {} THEN Idle ELSE [stage |-> "deliver", ev |-> e, to |-> some]
<1>1. /\ work[l].stage = "check" /\ UNCHANGED <<db, hooks, bus, lanes, index, sessions>>
      /\ \/ work' = [work EXCEPT ![l] = new] /\ UNCHANGED amiss
         \/ work' = [work EXCEPT ![l] = Idle] /\ amiss' = amiss \cup {"lost"}
  BY DEF Check
<1>2. work[l] # Idle
  BY <1>1 DEF Idle
<1>3. some \subseteq work[l].to /\ (e.aud # "guild" => some = work[l].to)
      /\ (e.aud = "guild" => some = {s \in work[l].to : <<Owner[s], e.guild>> \in members})
  BY DEF Allowed
<1>4. new = Idle => some = {}
  BY DEF Idle
<1>5. new # Idle => new.ev = e /\ new.to = some
  OBVIOUS
<1>6. e \in Worked /\ e \in Upstream
  BY <1>2 DEF Worked, Upstream
<1>7. e \in Event /\ Shaped(e) /\ e.guild \in Guild
  BY <1>6, UpstreamKnown DEF FlowInv, LanesOk, Event
<1> HIDE DEF e, some, new
<1>8. CASE work' = [work EXCEPT ![l] = Idle] /\ amiss' = amiss \cup {"lost"}
  <2>1. PICK n : n = Idle
    OBVIOUS
  <2>2. LanesOk' /\ Upstream' \subseteq Upstream /\ (PathOrder => PathOrder')
    BY <1>1, <1>2, <1>8, <2>1, LaneGoesOn
  <2>3. "swapped" \notin amiss' => PathOrder'
    BY <1>8, <2>2 DEF FlowInv
  <2>4. amiss \subseteq amiss' /\ amiss' # {}
    BY <1>8
  <2> QED BY <1>1, <2>2, <2>3, <2>4, FlowPath
<1>9. CASE work' = [work EXCEPT ![l] = new] /\ UNCHANGED amiss
  <2>1. /\ LanesOk' /\ Upstream' \subseteq Upstream /\ (PathOrder => PathOrder') /\ Waiting' = Waiting
        /\ \A s : /\ AtWork(s)' \subseteq AtWork(s) /\ AtWork(s) \subseteq AtWork(s)' \cup {e}
                  /\ ((s \in work[l].to => new # Idle /\ s \in new.to) => AtWork(s)' = AtWork(s))
                  /\ (s \in work[l].to => e \in AtWork(s))
    BY <1>1, <1>2, <1>3, <1>5, <1>9, LaneGoesOn DEF e
  <2>2. "swapped" \notin amiss' => PathOrder'
    BY <1>9, <2>1 DEF FlowInv
  <2>3. ASSUME amiss' = {}, NEW s \in Sess PROVE Informed(s)'
    <3>1. Informed(s) /\ TypeOK /\ PathOrder /\ LanesOk
      BY <1>9, <2>3, FanSafe DEF FlowInv
    <3>2. \A B \in SUBSET Guild : View(s, B)' = View(s, B)
      BY <1>1, SameViews
    <3>3. UNCHANGED <<db, state[s], read[s]>>
      BY <1>1 DEF sessions
    <3>4. CASE s \in work[l].to => s \in some
      <4>1. AtWork(s)' = AtWork(s)
        BY <1>4, <1>5, <2>1, <3>4
      <4>2. Coming(s)' = Coming(s)
        BY <2>1, <4>1 DEF Coming
      <4> QED BY <3>1, <3>2, <3>3, <4>2, InformedStays
    <3>5. CASE s \in work[l].to /\ s \notin some
      <4>1. Coming(s)' \subseteq Coming(s) /\ Coming(s) \subseteq Coming(s)' \cup {e} /\ e \in Coming(s)
        BY <2>1, <3>5 DEF Coming
      <4>2. Precede({e}, Coming(s)')
        <5>1. Precede({e}, Upstream)
          BY <1>2, <3>1, WorkedFirst DEF e
        <5> QED BY <4>1, <5>1, ComingIsUpstream DEF Precede
      <4>3. ASSUME Live(s) PROVE MayPass(s, e)
        <5>1. e.aud = "guild" /\ <<Owner[s], e.guild>> \notin members
          BY <1>3, <3>5
        <5>2. AllTold(s, e.guild)
          BY <1>7, <3>1, <4>3 DEF Informed
        <5> QED BY <5>1, <5>2 DEF AllTold, MayPass
      <4> QED BY <1>7, <3>1, <3>2, <3>3, <4>1, <4>2, <4>3, InformedNext
    <3> QED BY <3>4, <3>5
  <2> QED BY <1>1, <1>9, <2>1, <2>2, <2>3, FlowPath
<1> QED BY <1>1, <1>8, <1>9

\* Of a step of session s, what is left to show: the others stay as they are.
LEMMA FlowSession ==
  ASSUME FlowInv, NEW s \in Sess, UNCHANGED <<db, amiss>>, LanesOk', Upstream' \subseteq Upstream,
         PathOrder => PathOrder',
         \A r \in Sess \ {s} : /\ UNCHANGED <<state[r], read[r], sguilds[r], pending[r], stream[r]>>
                               /\ Coming(r)' = Coming(r),
         PhaseOk(s)',
         "swapped" \notin amiss => ViewOrder(s)',
         amiss = {} => Informed(s)'
  PROVE  FlowInv'
<1>1. ASSUME NEW r \in Sess \ {s}
      PROVE  /\ PhaseOk(r)' /\ ("swapped" \notin amiss => ViewOrder(r)')
             /\ (amiss = {} => Informed(r)')
  <2>1. UNCHANGED <<state[r], read[r], sguilds[r], pending[r], stream[r]>> /\ Coming(r)' = Coming(r) /\ ops' = ops
    BY DEF db, ops
  <2>2. PhaseOk(r)'
    BY <2>1 DEF FlowInv, PhaseOk
  <2>3. \A B \in SUBSET Guild : View(r, B)' = View(r, B)
    BY <2>1 DEF View
  <2>4. "swapped" \notin amiss => ViewOrder(r)'
    BY <2>3, OrderStays DEF FlowInv
  <2>5. amiss = {} => Informed(r)'
    BY <2>1, <2>3, InformedStays DEF FlowInv
  <2> QED BY <2>2, <2>4, <2>5
<1> QED BY <1>1 DEF FlowInv

\* The path stays as it is.
LEMMA SamePath ==
  ASSUME FlowInv, UNCHANGED path
  PROVE  LanesOk' /\ Upstream' = Upstream /\ (PathOrder => PathOrder') /\ \A s : Coming(s)' = Coming(s)
<1>0. UNCHANGED <<hooks, bus, lanes, work, amiss>>
  BY DEF path
<1>1. Hooked' = Hooked /\ Laned' = Laned /\ Worked' = Worked /\ bus' = bus /\ \A s : AtWork(s)' = AtWork(s)
  BY <1>0 DEF Hooked, Laned, Worked, AtWork
<1>2. Waiting' = Waiting /\ Upstream' = Upstream /\ \A s : Coming(s)' = Coming(s)
  BY <1>1 DEF Waiting, Upstream, Coming
<1>3. LanesOk'
  BY <1>0, <1>2 DEF FlowInv, LanesOk, Shaped
<1>4. PathOrder => PathOrder'
  BY <1>0, <1>1, <1>2 DEF PathOrder, InOrder, Precede, Range
<1> QED BY <1>2, <1>3, <1>4

\* What a READY session is given is applied at once.
LEMMA AppliedOne ==
  ASSUME NEW base \in Accs, NEW ev \in Event
  PROVE  Applied(base, <<ev>>) = Apply(base, ev) /\ Apply(base, ev) \in Accs
<1>1. <<ev>> = Append(<<>>, ev) /\ <<>> \in Seq(Event)
  OBVIOUS
<1>2. PICK none \in Seq(Event) : none = <<>>
  BY <1>1
<1>3. Applied(base, Append(none, ev)) = Apply(Applied(base, none), ev)
  BY AppliedMore
<1>4. Applied(base, none) = base
  BY <1>2, AppliedNone
<1> QED BY <1>1, <1>2, <1>3, <1>4, ApplyAcc

\* A session is handed an event.
LEMMA FlowDeliver ==
  ASSUME FanInv, FlowInv, NEW l \in Lane, NEW s \in Sess, Deliver(l, s)
  PROVE  FlowInv'
<1> DEFINE e == work[l].ev
           new == IF work[l].to = {s} THEN Idle ELSE [work[l] EXCEPT !.to = work[l].to \ {s}]
<1>t. TypeOK /\ SessionsOk
  BY FanSafe DEF FanInv
<1>1. /\ work[l].stage = "deliver" /\ s \in work[l].to /\ work' = [work EXCEPT ![l] = new]
      /\ UNCHANGED <<db, hooks, bus, lanes, amiss, state, read>>
      /\ \/ state[s] = "ended" /\ UNCHANGED <<pending, stream, sguilds, byGuild>>
         \/ /\ state[s] = "open" /\ pending' = [pending EXCEPT ![s] = Append(pending[s], e)]
            /\ UNCHANGED <<stream, sguilds, byGuild>>
         \/ state[s] = "ready" /\ ApplyAll(s, sguilds[s], <<e>>) /\ UNCHANGED pending
  BY DEF Deliver, Handed
<1>2. work[l] # Idle
  BY <1>1 DEF Idle
<1>3. e \in Worked /\ e \in Upstream
  BY <1>2 DEF Worked, Upstream
<1>4. e \in Event /\ Shaped(e)
  BY <1>3, UpstreamKnown DEF FlowInv, LanesOk
<1>5. e.aud = "users" => Owner[s] \in e.users
  BY <1>1, <1>2 DEF FlowInv, LanesOk
<1>w. PICK w : w = work[l] /\ w.stage = "deliver" /\ w.ev \in SoundEvents /\ w.to \in SUBSET Sess
  BY <1>1 DEF FanInv, PathOk, WorkOk, Idle
<1>6. \/ new = Idle /\ work[l].to = {s}
      \/ new.stage = "deliver" /\ new.ev = e /\ new.to = work[l].to \ {s}
  <2>1. CASE w.to = {s}
    BY <1>w, <2>1
  <2>2. CASE w.to # {s}
    <3> DEFINE v == [w EXCEPT !.to = w.to \ {s}]
    <3>1. v.stage = "deliver" /\ v.ev = w.ev /\ v.to = w.to \ {s}
      BY <1>w, <2>2
    <3>2. new = v
      BY <1>w, <2>2
    <3> HIDE DEF v
    <3> QED BY <1>w, <3>1, <3>2
  <2> QED BY <2>1, <2>2
<1> HIDE DEF new
<1>7. ASSUME NEW r \in Sess \ {s}, r \in work[l].to PROVE new # Idle /\ r \in new.to
  BY <1>6, <1>7 DEF Idle
<1>8. /\ LanesOk' /\ Upstream' \subseteq Upstream /\ (PathOrder => PathOrder') /\ Waiting' = Waiting
      /\ \A r : /\ AtWork(r)' \subseteq AtWork(r) /\ AtWork(r) \subseteq AtWork(r)' \cup {e}
                /\ ((r \in work[l].to => new # Idle /\ r \in new.to) => AtWork(r)' = AtWork(r))
                /\ (r \in work[l].to => e \in AtWork(r))
  BY <1>1, <1>2, <1>6, LaneGoesOn
<1> HIDE DEF e
<1>9. \A r \in Sess \ {s} : Coming(r)' = Coming(r)
  BY <1>7, <1>8 DEF Coming
<1>10. Coming(s)' \subseteq Coming(s) /\ Coming(s) \subseteq Coming(s)' \cup {e} /\ e \in Coming(s)
  BY <1>1, <1>8 DEF Coming
<1>f. /\ read = [r \in Sess |-> read[r]] /\ sguilds = [r \in Sess |-> sguilds[r]]
      /\ pending = [r \in Sess |-> pending[r]] /\ stream = [r \in Sess |-> stream[r]]
  BY <1>t DEF SessionsOk
<1>11. \A r \in Sess \ {s} : UNCHANGED <<state[r], read[r], sguilds[r], pending[r], stream[r]>>
  BY <1>1, <1>f DEF ApplyAll
<1>p. PhaseOk(s)
  BY DEF FlowInv
<1>12. /\ PhaseOk(s)'
       /\ \/ state[s] = "ended" /\ \A B \in SUBSET Guild : View(s, B)' = View(s, B)
          \/ state[s] \in {"open", "ready"} /\ \A B \in SUBSET Guild : View(s, B)' = Apply(View(s, B), e)
  <2>0. ops' = ops
    BY <1>1 DEF db, ops
  <2>1. CASE state[s] = "ended" /\ UNCHANGED <<pending, stream, sguilds, byGuild>>
    <3>1. PhaseOk(s)'
      BY <1>1, <1>p, <2>0, <2>1 DEF PhaseOk
    <3>2. \A B \in SUBSET Guild : View(s, B)' = View(s, B)
      BY <1>1, <2>1 DEF View
    <3> QED BY <2>1, <3>1, <3>2
  <2>2. CASE /\ state[s] = "open" /\ pending' = [pending EXCEPT ![s] = Append(pending[s], e)]
             /\ UNCHANGED <<stream, sguilds, byGuild>>
    <3>1. PhaseOk(s)'
      BY <1>1, <1>p, <2>0, <2>2 DEF PhaseOk
    <3>2. ASSUME NEW B \in SUBSET Guild PROVE View(s, B)' = Apply(View(s, B), e)
      <4> DEFINE base == [set |-> B, out |-> stream[s]]
      <4>1. stream[s] \in Seq(Event) /\ pending[s] \in Seq(Event) /\ pending'[s] = Append(pending[s], e)
        BY <1>f, <1>t, <2>2 DEF TypeOK
      <4>2. base \in Accs
        BY <4>1 DEF Accs
      <4>3. View(s, B) = Applied(base, pending[s]) /\ View(s, B)' = Applied(base, pending'[s])
        BY <1>1, <2>2 DEF View
      <4> HIDE DEF base
      <4> QED BY <1>4, <4>1, <4>2, <4>3, AppliedMore
    <3> QED BY <2>2, <3>1, <3>2
  <2>3. CASE state[s] = "ready" /\ ApplyAll(s, sguilds[s], <<e>>) /\ UNCHANGED pending
    <3>1. PhaseOk(s)'
      BY <1>1, <1>p, <2>0, <2>3 DEF PhaseOk
    <3> DEFINE base == [set |-> sguilds[s], out |-> stream[s]]
               end == Applied(base, <<e>>)
    <3>2. base \in Accs
      BY <1>t DEF TypeOK, Accs
    <3>3. sguilds'[s] = end.set /\ stream'[s] = end.out /\ pending'[s] = <<>> /\ state'[s] = "ready"
      BY <1>1, <1>f, <1>p, <2>3 DEF ApplyAll, PhaseOk
    <3>4. pending[s] = <<>>
      BY <1>p, <2>3 DEF PhaseOk
    <3> HIDE DEF base
    <3>5. end = Apply(base, e) /\ end \in Accs
      BY <1>4, <3>2, AppliedOne
    <3> HIDE DEF end
    <3>6. end = [set |-> sguilds'[s], out |-> stream'[s]]
      BY <3>3, <3>5 DEF Accs
    <3>7. ASSUME NEW B \in SUBSET Guild PROVE View(s, B)' = Apply(View(s, B), e)
      <4>1. View(s, B) = base
        BY <1>t, <2>3, <3>4, ViewPlain DEF base
      <4>2. View(s, B)' = Applied(end, <<>>)
        BY <3>3, <3>6 DEF View
      <4>3. View(s, B)' = end
        BY <3>5, <4>2, AppliedNone
      <4> QED BY <3>5, <4>1, <4>3
    <3> QED BY <2>3, <3>1, <3>7
  <2> QED BY <1>1, <2>1, <2>2, <2>3
<1>13. ASSUME "swapped" \notin amiss PROVE Precede({e}, Upstream) /\ ViewOrder(s)
  BY <1>2, <1>13, WorkedFirst DEF FlowInv, e
<1>14. ASSUME "swapped" \notin amiss PROVE ViewOrder(s)'
  <2>1. Precede({e}, Upstream') /\ ViewOrder(s)
    BY <1>8, <1>13, <1>14 DEF Precede
  <2> QED BY <1>3, <1>4, <1>8, <1>12, <1>t, <2>1, OrderStays, OrderGrows
<1>15. ASSUME amiss = {} PROVE Informed(s)'
  <2>1. Precede({e}, Coming(s)') /\ Informed(s)
    BY <1>10, <1>13, <1>15, ComingIsUpstream DEF Precede, FlowInv
  <2>2. ~Live(s) \/ \A B \in SUBSET Guild : View(s, B)' = Apply(View(s, B), e)
    BY <1>12 DEF Live
  <2>3. UNCHANGED <<db, state[s], read[s]>>
    BY <1>1
  <2> QED BY <1>4, <1>5, <1>10, <1>t, <2>1, <2>2, <2>3, InformedNext
<1> QED BY <1>1, <1>8, <1>9, <1>11, <1>12, <1>14, <1>15, FlowSession

\* The sessions' own steps.
LEMMA FlowOwn ==
  ASSUME FanInv, FlowInv, NEW s \in Sess, Register(s) \/ ReadGuilds(s) \/ BecomeReady(s) \/ Stop(s)
  PROVE  FlowInv'
<1>t. TypeOK /\ SessionsOk /\ PhaseOk(s) /\ ops \in Nat
  BY FanSafe, OpsIsNat DEF FanInv, FlowInv
<1>f. /\ read = [r \in Sess |-> read[r]] /\ sguilds = [r \in Sess |-> sguilds[r]]
      /\ pending = [r \in Sess |-> pending[r]] /\ stream = [r \in Sess |-> stream[r]]
      /\ state = [r \in Sess |-> state[r]]
  BY <1>t DEF SessionsOk, TypeOK
<1>0. UNCHANGED <<db, path>>
  BY DEF Register, ReadGuilds, BecomeReady, Stop
<1>1. LanesOk' /\ Upstream' = Upstream /\ (PathOrder => PathOrder') /\ \A r : Coming(r)' = Coming(r)
  BY <1>0, SamePath
<1>2. UNCHANGED <<members, until, log, amiss>> /\ ops' = ops
  BY <1>0 DEF db, path, ops
<1>3. \A r \in Sess \ {s} : UNCHANGED <<state[r], read[r], sguilds[r], pending[r], stream[r]>>
  BY <1>f DEF Register, ReadGuilds, BecomeReady, Stop, ApplyAll
<1>4. ASSUME NEW g PROVE News(s, g)' = News(s, g) /\ (NewsTrue(s, g) => NewsTrue(s, g)')
  <2>1. News(s, g)' = News(s, g)
    BY <1>1 DEF News
  <2> QED BY <1>2, <2>1 DEF NewsTrue
<1>5. CASE Register(s)
  <2>1. /\ state[s] = "new" /\ state'[s] = "open"
        /\ UNCHANGED <<read, sguilds, pending, stream>>
    BY <1>5, <1>f DEF Register
  <2>2. PhaseOk(s)' /\ pending[s] = <<>> /\ read[s] = NotRead
    BY <1>2, <1>t, <2>1 DEF PhaseOk
  <2>3. \A B \in SUBSET Guild : View(s, B)' = View(s, B) /\ View(s, B).set = B
    <3>1. \A B \in SUBSET Guild : View(s, B)' = View(s, B)
      BY <2>1 DEF View
    <3>2. \A B \in SUBSET Guild : View(s, B).set = B
      BY <1>t, <2>1, <2>2, ViewPlain
    <3> QED BY <3>1, <3>2
  <2>4. "swapped" \notin amiss => ViewOrder(s)'
    BY <1>1, <2>3, OrderStays DEF FlowInv
  <2>5. ASSUME amiss = {}, NEW g \in Guild PROVE NewsTrue(s, g)' /\ ViewTrue(s, g)' /\ AllTold(s, g)'
    <3>1. NewsTrue(s, g)'
      BY <1>4, <2>5 DEF FlowInv, Informed
    <3>2. ViewTrue(s, g)'
      <4> SUFFICES ASSUME NEW B \in SUBSET Guild, MayList(s, g, B)'
                   PROVE  g \in View(s, B)'.set <=> <<Owner[s], g>> \in members'
        BY DEF ViewTrue
      <4>1. g \in B <=> <<Owner[s], g>> \in members'
        BY <2>1, <2>2 DEF MayList
      <4> QED BY <2>3, <4>1
    <3>3. AllTold(s, g)'
      BY <2>1, <2>2 DEF AllTold, Stayed
    <3> QED BY <3>1, <3>2, <3>3
  <2> QED BY <1>0, <1>1, <1>2, <1>3, <2>2, <2>4, <2>5, FlowSession DEF Informed
<1>6. CASE ReadGuilds(s)
  <2>1. /\ state[s] = "open" /\ state' = state /\ read[s] = NotRead
        /\ read'[s] = [guilds |-> GuildsOf(Owner[s]), at |-> ops]
        /\ UNCHANGED <<sguilds, pending, stream>>
    BY <1>6, <1>f DEF ReadGuilds
  <2>2. read'[s].at = ops /\ read'[s].guilds = GuildsOf(Owner[s]) /\ read'[s] # NotRead
    <3>1. read'[s].at = ops /\ read'[s].guilds = GuildsOf(Owner[s]) /\ NotRead.at = -1
      BY <2>1 DEF NotRead
    <3>2. ops # -1
      BY <1>t
    <3> QED BY <3>1, <3>2
  <2>3. PhaseOk(s)'
    BY <1>2, <1>t, <2>1, <2>2 DEF PhaseOk
  <2>4. \A B \in SUBSET Guild : View(s, B)' = View(s, B)
    BY <2>1 DEF View
  <2>5. "swapped" \notin amiss => ViewOrder(s)'
    BY <1>1, <2>4, OrderStays DEF FlowInv
  <2>6. ASSUME amiss = {}, NEW g \in Guild PROVE NewsTrue(s, g)' /\ ViewTrue(s, g)' /\ AllTold(s, g)'
    <3>0. NewsTrue(s, g) /\ ViewTrue(s, g)
      BY <2>1, <2>6 DEF FlowInv, Informed, Live
    <3>1. NewsTrue(s, g)'
      BY <1>4, <3>0
    <3>2. ViewTrue(s, g)'
      <4> SUFFICES ASSUME NEW B \in SUBSET Guild, MayList(s, g, B)', News(s, g)' = {}
                   PROVE  g \in View(s, B)'.set <=> <<Owner[s], g>> \in members'
        BY DEF ViewTrue
      <4>1. B = GuildsOf(Owner[s])
        BY <2>1, <2>2 DEF MayList
      <4>2. MayList(s, g, B)
        BY <2>1, <4>1 DEF MayList, GuildsOf
      <4> QED BY <1>2, <1>4, <2>4, <3>0, <4>2 DEF ViewTrue
    <3>3. ASSUME Stayed(s, g)'
          PROVE  /\ <<Owner[s], g>> \in members' /\ (\A ev \in News(s, g)' : ev.op <= read'[s].at)
                 /\ \A B \in SUBSET Guild, n \in (read'[s].at + 1)..ops' :
                      B = read'[s].guilds /\ log'[n] = g => Reaches(s, B, g, n)'
      <4>1. <<Owner[s], g>> \in members'
        BY <1>2, <2>2, <3>3 DEF Stayed, GuildsOf
      <4>2. \A ev \in News(s, g)' : ev.op <= read'[s].at
        BY <1>4, <2>2, ComingIsUpstream, UpstreamKnown DEF News
      <4>3. (read'[s].at + 1)..ops' = {}
        BY <1>2, <1>t, <2>2
      <4> QED BY <4>1, <4>2, <4>3
    <3>4. AllTold(s, g)'
      BY <3>3 DEF AllTold
    <3> QED BY <3>1, <3>2, <3>4
  <2> QED BY <1>0, <1>1, <1>2, <1>3, <2>3, <2>5, <2>6, FlowSession DEF Informed
<1>7. CASE BecomeReady(s)
  <2> DEFINE R == read[s].guilds
             end == View(s, R)
  <2>0. R \in SUBSET Guild /\ end \in Accs
    BY <1>t, ViewIsAcc DEF TypeOK
  <2>1. /\ state[s] = "open" /\ read[s] # NotRead /\ state'[s] = "ready" /\ read' = read
        /\ pending'[s] = <<>> /\ ApplyAll(s, R, pending[s])
    BY <1>7, <1>f DEF BecomeReady
  <2>2. sguilds'[s] = end.set /\ stream'[s] = end.out
    BY <1>f, <2>1 DEF ApplyAll, View
  <2>3. PhaseOk(s)'
    BY <1>2, <1>t, <2>1 DEF PhaseOk
  <2>r. R = read[s].guilds
    OBVIOUS
  <2> HIDE DEF end, R
  <2>4. end = [set |-> sguilds'[s], out |-> stream'[s]]
    BY <2>0, <2>2 DEF Accs
  <2>5. \A B \in SUBSET Guild : View(s, B)' = end
    <3>1. \A B \in SUBSET Guild : View(s, B)' = Applied(end, <<>>)
      BY <2>1, <2>4 DEF View
    <3> QED BY <2>0, <3>1, AppliedNone
  <2>6. ASSUME "swapped" \notin amiss PROVE ViewOrder(s)'
    <3> SUFFICES ASSUME NEW B \in SUBSET Guild
                 PROVE  InOrder(View(s, B).out)' /\ Precede(Range(View(s, B).out), Upstream)'
      BY DEF ViewOrder
    <3>1. InOrder(end.out) /\ Precede(Range(end.out), Upstream)
      BY <2>0, <2>6 DEF FlowInv, ViewOrder, end
    <3>2. InOrder(View(s, B).out)'
      BY <2>5, <3>1 DEF InOrder
    <3>3. Precede(Range(View(s, B).out), Upstream)'
      BY <1>1, <2>5, <3>1 DEF Precede, Range
    <3> QED BY <3>2, <3>3
  <2>7. ASSUME amiss = {}, NEW g \in Guild PROVE NewsTrue(s, g)' /\ ViewTrue(s, g)' /\ AllTold(s, g)'
    <3>0. NewsTrue(s, g) /\ ViewTrue(s, g) /\ AllTold(s, g)
      BY <2>1, <2>7 DEF FlowInv, Informed, Live
    <3>1. NewsTrue(s, g)'
      BY <1>4, <3>0
    <3>2. ViewTrue(s, g)'
      <4> SUFFICES ASSUME NEW B \in SUBSET Guild, News(s, g)' = {}
                   PROVE  g \in View(s, B)'.set <=> <<Owner[s], g>> \in members'
        BY DEF ViewTrue
      <4>1. MayList(s, g, R)
        BY <2>1, <2>r DEF MayList
      <4>2. g \in end.set <=> <<Owner[s], g>> \in members
        BY <1>4, <2>0, <3>0, <4>1 DEF ViewTrue, end
      <4> QED BY <1>2, <2>5, <4>2
    <3>3. ASSUME Stayed(s, g)'
          PROVE  /\ <<Owner[s], g>> \in members' /\ (\A ev \in News(s, g)' : ev.op <= read'[s].at)
                 /\ \A B \in SUBSET Guild, n \in (read'[s].at + 1)..ops' :
                      B = read'[s].guilds /\ log'[n] = g => Reaches(s, B, g, n)'
      <4>1. Stayed(s, g)
        BY <1>2, <2>1, <3>3 DEF Stayed
      <4>2. ASSUME NEW B \in SUBSET Guild, NEW n \in (read'[s].at + 1)..ops', B = read'[s].guilds, log'[n] = g
            PROVE  Reaches(s, B, g, n)'
        <5>1. Reaches(s, B, g, n) /\ B = R
          BY <1>2, <2>1, <2>r, <3>0, <4>1, <4>2 DEF AllTold
        <5>2. PICK ev \in Coming(s) \cup Range(end.out) : ev.guild = g /\ ev.op = n /\ ev.aud = "guild"
          BY <5>1 DEF Reaches, end
        <5> QED BY <1>1, <2>5, <5>2 DEF Reaches
      <4> QED BY <1>2, <1>4, <2>1, <3>0, <4>1, <4>2 DEF AllTold
    <3>4. AllTold(s, g)'
      BY <3>3 DEF AllTold
    <3> QED BY <3>1, <3>2, <3>4
  <2> QED BY <1>0, <1>1, <1>2, <1>3, <2>3, <2>6, <2>7, FlowSession DEF Informed
<1>8. CASE Stop(s)
  <2>1. /\ state[s] \in {"open", "ready"} /\ state'[s] = "ended" /\ pending'[s] = <<>>
        /\ UNCHANGED <<read, sguilds, stream>>
    BY <1>8, <1>f DEF Stop
  <2>2. PhaseOk(s)'
    BY <1>2, <1>t, <2>1 DEF PhaseOk
  <2>3. ASSUME NEW B \in SUBSET Guild PROVE View(s, B)'.out = stream[s]
    <3> DEFINE base == [set |-> B, out |-> stream[s]]
    <3>1. base \in Accs
      BY <1>t DEF TypeOK, Accs
    <3>2. View(s, B)' = Applied(base, <<>>)
      BY <2>1 DEF View
    <3>3. base.out = stream[s]
      OBVIOUS
    <3> HIDE DEF base
    <3> QED BY <3>1, <3>2, <3>3, AppliedNone
  <2>4. ASSUME "swapped" \notin amiss PROVE InOrder(stream[s]) /\ Precede(Range(stream[s]), Upstream)
    <3>1. CASE state[s] = "open"
      <4>1. stream[s] = <<>>
        BY <1>t, <3>1 DEF PhaseOk
      <4> QED BY <4>1, NoneQueued DEF Precede
    <3>2. CASE state[s] = "ready"
      <4>1. PICK B \in SUBSET Guild : B = {}
        OBVIOUS
      <4>2. pending[s] = <<>>
        BY <1>t, <3>2 DEF PhaseOk
      <4>3. View(s, B).out = stream[s]
        BY <1>t, <4>2, ViewPlain
      <4> QED BY <2>4, <4>3 DEF FlowInv, ViewOrder
    <3> QED BY <2>1, <3>1, <3>2
  <2>5. ASSUME "swapped" \notin amiss PROVE ViewOrder(s)'
    <3> SUFFICES ASSUME NEW B \in SUBSET Guild
                 PROVE  InOrder(View(s, B).out)' /\ Precede(Range(View(s, B).out), Upstream)'
      BY DEF ViewOrder
    <3>2. InOrder(View(s, B).out)'
      BY <2>3, <2>4, <2>5 DEF InOrder
    <3>3. Precede(Range(View(s, B).out), Upstream)'
      BY <1>1, <2>3, <2>4, <2>5 DEF Precede, Range
    <3> QED BY <3>2, <3>3
  <2>6. amiss = {} => Informed(s)'
    BY <1>4, <2>1 DEF FlowInv, Informed, Live
  <2> QED BY <1>0, <1>1, <1>2, <1>3, <2>2, <2>5, <2>6, FlowSession
<1> QED BY <1>5, <1>6, <1>7, <1>8

\* What a session has been told, or is about to be, are events of transactions committed.
LEMMA ViewKnown ==
  ASSUME FanInv, NEW s \in Sess, NEW B \in SUBSET Guild, NEW ev \in Range(View(s, B).out)
  PROVE  ev.op \in Nat /\ ev.op <= ops
<1> DEFINE Known == {e \in Event : e.op <= ops}
           P == [set : SUBSET Guild, out : Seq(Known)]
           base == [set |-> IF state[s] = "ready" THEN sguilds[s] ELSE B, out |-> stream[s]]
<1>0. TypeOK /\ SessionOk(s)
  BY FanSafe DEF FanInv, SessionsOk
<1>1. DueEvents(s) \subseteq Known /\ FineEvents(s) \subseteq Known
  BY DEF DueEvents, FineEvents, SoundEvents
<1>2. pending[s] \in Seq(Known) /\ stream[s] \in Seq(Known)
  <2> HIDE DEF Known
  <2> QED BY <1>0, <1>1, SeqLarger DEF SessionOk
<1>3. Known \subseteq Event
  OBVIOUS
<1> HIDE DEF Known
<1>4. base \in P
  BY <1>0, <1>2 DEF TypeOK
<1>5. ASSUME NEW a \in P, NEW e \in Known PROVE Apply(a, e) \in P
  <2>1. a.set \in SUBSET Guild /\ a.out \in Seq(Known) /\ a = [set |-> a.set, out |-> a.out]
    OBVIOUS
  <2>2. a \in Accs
    <3>1. a.out \in Seq(Event)
      BY <1>3, <2>1, SeqLarger
    <3> HIDE DEF P
    <3> QED BY <2>1, <3>1 DEF Accs
  <2>3. Apply(a, e) \in Accs
    BY <1>3, <2>2, ApplyAcc
  <2>4. Apply(a, e).out = a.out \/ Apply(a, e).out = Append(a.out, e)
    BY DEF Apply
  <2>5. Append(a.out, e) \in Seq(Known)
    BY <2>1
  <2>6. Apply(a, e).out \in Seq(Known)
    BY <2>1, <2>4, <2>5
  <2> QED BY <2>3, <2>6 DEF Accs
<1>6. Len(pending[s]) \in Nat /\ \A n \in 1..Len(pending[s]) : pending[s][n] \in Known
  BY <1>2
<1> HIDE DEF P, base
<1>7. Applied(base, pending[s]) \in P
  BY <1>4, <1>5, <1>6, AppliedStays
<1>8. View(s, B).out \in Seq(Known)
  BY <1>7 DEF View, base, P
<1>9. ev \in Known
  BY <1>8 DEF Range
<1> QED BY <1>9, FanoutAssumption DEF Known, Event, Op

\* What the events of a transaction of guild g tell session s: of no other guild anything; of g
\* either that something happened, or whether its account is a member from now on.
Tells(s, g, new) ==
  /\ \A h \in Guild \ {g} : /\ <<Owner[s], h>> \in members' <=> <<Owner[s], h>> \in members
                            /\ until'[<<Owner[s], h>>] = until[<<Owner[s], h>>]
  /\ \/ /\ \A ev \in new : ~Relevant(s, ev)
        /\ \E ev \in new : ev.aud = "guild"
        /\ <<Owner[s], g>> \in members' <=> <<Owner[s], g>> \in members
        /\ until'[<<Owner[s], g>>] = until[<<Owner[s], g>>]
     \/ /\ \E ev \in new : Relevant(s, ev)
        /\ \A ev \in new : Relevant(s, ev) => (ev.type = "CREATE" <=> <<Owner[s], g>> \in members')
        /\ <<Owner[s], g>> \in members => until'[<<Owner[s], g>>] = ops
        /\ <<Owner[s], g>> \notin members => until'[<<Owner[s], g>>] = until[<<Owner[s], g>>]

\* A transaction whose events tell every session the truth keeps them all informed.
LEMMA FlowCommit ==
  ASSUME FanInv, FlowInv, NEW g \in Guild, NEW events, Commit(g, events), NEW new, new = Range(events),
         \A ev \in new : Shaped(ev) /\ ev.guild = g /\ ev.op = ops + 1,
         \A s \in Sess : Tells(s, g, new)
  PROVE  FlowInv'
<1>t. TypeOK /\ DbOk /\ ops \in Nat
  BY FanSafe, OpsIsNat DEF FanInv
<1>1. /\ hooks' = [hooks EXCEPT ![ops + 1] = events] /\ UNCHANGED <<bus, lanes, work, amiss, sessions>>
      /\ ops + 1 \in Op /\ ops' = ops + 1 /\ log' = Append(log, g)
  BY <1>t, CommittedRows DEF Commit
<1>2. Range(hooks'[ops + 1]) = new /\ \A o \in Op \ {ops + 1} : hooks'[o] = hooks[o]
  BY <1>1, <1>t DEF TypeOK
<1>3. Hooked' = Hooked \cup new
  <2>1. ASSUME NEW f \in Range(hooks[ops + 1]) PROVE FALSE
    <3>1. f \in Upstream
      BY <1>1 DEF Upstream, Waiting, Hooked
    <3>2. f.op = ops + 1
      BY <1>1 DEF FlowInv, LanesOk
    <3>3. f.op <= ops
      BY <3>1, UpstreamKnown
    <3> QED BY <1>t, <3>2, <3>3
  <2>2. Hooked \cup new \subseteq Hooked'
    <3>1. new \subseteq Hooked'
      BY <1>1, <1>2 DEF Hooked
    <3>2. Hooked \subseteq Hooked'
      BY <1>2, <2>1 DEF Hooked
    <3> QED BY <3>1, <3>2
  <2>3. Hooked' \subseteq Hooked \cup new
    BY <1>2 DEF Hooked
  <2> QED BY <2>2, <2>3
<1>4. Laned' = Laned /\ Worked' = Worked /\ bus' = bus /\ \A s : AtWork(s)' = AtWork(s)
  BY <1>1 DEF Laned, Worked, AtWork
<1>5. Waiting' = Waiting \cup new /\ Upstream' = Upstream \cup new /\ \A s : Coming(s)' = Coming(s) \cup new
  BY <1>3, <1>4 DEF Waiting, Upstream, Coming
<1>6. LanesOk'
  <2>1. LanesOk
    BY DEF FlowInv
  <2>2. \A ev \in Upstream' : Shaped(ev)
    BY <1>5, <2>1 DEF LanesOk
  <2>3. \A o \in Op : \A ev \in Range(hooks'[o]) : ev.op = o
    BY <1>2, <2>1 DEF LanesOk
  <2> QED BY <1>1, <2>1, <2>2, <2>3 DEF LanesOk, Shaped
<1>7. ASSUME NEW s \in Sess PROVE PhaseOk(s)'
  <2>1. read'[s] # NotRead => read'[s].at \in 0..ops'
    <3>1. read[s] # NotRead => read[s].at \in 0..ops
      BY DEF FlowInv, PhaseOk
    <3>2. 0..ops \subseteq 0..ops'
      BY <1>1, <1>t
    <3> QED BY <1>1, <3>1, <3>2 DEF sessions
  <2> QED BY <1>1, <2>1 DEF FlowInv, PhaseOk, sessions
<1>8. ASSUME NEW A, \A a \in A : a.op \in Nat /\ a.op <= ops PROVE Precede(A, new)
  <2> SUFFICES ASSUME NEW a \in A, NEW b \in new PROVE a.op <= b.op
    BY DEF Precede
  <2>1. a.op \in Nat /\ a.op <= ops /\ b.op = ops + 1
    BY <1>8
  <2> QED BY <1>t, <2>1
<1>9. ASSUME "swapped" \notin amiss' PROVE PathOrder'
  <2>1. PathOrder
    BY <1>1, <1>9 DEF FlowInv
  <2>2. Range(bus) \subseteq Upstream /\ Laned \subseteq Upstream /\ Worked \subseteq Upstream
    BY DEF Upstream, Waiting
  <2>3. Precede(Upstream, new)
    BY <1>8, UpstreamKnown
  <2>4. Precede(Range(bus), Hooked') /\ Precede(Laned, Hooked' \cup Range(bus)) /\ Precede(Worked, Waiting')
    BY <1>3, <1>5, <2>1, <2>2, <2>3 DEF PathOrder, Precede
  <2> QED BY <1>1, <1>4, <2>1, <2>4 DEF PathOrder, InOrder, Precede, Range
<1>v. \A s, B : View(s, B)' = View(s, B)
  BY <1>1, SameViews
<1>10. ASSUME "swapped" \notin amiss', NEW s \in Sess PROVE ViewOrder(s)'
  <2> SUFFICES ASSUME NEW B \in SUBSET Guild
               PROVE  InOrder(View(s, B).out)' /\ Precede(Range(View(s, B).out), Upstream)'
    BY DEF ViewOrder
  <2>1. InOrder(View(s, B).out) /\ Precede(Range(View(s, B).out), Upstream)
    BY <1>1, <1>10 DEF FlowInv, ViewOrder
  <2>2. Precede(Range(View(s, B).out), new)
    BY <1>8, ViewKnown
  <2>3. Precede(Range(View(s, B).out), Upstream')
    BY <1>5, <2>1, <2>2 DEF Precede
  <2>4. View(s, B)' = View(s, B)
    BY <1>v
  <2>5. InOrder(View(s, B).out)'
    BY <2>1, <2>4 DEF InOrder
  <2>6. Precede(Range(View(s, B).out), Upstream)'
    BY <2>3, <2>4 DEF Precede, Range
  <2> QED BY <2>5, <2>6
<1>11. ASSUME amiss' = {}, NEW s \in Sess PROVE Informed(s)'
  <2> SUFFICES ASSUME NEW h \in Guild
               PROVE  NewsTrue(s, h)' /\ (Live(s)' => ViewTrue(s, h)' /\ AllTold(s, h)')
    BY DEF Informed
  <2> DEFINE m == <<Owner[s], h>>
  <2>0. UNCHANGED <<state, read>> /\ Live(s)' = Live(s)
    BY <1>1 DEF sessions, Live
  <2>1. NewsTrue(s, h) /\ (Live(s) => ViewTrue(s, h) /\ AllTold(s, h)) /\ PhaseOk(s)
    BY <1>1, <1>11 DEF FlowInv, Informed
  <2>2. News(s, h)' = News(s, h) \cup {ev \in new : h = g /\ Relevant(s, ev)}
    BY <1>5 DEF News, Relevant
  <2>3. \A n \in 1..ops : log'[n] = log[n]
    BY <1>1, <1>t DEF DbOk, ops
  <2>4. log'[ops + 1] = g
    BY <1>1, <1>t DEF DbOk, ops
  <2>5. CASE h # g \/ ~\E ev \in new : Relevant(s, ev)
    <3>1. News(s, h)' = News(s, h) /\ (m \in members' <=> m \in members) /\ until'[m] = until[m]
      BY <2>2, <2>5 DEF Tells
    <3>2. NewsTrue(s, h)'
      BY <2>1, <3>1 DEF NewsTrue
    <3>3. ASSUME Live(s) PROVE ViewTrue(s, h)'
      <4> SUFFICES ASSUME NEW B \in SUBSET Guild, MayList(s, h, B)', News(s, h)' = {}
                   PROVE  h \in View(s, B)'.set <=> m \in members'
        BY DEF ViewTrue
      <4>1. MayList(s, h, B)
        BY <2>0, <3>1 DEF MayList
      <4> QED BY <1>v, <2>1, <3>1, <3>3, <4>1 DEF ViewTrue
    <3>4. ASSUME Live(s), Stayed(s, h)'
          PROVE  /\ m \in members' /\ (\A ev \in News(s, h)' : ev.op <= read'[s].at)
                 /\ \A B \in SUBSET Guild, n \in (read'[s].at + 1)..ops' :
                      B = read'[s].guilds /\ log'[n] = h => Reaches(s, B, h, n)'
      <4>1. Stayed(s, h)
        BY <2>0, <3>1, <3>4 DEF Stayed
      <4>2. m \in members' /\ \A ev \in News(s, h)' : ev.op <= read'[s].at
        BY <2>0, <2>1, <3>1, <3>4, <4>1 DEF AllTold
      <4>3. ASSUME NEW B \in SUBSET Guild, NEW n \in (read'[s].at + 1)..ops', B = read'[s].guilds, log'[n] = h
            PROVE  Reaches(s, B, h, n)'
        <5>1. read[s].at \in 0..ops
          BY <2>1, <4>1 DEF PhaseOk, Stayed
        <5>2. CASE n = ops + 1
          <6>1. h = g
            BY <2>4, <4>3, <5>2
          <6>2. PICK ev \in new : ev.aud = "guild"
            BY <2>5, <6>1 DEF Tells
          <6> QED BY <1>5, <5>2, <6>1, <6>2 DEF Reaches
        <5>3. CASE n # ops + 1
          <6>1. n \in (read[s].at + 1)..ops /\ n \in 1..ops
            BY <1>1, <1>t, <2>0, <5>1, <5>3
          <6>2. Reaches(s, B, h, n)
            BY <2>0, <2>1, <2>3, <3>4, <4>1, <4>3, <6>1 DEF AllTold
          <6> QED BY <1>5, <1>v, <6>2 DEF Reaches
        <5> QED BY <5>2, <5>3
      <4> QED BY <4>2, <4>3
    <3>5. Live(s) => AllTold(s, h)'
      BY <3>4 DEF AllTold
    <3> QED BY <2>0, <3>2, <3>3, <3>5
  <2>6. CASE h = g /\ \E ev \in new : Relevant(s, ev)
    <3>1. /\ \A ev \in new : Relevant(s, ev) => (ev.type = "CREATE" <=> m \in members')
          /\ m \in members => until'[m] = ops
          /\ m \notin members => until'[m] = until[m]
      BY <2>6 DEF Tells
    <3>2. PICK one \in new : Relevant(s, one)
      BY <2>6
    <3>3. one \in News(s, h)' /\ one.op = ops + 1
      BY <2>2, <2>6, <3>2
    <3>4. NewsTrue(s, h)'
      <4> SUFFICES ASSUME NEW ev \in News(s, h)', \A f \in News(s, h)' : f.op <= ev.op
                   PROVE  ev.type = "CREATE" <=> m \in members'
        BY DEF NewsTrue
      <4>1. CASE ev \in News(s, h)
        <5>1. ev.op \in Nat /\ ev.op <= ops
          BY <4>1, ComingIsUpstream, UpstreamKnown DEF News
        <5>2. ops + 1 <= ev.op
          BY <3>3
        <5> QED BY <1>t, <5>1, <5>2
      <4>2. CASE ev \in new /\ Relevant(s, ev)
        BY <3>1, <4>2
      <4> QED BY <2>2, <4>1, <4>2
    <3>5. ViewTrue(s, h)'
      BY <3>3 DEF ViewTrue
    <3>6. ASSUME Live(s), Stayed(s, h)' PROVE FALSE
      <4>1. read[s] # NotRead /\ h \in read[s].guilds /\ until'[m] < read[s].at
        BY <2>0, <3>6 DEF Stayed
      <4>2. read[s].at \in 0..ops
        BY <2>1, <4>1 DEF PhaseOk
      <4>3. m \notin members
        BY <1>t, <3>1, <4>1, <4>2
      <4>4. Stayed(s, h)
        BY <3>1, <4>1, <4>3 DEF Stayed
      <4> QED BY <2>1, <3>6, <4>3, <4>4 DEF AllTold
    <3> QED BY <2>0, <3>4, <3>5, <3>6 DEF AllTold
  <2> QED BY <2>5, <2>6
<1> QED BY <1>6, <1>7, <1>9, <1>10, <1>11 DEF FlowInv

\* Every transaction tells the truth.
LEMMA FlowTransaction ==
  ASSUME FanInv, FlowInv, Transaction
  PROVE  FlowInv'
<1>t. TypeOK /\ ops \in Nat
  BY FanSafe, OpsIsNat DEF FanInv
<1>1. ASSUME NEW u \in User, NEW g \in Guild, Join(u, g) PROVE FlowInv'
  <2> DEFINE a == ToUser("CREATE", u, g)
             b == ToGuild(g)
             new == {a, b}
  <2>1. /\ <<u, g>> \notin members /\ members' = members \cup {<<u, g>>} /\ Commit(g, <<a, b>>) /\ until' = until
    BY <1>1 DEF Join
  <2>2. /\ a.type = "CREATE" /\ a.aud = "users" /\ a.guild = g /\ a.users = {u} /\ a.op = ops + 1
        /\ b.type = "OTHER" /\ b.aud = "guild" /\ b.guild = g /\ b.op = ops + 1
    BY DEF ToUser, ToGuild
  <2>3. new = Range(<<a, b>>)
    <3> HIDE DEF a, b
    <3> QED BY DEF Range
  <2> HIDE DEF a, b
  <2>4. \A ev \in new : Shaped(ev) /\ ev.guild = g /\ ev.op = ops + 1
    BY <2>2 DEF Shaped
  <2>5. ASSUME NEW s \in Sess PROVE Tells(s, g, new)
    <3>1. Relevant(s, a) <=> Owner[s] = u
      BY <2>2 DEF Relevant
    <3>2. ~Relevant(s, b)
      BY <2>2 DEF Relevant
    <3> QED BY <2>1, <2>2, <3>1, <3>2 DEF Tells
  <2> HIDE DEF new
  <2> QED BY <2>1, <2>3, <2>4, <2>5, FlowCommit
<1>2. ASSUME NEW u \in User, NEW g \in Guild, RemoveMember(u, g) PROVE FlowInv'
  <2> DEFINE a == ToUser("DELETE", u, g)
             b == ToGuild(g)
             new == {a, b}
  <2>1. /\ <<u, g>> \in members /\ members' = members \ {<<u, g>>} /\ Commit(g, <<a, b>>)
        /\ until' = [until EXCEPT ![<<u, g>>] = ops]
    BY <1>2 DEF RemoveMember
  <2>2. /\ a.type = "DELETE" /\ a.aud = "users" /\ a.guild = g /\ a.users = {u} /\ a.op = ops + 1
        /\ b.type = "OTHER" /\ b.aud = "guild" /\ b.guild = g /\ b.op = ops + 1
    BY DEF ToUser, ToGuild
  <2>3. new = Range(<<a, b>>)
    <3> HIDE DEF a, b
    <3> QED BY DEF Range
  <2> HIDE DEF a, b
  <2>4. \A ev \in new : Shaped(ev) /\ ev.guild = g /\ ev.op = ops + 1
    BY <2>2 DEF Shaped
  <2>5. ASSUME NEW s \in Sess PROVE Tells(s, g, new)
    <3>1. Relevant(s, a) <=> Owner[s] = u
      BY <2>2 DEF Relevant
    <3>2. ~Relevant(s, b)
      BY <2>2 DEF Relevant
    <3>3. until'[<<u, g>>] = ops /\ \A m \in User \X Guild : m # <<u, g>> => until'[m] = until[m]
      BY <1>t, <2>1 DEF TypeOK
    <3>4. \A h \in Guild : <<Owner[s], h>> \in User \X Guild
      BY FanoutAssumption
    <3> QED BY <2>1, <2>2, <3>1, <3>2, <3>3, <3>4 DEF Tells
  <2> HIDE DEF new
  <2> QED BY <2>1, <2>3, <2>4, <2>5, FlowCommit
<1>3. ASSUME NEW g \in Guild, DeleteGuild(g) PROVE FlowInv'
  <2> DEFINE a == ToFormer(g)
             new == {a}
  <2>1. /\ members' = {m \in members : m[2] # g} /\ Commit(g, <<a>>)
        /\ until' = [m \in User \X Guild |-> IF m \in members /\ m[2] = g THEN ops ELSE until[m]]
    BY <1>3 DEF DeleteGuild
  <2>2. a.type = "DELETE" /\ a.aud = "former" /\ a.guild = g /\ a.op = ops + 1
    BY DEF ToFormer
  <2>3. new = Range(<<a>>)
    <3> HIDE DEF a
    <3> QED BY DEF Range
  <2> HIDE DEF a
  <2>4. \A ev \in new : Shaped(ev) /\ ev.guild = g /\ ev.op = ops + 1
    BY <2>2 DEF Shaped
  <2>5. ASSUME NEW s \in Sess PROVE Tells(s, g, new)
    <3>1. Relevant(s, a)
      BY <2>2 DEF Relevant
    <3>2. ASSUME NEW h \in Guild
          PROVE  /\ h # g => (<<Owner[s], h>> \in members' <=> <<Owner[s], h>> \in members)
                 /\ h # g => until'[<<Owner[s], h>>] = until[<<Owner[s], h>>]
                 /\ h = g => <<Owner[s], h>> \notin members'
                 /\ h = g /\ <<Owner[s], h>> \in members => until'[<<Owner[s], h>>] = ops
                 /\ h = g /\ <<Owner[s], h>> \notin members => until'[<<Owner[s], h>>] = until[<<Owner[s], h>>]
      <4>1. <<Owner[s], h>> \in User \X Guild /\ <<Owner[s], h>>[2] = h
        BY FanoutAssumption
      <4> QED BY <2>1, <4>1
    <3> QED BY <2>2, <3>1, <3>2 DEF Tells
  <2> HIDE DEF new
  <2> QED BY <2>1, <2>3, <2>4, <2>5, FlowCommit
<1>4. ASSUME NEW g \in Guild, Post(g) PROVE FlowInv'
  <2> DEFINE b == ToGuild(g)
             new == {b}
  <2>1. members' = members /\ until' = until /\ Commit(g, <<b>>)
    BY <1>4 DEF Post
  <2>2. b.type = "OTHER" /\ b.aud = "guild" /\ b.guild = g /\ b.op = ops + 1
    BY DEF ToGuild
  <2>3. new = Range(<<b>>)
    <3> HIDE DEF b
    <3> QED BY DEF Range
  <2> HIDE DEF b
  <2>4. \A ev \in new : Shaped(ev) /\ ev.guild = g /\ ev.op = ops + 1
    BY <2>2 DEF Shaped
  <2>5. ASSUME NEW s \in Sess PROVE Tells(s, g, new)
    <3>1. ~Relevant(s, b)
      BY <2>2 DEF Relevant
    <3> QED BY <2>1, <2>2, <3>1 DEF Tells
  <2> HIDE DEF new
  <2> QED BY <2>1, <2>3, <2>4, <2>5, FlowCommit
<1> QED BY <1>1, <1>2, <1>3, <1>4 DEF Transaction

\* Nothing is on its way at first, and no session has been told anything.
LEMMA FlowInitInv == Init => FlowInv
<1> SUFFICES ASSUME Init PROVE FlowInv
  OBVIOUS
<1>0. TypeOK
  BY FanInitInv, FanSafe
<1>1. /\ \A o \in Op : hooks[o] = <<>>
      /\ bus = <<>> /\ (\A l \in Lane : lanes[l] = <<>> /\ work[l] = Idle)
      /\ \A s \in Sess : state[s] = "new" /\ read[s] = NotRead /\ pending[s] = <<>> /\ stream[s] = <<>>
  BY DEF Init
<1>2. Hooked = {} /\ Range(bus) = {} /\ Laned = {} /\ Worked = {} /\ \A s : AtWork(s) = {}
  BY <1>1, NoneQueued DEF Hooked, Laned, Worked, AtWork
<1>3. Waiting = {} /\ Upstream = {} /\ \A s : Coming(s) = {}
  BY <1>2 DEF Waiting, Upstream, Coming
<1>4. LanesOk
  BY <1>1, <1>3, NoneQueued DEF LanesOk
<1>5. PathOrder
  BY <1>1, <1>2, <1>3, NoneQueued DEF PathOrder, Precede
<1>6. ASSUME NEW s \in Sess PROVE PhaseOk(s) /\ ViewOrder(s) /\ Informed(s)
  <2>1. PhaseOk(s)
    BY <1>1 DEF PhaseOk
  <2>2. \A B \in SUBSET Guild : View(s, B).out = <<>>
    BY <1>0, <1>1, ViewPlain
  <2>3. ViewOrder(s)
    BY <1>3, <2>2, NoneQueued DEF ViewOrder, Precede
  <2>4. Informed(s)
    BY <1>1, <1>3 DEF Informed, NewsTrue, News, Live
  <2> QED BY <2>1, <2>3, <2>4
<1> QED BY <1>4, <1>5, <1>6 DEF FlowInv

\* Every step of the fan-out keeps the sessions informed, and in order.
LEMMA FlowStepInv == FanInv /\ IndInv /\ FlowInv /\ Next => FlowInv'
BY FlowTransaction, FlowPublish, FlowOnEvent, FlowPick, FlowCheck, FlowDeliver, FlowOwn DEF Next, FanOut

\* Steps of the other parts change nothing here.
LEMMA FlowStutterInv == FlowInv /\ UNCHANGED vars => FlowInv'
<1> SUFFICES ASSUME FlowInv, UNCHANGED vars PROVE FlowInv'
  OBVIOUS
<1>1. UNCHANGED <<db, path, sessions, amiss, state, read>>
  BY DEF vars, path, sessions
<1>2. LanesOk' /\ Upstream' = Upstream /\ (PathOrder => PathOrder') /\ \A s : Coming(s)' = Coming(s)
  BY <1>1, SamePath
<1>3. ASSUME amiss' = {}, NEW s \in Sess PROVE Informed(s)'
  <2>1. Informed(s) /\ \A B \in SUBSET Guild : View(s, B)' = View(s, B)
    BY <1>1, <1>3, SameViews DEF FlowInv
  <2>2. UNCHANGED <<db, state[s], read[s]>>
    BY <1>1
  <2> QED BY <1>2, <2>1, <2>2, InformedStays
<1>4. "swapped" \notin amiss' => PathOrder'
  BY <1>1, <1>2 DEF FlowInv
<1> QED BY <1>1, <1>2, <1>3, <1>4, FlowPath

\* What the invariant says once nothing is on its way.
LEMMA FlowSafe == FanInv /\ FlowInv => NothingMissed
<1> SUFFICES ASSUME FanInv, FlowInv PROVE NothingMissed
  OBVIOUS
<1>0. TypeOK
  BY FanSafe
<1>1. ASSUME NEW s \in Sess, NEW B \in SUBSET Guild, state[s] # "open"
      PROVE  View(s, B) = [set |-> IF state[s] = "ready" THEN sguilds[s] ELSE B, out |-> stream[s]]
  <2>1. pending[s] = <<>>
    BY <1>1 DEF FlowInv, PhaseOk
  <2> QED BY <1>0, <2>1, ViewPlain
<1>2. GuildOrder
  <2> SUFFICES ASSUME "swapped" \notin amiss, NEW s \in Sess PROVE InOrder(stream[s])
    BY DEF GuildOrder, InOrder
  <2>1. CASE state[s] = "open"
    BY <2>1, NoneQueued DEF FlowInv, PhaseOk
  <2>2. CASE state[s] # "open"
    <3>1. PICK B \in SUBSET Guild : B = {}
      OBVIOUS
    <3>2. View(s, B).out = stream[s]
      BY <1>1, <2>2
    <3> QED BY <3>2 DEF FlowInv, ViewOrder
  <2> QED BY <2>1, <2>2
<1>3. ASSUME Quiet, NEW s, NEW g PROVE Coming(s) = {} /\ News(s, g) = {}
  <2>1. Hooked = {} /\ Range(bus) = {} /\ Laned = {} /\ AtWork(s) = {}
    BY <1>3, NoneQueued DEF Quiet, Hooked, Laned, AtWork
  <2> QED BY <2>1 DEF Coming, Waiting, News
<1>4. ASSUME Quiet, amiss = {}, NEW s \in Sess, state[s] = "ready", NEW g \in Guild
      PROVE  ViewTrue(s, g) /\ AllTold(s, g)
  BY <1>4 DEF FlowInv, Informed, Live
<1>5. CurrentWhenInOrder
  <2> SUFFICES ASSUME Quiet, amiss = {}, NEW s \in Sess, state[s] = "ready"
               PROVE  sguilds[s] = GuildsOf(Owner[s])
    BY DEF CurrentWhenInOrder, Current
  <2>1. ASSUME NEW g \in Guild PROVE g \in sguilds[s] <=> <<Owner[s], g>> \in members
    <3>1. PICK B \in SUBSET Guild : B = {}
      OBVIOUS
    <3>2. View(s, B).set = sguilds[s]
      BY <1>1
    <3>3. MayList(s, g, B) /\ News(s, g) = {}
      BY <1>3 DEF MayList
    <3> QED BY <1>4, <3>2, <3>3 DEF ViewTrue
  <2>2. sguilds[s] \subseteq Guild
    BY <1>0 DEF TypeOK
  <2> QED BY <2>1, <2>2 DEF GuildsOf
<1>6. NoMissedEvent
  <2> SUFFICES ASSUME Quiet, amiss = {}, NEW s \in Sess, state[s] = "ready", NEW g \in read[s].guilds,
                      NEW n \in (read[s].at + 1)..ops, log[n] = g, until[<<Owner[s], g>>] < read[s].at
               PROVE  \E ev \in Told(s) : ev.guild = g /\ ev.op = n
    BY DEF NoMissedEvent
  <2>1. read[s] # NotRead /\ read[s].guilds \in SUBSET Guild /\ g \in Guild
    BY <1>0 DEF FlowInv, PhaseOk, TypeOK
  <2>2. Stayed(s, g)
    BY <2>1 DEF Stayed
  <2>3. PICK B \in SUBSET Guild : B = read[s].guilds
    BY <2>1
  <2>4. Reaches(s, B, g, n)
    BY <1>4, <2>1, <2>2, <2>3 DEF AllTold
  <2>5. View(s, B).out = stream[s] /\ Coming(s) = {}
    BY <1>1, <1>3
  <2> QED BY <2>4, <2>5 DEF Reaches, Told
<1> QED BY <1>2, <1>5, <1>6 DEF NothingMissed

--------------------------------------------------------------------------------
(* The RTP stream of a slot: unwrapped, no number is given twice, and what   *)
(* is remembered spans less than the wrap.                                   *)

\* Equal but for turns of the number space.
Cong(a, b) == \E q \in Int : a = b + q * Wrap

\* What the constants are.
LEMMA StreamConstants ==
  /\ {Wrap, switchGuard, MaxPackets, Lateness, Window} \subseteq Nat
  /\ Lateness <= switchGuard /\ 2 * (switchGuard + Lateness + 1) < Wrap /\ 2 * MaxPackets < Wrap
  /\ Wrap > 2 /\ Wrap \in Int
BY SlotStreamAssumption

\* Every number is congruent to itself,
LEMMA CongSame == ASSUME NEW a \in Int PROVE Cong(a, a)
<1>1. a = a + 0 * Wrap
  BY StreamConstants
<1> QED BY <1>1 DEF Cong

\* either way round,
LEMMA CongTurned == ASSUME NEW a \in Int, NEW b \in Int, Cong(a, b) PROVE Cong(b, a)
<1>1. PICK q \in Int : a = b + q * Wrap
  BY DEF Cong
<1>2. -q \in Int /\ (-q) * Wrap = -(q * Wrap) /\ q * Wrap \in Int
  BY StreamConstants
<1>3. b = a + (-q) * Wrap
  BY <1>1, <1>2
<1> QED BY <1>2, <1>3 DEF Cong

\* and congruent numbers may be added,
LEMMA CongSum ==
  ASSUME NEW a \in Int, NEW b \in Int, NEW c \in Int, NEW d \in Int, Cong(a, b), Cong(c, d)
  PROVE  Cong(a + c, b + d)
<1>1. PICK q \in Int : a = b + q * Wrap
  BY DEF Cong
<1>2. PICK r \in Int : c = d + r * Wrap
  BY DEF Cong
<1>3. q + r \in Int /\ (q + r) * Wrap = q * Wrap + r * Wrap /\ q * Wrap \in Int /\ r * Wrap \in Int
  BY StreamConstants
<1>4. a + c = b + d + (q + r) * Wrap
  BY <1>1, <1>2, <1>3
<1> QED BY <1>3, <1>4 DEF Cong

\* subtracted
LEMMA CongDifference ==
  ASSUME NEW a \in Int, NEW b \in Int, NEW c \in Int, NEW d \in Int, Cong(a, b), Cong(c, d)
  PROVE  Cong(a - c, b - d)
<1>1. PICK q \in Int : a = b + q * Wrap
  BY DEF Cong
<1>2. PICK r \in Int : c = d + r * Wrap
  BY DEF Cong
<1>3. q - r \in Int /\ (q - r) * Wrap = q * Wrap - r * Wrap /\ q * Wrap \in Int /\ r * Wrap \in Int
  BY StreamConstants
<1>4. a - c = b - d + (q - r) * Wrap
  BY <1>1, <1>2, <1>3
<1> QED BY <1>3, <1>4 DEF Cong

\* and chained.
LEMMA CongVia ==
  ASSUME NEW a \in Int, NEW b \in Int, NEW c \in Int, Cong(a, b), Cong(b, c)
  PROVE  Cong(a, c)
<1>1. PICK q \in Int : a = b + q * Wrap
  BY DEF Cong
<1>2. PICK r \in Int : b = c + r * Wrap
  BY DEF Cong
<1>3. q + r \in Int /\ (q + r) * Wrap = q * Wrap + r * Wrap /\ q * Wrap \in Int /\ r * Wrap \in Int
  BY StreamConstants
<1>4. a = c + (q + r) * Wrap
  BY <1>1, <1>2, <1>3
<1> QED BY <1>3, <1>4 DEF Cong

\* Congruent numbers less than a turn apart are the same.
LEMMA CongNear ==
  ASSUME NEW a \in Int, NEW b \in Int, Cong(a, b), -Wrap < a - b, a - b < Wrap
  PROVE  a = b
<1>1. PICK q \in Int : a = b + q * Wrap
  BY DEF Cong
<1>2. CASE q = 0
  BY <1>1, <1>2, StreamConstants
<1>3. CASE q >= 1
  <2>1. q * Wrap >= Wrap
    BY <1>3, StreamConstants
  <2> QED BY <1>1, <2>1, StreamConstants
<1>4. CASE q <= -1
  <2>1. (-q) * Wrap >= Wrap
    BY <1>4, StreamConstants
  <2>2. (-q) * Wrap = -(q * Wrap) /\ q * Wrap \in Int
    BY StreamConstants
  <2> QED BY <1>1, <2>1, <2>2, StreamConstants
<1> QED BY <1>2, <1>3, <1>4

\* What % leaves is a sequence number, congruent to what it was taken of.
LEMMA ModCong == ASSUME NEW a \in Int PROVE a % Wrap \in Seqs /\ Cong(a % Wrap, a)
<1>1. Wrap \in Int /\ Wrap > 0
  BY StreamConstants
<1>2. a % Wrap \in 0..(Wrap - 1) /\ a = Wrap * (a \div Wrap) + (a % Wrap) /\ a \div Wrap \in Int
  BY <1>1, Z3
<1>3. a % Wrap \in Int /\ -(a \div Wrap) \in Int /\ (-(a \div Wrap)) * Wrap = -(Wrap * (a \div Wrap))
      /\ Wrap * (a \div Wrap) \in Int
  BY <1>1, <1>2
<1>4. a % Wrap = a + (-(a \div Wrap)) * Wrap
  BY <1>2, <1>3
<1> QED BY <1>2, <1>3, <1>4 DEF Cong, Seqs

\* int16 of a difference is the difference, if that is less than half a turn.
LEMMA SinceIs ==
  ASSUME NEW a \in Int, NEW b \in Int, NEW d \in Int, Cong(a - b, d), -Wrap < 2 * d, 2 * d < Wrap
  PROVE  Since(a, b) = d
<1> DEFINE e == (a - b) % Wrap
<1>1. e \in 0..(Wrap - 1) /\ Cong(e, a - b)
  BY ModCong DEF Seqs
<1>2. Since(a, b) = IF 2 * e >= Wrap THEN e - Wrap ELSE e
  BY DEF Since
<1> HIDE DEF e
<1>3. Cong(e, d)
  BY <1>1, CongVia, StreamConstants
<1>4. CASE d >= 0
  <2>1. e = d
    <3>1. e \in Int /\ -Wrap < e - d /\ e - d < Wrap
      BY <1>1, <1>4, StreamConstants
    <3> QED BY <1>3, <3>1, CongNear
  <2> QED BY <1>2, <2>1, StreamConstants
<1>5. CASE d < 0
  <2>1. Cong(d, d + Wrap)
    <3>1. d = d + Wrap + (-1) * Wrap
      BY StreamConstants
    <3> QED BY <3>1 DEF Cong
  <2>2. Cong(e, d + Wrap)
    BY <1>1, <1>3, <2>1, CongVia, StreamConstants
  <2>3. e = d + Wrap
    <3>1. e \in Int /\ d + Wrap \in Int /\ -Wrap < e - (d + Wrap) /\ e - (d + Wrap) < Wrap
      BY <1>1, <1>5, StreamConstants
    <3> QED BY <2>2, <3>1, CongNear
  <2> QED BY <1>2, <1>5, <2>3, StreamConstants
<1> QED BY <1>4, <1>5, StreamConstants

\* How many packets a sender sent before the one numbered n.
Nth(n) == (n + 2) % Wrap

\* A place is less than a turn, and two beyond its number: senders begin two before the wrap.
LEMMA NthIs == ASSUME NEW n \in Seqs PROVE Nth(n) \in 0..(Wrap - 1) /\ Cong(Nth(n), n + 2) /\ n \in Int
<1>1. n \in Int /\ n + 2 \in Int
  BY StreamConstants DEF Seqs
<1> QED BY <1>1, ModCong DEF Nth, Seqs

\* One number for each place.
LEMMA NthOnce == ASSUME NEW m \in Seqs, NEW n \in Seqs, Nth(m) = Nth(n) PROVE m = n
<1>1. m \in 0..(Wrap - 1) /\ n \in 0..(Wrap - 1) /\ Nth(n) \in Int /\ Cong(Nth(n), m + 2) /\ Cong(Nth(n), n + 2)
  BY NthIs, StreamConstants DEF Seqs
<1>2. Cong(m + 2, n + 2)
  BY <1>1, CongTurned, CongVia, StreamConstants
<1>3. m + 2 \in Int /\ n + 2 \in Int /\ -Wrap < (m + 2) - (n + 2) /\ (m + 2) - (n + 2) < Wrap
  BY <1>1, StreamConstants
<1>4. m + 2 = n + 2
  BY <1>2, <1>3, CongNear
<1> QED BY <1>1, <1>4, StreamConstants

\* The comparison of two of a sender's numbers is that of their places.
LEMMA SinceNth ==
  ASSUME NEW m \in Seqs, NEW n \in Seqs, Nth(m) <= MaxPackets, Nth(n) <= MaxPackets
  PROVE  Since(m, n) = Nth(m) - Nth(n)
<1>1. m \in Int /\ n \in Int /\ Nth(m) \in 0..MaxPackets /\ Nth(n) \in 0..MaxPackets
      /\ Cong(Nth(m), m + 2) /\ Cong(Nth(n), n + 2)
  BY NthIs, StreamConstants DEF Seqs
<1>2. Cong(m + 2, Nth(m)) /\ Cong(n + 2, Nth(n))
  BY <1>1, CongTurned, StreamConstants
<1>3. Cong((m + 2) - (n + 2), Nth(m) - Nth(n))
  BY <1>1, <1>2, CongDifference, StreamConstants
<1>4. (m + 2) - (n + 2) = m - n /\ Nth(m) - Nth(n) \in Int
  BY <1>1, StreamConstants
<1>5. -Wrap < 2 * (Nth(m) - Nth(n)) /\ 2 * (Nth(m) - Nth(n)) < Wrap
  BY <1>1, StreamConstants
<1> QED BY <1>1, <1>3, <1>4, <1>5, SinceIs

\* The next number has the next place, and the first of all the first.
LEMMA NthNext ==
  ASSUME NEW n \in Seqs, Nth(n) <= MaxPackets
  PROVE  /\ (n + 1) % Wrap \in Seqs /\ Nth((n + 1) % Wrap) = Nth(n) + 1 /\ Nth(n) = Since(n, Wrap - 2)
<1> DEFINE k == (n + 1) % Wrap
<1>1. n \in Int /\ Nth(n) \in 0..MaxPackets /\ Cong(Nth(n), n + 2)
  BY NthIs, StreamConstants DEF Seqs
<1>2. k \in Seqs /\ Cong(k, n + 1)
  <2>1. n + 1 \in Int
    BY <1>1
  <2> QED BY <2>1, ModCong
<1> HIDE DEF k
<1>3. Nth(k) \in 0..(Wrap - 1) /\ Cong(Nth(k), k + 2) /\ k \in Int
  BY <1>2, NthIs
<1>4. Cong(k + 2, n + 1 + 2)
  <2>1. Cong(2, 2)
    BY CongSame
  <2> QED BY <1>1, <1>2, <1>3, <2>1, CongSum, StreamConstants
<1>5. Cong(n + 1 + 2, Nth(n) + 1)
  <2>1. Cong(1, 1)
    BY CongSame
  <2>2. Cong(n + 2, Nth(n))
    BY <1>1, CongTurned, StreamConstants
  <2>3. Cong(n + 2 + 1, Nth(n) + 1)
    BY <1>1, <2>1, <2>2, CongSum, StreamConstants
  <2>4. n + 2 + 1 = n + 1 + 2
    BY <1>1
  <2> QED BY <2>3, <2>4
<1>6. Cong(Nth(k), Nth(n) + 1)
  <2>1. Nth(k) \in Int /\ k + 2 \in Int /\ n + 1 + 2 \in Int /\ Nth(n) + 1 \in Int
    BY <1>1, <1>3, StreamConstants
  <2>2. Cong(Nth(k), n + 1 + 2)
    BY <1>3, <1>4, <2>1, CongVia
  <2> QED BY <1>5, <2>1, <2>2, CongVia
<1>7. Nth(k) = Nth(n) + 1
  <2>1. Nth(k) \in Int /\ Nth(n) + 1 \in Int /\ -Wrap < Nth(k) - (Nth(n) + 1) /\ Nth(k) - (Nth(n) + 1) < Wrap
    BY <1>1, <1>3, StreamConstants
  <2> QED BY <1>6, <2>1, CongNear
<1>8. Nth(n) = Since(n, Wrap - 2)
  <2>1. Cong(n - (Wrap - 2), Nth(n))
    <3>1. Cong(n + 2, Nth(n))
      BY <1>1, CongTurned, StreamConstants
    <3>2. Cong(Wrap, 0)
      <4>1. Wrap = 0 + 1 * Wrap
        BY StreamConstants
      <4> QED BY <4>1 DEF Cong
    <3>3. Cong((n + 2) - Wrap, Nth(n) - 0)
      BY <1>1, <3>1, <3>2, CongDifference, StreamConstants
    <3>4. (n + 2) - Wrap = n - (Wrap - 2) /\ Nth(n) - 0 = Nth(n)
      BY <1>1, StreamConstants
    <3> QED BY <3>3, <3>4
  <2>2. -Wrap < 2 * Nth(n) /\ 2 * Nth(n) < Wrap /\ Nth(n) \in Int /\ Wrap - 2 \in Int
    BY <1>1, StreamConstants
  <2>3. Since(n, Wrap - 2) = Nth(n)
    BY <1>1, <2>1, <2>2, SinceIs
  <2> QED BY <2>3
<1> QED BY <1>2, <1>7, <1>8 DEF k

\* By how much the newest number may grow at once.
Gap == 2 * Lateness + 1

\* How far each of the numbers last sent is behind the newest: A[i] for the i-th.
AgesFit(A, r, head) ==
  /\ A \in [1..Len(r) -> Nat]
  /\ \A i \in 1..Len(r) : Cong(r[i], head - A[i]) /\ A[i] < (Len(r) - i + 1) * Gap
  /\ \A i, j \in 1..Len(r) : A[i] = A[j] => i = j

\* Another number is sent.
Remembered(r, n) == LET all == Append(r, n) IN IF Len(all) > Window THEN Tail(all) ELSE all

\* What the gap is for: a window of gaps is at most a turn.
LEMMA GapIs == Gap \in Nat /\ Gap >= 1 /\ Lateness < Gap /\ Window * Gap <= Wrap
BY SlotStreamAssumption DEF Gap

\* What is remembered is the number sent, and what was remembered before.
LEMMA RememberedIs ==
  ASSUME NEW r \in Seq(Seqs), Len(r) <= Window, NEW n \in Seqs
  PROVE  /\ Remembered(r, n) \in Seq(Seqs) /\ Len(Remembered(r, n)) <= Window
         /\ \E c \in {0, 1} : /\ Len(Remembered(r, n)) = Len(r) + 1 - c
              /\ \A i \in 1..Len(Remembered(r, n)) :
                   Remembered(r, n)[i] = IF i + c = Len(r) + 1 THEN n ELSE r[i + c]
<1> DEFINE all == Append(r, n)
<1>1. all \in Seq(Seqs) /\ Len(all) = Len(r) + 1 /\ Len(r) \in Nat /\ all # <<>>
      /\ \A i \in 1..Len(all) : all[i] = IF i = Len(r) + 1 THEN n ELSE r[i]
  OBVIOUS
<1>2. Remembered(r, n) = IF Len(all) > Window THEN Tail(all) ELSE all
  BY DEF Remembered
<1> HIDE DEF all
<1>3. CASE Len(all) > Window
  <2>1. Remembered(r, n) = Tail(all)
    BY <1>2, <1>3
  <2>2. Tail(all) \in Seq(Seqs) /\ Len(Tail(all)) = Len(all) - 1 /\ \A i \in 1..Len(Tail(all)) : Tail(all)[i] = all[i + 1]
    BY <1>1
  <2>3. Len(Tail(all)) = Len(r) + 1 - 1 /\ Len(Tail(all)) <= Window
    BY <1>1, <2>2, StreamConstants
  <2>4. \A i \in 1..Len(Tail(all)) : Tail(all)[i] = IF i + 1 = Len(r) + 1 THEN n ELSE r[i + 1]
    BY <1>1, <2>2, <2>3
  <2> QED BY <2>1, <2>2, <2>3, <2>4
<1>4. CASE ~(Len(all) > Window)
  <2>1. Remembered(r, n) = all
    BY <1>2, <1>4
  <2>2. Len(all) <= Window /\ Len(all) = Len(r) + 1 - 0 /\ \A i \in 1..Len(all) : i + 0 = i
    BY <1>1, <1>4, StreamConstants
  <2>3. \A i \in 1..Len(all) : all[i] = IF i + 0 = Len(r) + 1 THEN n ELSE r[i + 0]
    BY <1>1, <2>2
  <2> QED BY <1>1, <2>1, <2>2, <2>3
<1> QED BY <1>3, <1>4

\* No number remembered is a behind once the newest has grown by d.
NotYet(A, r, d, a) == \A i \in 1..Len(r) : A[i] + d # a

\* The ages B of q are a, and those of r grown by d.
Aged(B, q, A, r, d, a) == \A i \in 1..Len(q) : B[i] = a \/ \E j \in 1..Len(r) : B[i] = A[j] + d

\* The newest grows by d, and a number that is a behind it is sent, which none of the others is.
LEMMA AgesGrow ==
  ASSUME NEW r \in Seq(Seqs), Len(r) <= Window, NEW A, NEW old \in Int, AgesFit(A, r, old),
         NEW new \in Int, NEW n \in Seqs, NEW d \in Nat, NEW a \in Nat, d <= Gap, a < Gap,
         Cong(new, old + d), Cong(n, new - a), NotYet(A, r, d, a)
  PROVE  \E B : AgesFit(B, Remembered(r, n), new) /\ Aged(B, Remembered(r, n), A, r, d, a)
<1> DEFINE q == Remembered(r, n)
<1>1. PICK c \in {0, 1} : /\ Len(q) = Len(r) + 1 - c
                          /\ \A i \in 1..Len(q) : q[i] = IF i + c = Len(r) + 1 THEN n ELSE r[i + c]
  BY RememberedIs
<1>2. q \in Seq(Seqs) /\ Len(q) \in Nat /\ Len(r) \in Nat
  BY RememberedIs
<1> HIDE DEF q
<1> DEFINE B == [i \in 1..Len(q) |-> IF i + c = Len(r) + 1 THEN a ELSE A[i + c] + d]
<1>3. ASSUME NEW i \in 1..Len(q), i + c # Len(r) + 1 PROVE i + c \in 1..Len(r) /\ A[i + c] \in Nat /\ r[i + c] \in Seqs
  <2>1. i + c \in 1..Len(r)
    <3>1. Len(q) = Len(r) + 1 - c
      BY <1>1
    <3> QED BY <1>2, <1>3, <3>1
  <2>2. \A j \in 1..Len(r) : A[j] \in Nat /\ r[j] \in Seqs
    BY DEF AgesFit
  <2> QED BY <2>1, <2>2
<1>4. B \in [1..Len(q) -> Nat]
  <2>1. ASSUME NEW i \in 1..Len(q) PROVE (IF i + c = Len(r) + 1 THEN a ELSE A[i + c] + d) \in Nat
    BY <1>3
  <2> QED BY <2>1
<1>5. ASSUME NEW i \in 1..Len(q) PROVE Cong(q[i], new - B[i]) /\ B[i] < (Len(q) - i + 1) * Gap
  <2>1. CASE i + c = Len(r) + 1
    <3>1. q[i] = n /\ B[i] = a
      BY <1>1, <2>1
    <3>2. Len(q) - i + 1 = 1
      BY <1>1, <1>2, <2>1
    <3>3. 1 * Gap = Gap
      BY GapIs
    <3> QED BY <3>1, <3>2, <3>3
  <2>2. CASE i + c # Len(r) + 1
    <3> DEFINE j == i + c
    <3>1. j \in 1..Len(r) /\ A[j] \in Nat /\ r[j] \in Seqs /\ r[j] \in Int
      <4>1. j \in 1..Len(r) /\ A[j] \in Nat /\ r[j] \in Seqs
        BY <1>3, <2>2
      <4>2. Seqs \subseteq Int
        BY StreamConstants DEF Seqs
      <4> QED BY <4>1, <4>2
    <3>2. q[i] = r[j] /\ B[i] = A[j] + d
      BY <1>1, <2>2
    <3>3. Len(q) - i + 1 = (Len(r) - j + 1) + 1
      BY <1>1, <1>2
    <3> HIDE DEF j
    <3>4. Cong(r[j], old - A[j]) /\ A[j] < (Len(r) - j + 1) * Gap
      BY <3>1 DEF AgesFit
    <3> HIDE DEF B
    <3>5. B[i] < (Len(q) - i + 1) * Gap
      <4> DEFINE e == Len(r) - j + 1
      <4>1. e \in Nat
        BY <1>2, <3>1
      <4>2. A[j] < e * Gap
        BY <3>4
      <4>3. Len(q) - i + 1 = e + 1
        BY <3>3
      <4> HIDE DEF e
      <4>4. (e + 1) * Gap = e * Gap + Gap /\ e * Gap \in Int
        BY <4>1, GapIs
      <4>5. A[j] + d < e * Gap + Gap
        BY <4>2, <4>4, <3>1, GapIs
      <4> QED BY <4>3, <4>4, <4>5, <3>2
    <3>6. Cong(r[j], new - B[i])
      <4>1. Cong(old + d, new)
        BY CongTurned
      <4>2. Cong(A[j] + d, A[j] + d)
        BY <3>1, CongSame
      <4>3. Cong((old + d) - (A[j] + d), new - (A[j] + d))
        <5>1. old + d \in Int /\ A[j] + d \in Int
          BY <3>1
        <5> QED BY <4>1, <4>2, <5>1, CongDifference
      <4>4. (old + d) - (A[j] + d) = old - A[j]
        BY <3>1
      <4>5. Cong(old - A[j], new - (A[j] + d))
        BY <4>3, <4>4
      <4>6. old - A[j] \in Int /\ new - (A[j] + d) \in Int
        BY <3>1
      <4>7. Cong(r[j], new - (A[j] + d))
        BY <3>1, <3>4, <4>5, <4>6, CongVia
      <4> QED BY <4>7, <3>2
    <3> QED BY <3>2, <3>5, <3>6
  <2> QED BY <2>1, <2>2
<1>6. ASSUME NEW i \in 1..Len(q), NEW j \in 1..Len(q), B[i] = B[j] PROVE i = j
  <2>1. CASE i + c = Len(r) + 1
    <3>1. B[i] = a
      BY <2>1
    <3>2. CASE j + c = Len(r) + 1
      BY <2>1, <3>2
    <3>3. CASE j + c # Len(r) + 1
      <4>1. B[j] = A[j + c] + d /\ j + c \in 1..Len(r)
        BY <1>3, <3>3
      <4> QED BY <1>6, <3>1, <4>1 DEF NotYet
    <3> QED BY <3>2, <3>3
  <2>2. CASE i + c # Len(r) + 1
    <3>1. B[i] = A[i + c] + d /\ i + c \in 1..Len(r) /\ A[i + c] \in Nat
      BY <1>3, <2>2
    <3>2. CASE j + c = Len(r) + 1
      <4>1. B[j] = a
        BY <3>2
      <4> QED BY <1>6, <3>1, <4>1 DEF NotYet
    <3>3. CASE j + c # Len(r) + 1
      <4>1. B[j] = A[j + c] + d /\ j + c \in 1..Len(r) /\ A[j + c] \in Nat
        BY <1>3, <3>3
      <4>2. A[i + c] = A[j + c]
        BY <1>6, <3>1, <4>1
      <4>3. i + c = j + c
        BY <3>1, <4>1, <4>2 DEF AgesFit
      <4> QED BY <4>3
    <3> QED BY <3>2, <3>3
  <2> QED BY <2>1, <2>2
<1>7. \A i \in 1..Len(q) : B[i] = a \/ \E j \in 1..Len(r) : B[i] = A[j] + d
  <2> SUFFICES ASSUME NEW i \in 1..Len(q) PROVE B[i] = a \/ \E j \in 1..Len(r) : B[i] = A[j] + d
    OBVIOUS
  <2>1. CASE i + c = Len(r) + 1
    BY <2>1
  <2>2. CASE i + c # Len(r) + 1
    BY <1>3, <2>2
  <2> QED BY <2>1, <2>2
<1>8. AgesFit(B, q, new)
  <2> HIDE DEF B
  <2> QED BY <1>4, <1>5, <1>6 DEF AgesFit
<1> HIDE DEF B
<1>9. Aged(B, q, A, r, d, a)
  BY <1>7 DEF Aged
<1> QED BY <1>8, <1>9 DEF q

\* Numbers of different ages are different.
LEMMA AgesDiffer ==
  ASSUME NEW r \in Seq(Seqs), Len(r) <= Window, NEW A, NEW head \in Int, AgesFit(A, r, head)
  PROVE  \A i, j \in 1..Len(r) : i # j => r[i] # r[j]
<1>0. Len(r) \in Nat
  OBVIOUS
<1>1. ASSUME NEW i \in 1..Len(r) PROVE A[i] \in Nat /\ A[i] < Wrap
  <2> DEFINE e == Len(r) - i + 1
  <2>1. e \in Nat /\ e <= Window /\ A[i] \in Nat /\ A[i] < e * Gap
    BY <1>0, StreamConstants DEF AgesFit
  <2> HIDE DEF e
  <2> DEFINE f == Window - e
  <2>2. f \in Nat /\ Window = e + f /\ Gap \in Nat
    BY <2>1, GapIs, StreamConstants
  <2> HIDE DEF f
  <2>3. f * Gap \in Nat /\ e * Gap \in Nat /\ (e + f) * Gap = e * Gap + f * Gap
    BY <2>1, <2>2
  <2>4. (e + f) * Gap <= Wrap
    BY <2>2, GapIs
  <2> DEFINE g == e * Gap h == f * Gap
  <2>5. g \in Nat /\ h \in Nat /\ g + h <= Wrap /\ A[i] < g /\ A[i] \in Nat
    BY <2>1, <2>3, <2>4
  <2> HIDE DEF g, h
  <2> QED BY <2>5, StreamConstants
<1> SUFFICES ASSUME NEW i \in 1..Len(r), NEW j \in 1..Len(r), i # j, r[i] = r[j] PROVE FALSE
  OBVIOUS
<1>2. r[i] \in Int /\ Cong(r[i], head - A[i]) /\ Cong(r[i], head - A[j]) /\ A[i] \in Nat /\ A[j] \in Nat /\ A[i] < Wrap /\ A[j] < Wrap
  <2>1. r[i] \in Seqs
    OBVIOUS
  <2>2. r[i] \in Int
    BY <2>1, StreamConstants DEF Seqs
  <2>3. Cong(r[i], head - A[i]) /\ Cong(r[j], head - A[j])
    BY DEF AgesFit
  <2> QED BY <1>1, <2>2, <2>3
<1>3. head - A[i] \in Int /\ head - A[j] \in Int
  BY <1>2
<1>4. Cong(head - A[i], head - A[j])
  BY <1>2, <1>3, CongTurned, CongVia
<1>5. -Wrap < (head - A[i]) - (head - A[j]) /\ (head - A[i]) - (head - A[j]) < Wrap
  <2>1. \A x, y \in Nat : x < Wrap /\ y < Wrap => -Wrap < (head - x) - (head - y) /\ (head - x) - (head - y) < Wrap
    BY StreamConstants
  <2> QED BY <1>2, <2>1
<1>6. head - A[i] = head - A[j]
  BY <1>3, <1>4, <1>5, CongNear
<1>7. A[i] = A[j]
  BY <1>2, <1>6
<1> QED BY <1>7 DEF AgesFit

\* A sender's packets are numbered in turn, and the network holds none longer than Lateness.
HeldInTime ==
  \A s \in Senders : /\ Nth(produced[s]) <= MaxPackets
    /\ \A m \in held[s] : Nth(m) < Nth(produced[s]) /\ Nth(produced[s]) - 1 - Nth(m) <= Lateness

\* Of the sender in the slot, once something of it went out: x is the place of its newest packet out, at or
\* after the first; the next one after x is not far; past the guard nothing before the first is held any
\* more; and what of it is still to go out has a number nothing remembered has.
TenureFits(A, x) ==
  LET P == Nth(produced[inSlot]) F == Nth(first) IN
  /\ sentAny /\ Cong(lastSeq, x - 2 + seqOff) /\ F <= x /\ x < P
  /\ P - 1 - x <= Lateness \/ \E p \in held[inSlot] : x < Nth(p) /\ Nth(p) <= x + Lateness + 1
  /\ ~guarding => P - 1 > F + switchGuard
  /\ \A m \in held[inSlot] : F <= Nth(m) => \A i \in 1..Len(recent) : A[i] # x - Nth(m)

\* What has gone out, and what may follow it.
NumbersFit == \E A, x : AgesFit(A, recent, lastSeq) /\ x \in 0..MaxPackets /\ (~fresh => TenureFits(A, x))

\* The invariant of the slot's stream.
NumberInv ==
  /\ StreamTypeOK /\ HeldInTime /\ Len(recent) <= Window /\ (~sentAny => recent = <<>>) /\ NumbersFit

\* Nothing was sent.
LEMMA NumberInitInv == StreamInit => NumberInv
<1> SUFFICES ASSUME StreamInit PROVE NumberInv
  OBVIOUS
<1>1. Wrap - 2 \in Seqs /\ 0 \in Seqs
  BY StreamConstants DEF Seqs
<1>2. StreamTypeOK
  <2>1. {fresh, guarding, sentAny} \subseteq BOOLEAN
    BY Zenon DEF StreamInit
  <2>2. /\ produced \in [Senders -> Seqs] /\ held \in [Senders -> SUBSET Seqs] /\ inSlot \in Senders
        /\ {first, seqOff, lastSeq} \subseteq Seqs /\ recent \in Seq(Seqs)
    BY <1>1 DEF StreamInit
  <2> QED BY <2>1, <2>2 DEF StreamTypeOK
<1>3. Nth(Wrap - 2) = 0
  <2>1. Nth(Wrap - 2) \in 0..(Wrap - 1) /\ Cong(Nth(Wrap - 2), (Wrap - 2) + 2)
    BY <1>1, NthIs
  <2>2. Cong(Wrap, 0)
    <3>1. Wrap = 0 + 1 * Wrap
      BY StreamConstants
    <3> QED BY <3>1 DEF Cong
  <2>3. (Wrap - 2) + 2 = Wrap
    BY StreamConstants
  <2>4. Cong(Nth(Wrap - 2), 0) /\ Nth(Wrap - 2) \in Int
    BY <2>1, <2>2, <2>3, CongVia, StreamConstants
  <2>5. -Wrap < Nth(Wrap - 2) - 0 /\ Nth(Wrap - 2) - 0 < Wrap
    BY <2>1, StreamConstants
  <2> QED BY <2>4, <2>5, CongNear
<1>4. HeldInTime
  <2>1. ASSUME NEW s \in Senders PROVE produced[s] = Wrap - 2 /\ held[s] = {}
    BY DEF StreamInit
  <2>2. ASSUME NEW s \in Senders PROVE Nth(produced[s]) = 0 /\ held[s] = {}
    BY <1>3, <2>1
  <2>3. 0 <= MaxPackets
    BY StreamConstants
  <2> QED BY <2>2, <2>3 DEF HeldInTime
<1>5. AgesFit(<<>>, recent, lastSeq)
  BY DEF AgesFit, StreamInit
<1>6. 0 \in 0..MaxPackets /\ Len(recent) <= Window
  BY StreamConstants DEF StreamInit
<1> QED BY <1>2, <1>4, <1>5, <1>6 DEF NumberInv, NumbersFit, StreamInit

\* What the types say.
LEMMA StreamTypes ==
  ASSUME NumberInv
  PROVE  /\ \A s \in Senders : /\ produced[s] \in Seqs /\ Nth(produced[s]) \in 0..MaxPackets /\ held[s] \subseteq Seqs
              /\ \A m \in held[s] : Nth(m) \in 0..MaxPackets /\ Nth(m) < Nth(produced[s])
                                    /\ Nth(produced[s]) - 1 - Nth(m) <= Lateness
         /\ first \in Seqs /\ seqOff \in Seqs /\ lastSeq \in Seqs /\ Nth(first) \in Nat
         /\ {first, seqOff, lastSeq} \subseteq Int /\ recent \in Seq(Seqs) /\ inSlot \in Senders
<1>1. StreamTypeOK /\ HeldInTime
  BY DEF NumberInv
<1>2. Seqs \subseteq Int
  BY StreamConstants DEF Seqs
<1>3. ASSUME NEW s \in Senders
      PROVE  /\ produced[s] \in Seqs /\ Nth(produced[s]) \in 0..MaxPackets /\ held[s] \subseteq Seqs
             /\ \A m \in held[s] : Nth(m) \in 0..MaxPackets /\ Nth(m) < Nth(produced[s])
                                   /\ Nth(produced[s]) - 1 - Nth(m) <= Lateness
  <2>1. produced[s] \in Seqs /\ held[s] \subseteq Seqs /\ Nth(produced[s]) <= MaxPackets
    BY <1>1 DEF StreamTypeOK, HeldInTime
  <2>2. Nth(produced[s]) \in 0..MaxPackets
    BY <2>1, NthIs, StreamConstants
  <2>3. ASSUME NEW m \in held[s]
        PROVE  Nth(m) \in 0..MaxPackets /\ Nth(m) < Nth(produced[s]) /\ Nth(produced[s]) - 1 - Nth(m) <= Lateness
    <3>1. Nth(m) < Nth(produced[s]) /\ Nth(produced[s]) - 1 - Nth(m) <= Lateness
      BY <1>1 DEF HeldInTime
    <3>2. Nth(m) \in 0..(Wrap - 1)
      BY <2>1, NthIs
    <3> QED BY <2>2, <3>1, <3>2, StreamConstants
  <2> QED BY <2>1, <2>2, <2>3
<1>4. first \in Seqs /\ seqOff \in Seqs /\ lastSeq \in Seqs /\ recent \in Seq(Seqs) /\ inSlot \in Senders
  BY <1>1 DEF StreamTypeOK
<1>5. Nth(first) \in Nat
  BY <1>4, NthIs, StreamConstants
<1> QED BY <1>2, <1>3, <1>4, <1>5

\* A sender's packet enters the network.
LEMMA ProduceKeeps == ASSUME NumberInv, NEW s \in Senders, Produce(s) PROVE NumberInv'
<1> DEFINE n == produced[s]
           late == {m \in held[s] : Since(n, m) > Lateness}
<1>0. n \in Seqs /\ Nth(n) \in 0..MaxPackets /\ held[s] \subseteq Seqs /\ StreamTypeOK /\ HeldInTime
  BY StreamTypes DEF NumberInv
<1>1. /\ inSlot = s => late = {}
      /\ Since(n, Wrap - 2) < MaxPackets
      /\ produced' = [produced EXCEPT ![s] = (n + 1) % Wrap]
      /\ held' = [held EXCEPT ![s] = (held[s] \ late) \cup {n}]
      /\ UNCHANGED <<inSlot, fresh, first, guarding, seqOff, sentAny, lastSeq, recent>>
  BY DEF Produce
<1>2. (n + 1) % Wrap \in Seqs /\ Nth((n + 1) % Wrap) = Nth(n) + 1 /\ Nth(n) < MaxPackets
  BY <1>0, <1>1, NthNext
<1>3. \A m \in held[s] \ late : Nth(n) - Nth(m) <= Lateness
  <2> SUFFICES ASSUME NEW m \in held[s], m \notin late PROVE Nth(n) - Nth(m) <= Lateness
    OBVIOUS
  <2>1. m \in Seqs /\ Nth(m) \in 0..MaxPackets
    BY StreamTypes
  <2>2. Since(n, m) = Nth(n) - Nth(m)
    BY <1>0, <2>1, SinceNth
  <2>3. ~(Since(n, m) > Lateness)
    OBVIOUS
  <2> QED BY <1>0, <2>1, <2>2, <2>3, StreamConstants
<1>4. late \subseteq held[s]
  OBVIOUS
<1> HIDE DEF n, late
<1>5. /\ produced'[s] = (n + 1) % Wrap /\ held'[s] = (held[s] \ late) \cup {n}
      /\ \A t \in Senders : t # s => produced'[t] = produced[t] /\ held'[t] = held[t]
      /\ produced' \in [Senders -> Seqs] /\ held' \in [Senders -> SUBSET Seqs]
  BY <1>0, <1>1, <1>2 DEF StreamTypeOK
<1>6. StreamTypeOK'
  BY <1>0, <1>1, <1>5 DEF StreamTypeOK
<1>7. HeldInTime'
  <2> SUFFICES ASSUME NEW t \in Senders
               PROVE  /\ Nth(produced'[t]) <= MaxPackets
                      /\ \A m \in held'[t] : Nth(m) < Nth(produced'[t]) /\ Nth(produced'[t]) - 1 - Nth(m) <= Lateness
    BY DEF HeldInTime, Nth
  <2>1. CASE t # s
    BY <1>5, <2>1, StreamTypes
  <2>2. CASE t = s
    <3>1. Nth(produced'[t]) = Nth(n) + 1 /\ Nth(produced'[t]) <= MaxPackets
      BY <1>0, <1>2, <1>5, <2>2, StreamConstants
    <3> DEFINE Q == Nth(produced'[t])
    <3>3. Q = Nth(n) + 1 /\ Q <= MaxPackets
      BY <3>1
    <3> HIDE DEF Q
    <3>2. ASSUME NEW m \in held'[t] PROVE Nth(m) < Q /\ Q - 1 - Nth(m) <= Lateness
      <4>1. CASE m = n
        BY <1>0, <3>3, <4>1, StreamConstants
      <4>2. CASE m \in held[s] \ late
        <5>1. Nth(m) \in 0..MaxPackets /\ Nth(m) < Nth(n)
          BY <4>2, StreamTypes DEF n
        <5>2. Nth(n) - Nth(m) <= Lateness
          BY <1>3, <4>2
        <5> QED BY <1>0, <3>3, <5>1, <5>2, StreamConstants
      <4> QED BY <1>5, <2>2, <4>1, <4>2
    <3> QED BY <3>2, <3>3 DEF Q
  <2> QED BY <2>1, <2>2
<1>8. PICK A, x : AgesFit(A, recent, lastSeq) /\ x \in 0..MaxPackets /\ (~fresh => TenureFits(A, x))
  BY DEF NumberInv, NumbersFit
<1>9. AgesFit(A, recent', lastSeq')
  BY <1>1, <1>8
<1>10. ASSUME ~fresh PROVE TenureFits(A, x)'
  <2> DEFINE P == Nth(produced[inSlot]) F == Nth(first) Q == Nth(produced'[inSlot])
  <2>1. /\ sentAny /\ Cong(lastSeq, x - 2 + seqOff) /\ F <= x /\ x < P
        /\ P - 1 - x <= Lateness \/ \E p \in held[inSlot] : x < Nth(p) /\ Nth(p) <= x + Lateness + 1
        /\ ~guarding => P - 1 > F + switchGuard
        /\ \A m \in held[inSlot] : F <= Nth(m) => \A i \in 1..Len(recent) : A[i] # x - Nth(m)
    BY <1>8, <1>10 DEF TenureFits
  <2>2. P \in Nat /\ F \in Nat /\ inSlot \in Senders
    BY StreamTypes, StreamConstants
  <2> HIDE DEF P, F, Q
  <2>3. /\ sentAny /\ Cong(lastSeq, x - 2 + seqOff) /\ F <= x /\ x < Q
        /\ Q - 1 - x <= Lateness \/ \E p \in held'[inSlot] : x < Nth(p) /\ Nth(p) <= x + Lateness + 1
        /\ ~guarding => Q - 1 > F + switchGuard
        /\ \A m \in held'[inSlot] : F <= Nth(m) => \A i \in 1..Len(recent) : A[i] # x - Nth(m)
    <3>1. CASE inSlot # s
      <4>1. Q = P /\ held'[inSlot] = held[inSlot]
        BY <1>5, <2>2, <3>1 DEF P, Q
      <4> QED BY <2>1, <4>1
    <3>2. CASE inSlot = s
      <4>1. Q = P + 1 /\ held'[inSlot] = held[inSlot] \cup {n} /\ Nth(n) = P
        BY <1>1, <1>2, <1>5, <3>2 DEF P, Q, n
      <4>2. x < Q /\ (~guarding => Q - 1 > F + switchGuard)
        BY <1>8, <2>1, <2>2, <4>1, StreamConstants
      <4>3. \E p \in held'[inSlot] : x < Nth(p) /\ Nth(p) <= x + Lateness + 1
        <5>1. CASE P - 1 - x <= Lateness
          <6>1. x < P /\ P <= x + Lateness + 1
            BY <1>8, <2>1, <2>2, <5>1, StreamConstants
          <6> QED BY <4>1, <6>1
        <5>2. CASE \E p \in held[inSlot] : x < Nth(p) /\ Nth(p) <= x + Lateness + 1
          BY <4>1, <5>2
        <5> QED BY <2>1, <5>1, <5>2
      <4>4. ASSUME NEW m \in held'[inSlot], F <= Nth(m), NEW i \in 1..Len(recent) PROVE A[i] # x - Nth(m)
        <5>1. CASE m \in held[inSlot]
          BY <2>1, <4>4, <5>1
        <5>2. CASE m = n
          <6>1. A[i] \in Nat
            BY <1>8 DEF AgesFit
          <6> QED BY <1>8, <2>1, <2>2, <4>1, <5>2, <6>1
        <5> QED BY <4>1, <5>1, <5>2
      <4> QED BY <2>1, <4>2, <4>3, <4>4
    <3> QED BY <3>1, <3>2
  <2>4. TenureFits(A, x)' <=>
        /\ sentAny' /\ Cong(lastSeq', x - 2 + seqOff') /\ Nth(first') <= x /\ x < Nth(produced'[inSlot'])
        /\ Nth(produced'[inSlot']) - 1 - x <= Lateness \/ \E p \in held'[inSlot'] : x < Nth(p) /\ Nth(p) <= x + Lateness + 1
        /\ ~guarding' => Nth(produced'[inSlot']) - 1 > Nth(first') + switchGuard
        /\ \A m \in held'[inSlot'] : Nth(first') <= Nth(m) => \A i \in 1..Len(recent') : A[i] # x - Nth(m)
    BY DEF TenureFits, Nth, Cong
  <2> QED BY <1>1, <2>3, <2>4 DEF F, Q
<1>11. NumbersFit'
  <2>1. AgesFit(A, recent, lastSeq)'
    BY <1>9 DEF AgesFit, Cong, Gap
  <2> QED BY <1>1, <1>8, <1>10, <2>1 DEF NumbersFit
<1> QED BY <1>1, <1>6, <1>7, <1>11 DEF NumberInv

\* Another sender takes the slot.
LEMMA AssignKeeps == ASSUME NumberInv, NEW s \in Senders, AssignSlot(s) PROVE NumberInv'
<1>1. /\ inSlot' = s /\ fresh' = TRUE
      /\ UNCHANGED <<produced, held, first, guarding, seqOff, sentAny, lastSeq, recent>>
  BY DEF AssignSlot
<1>2. StreamTypeOK' /\ HeldInTime'
  BY <1>1 DEF NumberInv, StreamTypeOK, HeldInTime, Nth
<1>3. PICK A, x : AgesFit(A, recent, lastSeq) /\ x \in 0..MaxPackets
  BY DEF NumberInv, NumbersFit
<1>4. AgesFit(A, recent, lastSeq)'
  BY <1>1, <1>3 DEF AgesFit, Cong, Gap
<1>5. NumbersFit'
  BY <1>1, <1>3, <1>4 DEF NumbersFit
<1> QED BY <1>1, <1>2, <1>5 DEF NumberInv

\* A packet that arrives leaves the network; the rest of the types are kept by what goes out.
LEMMA ArrivesKeeps ==
  ASSUME NumberInv, NEW s \in Senders, NEW n \in held[s], held' = [held EXCEPT ![s] = @ \ {n}], UNCHANGED produced
  PROVE  /\ held' \in [Senders -> SUBSET Seqs] /\ held'[s] = held[s] \ {n} /\ HeldInTime'
         /\ \A t \in Senders : held'[t] \subseteq held[t] /\ (t # s => held'[t] = held[t])
<1>1. StreamTypeOK /\ HeldInTime
  BY DEF NumberInv
<1>2. held' \in [Senders -> SUBSET Seqs] /\ held'[s] = held[s] \ {n}
      /\ \A t \in Senders : held'[t] \subseteq held[t] /\ (t # s => held'[t] = held[t])
  BY <1>1 DEF StreamTypeOK
<1>3. HeldInTime'
  BY <1>1, <1>2 DEF HeldInTime, Nth
<1> QED BY <1>2, <1>3

\* What holds of a tenure after a step.
LEMMA TenureNext ==
  ASSUME NEW A, NEW x
  PROVE  TenureFits(A, x)' <=>
           LET P == Nth(produced'[inSlot']) F == Nth(first') IN
           /\ sentAny' /\ Cong(lastSeq', x - 2 + seqOff') /\ F <= x /\ x < P
           /\ P - 1 - x <= Lateness \/ \E p \in held'[inSlot'] : x < Nth(p) /\ Nth(p) <= x + Lateness + 1
           /\ ~guarding' => P - 1 > F + switchGuard
           /\ \A m \in held'[inSlot'] : F <= Nth(m) => \A i \in 1..Len(recent') : A[i] # x - Nth(m)
BY DEF TenureFits, Nth, Cong

\* The ages and the tenure after a step are what is to be shown of the numbers.
LEMMA NumbersNext ==
  ASSUME NEW A, NEW x \in 0..MaxPackets, AgesFit(A, recent', lastSeq'), ~fresh' => TenureFits(A, x)'
  PROVE  NumbersFit'
<1>1. AgesFit(A, recent, lastSeq)'
  BY DEF AgesFit, Cong, Gap
<1> QED BY <1>1 DEF NumbersFit

\* A packet that is not sent on.
LEMMA DropKeeps ==
  ASSUME NumberInv, NEW s \in Senders, NEW n \in held[s], held' = [held EXCEPT ![s] = @ \ {n}],
         ~(inSlot = s /\ ~PredatesSwitch(n)),
         UNCHANGED <<produced, inSlot, fresh, first, guarding, seqOff, sentAny, lastSeq, recent>>
  PROVE  NumberInv'
<1>1. /\ held' \in [Senders -> SUBSET Seqs] /\ held'[s] = held[s] \ {n} /\ HeldInTime'
      /\ \A t \in Senders : held'[t] \subseteq held[t] /\ (t # s => held'[t] = held[t])
  BY ArrivesKeeps
<1>2. StreamTypeOK'
  BY <1>1 DEF NumberInv, StreamTypeOK
<1>3. PICK A, x : AgesFit(A, recent, lastSeq) /\ x \in 0..MaxPackets /\ (~fresh => TenureFits(A, x))
  BY DEF NumberInv, NumbersFit
<1>4. ASSUME ~fresh PROVE TenureFits(A, x)'
  <2> DEFINE P == Nth(produced[inSlot]) F == Nth(first)
  <2>1. /\ sentAny /\ Cong(lastSeq, x - 2 + seqOff) /\ F <= x /\ x < P
        /\ P - 1 - x <= Lateness \/ \E p \in held[inSlot] : x < Nth(p) /\ Nth(p) <= x + Lateness + 1
        /\ ~guarding => P - 1 > F + switchGuard
        /\ \A m \in held[inSlot] : F <= Nth(m) => \A i \in 1..Len(recent) : A[i] # x - Nth(m)
    BY <1>3, <1>4 DEF TenureFits
  <2>2. F \in Nat /\ inSlot \in Senders /\ first \in Seqs /\ n \in Seqs /\ Nth(n) \in 0..MaxPackets /\ F <= MaxPackets
    <3>1. F \in Nat /\ inSlot \in Senders /\ first \in Seqs /\ n \in Seqs /\ Nth(n) \in 0..MaxPackets
      BY StreamTypes
    <3> QED BY <1>3, <2>1, <3>1, StreamConstants
  <2>3. \A p \in held[inSlot] : x < Nth(p) => p \in held'[inSlot]
    <3>1. CASE inSlot # s
      BY <1>1, <2>2, <3>1
    <3>2. CASE inSlot = s
      <4>1. Since(n, first) < 0
        BY <3>2 DEF PredatesSwitch
      <4>2. Since(n, first) = Nth(n) - F
        BY <2>2, SinceNth
      <4>3. ~(x < Nth(n))
        BY <1>3, <2>1, <2>2, <4>1, <4>2, StreamConstants
      <4> QED BY <1>1, <3>2, <4>3
    <3> QED BY <3>1, <3>2
  <2>4. held'[inSlot] \subseteq held[inSlot]
    BY <1>1, <2>2
  <2> HIDE DEF P, F
  <2>5. P - 1 - x <= Lateness \/ \E p \in held'[inSlot] : x < Nth(p) /\ Nth(p) <= x + Lateness + 1
    BY <2>1, <2>3
  <2>6. \A m \in held'[inSlot] : F <= Nth(m) => \A i \in 1..Len(recent) : A[i] # x - Nth(m)
    BY <2>1, <2>4
  <2> QED BY <2>1, <2>5, <2>6, TenureNext DEF P, F
<1>5. AgesFit(A, recent', lastSeq')
  BY <1>3
<1>6. NumbersFit'
  BY <1>3, <1>4, <1>5, NumbersNext
<1> QED BY <1>1, <1>2, <1>6 DEF NumberInv

\* The types after a packet went out.
LEMMA SendTypes ==
  ASSUME NumberInv, NEW s \in Senders, NEW n \in held[s], held' = [held EXCEPT ![s] = @ \ {n}],
         UNCHANGED <<produced, inSlot>>, NEW off \in Seqs, NEW seq \in Seqs,
         fresh' = FALSE, seqOff' = off, sentAny' = TRUE, first' \in {n, first}, guarding' \in BOOLEAN,
         lastSeq' \in {seq, lastSeq}, recent' = Remembered(recent, seq), NumbersFit'
  PROVE  NumberInv'
<1>1. held' \in [Senders -> SUBSET Seqs] /\ HeldInTime'
  BY ArrivesKeeps
<1>2. recent \in Seq(Seqs) /\ Len(recent) <= Window /\ n \in Seqs /\ first \in Seqs /\ lastSeq \in Seqs /\ StreamTypeOK
  BY StreamTypes DEF NumberInv
<1>3. recent' \in Seq(Seqs) /\ Len(recent') <= Window
  BY <1>2, RememberedIs
<1>4. {first', seqOff', lastSeq'} \subseteq Seqs
  BY <1>2
<1>5. {fresh', guarding', sentAny'} \subseteq BOOLEAN
  BY Zenon
<1>6. produced' \in [Senders -> Seqs] /\ inSlot' \in Senders
  BY <1>2 DEF StreamTypeOK
<1>7. StreamTypeOK'
  BY <1>1, <1>3, <1>4, <1>5, <1>6 DEF StreamTypeOK
<1>8. Len(recent)' <= Window /\ (~sentAny => recent = <<>>)'
  BY <1>3
<1> QED BY <1>1, <1>7, <1>8 DEF NumberInv

\* The first packet of a tenure.
LEMMA FirstKeeps ==
  ASSUME NumberInv, NEW s \in Senders, NEW n \in held[s], held' = [held EXCEPT ![s] = @ \ {n}],
         UNCHANGED <<produced, inSlot>>, inSlot = s, fresh, SendOn(n)
  PROVE  NumberInv'
<1> DEFINE off == IF sentAny THEN (lastSeq + 1 - n) % Wrap ELSE 0
           seq == (n + off) % Wrap
<1>0. /\ n \in Seqs /\ n \in Int /\ lastSeq \in Seqs /\ lastSeq \in Int /\ recent \in Seq(Seqs)
      /\ Nth(n) \in 0..MaxPackets /\ Nth(produced[s]) \in 0..MaxPackets /\ Nth(n) < Nth(produced[s])
      /\ Nth(produced[s]) - 1 - Nth(n) <= Lateness /\ held[s] \subseteq Seqs
      /\ \A m \in held[s] : Nth(m) \in 0..MaxPackets
  BY StreamTypes, NthIs
<1>1. /\ fresh' = FALSE /\ seqOff' = off /\ sentAny' = TRUE /\ first' = n /\ guarding' = TRUE
      /\ lastSeq' = (IF ~sentAny \/ Since(seq, lastSeq) > 0 THEN seq ELSE lastSeq)
      /\ recent' = Remembered(recent, seq)
  BY DEF SendOn, Remembered
<1>2. off \in Seqs /\ off \in Int
  <2>1. 0 \in Seqs /\ Seqs \subseteq Int /\ lastSeq + 1 - n \in Int
    BY <1>0, StreamConstants DEF Seqs
  <2>2. (lastSeq + 1 - n) % Wrap \in Seqs
    BY <2>1, ModCong
  <2> QED BY <2>1, <2>2
<1>3. seq \in Seqs /\ Cong(seq, n + off) /\ seq \in Int
  <2>1. n + off \in Int
    BY <1>0, <1>2
  <2>2. Seqs \subseteq Int
    BY StreamConstants DEF Seqs
  <2> HIDE DEF off
  <2> QED BY <2>1, <2>2, ModCong
<1>4. sentAny => Cong(seq, lastSeq + 1)
  <2> SUFFICES ASSUME sentAny PROVE Cong(seq, lastSeq + 1)
    OBVIOUS
  <2>1. lastSeq + 1 - n \in Int
    BY <1>0
  <2>2. Cong(off, lastSeq + 1 - n)
    BY <2>1, ModCong
  <2> HIDE DEF off, seq
  <2>3. Cong(n, n)
    BY <1>0, CongSame
  <2>4. Cong(n + off, n + (lastSeq + 1 - n))
    BY <1>0, <1>2, <2>1, <2>2, <2>3, CongSum
  <2>5. n + (lastSeq + 1 - n) = lastSeq + 1
    BY <1>0
  <2>6. Cong(n + off, lastSeq + 1) /\ n + off \in Int /\ lastSeq + 1 \in Int
    BY <1>0, <1>2, <2>4, <2>5
  <2> QED BY <1>3, <2>6, CongVia
<1> HIDE DEF off, seq
<1>5. lastSeq' = seq
  <2>1. CASE ~sentAny
    BY <1>1, <2>1
  <2>2. CASE sentAny
    <3>1. Cong(lastSeq, lastSeq)
      BY <1>0, CongSame
    <3>2. Cong(seq - lastSeq, (lastSeq + 1) - lastSeq)
      <4>1. lastSeq + 1 \in Int
        BY <1>0
      <4> QED BY <1>0, <1>3, <1>4, <2>2, <3>1, <4>1, CongDifference
    <3>3. (lastSeq + 1) - lastSeq = 1
      BY <1>0
    <3>4. -Wrap < 2 * 1 /\ 2 * 1 < Wrap /\ 1 \in Int
      BY StreamConstants
    <3>5. Since(seq, lastSeq) = 1
      BY <1>0, <1>3, <3>2, <3>3, <3>4, SinceIs
    <3> QED BY <1>1, <3>5
  <2> QED BY <2>1, <2>2
<1>6. PICK B : AgesFit(B, recent', lastSeq')
  <2>1. PICK A : AgesFit(A, recent, lastSeq)
    BY DEF NumberInv, NumbersFit
  <2>2. Len(recent) <= Window /\ (~sentAny => recent = <<>>)
    BY DEF NumberInv
  <2>3. Cong(seq, seq - 0)
    <3>1. seq - 0 = seq
      BY <1>3
    <3> QED BY <1>3, <3>1, CongSame
  <2>4. 0 \in Nat /\ 1 \in Nat /\ 1 <= Gap /\ 0 < Gap
    BY GapIs
  <2>5. CASE sentAny
    <3>1. NotYet(A, recent, 1, 0)
      <4>1. \A i \in 1..Len(recent) : A[i] \in Nat
        BY <2>1 DEF AgesFit
      <4> QED BY <4>1 DEF NotYet
    <3>2. \E B : AgesFit(B, Remembered(recent, seq), seq)
      BY <1>0, <1>3, <1>4, <2>1, <2>2, <2>3, <2>4, <2>5, <3>1, AgesGrow
    <3> QED BY <1>1, <1>5, <3>2
  <2>6. CASE ~sentAny
    <3>1. AgesFit(<<>>, recent, seq)
      <4>1. recent = <<>>
        BY <2>2, <2>6
      <4> QED BY <4>1 DEF AgesFit
    <3> DEFINE z == 0
    <3>2. z \in Nat /\ z <= Gap /\ z < Gap
      BY GapIs
    <3>3. Cong(seq, seq + z) /\ Cong(seq, seq - z)
      <4>1. seq + z = seq /\ seq - z = seq
        BY <1>3
      <4> QED BY <1>3, <4>1, CongSame
    <3>4. PICK C : AgesFit(C, recent, seq) /\ NotYet(C, recent, z, z)
      <4>1. NotYet(<<>>, recent, z, z)
        BY <2>2, <2>6 DEF NotYet
      <4> QED BY <3>1, <4>1
    <3> HIDE DEF z
    <3>5. \E B : AgesFit(B, Remembered(recent, seq), seq)
      <4>1. recent \in Seq(Seqs) /\ Len(recent) <= Window /\ seq \in Int /\ seq \in Seqs
        BY <1>0, <1>3, <2>2
      <4> QED BY <4>1, <3>2, <3>3, <3>4, AgesGrow
    <3> QED BY <1>1, <1>5, <3>5
  <2> QED BY <2>5, <2>6
<1>7. held'[s] = held[s] \ {n}
  BY ArrivesKeeps
<1>8. TenureFits(B, Nth(n))'
  <2> DEFINE y == Nth(n) P == Nth(produced[s])
  <2>1. sentAny' /\ first' = n /\ guarding' /\ inSlot' = s /\ produced' = produced
    BY <1>1
  <2>2. Cong(lastSeq', y - 2 + seqOff')
    <3>1. Cong(y, n + 2) /\ Cong(2, 2)
      BY <1>0, NthIs, CongSame
    <3>2. y \in Int /\ n + 2 \in Int /\ 2 \in Int
      BY <1>0, StreamConstants
    <3> HIDE DEF y
    <3>3. Cong(y - 2, (n + 2) - 2)
      BY <3>1, <3>2, CongDifference
    <3>4. (n + 2) - 2 = n /\ y - 2 \in Int
      BY <1>0, <3>2
    <3>5. Cong(n, y - 2) /\ Cong(off, off)
      BY <1>0, <1>2, <3>3, <3>4, CongTurned, CongSame
    <3>6. Cong(n + off, y - 2 + off) /\ n + off \in Int /\ y - 2 + off \in Int
      <4>1. n + off \in Int /\ y - 2 + off \in Int
        BY <1>0, <1>2, <3>4
      <4> QED BY <1>0, <1>2, <3>4, <3>5, <4>1, CongSum
    <3>7. Cong(seq, y - 2 + off)
      BY <1>3, <3>6, CongVia
    <3> QED BY <1>1, <1>5, <3>7
  <2>3. y <= y /\ y < P /\ P - 1 - y <= Lateness
    BY <1>0, StreamConstants
  <2>4. ASSUME NEW m \in held'[s], y <= Nth(m), NEW i \in 1..Len(recent') PROVE B[i] # y - Nth(m)
    <3>1. m \in held[s] /\ m # n /\ m \in Seqs
      BY <1>0, <1>7
    <3>2. Nth(m) # y
      BY <1>0, <3>1, NthOnce
    <3>3. B[i] \in Nat
      BY <1>6 DEF AgesFit
    <3>4. Nth(m) \in Nat /\ y \in Nat
      BY <1>0, <3>1, StreamConstants
    <3> QED BY <2>4, <3>2, <3>3, <3>4
  <2> HIDE DEF y, P
  <2>5. LET F == Nth(first') IN
        /\ sentAny' /\ Cong(lastSeq', y - 2 + seqOff') /\ F <= y /\ y < P
        /\ P - 1 - y <= Lateness \/ \E p \in held'[s] : y < Nth(p) /\ Nth(p) <= y + Lateness + 1
        /\ ~guarding' => P - 1 > F + switchGuard
        /\ \A m \in held'[s] : F <= Nth(m) => \A i \in 1..Len(recent') : B[i] # y - Nth(m)
    <3>1. Nth(first') = y
      BY <2>1 DEF y
    <3> QED BY <2>1, <2>2, <2>3, <2>4, <3>1
  <2>6. P = Nth(produced'[inSlot'])
    BY <2>1 DEF P
  <2> QED BY <2>1, <2>5, <2>6, TenureNext DEF y
<1>9. NumbersFit'
  BY <1>0, <1>6, <1>8, NumbersNext
<1>10. lastSeq' \in {seq, lastSeq} /\ guarding' \in BOOLEAN /\ first' \in {n, first}
  BY <1>1, <1>5
<1> QED BY <1>1, <1>2, <1>3, <1>9, <1>10, SendTypes

\* A later packet of the tenure, in order or late.
LEMMA LaterKeeps ==
  ASSUME NumberInv, NEW s \in Senders, NEW n \in held[s], held' = [held EXCEPT ![s] = @ \ {n}],
         UNCHANGED <<produced, inSlot>>, inSlot = s, ~fresh, ~PredatesSwitch(n), SendOn(n)
  PROVE  NumberInv'
<1> DEFINE seq == (n + seqOff) % Wrap
           y == Nth(n)
           P == Nth(produced[s])
           F == Nth(first)
<1>1. /\ fresh' = FALSE /\ seqOff' = seqOff /\ sentAny' = TRUE /\ first' = first
      /\ guarding' = (guarding /\ Since(n, first) <= switchGuard)
      /\ lastSeq' = (IF ~sentAny \/ Since(seq, lastSeq) > 0 THEN seq ELSE lastSeq)
      /\ recent' = Remembered(recent, seq)
  BY DEF SendOn, Remembered
<1>2. PICK A, x : AgesFit(A, recent, lastSeq) /\ x \in 0..MaxPackets /\ TenureFits(A, x)
  BY DEF NumberInv, NumbersFit
<1>3. /\ sentAny /\ Cong(lastSeq, x - 2 + seqOff) /\ F <= x /\ x < P
      /\ P - 1 - x <= Lateness \/ \E p \in held[s] : x < Nth(p) /\ Nth(p) <= x + Lateness + 1
      /\ ~guarding => P - 1 > F + switchGuard
      /\ \A m \in held[s] : F <= Nth(m) => \A i \in 1..Len(recent) : A[i] # x - Nth(m)
  BY <1>2 DEF TenureFits
<1>4. /\ n \in Seqs /\ n \in Int /\ seqOff \in Seqs /\ seqOff \in Int /\ lastSeq \in Seqs /\ lastSeq \in Int
      /\ first \in Seqs /\ recent \in Seq(Seqs) /\ Len(recent) <= Window /\ held[s] \subseteq Seqs
      /\ y \in 0..MaxPackets /\ P \in 0..MaxPackets /\ y < P /\ P - 1 - y <= Lateness /\ F \in Nat
      /\ \A m \in held[s] : Nth(m) \in 0..MaxPackets /\ P - 1 - Nth(m) <= Lateness /\ Nth(m) < P
  BY StreamTypes, NthIs DEF NumberInv
<1>a. n \in Int /\ seqOff \in Int /\ lastSeq \in Int
  BY <1>4
<1>5. held'[s] = held[s] \ {n}
  BY ArrivesKeeps
<1>6. F <= MaxPackets /\ Since(n, first) = y - F
  <2>1. F <= MaxPackets
    BY <1>2, <1>3, <1>4, StreamConstants
  <2> QED BY <1>4, <2>1, SinceNth
<1>7. F <= y
  <2>1. CASE guarding
    <3>1. ~(Since(n, first) < 0)
      BY <2>1 DEF PredatesSwitch
    <3> QED BY <1>4, <1>6, <3>1
  <2>2. CASE ~guarding
    BY <1>3, <1>4, <2>2, StreamConstants
  <2> QED BY <2>1, <2>2
<1>8. seq \in Seqs /\ seq \in Int /\ Cong(seq, n + seqOff)
  <2>1. n + seqOff \in Int /\ Seqs \subseteq Int
    BY <1>4, StreamConstants DEF Seqs
  <2> QED BY <2>1, ModCong
<1>9. Cong(seq, y - 2 + seqOff) /\ y - 2 + seqOff \in Int
  <2>1. Cong(y, n + 2) /\ Cong(2, 2)
    BY <1>4, NthIs, CongSame
  <2>2. y \in Int /\ n + 2 \in Int /\ 2 \in Int
    BY <1>4, StreamConstants
  <2> HIDE DEF y, seq
  <2>3. Cong(y - 2, (n + 2) - 2)
    BY <2>1, <2>2, CongDifference
  <2>4. (n + 2) - 2 = n /\ y - 2 \in Int
    BY <1>a, <2>2
  <2>5. Cong(n, y - 2) /\ Cong(seqOff, seqOff)
    BY <1>a, <2>3, <2>4, CongTurned, CongSame
  <2>6. n + seqOff \in Int /\ y - 2 + seqOff \in Int
    BY <1>a, <2>4
  <2>7. Cong(n + seqOff, y - 2 + seqOff)
    BY <1>a, <2>4, <2>5, <2>6, CongSum
  <2> QED BY <1>8, <2>6, <2>7, CongVia
<1> HIDE DEF seq, y, P, F
<1>10. Cong(seq - lastSeq, y - x)
  <2>1. x - 2 + seqOff \in Int /\ y \in Int /\ x \in Int
    BY <1>2, <1>4, StreamConstants
  <2>2. Cong(seq - lastSeq, (y - 2 + seqOff) - (x - 2 + seqOff))
    BY <1>3, <1>4, <1>8, <1>9, <2>1, CongDifference
  <2>3. (y - 2 + seqOff) - (x - 2 + seqOff) = y - x
    BY <1>4, <2>1
  <2> QED BY <2>2, <2>3
<1>11. y - x \in Int /\ Since(seq, lastSeq) = y - x
  <2>1. y - x \in Int /\ -Wrap < 2 * (y - x) /\ 2 * (y - x) < Wrap
    <3>1. y \in 0..MaxPackets /\ x \in 0..MaxPackets
      BY <1>2, <1>4
    <3> QED BY <3>1, StreamConstants
  <2> QED BY <1>4, <1>8, <1>10, <2>1, SinceIs
<1>12. ~guarding' => P - 1 > F + switchGuard
  <2>1. CASE ~guarding
    BY <1>3, <2>1
  <2>2. CASE guarding
    <3>1. ~guarding' => ~(Since(n, first) <= switchGuard)
      BY <1>1, <2>2, Zenon
    <3>2. y \in Nat /\ F \in Nat /\ P \in Nat /\ y < P /\ Since(n, first) = y - F
      BY <1>4, <1>6, StreamConstants
    <3>3. ~(y - F <= switchGuard) => P - 1 > F + switchGuard
      BY <3>2, StreamConstants
    <3> QED BY <3>1, <3>2, <3>3
  <2> QED BY <2>1, <2>2
<1>13. Cong(lastSeq, seq - (y - x))
  <2>1. Cong(seq, seq) /\ Cong(y - x, seq - lastSeq)
    <3>1. seq - lastSeq \in Int
      BY <1>a, <1>8
    <3> QED BY <1>8, <1>10, <1>11, <3>1, CongSame, CongTurned
  <2>2. Cong(seq - (y - x), seq - (seq - lastSeq))
    <3>1. seq - lastSeq \in Int
      BY <1>a, <1>8
    <3> QED BY <1>8, <1>11, <2>1, <3>1, CongDifference
  <2>3. seq - (seq - lastSeq) = lastSeq /\ seq - (y - x) \in Int
    BY <1>a, <1>8, <1>11
  <2>4. Cong(seq - (y - x), lastSeq)
    BY <2>2, <2>3
  <2> QED BY <1>a, <2>3, <2>4, CongTurned
<1>14. ASSUME NEW B, NEW z \in 0..MaxPackets, AgesFit(B, recent', lastSeq'), F <= z, z < P, Cong(lastSeq', z - 2 + seqOff),
              P - 1 - z <= Lateness \/ \E p \in held'[s] : z < Nth(p) /\ Nth(p) <= z + Lateness + 1,
              \A m \in held'[s] : F <= Nth(m) => \A i \in 1..Len(recent') : B[i] # z - Nth(m)
       PROVE  NumberInv'
  <2>1. P = Nth(produced'[inSlot']) /\ F = Nth(first') /\ inSlot' = s
    BY <1>1 DEF P, F
  <2>2. TenureFits(B, z)'
    BY <1>1, <1>12, <1>14, <2>1, TenureNext
  <2>3. NumbersFit'
    BY <1>14, <2>2, NumbersNext
  <2>4. lastSeq' \in {seq, lastSeq} /\ first' \in {n, first}
    BY <1>1
  <2>5. guarding' \in BOOLEAN
    BY <1>1, Zenon
  <2> QED BY <1>1, <1>4, <1>8, <2>3, <2>4, <2>5, SendTypes
<1>15. CASE y > x
  <2> DEFINE d == y - x
  <2>1. lastSeq' = seq
    BY <1>1, <1>2, <1>4, <1>11, <1>15, StreamConstants
  <2>2. d \in Nat /\ d <= Gap /\ d > 0
    <3>1. CASE P - 1 - x <= Lateness
      BY <1>2, <1>4, <1>15, <3>1, StreamConstants DEF Gap
    <3>2. CASE \E p \in held[s] : x < Nth(p) /\ Nth(p) <= x + Lateness + 1
      <4>1. PICK p \in held[s] : x < Nth(p) /\ Nth(p) <= x + Lateness + 1
        BY <3>2
      <4>2. Nth(p) \in 0..MaxPackets /\ P - 1 - Nth(p) <= Lateness
        BY <1>4
      <4>3. y \in 0..MaxPackets /\ x \in 0..MaxPackets /\ P \in 0..MaxPackets /\ y < P /\ y > x
        BY <1>2, <1>4, <1>15
      <4>4. y - x <= 2 * Lateness + 1 /\ y - x \in Nat /\ y - x > 0
        BY <4>1, <4>2, <4>3, StreamConstants
      <4> QED BY <4>4 DEF Gap
    <3> QED BY <1>3, <3>1, <3>2
  <2>3. Cong(seq, lastSeq + d)
    <3>1. Cong(seq - lastSeq, d) /\ Cong(lastSeq, lastSeq)
      BY <1>4, <1>10, CongSame
    <3> HIDE DEF d
    <3>2. seq - lastSeq \in Int /\ d \in Int
      BY <1>4, <1>8, <2>2
    <3>3. Cong((seq - lastSeq) + lastSeq, d + lastSeq)
      BY <1>4, <3>1, <3>2, CongSum
    <3>4. (seq - lastSeq) + lastSeq = seq /\ d + lastSeq = lastSeq + d
      BY <1>4, <1>8, <3>2
    <3> QED BY <3>3, <3>4
  <2> DEFINE a == 0
  <2>4. Cong(seq, seq - a) /\ a \in Nat /\ a < Gap
    <3>1. seq - a = seq
      BY <1>8
    <3> QED BY <1>8, <3>1, CongSame, GapIs
  <2>5. NotYet(A, recent, d, a)
    <3>1. \A i \in 1..Len(recent) : A[i] \in Nat
      BY <1>2 DEF AgesFit
    <3> HIDE DEF d
    <3> QED BY <2>2, <3>1 DEF NotYet
  <2> HIDE DEF d, a
  <2>6. PICK B : /\ AgesFit(B, Remembered(recent, seq), seq)
                 /\ Aged(B, Remembered(recent, seq), A, recent, d, a)
    <3>1. /\ recent \in Seq(Seqs) /\ Len(recent) <= Window /\ lastSeq \in Int /\ seq \in Int /\ seq \in Seqs
          /\ AgesFit(A, recent, lastSeq)
      BY <1>2, <1>4, <1>8
    <3>2. d \in Nat /\ a \in Nat /\ d <= Gap /\ a < Gap
      BY <2>2, <2>4
    <3> QED BY <2>3, <2>4, <2>5, <3>1, <3>2, AgesGrow
  <2>7. ASSUME NEW m \in held'[s], F <= Nth(m), NEW i \in 1..Len(recent') PROVE B[i] # y - Nth(m)
    <3>1. m \in held[s] /\ m # n /\ m \in Seqs /\ Nth(m) \in 0..MaxPackets
      BY <1>4, <1>5
    <3>2. Nth(m) # y
      BY <1>4, <3>1, NthOnce DEF y
    <3>3. CASE B[i] = a
      BY <1>4, <3>1, <3>2, <3>3 DEF a
    <3>4. CASE \E k \in 1..Len(recent) : B[i] = A[k] + d
      <4>1. PICK k \in 1..Len(recent) : B[i] = A[k] + d
        BY <3>4
      <4>2. A[k] # x - Nth(m) /\ A[k] \in Nat
        BY <1>2, <1>3, <2>7, <3>1 DEF AgesFit
      <4>3. \A q \in Nat : q # x - Nth(m) => q + (y - x) # y - Nth(m)
        <5>1. x \in Int /\ y \in Int /\ Nth(m) \in Int
          BY <1>2, <1>4, <3>1, StreamConstants
        <5> QED BY <5>1
      <4> QED BY <4>1, <4>2, <4>3 DEF d
    <3> QED BY <1>1, <2>6, <3>3, <3>4 DEF Aged
  <2>8. AgesFit(B, recent', lastSeq') /\ Cong(lastSeq', y - 2 + seqOff)
    BY <1>1, <1>9, <2>1, <2>6
  <2> QED BY <1>4, <1>7, <1>14, <2>7, <2>8
<1>16. CASE ~(y > x)
  <2> DEFINE a == x - y
  <2>1. lastSeq' = lastSeq
    BY <1>1, <1>2, <1>3, <1>4, <1>11, <1>16, StreamConstants
  <2>2. a \in Nat /\ a < Gap
    <3>1. a \in Nat /\ a <= Lateness
      BY <1>2, <1>3, <1>4, <1>16, StreamConstants
    <3> HIDE DEF a
    <3> QED BY <3>1, GapIs, StreamConstants
  <2>3. Cong(seq, lastSeq - a)
    <3>1. Cong(seq - lastSeq, y - x) /\ Cong(lastSeq, lastSeq)
      BY <1>4, <1>10, CongSame
    <3>2. seq - lastSeq \in Int /\ y - x \in Int
      BY <1>4, <1>8, <1>11
    <3>3. Cong((seq - lastSeq) + lastSeq, (y - x) + lastSeq)
      BY <1>4, <3>1, <3>2, CongSum
    <3>4. (seq - lastSeq) + lastSeq = seq /\ (y - x) + lastSeq = lastSeq - a
      BY <1>2, <1>4, <1>8
    <3> QED BY <3>3, <3>4
  <2> DEFINE d == 0
  <2>4. Cong(lastSeq, lastSeq + d) /\ d \in Nat /\ d <= Gap
    <3>1. lastSeq + d = lastSeq
      BY <1>4
    <3> QED BY <1>4, <3>1, CongSame, GapIs
  <2>5. NotYet(A, recent, d, a)
    <3> SUFFICES ASSUME NEW i \in 1..Len(recent) PROVE A[i] + d # a
      BY DEF NotYet
    <3>1. A[i] \in Nat /\ A[i] # a
      BY <1>2, <1>3, <1>7 DEF AgesFit, y
    <3> HIDE DEF a
    <3> QED BY <3>1
  <2> HIDE DEF d, a
  <2>6. PICK B : /\ AgesFit(B, Remembered(recent, seq), lastSeq)
                 /\ Aged(B, Remembered(recent, seq), A, recent, d, a)
    <3>1. /\ recent \in Seq(Seqs) /\ Len(recent) <= Window /\ lastSeq \in Int /\ seq \in Int /\ seq \in Seqs
          /\ AgesFit(A, recent, lastSeq)
      BY <1>2, <1>4, <1>8
    <3>2. d \in Nat /\ a \in Nat /\ d <= Gap /\ a < Gap
      BY <2>2, <2>4
    <3> QED BY <2>3, <2>4, <2>5, <3>1, <3>2, AgesGrow
  <2>7. ASSUME NEW m \in held'[s], F <= Nth(m), NEW i \in 1..Len(recent') PROVE B[i] # x - Nth(m)
    <3>1. m \in held[s] /\ m # n /\ m \in Seqs /\ Nth(m) \in 0..MaxPackets
      BY <1>4, <1>5
    <3>2. Nth(m) # y
      BY <1>4, <3>1, NthOnce DEF y
    <3>3. CASE B[i] = a
      BY <1>2, <1>4, <3>1, <3>2, <3>3 DEF a
    <3>4. CASE \E k \in 1..Len(recent) : B[i] = A[k] + d
      <4>1. PICK k \in 1..Len(recent) : B[i] = A[k] + d
        BY <3>4
      <4>2. A[k] # x - Nth(m) /\ A[k] \in Nat
        BY <1>2, <1>3, <2>7, <3>1 DEF AgesFit
      <4> QED BY <4>1, <4>2 DEF d
    <3> QED BY <1>1, <2>6, <3>3, <3>4 DEF Aged
  <2>8. AgesFit(B, recent', lastSeq') /\ Cong(lastSeq', x - 2 + seqOff)
    BY <1>1, <1>3, <2>1, <2>6
  <2>9. P - 1 - x <= Lateness \/ \E p \in held'[s] : x < Nth(p) /\ Nth(p) <= x + Lateness + 1
    <3>1. ASSUME NEW p \in held[s], x < Nth(p) PROVE p \in held'[s]
      BY <1>5, <1>16, <3>1 DEF y
    <3> QED BY <1>3, <3>1
  <2> QED BY <1>2, <1>3, <1>14, <2>7, <2>8, <2>9
<1> QED BY <1>15, <1>16

\* Every step of the slot's stream keeps its invariant.
LEMMA NumberStepInv == NumberInv /\ StreamNext => NumberInv'
<1> SUFFICES ASSUME NumberInv, NEW s \in Senders, Produce(s) \/ AssignSlot(s) \/ \E n \in Seqs : WriteSlot(s, n)
             PROVE  NumberInv'
  BY DEF StreamNext
<1>1. CASE Produce(s)
  BY <1>1, ProduceKeeps
<1>2. CASE AssignSlot(s)
  BY <1>2, AssignKeeps
<1>3. ASSUME NEW n \in Seqs, WriteSlot(s, n) PROVE NumberInv'
  <2>1. n \in held[s] /\ held' = [held EXCEPT ![s] = @ \ {n}] /\ UNCHANGED <<produced, inSlot>>
    BY <1>3 DEF WriteSlot
  <2>2. CASE ~(inSlot = s /\ ~PredatesSwitch(n))
    <3>1. UNCHANGED <<fresh, first, guarding, seqOff, sentAny, lastSeq, recent>>
      BY <1>3, <2>2 DEF WriteSlot
    <3> QED BY <2>1, <2>2, <3>1, DropKeeps
  <2>3. CASE inSlot = s /\ ~PredatesSwitch(n)
    <3>1. SendOn(n)
      BY <1>3, <2>3 DEF WriteSlot
    <3>2. CASE fresh
      BY <2>1, <2>3, <3>1, <3>2, FirstKeeps
    <3>3. CASE ~fresh
      BY <2>1, <2>3, <3>1, <3>3, LaterKeeps
    <3> QED BY <3>2, <3>3
  <2> QED BY <2>2, <2>3
<1> QED BY <1>1, <1>2, <1>3

\* A step of another part leaves it alone.
LEMMA NumberStutterInv == NumberInv /\ UNCHANGED streamVars => NumberInv'
<1> SUFFICES ASSUME NumberInv, UNCHANGED streamVars PROVE NumberInv'
  OBVIOUS
<1>0. UNCHANGED <<produced, held, inSlot, fresh, first, guarding, seqOff, sentAny, lastSeq, recent>>
  BY DEF streamVars
<1>1. StreamTypeOK' /\ HeldInTime'
  BY <1>0 DEF NumberInv, StreamTypeOK, HeldInTime, Nth
<1>2. PICK A, x : AgesFit(A, recent, lastSeq) /\ x \in 0..MaxPackets /\ (~fresh => TenureFits(A, x))
  BY DEF NumberInv, NumbersFit
<1>3. ~fresh => TenureFits(A, x)'
  BY <1>0, <1>2, TenureNext DEF TenureFits
<1>4. NumbersFit'
  BY <1>0, <1>2, <1>3, NumbersNext
<1> QED BY <1>0, <1>1, <1>4 DEF NumberInv

\* What the run checks of the stream.
LEMMA NumberSafe == NumberInv => StreamTypeOK /\ NoNumberReused
<1> SUFFICES ASSUME NumberInv PROVE StreamTypeOK /\ NoNumberReused
  OBVIOUS
<1>1. PICK A : AgesFit(A, recent, lastSeq)
  BY DEF NumberInv, NumbersFit
<1>2. recent \in Seq(Seqs) /\ Len(recent) <= Window /\ lastSeq \in Int /\ StreamTypeOK
  BY StreamTypes DEF NumberInv
<1> QED BY <1>1, <1>2, AgesDiffer DEF NoNumberReused

--------------------------------------------------------------------------------
(* The parts together, as the run checks them.                               *)

RealtimeInv ==
  /\ part \in Parts
  /\ IndInv /\ FanInv /\ FlowInv
  /\ RoomsInv
  /\ SlotsInv
  /\ NumberInv
  /\ RelayInv
  /\ FlakeInv
  /\ AdmissionInv

\* Each part's invariant holds at first.
LEMMA RealtimeInitInv == RealtimeInit => RealtimeInv
BY InitIndex, FanInitInv, FlowInitInv, RoomsInitInv, SlotsInitInv, NumberInitInv, RelayInitInv, FlakeInitInv,
   AdmissionInitInv
   DEF RealtimeInit, RealtimeInv

\* A step of one part keeps what holds of it, and leaves the other parts alone.
LEMMA RealtimeStepInv == RealtimeInv /\ [RealtimeNext]_realtimeVars => RealtimeInv'
<1> SUFFICES ASSUME RealtimeInv, [RealtimeNext]_realtimeVars PROVE RealtimeInv'
  OBVIOUS
<1>0. part \in Parts /\ IndInv /\ FanInv /\ FlowInv /\ RoomsInv /\ SlotsInv /\ NumberInv /\ RelayInv /\ FlakeInv
      /\ AdmissionInv
  BY DEF RealtimeInv
<1>1. /\ UNCHANGED part
      /\ Next \/ UNCHANGED vars
      /\ VoiceNext \/ UNCHANGED voiceVars
      /\ SlotsNext \/ UNCHANGED slotVars
      /\ StreamNext \/ UNCHANGED streamVars
      /\ TurnNext \/ UNCHANGED turnVars
      /\ FlakeNext \/ UNCHANGED flakeVars
      /\ AdmissionNext \/ UNCHANGED admissionVars
  BY DEF RealtimeNext, realtimeVars
<1>2. IndInv' /\ FanInv' /\ FlowInv'
  BY <1>0, <1>1, IndexStep, FanStepInv, FanStutterInv, FlowStepInv, FlowStutterInv
<1>3. RoomsInv' /\ SlotsInv' /\ NumberInv'
  BY <1>0, <1>1, RoomsStepInv, RoomsStutterInv, SlotsStepInv, SlotsStutterInv, NumberStepInv, NumberStutterInv
<1>4. RelayInv' /\ FlakeInv' /\ AdmissionInv'
  BY <1>0, <1>1, RelayStepInv, RelayStutterInv, FlakeStepInv, FlakeStutterInv, AdmissionStepInv,
     AdmissionStutterInv
<1> QED BY <1>0, <1>1, <1>2, <1>3, <1>4 DEF RealtimeInv

\* What the parts promise holds in every state of every behaviour: the invariant is
\* inductive, and the theorems that follow rest on it.
THEOREM RealtimeInvariant == RealtimeSpec => []RealtimeInv
BY RealtimeInitInv, RealtimeStepInv, PTL DEF RealtimeSpec

\* Whatever the sizes of the queues, limits, clocks and sets, every part stays well typed: the bus
\* (bus.go Publish) and the fan-out's lanes (fanout.go) hold no more than their queues though
\* publishers never wait.
THEOREM RealtimeWellTyped == RealtimeSpec => []RealtimeTypeOK
<1>1. RealtimeInv => RealtimeTypeOK
  BY FanSafe, NumberSafe DEF RealtimeInv, RealtimeTypeOK, RoomsInv, SlotsInv, RelayInv, FlakeInv, AdmissionInv
<1> QED BY <1>1, RealtimeInvariant, PTL

\* However transactions, the bus, the lanes and the sessions interleave, a session is told of an event
\* of a guild only if its account was still a member at some moment after the event's commit, and of no
\* guild the account has never been in (fanout.go: the audience check; session.go: applyLocked).
THEOREM ToldOwnAlways == RealtimeSpec => []ToldOfOwnOnly
<1>1. RealtimeInv => ToldOfOwnOnly
  BY FanSafe DEF RealtimeInv
<1> QED BY <1>1, RealtimeInvariant, PTL

\* If no event is dropped and none overtakes another, then once nothing is on its way a READY session
\* has every event that a guild READY listed has seen since its data was read, and its guild set is its
\* account's memberships, wherever between registering, reading and becoming ready the changes fell
\* (session.go: becomeReady, applyLocked); and if none overtook another, a guild's events are in its
\* stream in the order of their commits (fanout.go: onEvent).
THEOREM NothingIsMissed == RealtimeSpec => []NothingMissed
<1>1. RealtimeInv => NothingMissed
  BY FlowSafe DEF RealtimeInv
<1> QED BY <1>1, RealtimeInvariant, PTL

\* Somebody evicted from a voice room (SFU RemoveUser, CloseRoom) holds no connection to it on a
\* ticket issued before the eviction, whichever of the admission and the eviction came first.
THEOREM EvictedStayOutAlways == RealtimeSpec => []EvictedStayOut
<1>1. RealtimeInv => EvictedStayOut
  BY DEF RealtimeInv, RoomsInv
<1> QED BY <1>1, RealtimeInvariant, PTL

\* No listener hears whom an exclusion bars once it is applied, and once nothing is owed a listener
\* knows whose voice each of its slots carries (voice selection and slot maps).
THEOREM HeardAsToldAlways == RealtimeSpec => []HeardAsTold
<1>1. RealtimeInv => HeardAsTold
  BY DEF RealtimeInv, SlotsInv, HeardAsTold
<1> QED BY <1>1, RealtimeInvariant, PTL

\* The ids a node mints only increase, and none is another node's, wherever clocks stand still, go
\* back or run out of sequence numbers (snowflake.go Generator.Next).
THEOREM IdsAlwaysIncrease == RealtimeSpec => IdsIncrease
<1>1. RealtimeInv /\ [RealtimeNext]_realtimeVars => [IdsIncreaseStep]_flakeVars
  <2> SUFFICES ASSUME RealtimeInv, [RealtimeNext]_realtimeVars PROVE IdsIncreaseStep \/ UNCHANGED flakeVars
    OBVIOUS
  <2>1. FlakeInv /\ (FlakeNext \/ UNCHANGED flakeVars)
    BY DEF RealtimeInv, RealtimeNext, realtimeVars
  <2> QED BY <2>1, FlakeStepIncreases
<1> QED BY <1>1, RealtimeInvariant, PTL DEF RealtimeSpec, IdsIncrease, IdsIncreaseStep

\* No two packets within a receiver's window go out under one sequence number, however often the slot
\* changes hands, however late packets come and wherever numbers wrap (slot.go assign, write); a relay is
\* taken off the TURN server's counts exactly once whichever of its ends closes it, a gateway socket's
\* slot is given back exactly once whichever way its handler ends, and a shutdown reaches every socket
\* still served.
THEOREM EverythingAccountedFor == RealtimeSpec => []AllAccountedFor
<1>1. RealtimeInv => AllAccountedFor
  BY NumberSafe DEF RealtimeInv, AllAccountedFor, RelayInv, AdmissionInv
<1> QED BY <1>1, RealtimeInvariant, PTL
================================================================================
