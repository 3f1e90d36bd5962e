------------------------------ MODULE VoiceSlots ------------------------------
(***************************************************************************)
(* Whose voice fills which slot of whom in one voice room.  Sources:       *)
(* voice/room.go (exclude, assignLocked, choose, mayReceive, place),       *)
(* voice/datachannel.go (hello, subscribe, the slot map's versions),       *)
(* voice/source.go (run), voice/slot.go (assign, the check in write).      *)
(*                                                                         *)
(* A source forwards without the room's lock: it loads the list of slots   *)
(* it fills and writes to each, and the slot alone decides whether the     *)
(* source is still its own.  One track per connection, audio only.         *)
(***************************************************************************)
EXTENDS Naturals, Sequences, FiniteSets, FiniteSetsExt, SequencesExt

CONSTANTS
  Peers,          \* the connections of the room
  Talkers,        \* those whose offer sends a track
  Listeners,      \* those whose offer has SlotCount slots to receive with
  UserOf(_),      \* the user behind a connection
  SlotCount, Loudness,
  NoPeer          \* an empty slot
ASSUME NoPeerIsNone == NoPeer \notin Peers /\ Talkers \subseteq Peers /\ Listeners \subseteq Peers
ASSUME SlotsAssumption == SlotCount \in Nat /\ Loudness \subseteq Nat /\ Loudness # {}

VARIABLES
  stage,      \* [Peers -> hello: "silent", "in", "ready" or "done"]
  loud,       \* [Talkers -> the loudness of its source]
  excluded,   \* [users -> the users the server excludes for them]
  sub,        \* [Listeners -> its subscription: users pinned, dropped, and a cap]
  slots,      \* [Listeners -> [1..SlotCount -> the source in the slot]]
  fills,      \* [Talkers -> the slots its source was last told it fills]
  loaded,     \* [Talkers -> the slots a packet of its source has still to be written to]
  slotMap,    \* [Listeners -> the map last computed for it]
  sentMap,    \* [Listeners -> the map it was last sent, <<>> before any]
  owed,       \* the connections a selection has moved and not flushed yet
  applied,    \* what excluded was when the slots were last chosen
  wrote       \* the receiver and the source of the packet just forwarded

slotVars == <<stage, loud, excluded, sub, slots, fills, loaded, slotMap, sentMap, owed, applied, wrote>>

VoiceUsers == {UserOf(p) : p \in Peers}
AllSlots   == Listeners \X (1..SlotCount)
NoSub      == [pin |-> {}, drop |-> {}, cap |-> SlotCount]
Empty      == [i \in 1..SlotCount |-> NoPeer]
Nobody     == <<NoPeer, NoPeer>>

SlotsTypeOK ==
  /\ stage \in [Peers -> {"silent", "in", "ready", "done"}]
  /\ loud \in [Talkers -> Loudness] /\ excluded \in [VoiceUsers -> SUBSET VoiceUsers]
  /\ sub \in [Listeners -> [pin: SUBSET VoiceUsers, drop: SUBSET VoiceUsers, cap: 0..SlotCount]]
  /\ slots \in [Listeners -> [1..SlotCount -> Talkers \cup {NoPeer}]]
  /\ fills \in [Talkers -> SUBSET AllSlots] /\ loaded \in [Talkers -> SUBSET AllSlots]
  /\ slotMap = slots /\ sentMap \in [Listeners -> {<<>>} \cup [1..SlotCount -> Talkers \cup {NoPeer}]]
  /\ owed \subseteq Listeners /\ wrote \in (Listeners \X Talkers) \cup {Nobody}
  /\ applied \in [VoiceUsers -> SUBSET VoiceUsers]

SlotsInit ==
  /\ stage = [p \in Peers |-> "silent"] /\ loud = [p \in Talkers |-> CHOOSE l \in Loudness : TRUE]
  /\ excluded = [u \in VoiceUsers |-> {}] /\ applied = excluded
  /\ sub = [p \in Listeners |-> NoSub] /\ slots = [p \in Listeners |-> Empty]
  /\ fills = [p \in Talkers |-> {}] /\ loaded = fills
  /\ slotMap = slots /\ sentMap = [p \in Listeners |-> <<>>]
  /\ owed = {} /\ wrote = Nobody

------------------------------------------------------------------------------
\* mayReceive: never a track of one's own user, never an excluded user's.
MayReceive(p, src) == UserOf(src) # UserOf(p) /\ UserOf(src) \notin excluded[UserOf(p)]

Holding(p, src) == \E i \in 1..SlotCount : slots[p][i] = src

ScoreAlike(p, src) == IF Holding(p, src) THEN 3 * loud[src] ELSE 4 * loud[src]
\* choose's score: whoever holds a slot counts as louder by a quarter.
Score(p, src) == IF Holding(p, src) THEN 5 * loud[src] ELSE 4 * loud[src]

Arrival == SetToSeq(Talkers)      \* the order in which the sources came
Before(a, b) == \E i, j \in 1..Len(Arrival) : i < j /\ Arrival[i] = a /\ Arrival[j] = b

\* choose's order: the pinned first, then by score, a tie to the holder and then to the first.
Preferred(p, a, b) ==
  LET rank(s) == <<IF UserOf(s) \in sub[p].pin THEN 1 ELSE 0,
                   IF UserOf(s) \in sub[p].pin THEN 0 ELSE Score(p, s),
                   IF UserOf(s) \notin sub[p].pin /\ Holding(p, s) THEN 1 ELSE 0>>
  IN IF rank(a) = rank(b) THEN Before(a, b)
     ELSE LET k == Min({i \in 1..3 : rank(a)[i] # rank(b)[i]}) IN rank(a)[k] > rank(b)[k]

\* choose, cut to the cap and to the slots there are.
Chosen(p) ==
  LET candidates == {s \in Talkers : /\ stage[p] # "silent" /\ stage[s] # "silent"
                                     /\ MayReceive(p, s) /\ UserOf(s) \notin sub[p].drop}
      ahead(s) == {t \in candidates \ {s} : Preferred(p, t, s)}
  IN {s \in candidates : Cardinality(ahead(s)) < sub[p].cap /\ Cardinality(ahead(s)) < SlotCount}

\* place: a source already in a slot stays in it; the newcomers, in choose's order, take the
\* free ones in theirs.
Place(p) ==
  LET keeps(i) == slots[p][i] \in Chosen(p)
      free == {i \in 1..SlotCount : ~keeps(i)}
      new == {s \in Chosen(p) : ~Holding(p, s)}
      turn(s) == Cardinality({t \in new \ {s} : Preferred(p, t, s)})
      takes(i) == {s \in new : turn(s) = Cardinality({j \in free : j < i})}
  IN [i \in 1..SlotCount |->
        IF keeps(i) THEN slots[p][i]
        ELSE IF takes(i) = {} THEN NoPeer ELSE CHOOSE s \in takes(i) : TRUE]

\* assignLocked, under the room's lock: every slot chosen again, every source told.
Assign ==
  LET placed == [p \in Listeners |-> Place(p)] IN
  /\ slots' = placed /\ slotMap' = placed /\ applied' = excluded
  /\ fills' = [s \in Talkers |-> {x \in AllSlots : placed[x[1]][x[2]] = s}]
  /\ owed' = owed \cup {p \in Listeners : slotMap[p] # placed[p]}
  /\ wrote' = Nobody

\* changed, on the room's tick and after whatever can change who fills a slot.
Changed == Assign /\ UNCHANGED <<stage, loud, excluded, sub, loaded, sentMap>>

\* flushSlots: the map as it is by now, and only to a client that has said hello.
FlushSlots(p) ==
  sentMap' = IF p \in Listeners /\ stage[p] \in {"ready", "done"}
             THEN [sentMap EXCEPT ![p] = slotMap[p]] ELSE sentMap

Flush(p) ==
  /\ p \in owed /\ owed' = owed \ {p} /\ FlushSlots(p) /\ wrote' = Nobody
  /\ UNCHANGED <<stage, loud, excluded, sub, slots, fills, loaded, slotMap, applied>>

\* onHello: the connection takes part, and a selection follows; then ready; then its map.
HelloIn(p) ==
  /\ stage[p] = "silent" /\ stage' = [stage EXCEPT ![p] = "in"] /\ wrote' = Nobody
  /\ UNCHANGED <<loud, excluded, sub, slots, fills, loaded, slotMap, sentMap, owed, applied>>

HelloReady(p) ==
  /\ stage[p] = "in" /\ stage' = [stage EXCEPT ![p] = "ready"] /\ wrote' = Nobody
  /\ UNCHANGED <<loud, excluded, sub, slots, fills, loaded, slotMap, sentMap, owed, applied>>

HelloFlush(p) ==
  /\ stage[p] = "ready" /\ stage' = [stage EXCEPT ![p] = "done"] /\ wrote' = Nobody
  /\ FlushSlots(p)
  /\ UNCHANGED <<loud, excluded, sub, slots, fills, loaded, slotMap, owed, applied>>

\* onSubscribe: taken up by the next tick.
OnSubscribe(p, s) ==
  /\ stage[p] = "done" /\ sub' = [sub EXCEPT ![p] = s] /\ wrote' = Nobody
  /\ UNCHANGED <<stage, loud, excluded, slots, fills, loaded, slotMap, sentMap, owed, applied>>

\* SetExclusion, before the selection it then runs.
Exclude(u, users) ==
  /\ excluded' = [excluded EXCEPT ![u] = users] /\ wrote' = Nobody
  /\ UNCHANGED <<stage, loud, sub, slots, fills, loaded, slotMap, sentMap, owed, applied>>

\* hear: the source grows louder or quieter.
Hear(p, l) ==
  /\ loud[p] # l /\ loud' = [loud EXCEPT ![p] = l] /\ wrote' = Nobody
  /\ UNCHANGED <<stage, excluded, sub, slots, fills, loaded, slotMap, sentMap, owed, applied>>

\* run reads a packet and loads the slots it is for.
LoadSlots(p) ==
  /\ loaded[p] = {} /\ fills[p] # {} /\ loaded' = [loaded EXCEPT ![p] = fills[p]]
  /\ wrote' = Nobody
  /\ UNCHANGED <<stage, loud, excluded, sub, slots, fills, slotMap, sentMap, owed, applied>>

WriteUnchecked(p, x) == p = p
\* write's check, under the slot's own lock.
StillInSlot(p, x) == slots[x[1]][x[2]] = p

Write(p, x) ==
  /\ x \in loaded[p] /\ loaded' = [loaded EXCEPT ![p] = @ \ {x}]
  /\ wrote' = IF StillInSlot(p, x) THEN <<x[1], p>> ELSE Nobody
  /\ UNCHANGED <<stage, loud, excluded, sub, slots, fills, slotMap, sentMap, owed, applied>>

SlotsNext ==
  \/ Changed
  \/ \E p \in Peers : HelloIn(p)
  \/ \E p \in Talkers :
       \/ LoadSlots(p)
       \/ \E l \in Loudness : Hear(p, l)
       \/ \E x \in AllSlots : Write(p, x)
  \/ \E p \in Listeners :
       \/ HelloReady(p) \/ HelloFlush(p) \/ Flush(p)   \* what others are told is about no slot
       \/ OnSubscribe(p, NoSub) \/ OnSubscribe(p, [NoSub EXCEPT !.cap = 0])
       \/ Exclude(UserOf(p), {})
       \/ \E s \in Talkers : \/ OnSubscribe(p, [NoSub EXCEPT !.pin = {UserOf(s)}])
                            \/ OnSubscribe(p, [NoSub EXCEPT !.drop = {UserOf(s)}])
                            \/ Exclude(UserOf(p), {UserOf(s)})

SlotsSpec == SlotsInit /\ [][SlotsNext]_slotVars

------------------------------------------------------------------------------
\* Once the selection that SetExclusion runs is over, no packet of the excluded user reaches
\* the receiver any more, not even one whose slots were loaded before; and nobody is ever sent
\* a track of their own user.
ExcludedIsNotForwarded ==
  wrote # Nobody => /\ UserOf(wrote[1]) # UserOf(wrote[2])
                    /\ UserOf(wrote[2]) \notin applied[UserOf(wrote[1])]

\* Choosing again with nothing changed moves nobody: a tick in a quiet room publishes nothing,
\* and two equal voices do not take a slot from each other in turn.
SelectionSettles == [][Changed => \A p \in Listeners : Place(p)' = slots'[p]]_slotVars

\* A client that has finished its hello and is owed no flush has been sent the map its slots
\* follow: the one selection whose flush was skipped because hello was under way is made good.
MapIsKnown == \A p \in Listeners : stage[p] = "done" /\ p \notin owed => sentMap[p] = slotMap[p]
===============================================================================
