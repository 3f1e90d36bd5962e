------------------------------ MODULE DaemonCache ------------------------------
(***************************************************************************)
(* The daemon's message cache: a buffer of recent messages for every       *)
(* channel an event arrived for, the channels in order of activity, and a  *)
(* byte total kept by hand against a budget (daemon/internal/state).       *)
(***************************************************************************)
EXTENDS Naturals, Sequences, FiniteSets, SequencesExt

CONSTANTS
  CachedChannels,      \* the channels the instance sends messages of
  CachedIds,           \* message ids
  Sizes,               \* what a payload is charged
  MessagesPerChannel, TotalBytes  \* Limits

ASSUME CacheAssumption ==
  IsFiniteSet(CachedChannels) /\ Sizes \subseteq Nat /\ MessagesPerChannel \in Nat \ {0} /\ TotalBytes \in Nat

VARIABLES
  buffers,   \* channel -> its entries, oldest first, for the channels with a buffer
  recency,   \* those channels, most recently active first
  bytes      \* the running total

cacheVars == <<buffers, recency, bytes>>

Entry == [id : CachedIds, size : Sizes]

\* The sum of a function's values, counted as f[x] things for every x.
SumOf(f) == Cardinality(UNION {{x} \X (1..f[x]) : x \in DOMAIN f})
SizeOf(entries) == SumOf([i \in DOMAIN entries |-> entries[i].size])

\* A cache as one value, which the helpers below take and return.
Cache == [buffers |-> buffers, recency |-> recency, bytes |-> bytes]
Becomes(c) == buffers' = c.buffers /\ recency' = c.recency /\ bytes' = c.bytes
EmptyCache == [buffers |-> <<>>, recency |-> <<>>, bytes |-> 0]

CacheInit == buffers = <<>> /\ recency = <<>> /\ bytes = 0

Buffered(c) == DOMAIN c.buffers
Without(f, x) == [y \in DOMAIN f \ {x} |-> f[y]]
With(f, x, v) == [y \in DOMAIN f \cup {x} |-> IF y = x THEN v ELSE f[y]]

\* A channel out of its place in recency.
PlaceOf(s, ch) == CHOOSE i \in DOMAIN s : s[i] = ch
TakenOut(s, ch) == RemoveAt(s, PlaceOf(s, ch))

-----------------------------------------------------------------------------
TrimOldest(c, ch) ==
  [c EXCEPT !.buffers[ch] = Tail(@), !.bytes = @ - Head(c.buffers[ch]).size]

DropChannel(c, ch) ==
  IF ch \notin Buffered(c) THEN c
  ELSE [buffers |-> Without(c.buffers, ch), recency |-> TakenOut(c.recency, ch),
        bytes |-> c.bytes - SizeOf(c.buffers[ch])]

\* One turn of enforceBudgetLocked's loop: the quietest channel goes whole, unless it is the one
\* just written to, which loses its oldest message and keeps its last.
Evict(c, keep) ==
  IF Last(c.recency) # keep THEN DropChannel(c, Last(c.recency))
  ELSE IF Len(c.buffers[keep]) <= 1 THEN c ELSE TrimOldest(c, keep)

\* The loop ends within as many turns as the cache has messages and channels.
Turns == Cardinality(CachedChannels) * (MessagesPerChannel + 1)
EnforceBudget(c0, keep) ==
  LET turn[n \in 0..Turns] ==
        IF n = 0 THEN c0
        ELSE LET c == turn[n - 1] IN IF c.bytes > TotalBytes THEN Evict(c, keep) ELSE c
  IN  turn[Turns]

-----------------------------------------------------------------------------
\* MESSAGE_CREATE. A replayed message changes nothing; a new one makes its channel the most recent.
AddMessage(ch, e) ==
  LET opened == IF ch \in DOMAIN buffers THEN Cache
                ELSE [Cache EXCEPT !.buffers = With(buffers, ch, <<>>), !.recency = <<ch>> \o recency]
      moved == [opened EXCEPT !.recency = <<ch>> \o TakenOut(@, ch),
                              !.buffers[ch] = Append(@, e), !.bytes = @ + e.size]
      trimmed == IF Len(moved.buffers[ch]) > MessagesPerChannel THEN TrimOldest(moved, ch) ELSE moved
  IN  IF \E i \in DOMAIN opened.buffers[ch] : opened.buffers[ch][i].id = e.id
      THEN Becomes(opened) ELSE Becomes(EnforceBudget(trimmed, ch))

Places(ch, id) == {i \in DOMAIN buffers[ch] : buffers[ch][i].id = id}

\* MESSAGE_UPDATE, which leaves the channel where it stands in recency.
ReplaceMessage(ch, e) ==
  /\ ch \in DOMAIN buffers
  /\ \E i \in Places(ch, e.id) :
       Becomes(EnforceBudget([Cache EXCEPT !.buffers[ch][i] = e,
                                           !.bytes = @ + e.size - buffers[ch][i].size], ch))

\* MESSAGE_DELETE. The buffer stays, empty or not.
RemoveMessage(ch, id) ==
  /\ ch \in DOMAIN buffers
  /\ \E i \in Places(ch, id) :
       Becomes([Cache EXCEPT !.buffers[ch] = RemoveAt(@, i), !.bytes = @ - buffers[ch][i].size])

\* CHANNEL_DELETE.
ForgetChannel(ch) == ch \in DOMAIN buffers /\ Becomes(DropChannel(Cache, ch))

\* GUILD_PERMISSIONS_UPDATE, GUILD_DELETE, Begin and End.
DropMessages == Becomes(EmptyCache)

CacheNext ==
  \/ \E ch \in CachedChannels :
       \/ \E e \in Entry : AddMessage(ch, e) \/ ReplaceMessage(ch, e)
       \/ \E id \in CachedIds : RemoveMessage(ch, id)
       \/ ForgetChannel(ch)
  \/ DropMessages

CacheSpec == CacheInit /\ [][CacheNext]_cacheVars

-----------------------------------------------------------------------------
CacheTypeOK ==
  /\ DOMAIN buffers \subseteq CachedChannels
  /\ \A ch \in DOMAIN buffers : buffers[ch] \in Seq(Entry) /\ Len(buffers[ch]) <= MessagesPerChannel
  /\ recency \in Seq(CachedChannels) /\ bytes \in Nat

\* The hand-kept totals never drift: the running total is what the buffers hold, and recency
\* names exactly the channels that have one, once each (addLocked, replaceLocked, removeLocked,
\* enforceBudgetLocked, state.go:299-391).
TotalsExact ==
  /\ bytes = SumOf([ch \in DOMAIN buffers |-> SizeOf(buffers[ch])])
  /\ Len(recency) = Cardinality(DOMAIN buffers) /\ ToSet(recency) = DOMAIN buffers

\* "Only the channel just written to is left, and it alone is over budget" (state.go:341), and
\* "every limit here holds whatever it sends" (state.go:62-63): the budget is exceeded only by one
\* channel holding one message too large for it.
OverBudgetAlone == bytes > TotalBytes => Len(recency) = 1 /\ Len(buffers[recency[1]]) = 1
=============================================================================
