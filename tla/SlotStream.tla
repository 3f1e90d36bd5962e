------------------------------ MODULE SlotStream ------------------------------
(***************************************************************************)
(* The RTP stream of one slot while senders take turns in it.  Source:     *)
(* voice/slot.go (assign, write).                                          *)
(*                                                                         *)
(* The senders' sequence numbers are rewritten so the receiver sees one    *)
(* stream.  They wrap at Wrap (2^16 in the code), packets arrive late, and *)
(* "newer" is a signed comparison of 16 bits: half the space.              *)
(***************************************************************************)
EXTENDS Integers, Sequences

CONSTANTS
  Senders,
  Wrap,            \* 2^16 in the code
  switchGuard,     \* how far past its first packet a sender is guarded
  MaxPackets,      \* packets a sender sends in a behaviour
  Lateness,        \* how many packets a late one may come after its successor
  Window           \* how many of the packets sent the model remembers
ASSUME SlotStreamAssumption ==
  {Wrap, switchGuard, MaxPackets, Lateness, Window} \subseteq Nat
  /\ Lateness <= switchGuard /\ 2 * (switchGuard + Lateness + 1) < Wrap
  /\ 2 * MaxPackets < Wrap /\ Window * (2 * Lateness + 1) <= Wrap

VARIABLES
  produced,   \* [Senders -> the next sequence number it sends]
  held,       \* [Senders -> the packets of it the network still holds]
  inSlot,     \* the sender in the slot
  fresh,      \* nothing of the current sender has gone out yet
  first, guarding, seqOff,
  sentAny, lastSeq,
  recent      \* the sequence numbers of the last Window packets sent

streamVars == <<produced, held, inSlot, fresh, first, guarding, seqOff, sentAny, lastSeq, recent>>

Seqs == 0..(Wrap - 1)
\* int16(a - b): positive when a is newer.
Since(a, b) == LET d == (a - b) % Wrap IN IF 2 * d >= Wrap THEN d - Wrap ELSE d

StreamTypeOK ==
  /\ produced \in [Senders -> Seqs] /\ held \in [Senders -> SUBSET Seqs]
  /\ inSlot \in Senders /\ {fresh, guarding, sentAny} \subseteq BOOLEAN
  /\ {first, seqOff, lastSeq} \subseteq Seqs /\ recent \in Seq(Seqs)

StreamInit ==
  /\ produced = [s \in Senders |-> Wrap - 2] /\ held = [s \in Senders |-> {}]
  /\ inSlot \in Senders /\ fresh = TRUE /\ guarding = FALSE /\ sentAny = FALSE
  /\ first = 0 /\ seqOff = 0 /\ lastSeq = 0 /\ recent = <<>>

\* A sender's packet is in the network.  What is held too long is lost; the model keeps the
\* sender in the slot from losing any, since a run of losses of half the number space, which
\* 2^16 makes half a minute of speech or more, would be reached at once in a small one.
Produce(s) ==
  LET n == produced[s]
      late == {m \in held[s] : Since(n, m) > Lateness} IN
  /\ inSlot = s => late = {}
  /\ Since(n, Wrap - 2) < MaxPackets
  /\ produced' = [produced EXCEPT ![s] = (n + 1) % Wrap]
  /\ held' = [held EXCEPT ![s] = (@ \ late) \cup {n}]
  /\ UNCHANGED <<inSlot, fresh, first, guarding, seqOff, sentAny, lastSeq, recent>>

AssignSlot(s) ==
  /\ inSlot # s /\ inSlot' = s /\ fresh' = TRUE
  /\ UNCHANGED <<produced, held, first, guarding, seqOff, sentAny, lastSeq, recent>>

PredatesNothing(n) == n # n
\* A packet older than the sender's first in this tenure, for as long as that can be told.
PredatesSwitch(n) == ~fresh /\ guarding /\ Since(n, first) < 0

\* The packet goes out: the first of a tenure continues from the last packet out.
SendOn(n) ==
  LET off == IF ~fresh THEN seqOff ELSE IF sentAny THEN (lastSeq + 1 - n) % Wrap ELSE 0
      seq == (n + off) % Wrap IN
  /\ fresh' = FALSE /\ seqOff' = off /\ sentAny' = TRUE
  /\ first' = IF fresh THEN n ELSE first
  /\ guarding' = (fresh \/ (guarding /\ Since(n, first) <= switchGuard))
  /\ lastSeq' = IF ~sentAny \/ Since(seq, lastSeq) > 0 THEN seq ELSE lastSeq
  /\ recent' = LET all == Append(recent, seq) IN
               IF Len(all) > Window THEN Tail(all) ELSE all

\* write: a packet of the sender in the slot arrives, in order or late.
WriteSlot(s, n) ==
  /\ n \in held[s] /\ held' = [held EXCEPT ![s] = @ \ {n}]
  /\ IF inSlot = s /\ ~PredatesSwitch(n) THEN SendOn(n)
     ELSE UNCHANGED <<fresh, first, guarding, seqOff, sentAny, lastSeq, recent>>
  /\ UNCHANGED <<produced, inSlot>>

StreamNext == \E s \in Senders : Produce(s) \/ AssignSlot(s) \/ \E n \in Seqs : WriteSlot(s, n)

StreamSpec == StreamInit /\ [][StreamNext]_streamVars

\* The receiver sees one stream: whoever is in the slot, however often the sender changes and
\* however late packets come, no two packets near each other go out under one sequence number,
\* also where a sender's numbers, or the slot's, wrap.
NoNumberReused ==
  \A i, j \in 1..Len(recent) : i # j => recent[i] # recent[j]
===============================================================================
