------------------------------- MODULE Snowflake -------------------------------
(***************************************************************************)
(* Ids minted by the generators of several nodes whose clocks step back.   *)
(* Source: platform/snowflake/snowflake.go.                                *)
(*                                                                         *)
(* A generator lives as long as its process; the widths of the fields are  *)
(* parameters, and an id is the integer the fields are packed into.        *)
(***************************************************************************)
EXTENDS Naturals, FiniteSets

CONSTANTS
  maxNode, maxSequence,
  MaxInstant,          \* the latest instant a clock shows; maxTimestamp is one before it
  MaxIds               \* ids minted in a behaviour
ASSUME SnowflakeAssumption == {maxNode, maxSequence, MaxInstant} \subseteq Nat

VARIABLES
  wall,        \* [nodes -> what its clock shows]
  lastMS, sequence,
  ids,         \* every id minted
  newest       \* [nodes -> the last id it minted]

flakeVars == <<wall, lastMS, sequence, ids, newest>>

Nodes == 0..maxNode
maxTimestamp == MaxInstant - 1

FlakeTypeOK ==
  /\ wall \in [Nodes -> 0..MaxInstant] /\ lastMS \in [Nodes -> 0..MaxInstant]
  /\ sequence \in [Nodes -> 0..maxSequence]
  /\ ids \subseteq Nat /\ newest \in [Nodes -> Nat]

FlakeInit ==
  /\ wall = [n \in Nodes |-> 0] /\ lastMS = [n \in Nodes |-> 0] /\ sequence = [n \in Nodes |-> 0]
  /\ ids = {} /\ newest = [n \in Nodes |-> 0]

Packed(ms, n, seq) == (ms * (maxNode + 1) + n) * (maxSequence + 1) + seq

StepsTrusting(n) ==
  IF wall[n] # lastMS[n] THEN <<wall[n], 0>> ELSE <<lastMS[n], sequence[n] + 1>>
\* Next: a new millisecond starts over; the same one, or an earlier one, counts on in the last.
Steps(n) == IF wall[n] > lastMS[n] THEN <<wall[n], 0>> ELSE <<lastMS[n], sequence[n] + 1>>

\* Next with its lock held; when the sequence runs out it waits for the clock to pass lastMS.
MintId(n) ==
  LET to == Steps(n) IN
  /\ to[2] <= maxSequence /\ Cardinality(ids) < MaxIds
  /\ lastMS' = [lastMS EXCEPT ![n] = to[1]] /\ sequence' = [sequence EXCEPT ![n] = to[2]]
  /\ IF to[1] > maxTimestamp THEN UNCHANGED <<ids, newest>>      \* ErrEpochExhausted
     ELSE LET id == Packed(to[1], n, to[2]) IN
          ids' = ids \cup {id} /\ newest' = [newest EXCEPT ![n] = id]
  /\ UNCHANGED wall

\* The clock moves on, or is set back.
Clock(n, t) ==
  /\ t \in {wall[n] + 1, wall[n] - 1} \cap (0..MaxInstant)
  /\ wall' = [wall EXCEPT ![n] = t]
  /\ UNCHANGED <<lastMS, sequence, ids, newest>>

FlakeNext == \E n \in Nodes : MintId(n) \/ \E t \in 0..MaxInstant : Clock(n, t)
FlakeSpec == FlakeInit /\ [][FlakeNext]_flakeVars

\* A node's ids only ever increase, so none is minted twice, whatever its clock does and wherever
\* its sequence runs out; and no id is one another node has minted.
IdsIncrease ==
  [][\A n \in Nodes : sequence'[n] # sequence[n] \/ lastMS'[n] # lastMS[n] =>
       \/ lastMS'[n] > maxTimestamp
       \/ newest'[n] > newest[n] /\ newest'[n] \notin ids]_flakeVars
===============================================================================
