--------------------------- MODULE ReliableStream ---------------------------
(***************************************************************************)
(* What the gateway promises a client about its event stream: it sees the  *)
(* session's events from the first, in order and without a gap, or it is   *)
(* told that a fresh session begins and starts over.                       *)
(***************************************************************************)
EXTENDS Naturals, Sequences

VARIABLE seen   \* the session's events the client has handed on since its session began

Init == seen = <<>>

\* The next event of the session, and no other.
Receive == seen' = Append(seen, Len(seen) + 1)

\* A fresh session begins, and the client is told first.
Begin == seen' = <<>>

Next == Receive \/ Begin

Spec == Init /\ [][Next]_seen
=============================================================================
