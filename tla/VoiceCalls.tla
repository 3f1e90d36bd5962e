------------------------------ MODULE VoiceCalls ------------------------------
(***************************************************************************)
(* The daemon's voice calls: Voice (one call at a time), the goroutine     *)
(* that runs a call, and the call's worker process, from its HELLO to the  *)
(* moment it is reaped. A call is its number, and stands for its channel.  *)
(***************************************************************************)
EXTENDS Naturals, FiniteSets

CONSTANTS
  Joiners,           \* clients that may ask for a call at once
  MaxCalls,          \* calls
  MaxVoiceSignIns    \* sign-ins

ASSUME VoiceAssumption == MaxCalls \in Nat /\ MaxVoiceSignIns \in Nat

VARIABLES
  voiceSignIn,   \* the session's sign-in now; 0 when signed out
  joiner,        \* client -> its Join
  calls,         \* call -> the call
  talking,       \* Voice.current; 0 for none
  voiceStatus,   \* Voice.status
  told,          \* the status Changed was last told
  unpublished,   \* a publish is still to run
  closing        \* Close: not called, past its flag, past its Leave

voiceCallVars == <<voiceSignIn, joiner, calls, talking, voiceStatus, told, unpublished, closing>>

CallIds == 1..MaxCalls
VoiceIdle == [state |-> "idle", call |-> 0]
NoCall == [at |-> "none", signIn |-> 0, worker |-> "none", cancelled |-> FALSE, asked |-> FALSE]
NoJoin == [at |-> "idle", signIn |-> 0, waits |-> 0]

\* The stages of a call's goroutine and of its worker process.
CallStages == {"none", "route", "start", "hello", "offer", "answer", "ready", "incall", "failing", "done"}
WorkerUp == {"starting", "joined", "offered", "answered", "ready"}

VoiceCallsInit ==
  /\ voiceSignIn = 0 /\ joiner = [j \in Joiners |-> NoJoin]
  /\ calls = [c \in CallIds |-> NoCall] /\ talking = 0
  /\ voiceStatus = VoiceIdle /\ told = VoiceIdle /\ unpublished = FALSE /\ closing = "open"

-----------------------------------------------------------------------------
(* The session, which a call is joined under.                              *)

SignInForVoice ==
  /\ \E g \in 1..MaxVoiceSignIns :
       /\ g > voiceSignIn
       /\ \A j \in Joiners : joiner[j].signIn < g
       /\ \A c \in CallIds : calls[c].signIn < g
       /\ voiceSignIn' = g
  /\ UNCHANGED <<joiner, calls, talking, voiceStatus, told, unpublished, closing>>

SignOutOfVoice ==
  /\ voiceSignIn # 0 /\ voiceSignIn' = 0
  /\ UNCHANGED <<joiner, calls, talking, voiceStatus, told, unpublished, closing>>

SignInOver(g) == g # voiceSignIn

-----------------------------------------------------------------------------
(* Leaving: leave(c), which a Leave, a Join, a Close and the end of the    *)
(* sign-in share. c.finished is the call's stage being "done".             *)

SetStatus(s) == voiceStatus' = s /\ unpublished' = TRUE

\* Mutant: the worker is asked to leave, and the call is not cancelled.
LeftWithoutCancel(c) == [calls EXCEPT ![c].asked = calls[c].worker \in WorkerUp \ {"starting"}]

\* What leave does to the call itself: its context is cancelled, and its worker, if the call has one
\* yet, is asked to leave. A worker that has not said HELLO is not the call's yet.
LeftCall(c) ==
  [calls EXCEPT ![c].cancelled = TRUE, ![c].asked = @ \/ calls[c].worker \in WorkerUp \ {"starting"}]

LeaveCall(c) ==
  /\ talking' = 0 /\ SetStatus(VoiceIdle) /\ calls' = LeftCall(c)

\* Leave, asked by a client.
LeaveVoice ==
  /\ talking # 0 /\ LeaveCall(talking)
  /\ UNCHANGED <<voiceSignIn, joiner, told, closing>>

\* endsWith: the sign-in the call was joined under is over.
EndsWith(c) ==
  /\ talking = c /\ SignInOver(calls[c].signIn) /\ LeaveCall(c)
  /\ UNCHANGED <<voiceSignIn, joiner, told, closing>>

\* Close's flag, and then its Leave.
CloseVoice ==
  /\ closing = "open" /\ closing' = "closing"
  /\ UNCHANGED <<voiceSignIn, joiner, calls, talking, voiceStatus, told, unpublished>>

CloseLeaves ==
  /\ closing = "closing" /\ closing' = "closed"
  /\ IF talking = 0 THEN UNCHANGED <<calls, talking, voiceStatus, unpublished>> ELSE LeaveCall(talking)
  /\ UNCHANGED <<voiceSignIn, joiner, told>>

-----------------------------------------------------------------------------
(* Join: the account, its turn, the call before it left, its own call.     *)

AskJoin(j) ==
  /\ joiner[j].at = "idle" /\ voiceSignIn # 0
  /\ joiner' = [joiner EXCEPT ![j] = [NoJoin EXCEPT !.at = "queued", !.signIn = voiceSignIn]]
  /\ UNCHANGED <<voiceSignIn, calls, talking, voiceStatus, told, unpublished, closing>>

JoinMuFree == \A j \in Joiners : joiner[j].at \in {"idle", "queued"}

TakeTurn(j) ==
  /\ joiner[j].at = "queued" /\ JoinMuFree
  /\ joiner' = [joiner EXCEPT ![j].at = "leaving", ![j].waits = talking]
  /\ IF talking = 0 THEN UNCHANGED <<calls, talking, voiceStatus, unpublished>> ELSE LeaveCall(talking)
  /\ UNCHANGED <<voiceSignIn, told, closing>>

\* The daemon is not stopping, and the sign-in the join asked under is not over.
Joinable(j) == closing = "open" /\ ~SignInOver(joiner[j].signIn)

\* leave waits for the call it ended, and for no other.
PreviousGone(j) == joiner[j].waits # 0 => calls[joiner[j].waits].at = "done"

BeginCall(j) ==
  /\ joiner[j].at = "leaving" /\ PreviousGone(j) /\ Joinable(j)
  /\ \E c \in CallIds :
       /\ calls[c].at = "none" /\ \A d \in 1..(c - 1) : calls[d].at # "none"
       /\ calls' = [calls EXCEPT ![c] = [NoCall EXCEPT !.at = "route", !.signIn = joiner[j].signIn]]
       /\ talking' = c /\ SetStatus([state |-> "joining", call |-> c])
  /\ joiner' = [joiner EXCEPT ![j].at = "waiting", ![j].waits = 0]
  /\ UNCHANGED <<voiceSignIn, told, closing>>

\* The join is refused, answered, or given up by its client; a call it began goes on.
JoinReturns(j) ==
  /\ \/ joiner[j].at \in {"queued", "waiting"}
     \/ joiner[j].at = "leaving" /\ PreviousGone(j) /\ ~Joinable(j)
  /\ joiner' = [joiner EXCEPT ![j] = NoJoin]
  /\ UNCHANGED <<voiceSignIn, calls, talking, voiceStatus, told, unpublished, closing>>

-----------------------------------------------------------------------------
(* The call's goroutine.                                                   *)

\* A step of run that leaves Voice itself alone.
RunStep(c, from, call) ==
  /\ calls[c].at = from /\ calls' = [calls EXCEPT ![c] = call]
  /\ UNCHANGED <<voiceSignIn, joiner, talking, voiceStatus, told, unpublished, closing>>

RouteCall(c) == RunStep(c, "route", [calls[c] EXCEPT !.at = "start"])
StartWorker(c) == RunStep(c, "start", [calls[c] EXCEPT !.at = "hello", !.worker = "starting"])

\* Start returns the worker that said HELLO, even past a cancellation it did not see; run sends it JOIN.
WorkerGreets(c) ==
  /\ calls[c].worker = "starting"
  /\ RunStep(c, "hello", [calls[c] EXCEPT !.at = "offer", !.worker = "joined"])

TakeOffer(c) ==
  /\ calls[c].worker = "offered" /\ RunStep(c, "offer", [calls[c] EXCEPT !.at = "answer"])

\* The provision, which a cancelled call does not get, and the answer sent to the worker.
TakeAnswer(c) ==
  /\ ~calls[c].cancelled /\ calls[c].worker = "offered"
  /\ RunStep(c, "answer", [calls[c] EXCEPT !.at = "ready", !.worker = "answered"])

\* The worker is ready. A call left meanwhile is not the one the status is of.
EnterCall(c) ==
  /\ calls[c].at = "ready" /\ calls[c].worker = "ready"
  /\ calls' = [calls EXCEPT ![c].at = "incall"]
  /\ SetStatus(IF talking = c THEN [voiceStatus EXCEPT !.state = "in_call"] ELSE voiceStatus)
  /\ UNCHANGED <<voiceSignIn, joiner, talking, told, closing>>

\* Anything that fails before the call is up: a refusal, a timer, the cancellation, a worker that broke
\* the protocol or is gone. A worker that runs is asked to leave, or is killed.
FailCall(c) ==
  /\ calls[c].at \in {"route", "start", "hello", "offer", "answer", "ready"}
  /\ RunStep(c, calls[c].at, [calls[c] EXCEPT !.at = "failing", !.asked = @ \/ calls[c].worker \in WorkerUp])

\* ended: only the current call's end is the end of the call.
Ended(c) ==
  IF talking = c THEN talking' = 0 /\ SetStatus(VoiceIdle) ELSE UNCHANGED <<talking, voiceStatus, unpublished>>

\* The goroutine returns once its worker is reaped: the call failed, or was up and the worker is gone.
FinishCall(c) ==
  /\ calls[c].at \in {"failing", "incall"} /\ calls[c].worker \notin WorkerUp
  /\ calls' = [calls EXCEPT ![c].at = "done"] /\ Ended(c)
  /\ UNCHANGED <<voiceSignIn, joiner, told, closing>>

\* publish: Changed is told the status as it is when its turn comes.
Publish ==
  /\ unpublished /\ unpublished' = FALSE /\ told' = voiceStatus
  /\ UNCHANGED <<voiceSignIn, joiner, calls, talking, voiceStatus, closing>>

-----------------------------------------------------------------------------
(* The worker process.                                                     *)

WorkerStep(c, from, to) ==
  /\ calls[c].worker \in from /\ calls' = [calls EXCEPT ![c].worker = to]
  /\ UNCHANGED <<voiceSignIn, joiner, talking, voiceStatus, told, unpublished, closing>>

\* gather: the candidates are there, and the offer is written.
WorkerOffers(c) == ~calls[c].asked /\ WorkerStep(c, {"joined"}, "offered")

\* The data channel said READY.
WorkerConnects(c) == ~calls[c].asked /\ WorkerStep(c, {"answered"}, "ready")

\* It left as asked or was killed for not leaving, the voice server ended the call, the call did not
\* connect in time, or it crashed; wait reaps it.
WorkerEnds(c) == WorkerStep(c, WorkerUp, "reaped")

VoiceCallsNext ==
  \/ SignInForVoice \/ SignOutOfVoice \/ LeaveVoice \/ CloseVoice \/ CloseLeaves \/ Publish
  \/ \E j \in Joiners : AskJoin(j) \/ TakeTurn(j) \/ BeginCall(j) \/ JoinReturns(j)
  \/ \E c \in CallIds :
       \/ EndsWith(c) \/ RouteCall(c) \/ StartWorker(c) \/ WorkerGreets(c) \/ TakeOffer(c) \/ TakeAnswer(c)
       \/ EnterCall(c) \/ FailCall(c) \/ FinishCall(c)
       \/ WorkerOffers(c) \/ WorkerConnects(c) \/ WorkerEnds(c)

VoiceCallsSpec == VoiceCallsInit /\ [][VoiceCallsNext]_voiceCallVars

-----------------------------------------------------------------------------
Statuses == [state : {"idle", "joining", "in_call"}, call : 0..MaxCalls]

VoiceCallsTypeOK ==
  /\ voiceSignIn \in 0..MaxVoiceSignIns
  /\ joiner \in [Joiners -> [at : {"idle", "queued", "leaving", "waiting"}, signIn : 0..MaxVoiceSignIns,
                             waits : 0..MaxCalls]]
  /\ calls \in [CallIds -> [at : CallStages, signIn : 0..MaxVoiceSignIns,
                            worker : WorkerUp \cup {"none", "reaped"}, cancelled : BOOLEAN, asked : BOOLEAN]]
  /\ talking \in 0..MaxCalls /\ voiceStatus \in Statuses /\ told \in Statuses
  /\ unpublished \in BOOLEAN /\ closing \in {"open", "closing", "closed"}

\* No call goes on that nobody can end: one that is up is Voice's current call, which no earlier call's end
\* takes away (ended, call.go:347), or its worker was asked to leave, whatever the leave met of it: its
\* route, a worker not yet greeted, its offer (leave, call.go:380, against run, call.go:190). And a stopped
\* daemon has no current call, though a join was waiting for its turn.
NoCallUnended ==
  /\ \A c \in CallIds : calls[c].at = "incall" /\ calls[c].worker \in WorkerUp /\ talking # c => calls[c].asked
  /\ \A c \in CallIds : talking = c => calls[c].at # "done"
  /\ closing = "closed" => talking = 0

\* What the clients were last told is the current call's status, once no publish is left to run, though
\* joins, leaves, the sign-in's end and the call itself change it at once (publish, call.go:408).
ToldIsStatus ==
  /\ voiceStatus.call = talking /\ (talking = 0 <=> voiceStatus.state = "idle")
  /\ ~unpublished => told = voiceStatus

\* "There is one worker at a time, reaped before the next" (docs/security-ledger.md). leave clears
\* Voice.current before the worker is reaped, so a join beside a leave does not wait for it.
OneWorker == Cardinality({c \in CallIds : calls[c].worker \in WorkerUp}) <= 1
=============================================================================
