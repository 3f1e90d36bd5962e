----------------------------- MODULE Automation -----------------------------
(***************************************************************************)
(* The daemon's port for scripts.                                          *)
(*                                                                         *)
(* First as its user turns it on and off: the port that is open, the file  *)
(* that tells scripts its address and secret, and the state file that      *)
(* records whether it is to be open, where, and for which instance.        *)
(* Sources: daemonproc/automation.go, automation/automation.go (Clean,     *)
(* Open, Close) and statefile.Update.  Requests are goroutines of the      *)
(* attach socket.  Update holds the state file's lock; what is done under  *)
(* automationControl.mu is one step, the wait for a closed port's scripts  *)
(* included.  A secret is the number of the port that minted it.           *)
(*                                                                         *)
(* Then one open port, with variables and steps of its own: the            *)
(* connections that have yet to present its secret, the scripts it serves, *)
(* what it asks of a request before it sends it with the script's own      *)
(* token, and its end.  Sources: automation/automation.go (Serve, serve,   *)
(* admit, promote, demote, release, do) and automation/bucket.go.  A       *)
(* deadline is the time a read ends at: "ahead", or "past" once Serve has  *)
(* moved it to now.  What a script sends is a choice.                      *)
(***************************************************************************)
EXTENDS Naturals, FiniteSets

CONSTANTS
  PortNumbers, HomeInstances,
  DefaultAutomationPort,   \* the number of a state file that names none
  Askers,          \* requests that may be under way at once
  NoOne,
  MaxOpened        \* ports opened

ASSUME ControlAssumption == MaxOpened \in Nat /\ NoOne \notin Askers

VARIABLES
  control,     \* "starting", "started" or "stopped"
  portState,   \* the state file: on, the port number, the instance
  srv,         \* the open port, 0 for none
  openedAs,    \* what it was opened as
  opened,      \* how many ports were opened
  portFile,    \* whose address and secret the automation file holds, 0 for no file
  stateLock,   \* who holds the state file's lock
  asked,       \* the requests
  signedInTo,  \* the instance the daemon is signed in to
  crossed      \* another request changed the state between a failed write and its undoing

controlVars ==
  <<control, portState, srv, openedAs, opened, portFile, stateLock, asked, signedInTo, crossed>>

\* A state file that says nothing of the port, and one from which disable took the rest.
Silent == [on |-> FALSE, port |-> 0, for |-> NoOne]
TurnedOff(st) == [st EXCEPT !.on = FALSE, !.for = NoOne]
Unasked == [at |-> "idle", want |-> Silent, before |-> Silent]

\* What a daemon that was killed left behind.
StaleFile == MaxOpened + 1
PortStates == [on : BOOLEAN, port : PortNumbers \cup {0}, for : HomeInstances \cup {NoOne}]

ControlInit ==
  /\ control = "starting"
  /\ portState \in {Silent} \cup [on : {TRUE}, port : PortNumbers, for : HomeInstances]
  /\ srv = 0 /\ openedAs = Silent /\ opened = 0 /\ portFile \in {0, StaleFile}
  /\ stateLock = NoOne /\ asked = [r \in Askers |-> Unasked]
  /\ signedInTo \in HomeInstances /\ crossed = FALSE

PortOf(st) == IF st.port = 0 THEN DefaultAutomationPort ELSE st.port

OwnPort == [srv |-> srv, file |-> portFile, n |-> opened, as |-> openedAs]
PortBecomes(p) == srv' = p.srv /\ portFile' = p.file /\ opened' = p.n /\ openedAs' = p.as

\* closeLocked: the file is removed while it still holds this port's secret.
ClosedPort(p) == [p EXCEPT !.srv = 0, !.as = Silent, !.file = IF @ = p.srv THEN 0 ELSE @]

\* What openLocked may leave: the port open as st, its file over the old one's, and the port
\* that was open shut; or, when it cannot be bound (the number may be the open port's own) or
\* its file written, what there was, less a file that a killed daemon left.
NotOpened(p) == [p EXCEPT !.file = IF p.srv = 0 /\ control # "stopped" THEN 0 ELSE @]
OpenLocked(p, st) ==
  {NotOpened(p)} \cup
  (IF control = "stopped" \/ p.n = MaxOpened \/ (p.srv # 0 /\ PortOf(p.as) = PortOf(st)) THEN {}
   ELSE {[srv |-> p.n + 1, file |-> p.n + 1, n |-> p.n + 1, as |-> st]})
DidOpen(p, q) == q.n > p.n

LetStateGo(r) == stateLock' = NoOne /\ asked' = [asked EXCEPT ![r] = Unasked]

-----------------------------------------------------------------------------
\* start, once the lock is held: a request may have opened the port already.
StartPort ==
  /\ control = "starting" /\ control' = "started"
  /\ \/ srv # 0 /\ PortBecomes(OwnPort)
     \/ srv = 0 /\ ~portState.on /\ PortBecomes(NotOpened(OwnPort))
     \/ srv = 0 /\ portState.on /\ \E p \in OpenLocked(NotOpened(OwnPort), portState) : PortBecomes(p)
  /\ UNCHANGED <<portState, stateLock, asked, signedInTo, crossed>>

\* stop, as the daemon stops: nothing opens the port again.
StopPort ==
  /\ control = "started" /\ control' = "stopped"
  /\ PortBecomes(ClosedPort(OwnPort))
  /\ UNCHANGED <<portState, stateLock, asked, signedInTo, crossed>>

\* enable asks which instance it is for before it has any lock.
AskEnable(r, port) ==
  /\ asked[r] = Unasked /\ signedInTo # NoOne
  /\ asked' = [asked EXCEPT ![r].at = "enable", ![r].want = [on |-> TRUE, port |-> port, for |-> signedInTo]]
  /\ UNCHANGED <<control, portState, srv, openedAs, opened, portFile, stateLock, signedInTo, crossed>>

AskDisable(r) ==
  /\ asked[r] = Unasked /\ asked' = [asked EXCEPT ![r].at = "disable"]
  /\ UNCHANGED <<control, portState, srv, openedAs, opened, portFile, stateLock, signedInTo, crossed>>

\* Update takes the state file's lock and loads it, or gives up after its wait.
LockState(r) ==
  /\ asked[r].at \in {"enable", "disable"} /\ stateLock = NoOne /\ stateLock' = r
  /\ asked' = [asked EXCEPT ![r].before = portState,
                            ![r].at = IF @ = "enable" THEN "open" ELSE "off",
                            ![r].want = IF asked[r].at = "enable" THEN @ ELSE TurnedOff(portState)]
  /\ crossed' = (crossed \/ \E q \in Askers : asked[q].at = "undo")
  /\ UNCHANGED <<control, portState, srv, openedAs, opened, portFile, signedInTo>>

GiveUpOnLock(r) ==
  /\ asked[r].at \in {"enable", "disable"} /\ stateLock # NoOne
  /\ asked' = [asked EXCEPT ![r] = Unasked]
  /\ UNCHANGED <<control, portState, srv, openedAs, opened, portFile, stateLock, signedInTo, crossed>>

\* enable's change: beside the open port when the number is another one, else in its place,
\* and a port that had to be closed for nothing is opened again as the state says.
EnableOpens(r) ==
  /\ asked[r].at = "open"
  /\ LET beside == srv # 0 /\ PortOf(asked[r].before) # asked[r].want.port
         room == IF beside THEN OwnPort ELSE ClosedPort(OwnPort)
     IN  \E p \in OpenLocked(room, asked[r].want) :
           \/ DidOpen(room, p) /\ PortBecomes(p) /\ asked' = [asked EXCEPT ![r].at = "write"] /\ UNCHANGED stateLock
           \/ ~DidOpen(room, p) /\ (srv = 0 \/ beside) /\ PortBecomes(p) /\ LetStateGo(r)
           \/ /\ ~DidOpen(room, p) /\ srv # 0 /\ ~beside /\ LetStateGo(r)
              /\ \E q \in OpenLocked(p, asked[r].before) : PortBecomes(q)
  /\ UNCHANGED <<control, portState, signedInTo, crossed>>

\* Update writes what changed; a write that fails has left the file as it was.
EnableRecorded(r) ==
  /\ asked[r].at = "write" /\ portState' = asked[r].want /\ LetStateGo(r)
  /\ UNCHANGED <<control, srv, openedAs, opened, portFile, signedInTo, crossed>>

EnableNotRecorded(r) ==
  /\ asked[r].at = "write" /\ asked[r].want # asked[r].before
  /\ stateLock' = NoOne /\ asked' = [asked EXCEPT ![r].at = "undo"]
  /\ UNCHANGED <<control, portState, srv, openedAs, opened, portFile, signedInTo, crossed>>

\* The port moved and the record of it could not be written: it is put back.
PutPortBack(r) ==
  /\ asked[r].at = "undo" /\ asked' = [asked EXCEPT ![r] = Unasked]
  /\ \/ ~asked[r].before.on /\ PortBecomes(ClosedPort(OwnPort))
     \/ asked[r].before.on /\ \E p \in OpenLocked(ClosedPort(OwnPort), asked[r].before) : PortBecomes(p)
  /\ UNCHANGED <<control, portState, stateLock, signedInTo, crossed>>

\* disable records first, and closes the port before it lets the lock go.
DisableRecorded(r) ==
  /\ asked[r].at = "off" /\ portState' = asked[r].want
  /\ asked' = [asked EXCEPT ![r].at = "close"]
  /\ UNCHANGED <<control, srv, openedAs, opened, portFile, stateLock, signedInTo, crossed>>

DisableNotRecorded(r) ==
  /\ asked[r].at = "off" /\ asked[r].want # asked[r].before /\ LetStateGo(r)
  /\ UNCHANGED <<control, portState, srv, openedAs, opened, portFile, signedInTo, crossed>>

DisableCloses(r) ==
  /\ asked[r].at = "close" /\ PortBecomes(ClosedPort(OwnPort)) /\ LetStateGo(r)
  /\ UNCHANGED <<control, portState, signedInTo, crossed>>

SignInChanges(i) ==
  /\ i # signedInTo /\ signedInTo' = i
  /\ UNCHANGED <<control, portState, srv, openedAs, opened, portFile, stateLock, asked, crossed>>

ControlNext ==
  \/ StartPort \/ StopPort
  \/ \E i \in HomeInstances \cup {NoOne} : SignInChanges(i)
  \/ \E r \in Askers :
       \/ AskDisable(r) \/ (\E port \in PortNumbers : AskEnable(r, port))
       \/ LockState(r) \/ GiveUpOnLock(r) \/ EnableOpens(r) \/ EnableRecorded(r) \/ EnableNotRecorded(r)
       \/ PutPortBack(r) \/ DisableRecorded(r) \/ DisableNotRecorded(r) \/ DisableCloses(r)

ControlSpec == ControlInit /\ [][ControlNext]_controlVars

-----------------------------------------------------------------------------
ControlTypeOK ==
  /\ control \in {"starting", "started", "stopped"}
  /\ portState \in PortStates /\ srv \in 0..opened /\ opened \in 0..MaxOpened
  /\ openedAs \in PortStates /\ portFile \in 0..StaleFile
  /\ stateLock \in Askers \cup {NoOne} /\ signedInTo \in HomeInstances \cup {NoOne} /\ crossed \in BOOLEAN
  /\ asked \in [Askers -> [at : {"idle", "enable", "disable", "open", "write", "undo", "off", "close"},
                          want : PortStates, before : PortStates]]

\* Scripts find the port that is open and nothing else: once a daemon has started its file is
\* its open port's, one opened by a request before that included, and a daemon that stopped
\* leaves neither port nor file, whatever request was still on its way in (start, stop, Close).
FileNamesThePort ==
  /\ control \in {"started", "stopped"} => portFile = srv
  /\ control = "starting" /\ srv # 0 => portFile = srv
  /\ control = "stopped" => srv = 0

\* Between requests an open port is the one on record: its number, and the instance it was
\* turned on for. Of a put-back that another request overtook this is not said (enable, disable).
PortAsRecorded ==
  (\A r \in Askers : asked[r].at \in {"idle", "enable", "disable"}) /\ srv # 0 /\ ~crossed
    => openedAs = portState /\ portState.on

\* "If the port moved and the record of it could not be written, the port is put back as the
\* file says" (daemonproc/automation.go): the same, a put-back overtaken included.
PutBackAsTheFileSays ==
  (\A r \in Askers : asked[r].at \in {"idle", "enable", "disable"}) /\ srv # 0
    => openedAs = portState /\ portState.on

-----------------------------------------------------------------------------
(* One open port. *)

CONSTANTS
  Scripts,              \* connections
  ScriptInstances,      \* instances the daemon may be signed in to
  EnabledFor,           \* the one the port was turned on for
  NoInstance,
  maxPending, MaxAutomationConns, Burst

ASSUME PortAssumption ==
  /\ EnabledFor \in ScriptInstances /\ NoInstance \notin ScriptInstances
  /\ {maxPending, MaxAutomationConns, Burst} \subseteq Nat /\ IsFiniteSet(Scripts)

VARIABLES
  script,       \* where each connection is, and the instance its request is to go to
  readUntil,    \* its read deadline
  served,       \* Server.identified
  portEnded,    \* the port's context is done
  woken,        \* Serve left its loop and moved the deadlines
  bucket,       \* tokens
  signedInAt,   \* where the daemon is signed in
  sentTo        \* where scripts' tokens were sent

portVars == <<script, readUntil, served, portEnded, woken, bucket, signedInAt, sentTo>>

Connected == {"first", "promote", "deadline", "ask", "next", "request", "send"}
Promoted == Connected \ {"first", "promote"}
Open == {s \in Scripts : script[s].at \notin {"none", "gone"}}   \* Server.conns

Move(s, label) == script' = [script EXCEPT ![s].at = label]

PortInit ==
  /\ script = [s \in Scripts |-> [at |-> "none", url |-> NoInstance]]
  /\ readUntil = [s \in Scripts |-> "ahead"]
  /\ served = 0 /\ portEnded = FALSE /\ woken = FALSE /\ bucket = Burst
  /\ signedInAt \in ScriptInstances /\ sentTo = {}

-----------------------------------------------------------------------------
\* Serve accepts one, sets its deadline and then admits it. The listener may still hand one
\* over when the context is done.
Pending == Cardinality(Open) - served
AcceptScript(s) ==
  /\ ~woken /\ script[s].at = "none"
  /\ readUntil' = [readUntil EXCEPT ![s] = "ahead"]
  /\ Move(s, IF Pending >= maxPending THEN "gone" ELSE "first")
  /\ UNCHANGED <<served, portEnded, woken, bucket, signedInAt, sentTo>>

\* The first frame is the port's secret and an API token, or the connection ends.
PresentSecret(s, right) ==
  /\ script[s].at = "first" /\ readUntil[s] = "ahead"
  /\ Move(s, IF right THEN "promote" ELSE "release")
  /\ UNCHANGED <<readUntil, served, portEnded, woken, bucket, signedInAt, sentTo>>

Promote(s) ==
  /\ script[s].at = "promote"
  /\ IF served >= MaxAutomationConns THEN Move(s, "release") /\ UNCHANGED served
     ELSE Move(s, "deadline") /\ served' = served + 1
  /\ UNCHANGED <<readUntil, portEnded, woken, bucket, signedInAt, sentTo>>

\* Before each read: the deadline first, then the question whether the port is closing.
SetReadDeadline(s) ==
  /\ script[s].at = "deadline" /\ Move(s, "ask") /\ readUntil' = [readUntil EXCEPT ![s] = "ahead"]
  /\ UNCHANGED <<served, portEnded, woken, bucket, signedInAt, sentTo>>

AskWhetherClosing(s) ==
  /\ script[s].at = "ask" /\ Move(s, IF portEnded THEN "demote" ELSE "next")
  /\ UNCHANGED <<readUntil, served, portEnded, woken, bucket, signedInAt, sentTo>>

ReadRequest(s) ==
  /\ script[s].at = "next" /\ readUntil[s] = "ahead" /\ Move(s, "request")
  /\ UNCHANGED <<readUntil, served, portEnded, woken, bucket, signedInAt, sentTo>>

\* A read or a write that fails, a frame that is refused, a deadline, ours or Serve's.
EndsConversation(s) ==
  /\ script[s].at \in Connected \ {"promote", "ask", "send"}
  /\ Move(s, IF script[s].at \in Promoted THEN "demote" ELSE "release")
  /\ UNCHANGED <<readUntil, served, portEnded, woken, bucket, signedInAt, sentTo>>

\* do: a method or a path that is refused, no sign-in, or one on another instance.
RefuseRequest(s) ==
  /\ script[s].at = "request" /\ Move(s, "deadline")
  /\ UNCHANGED <<readUntil, served, portEnded, woken, bucket, signedInAt, sentTo>>

\* The instance is asked for on every request, and must be the one the port is for.
NameInstance(s) ==
  /\ script[s].at = "request" /\ signedInAt = EnabledFor
  /\ script' = [script EXCEPT ![s] = [at |-> "send", url |-> signedInAt]]
  /\ UNCHANGED <<readUntil, served, portEnded, woken, bucket, signedInAt, sentTo>>

\* A token of the bucket, and the call with the script's token.
SendWithScriptsToken(s) ==
  /\ script[s].at = "send"
  /\ script' = [script EXCEPT ![s] = [at |-> "deadline", url |-> NoInstance]]
  /\ IF bucket = 0 THEN UNCHANGED <<bucket, sentTo>>
     ELSE bucket' = bucket - 1 /\ sentTo' = sentTo \cup {script[s].url}
  /\ UNCHANGED <<readUntil, served, portEnded, woken, signedInAt>>

Demote(s) ==
  /\ script[s].at = "demote" /\ served' = served - 1 /\ Move(s, "release")
  /\ UNCHANGED <<readUntil, portEnded, woken, bucket, signedInAt, sentTo>>

ReleaseScript(s) ==
  /\ script[s].at = "release" /\ script' = [script EXCEPT ![s] = [at |-> "gone", url |-> NoInstance]]
  /\ UNCHANGED <<readUntil, served, portEnded, woken, bucket, signedInAt, sentTo>>

\* The port is turned off or moved, or the daemon stops.
EndPort ==
  /\ ~portEnded /\ portEnded' = TRUE
  /\ UNCHANGED <<script, readUntil, served, woken, bucket, signedInAt, sentTo>>

\* Serve, out of its loop: every connection's read ends now.
WakeScripts ==
  /\ portEnded /\ ~woken /\ woken' = TRUE
  /\ readUntil' = [s \in Scripts |-> IF s \in Open THEN "past" ELSE readUntil[s]]
  /\ UNCHANGED <<script, served, portEnded, bucket, signedInAt, sentTo>>

Refill ==
  /\ bucket < Burst /\ bucket' = bucket + 1
  /\ UNCHANGED <<script, readUntil, served, portEnded, woken, signedInAt, sentTo>>

SignInMoves(i) ==
  /\ i # signedInAt /\ signedInAt' = i
  /\ UNCHANGED <<script, readUntil, served, portEnded, woken, bucket, sentTo>>

PortNext ==
  \/ EndPort \/ WakeScripts \/ Refill
  \/ \E i \in ScriptInstances \cup {NoInstance} : SignInMoves(i)
  \/ \E s \in Scripts :
       \/ AcceptScript(s) \/ (\E right \in BOOLEAN : PresentSecret(s, right)) \/ Promote(s)
       \/ SetReadDeadline(s) \/ AskWhetherClosing(s) \/ ReadRequest(s) \/ EndsConversation(s)
       \/ RefuseRequest(s) \/ NameInstance(s) \/ SendWithScriptsToken(s) \/ Demote(s) \/ ReleaseScript(s)

PortSpec == PortInit /\ [][PortNext]_portVars

-----------------------------------------------------------------------------
PortTypeOK ==
  /\ script \in [Scripts -> [at : Connected \cup {"none", "demote", "release", "gone"},
                             url : ScriptInstances \cup {NoInstance}]]
  /\ readUntil \in [Scripts -> {"ahead", "past"}] /\ served \in 0..MaxAutomationConns
  /\ portEnded \in BOOLEAN /\ woken \in BOOLEAN /\ bucket \in 0..Burst
  /\ signedInAt \in ScriptInstances \cup {NoInstance} /\ sentTo \subseteq ScriptInstances \cup {NoInstance}

\* A stopping daemon waits out nobody's silence: once Serve has woken the connections, none is
\* left in a read with its own deadline ahead of it, whichever moment it was woken at (serve).
NobodySleepsOn ==
  woken => \A s \in Scripts : script[s].at \in {"first", "next"} => readUntil[s] = "past"

\* Connections that present nothing take no script's place, and the other way round: each kind
\* is within its own limit though one is counted as the difference of two (admit, promote).
PlacesKeptApart ==
  /\ Cardinality({s \in Scripts : script[s].at \in {"first", "promote"}}) <= maxPending
  /\ Cardinality({s \in Scripts : script[s].at \in Promoted \cup {"demote"}}) = served

\* A script's token goes to the instance the port was turned on for and to no other, though
\* the sign-in changes under an open connection and a request under way (do).
TokenStaysHome == sentTo \subseteq {EnabledFor}
=============================================================================
